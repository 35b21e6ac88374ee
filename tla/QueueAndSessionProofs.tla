------------------------ MODULE QueueAndSessionProofs ------------------------
(***************************************************************************)
(* The safety of the job queue for every set of jobs and workers and every *)
(* setting of the durations, and of the working set of a session for every *)
(* set of memories and requests and every cap.  The two parts share no     *)
(* definition.                                                             *)
(***************************************************************************)
EXTENDS JobQueue, AgentSession, FiniteSetTheorems, SequenceTheorems, WellFoundedInduction, TLAPS

-----------------------------------------------------------------------------
(***************************************************************************)
(* The job queue                                                           *)
(***************************************************************************)
\* A worker that runs an undisturbed job and the row of that job agree: this
\* is what makes the two properties below inductive.
Agreement ==
    \A j \in Jobs : Undisturbed(j) =>
        \A w \in Workers : Runs(w, j) =>
            /\ rows[j].status = "running"
            /\ rows[j].owner = w
            /\ rows[j].attempts = workers[w].attempts
            /\ rows[j].lease = workers[w].lease
            /\ rows[j].lease > 0

IInv == TypeOK /\ Agreement /\ AttemptBudget

-----------------------------------------------------------------------------
\* What the pieces of the actions return.

LEMMA Constants ==
    /\ Lease \in Nat \ {0} /\ Retention \in Nat \ {0}
    /\ BackoffCap \in Nat \ {0} /\ RetryCap \in Nat \ {0}
    /\ NoWorker \notin Workers /\ NoJob \notin Jobs
    /\ \A j \in Jobs : MaxAttempts[j] \in Nat \ {0}
  BY JobQueueAssumption DEF JobQueueAssumption

LEMMA ReleasedType ==
    ASSUME NEW r \in Row, NEW s \in Terminal \cup {"queued"}
    PROVE  /\ Released(r, s) \in Row
           /\ Released(r, s).status = s
           /\ Released(r, s).owner = NoWorker
           /\ Released(r, s).lease = 0
           /\ Released(r, s).attempts = r.attempts
  <1> DEFINE a == [r EXCEPT !.status = s]
             b == [a EXCEPT !.owner = NoWorker]
             c == [b EXCEPT !.lease = 0]
  <1>1. a \in Row /\ a.status = s /\ a.attempts = r.attempts
    BY DEF Row, Terminal, Pending
  <1> HIDE DEF a
  <1>2. b \in Row /\ b.status = s /\ b.attempts = r.attempts /\ b.owner = NoWorker
    BY <1>1 DEF Row
  <1> HIDE DEF b
  <1>3. c \in Row /\ c.status = s /\ c.attempts = r.attempts /\ c.owner = NoWorker /\ c.lease = 0
    BY <1>2, Constants DEF Row
  <1>4. c = Released(r, s)
    BY DEF Released, a, b
  <1>5. QED
    BY <1>3, <1>4

LEMMA FinishedType ==
    ASSUME NEW r \in Row, NEW s \in Terminal
    PROVE  /\ Finished(r, s) \in Row
           /\ Finished(r, s).status = s
           /\ Finished(r, s).owner = NoWorker
           /\ Finished(r, s).lease = 0
           /\ Finished(r, s).attempts = r.attempts
  <1> DEFINE q == Released(r, s)
             a == [q EXCEPT !.age = 0]
             b == [a EXCEPT !.stamped = TRUE]
  <1>1. q \in Row /\ q.status = s /\ q.attempts = r.attempts /\ q.owner = NoWorker /\ q.lease = 0
    BY ReleasedType
  <1> HIDE DEF q
  <1>2. a \in Row /\ a.status = s /\ a.attempts = r.attempts /\ a.owner = NoWorker /\ a.lease = 0
    BY <1>1, Constants DEF Row
  <1> HIDE DEF a
  <1>3. b \in Row /\ b.status = s /\ b.attempts = r.attempts /\ b.owner = NoWorker /\ b.lease = 0
    BY <1>2 DEF Row
  <1>4. b = Finished(r, s)
    BY DEF Finished, a, q
  <1>5. QED
    BY <1>3, <1>4

LEMMA ClaimedType ==
    ASSUME NEW r \in Row, NEW w \in Workers
    PROVE  /\ Claimed(r, w) \in Row
           /\ Claimed(r, w).status = "running"
           /\ Claimed(r, w).owner = w
           /\ Claimed(r, w).lease = Lease
           /\ Claimed(r, w).attempts = r.attempts + 1
  <1> DEFINE a == [r EXCEPT !.status = "running"]
             b == [a EXCEPT !.attempts = r.attempts + 1]
             c == [b EXCEPT !.owner = w]
             d == [c EXCEPT !.lease = Lease]
  <1>1. a \in Row /\ a.status = "running" /\ a.attempts = r.attempts
    BY DEF Row, Pending
  <1> HIDE DEF a
  <1>2. b \in Row /\ b.status = "running" /\ b.attempts = r.attempts + 1
    BY <1>1 DEF Row
  <1> HIDE DEF b
  <1>3. c \in Row /\ c.status = "running" /\ c.attempts = r.attempts + 1 /\ c.owner = w
    BY <1>2 DEF Row
  <1> HIDE DEF c
  <1>4. d \in Row /\ d.status = "running" /\ d.attempts = r.attempts + 1 /\ d.owner = w /\ d.lease = Lease
    BY <1>3, Constants DEF Row
  <1>5. d = Claimed(r, w)
    BY <1>1 DEF Claimed, a, b, c, Row
  <1>6. QED
    BY <1>4, <1>5

LEMMA ReapedType ==
    ASSUME TypeOK, NEW j \in Jobs
    PROVE  /\ Reap[j] \in Row
           /\ Reap[j].status = "running" <=> Reap[j].owner # NoWorker
           /\ Reap[j].lease > 0 => Reap[j].status = "running"
           /\ rows[j].status # "running" \/ rows[j].lease > 0 => Reap[j] = rows[j]
           /\ Reap[j].attempts = rows[j].attempts
           /\ Reap[j].status = "queued" =>
                 rows[j].status = "queued" \/ rows[j].attempts < MaxAttempts[j]
           /\ Reap[j].status = "running" => rows[j].lease > 0
  <1> DEFINE r == rows[j]
  <1>1. /\ r \in Row
        /\ r.status = "running" <=> r.owner # NoWorker
        /\ r.lease > 0 => r.status = "running"
    BY DEF TypeOK
  <1>2. r.lease \in Nat /\ r.attempts \in Nat /\ MaxAttempts[j] \in Nat
    BY <1>1, Constants DEF Row
  <1>3. Reap[j] = Reaped(j, r)
    BY DEF Reap
  <1>4. CASE r.status = "running" /\ r.lease = 0 /\ r.attempts >= MaxAttempts[j]
    <2>1. Reap[j] = Finished(r, "failed")
      BY <1>3, <1>4 DEF Reaped
    <2>2. QED
      BY <1>1, <1>4, <2>1, FinishedType DEF Terminal
  <1>5. CASE r.status = "running" /\ r.lease = 0 /\ ~ (r.attempts >= MaxAttempts[j])
    <2>1. Reap[j] = [Released(r, "queued") EXCEPT !.delay = 0]
      BY <1>3, <1>5 DEF Reaped
    <2>2. QED
      BY <1>1, <1>2, <1>5, <2>1, ReleasedType DEF Row
  <1>6. CASE ~ (r.status = "running" /\ r.lease = 0)
    <2>1. Reap[j] = r
      BY <1>3, <1>6 DEF Reaped
    <2>2. QED
      BY <1>1, <1>2, <1>6, <2>1
  <1>7. QED
    BY <1>4, <1>5, <1>6

LEMMA DelayType ==
    ASSUME NEW n \in Nat
    PROVE  Backoff(n) \in Nat /\ SyncRetry(n) \in Nat
  BY Constants DEF Backoff, SyncRetry, AtMost

LEMMA MarkedType ==
    ASSUME NEW r \in Row, NEW n \in Nat
    PROVE  /\ Marked(r, n) \in Row
           /\ Marked(r, n).status = r.status
           /\ Marked(r, n).owner = r.owner
           /\ Marked(r, n).attempts = r.attempts
           /\ Marked(r, n).lease = r.lease
  <1> DEFINE a == [r EXCEPT !.delay = SyncRetry(n)]
             b == [a EXCEPT !.age = IF r.stamped THEN r.age ELSE 0]
  <1>1. /\ a \in Row /\ a.age = r.age
        /\ a.status = r.status /\ a.owner = r.owner /\ a.attempts = r.attempts /\ a.lease = r.lease
    BY DelayType DEF Row
  <1>2. Marked(r, n) = b
    BY <1>1 DEF Marked
  <1> HIDE DEF a
  <1>3. /\ b \in Row
        /\ b.status = r.status /\ b.owner = r.owner /\ b.attempts = r.attempts /\ b.lease = r.lease
    BY <1>1, Constants DEF Row
  <1>4. QED
    BY <1>2, <1>3

LEMMA FailedRowType ==
    ASSUME TypeOK, NEW j \in Jobs, NEW n \in Nat
    PROVE  /\ FailedRow(j, rows[j], n) \in Row
           /\ FailedRow(j, rows[j], n).status = "running" <=> FailedRow(j, rows[j], n).owner # NoWorker
           /\ FailedRow(j, rows[j], n).status # "running"
           /\ FailedRow(j, rows[j], n).lease = 0
           /\ FailedRow(j, rows[j], n).attempts = rows[j].attempts
           /\ FailedRow(j, rows[j], n).status = "queued" => n < MaxAttempts[j]
  <1> DEFINE r == rows[j]
             s == IF n >= MaxAttempts[j] THEN "failed" ELSE "queued"
  <1>1. /\ r \in Row
        /\ r.status = "running" <=> r.owner # NoWorker
        /\ r.lease > 0 => r.status = "running"
        /\ r.lease \in Nat
    BY Constants DEF TypeOK, Row
  <1>2. CASE r.status = "absent"
    BY <1>1, <1>2 DEF FailedRow
  <1>3. CASE r.status # "absent"
    <2>1. /\ s \in Terminal \cup {"queued"}
          /\ s # "running"
          /\ s = "queued" => n < MaxAttempts[j]
      BY Constants DEF Terminal
    <2>2. FailedRow(j, r, n) = [Released(r, s) EXCEPT !.delay = Backoff(n),
                                                      !.age = IF r.stamped THEN @ ELSE 0]
      BY <1>3 DEF FailedRow
    <2> HIDE DEF s
    <2>3. DEFINE q == Released(r, s)
                 a == [q EXCEPT !.delay = Backoff(n)]
                 b == [a EXCEPT !.age = IF r.stamped THEN r.age ELSE 0]
    <2>4. q \in Row /\ q.status = s /\ q.owner = NoWorker /\ q.lease = 0 /\ q.attempts = r.attempts
      BY <1>1, <2>1, ReleasedType
    <2>5. q.age = r.age
      BY <1>1 DEF Released, Row
    <2> HIDE DEF q
    <2>6. /\ a \in Row /\ a.status = s /\ a.owner = NoWorker /\ a.lease = 0
          /\ a.attempts = r.attempts /\ a.age = r.age
      BY <2>4, <2>5, DelayType DEF Row
    <2> HIDE DEF a
    <2>7. /\ b \in Row /\ b.status = s /\ b.owner = NoWorker /\ b.lease = 0
          /\ b.attempts = r.attempts
      BY <1>1, <2>6, Constants DEF Row
    <2>8. FailedRow(j, r, n) = b
      BY <2>2, <2>5, <2>6 DEF a, q
    <2>9. QED
      BY <2>1, <2>7, <2>8
  <1>4. QED
    BY <1>2, <1>3

LEMMA OlderType ==
    ASSUME TypeOK, NEW j \in Jobs
    PROVE  /\ Older(rows[j]) \in Row
           /\ Older(rows[j]).status = rows[j].status
           /\ Older(rows[j]).owner = rows[j].owner
           /\ Older(rows[j]).attempts = rows[j].attempts
           /\ Older(rows[j]).lease = Dec(rows[j].lease)
           /\ Dec(rows[j].lease) > 0 => rows[j].lease > 0
  <1> DEFINE r == rows[j]
             a == IF (r.status \in Terminal \/ r.stamped) /\ r.age <= Retention THEN r.age + 1 ELSE r.age
  <1>1. r \in Row
    BY DEF TypeOK
  <1>2. /\ Dec(r.lease) \in 0..Lease
        /\ Dec(r.lease) > 0 => r.lease > 0
        /\ Dec(r.delay) \in Nat
        /\ a \in 0..(Retention + 1)
    BY <1>1, Constants DEF Row, Dec
  <1>3. Older(r) = [r EXCEPT !.lease = Dec(r.lease), !.delay = Dec(r.delay), !.age = a]
    BY <1>1 DEF Older, Row
  <1> HIDE DEF a
  <1>4. QED
    BY <1>1, <1>2, <1>3 DEF Row

-----------------------------------------------------------------------------
\* The table after a step that rewrites one row.
LEMMA RewriteType ==
    ASSUME TypeOK, NEW j \in Jobs, NEW r \in Row,
           r.status = "running" <=> r.owner # NoWorker,
           r.lease > 0 => r.status = "running",
           rows' = [rows EXCEPT ![j] = r]
    PROVE  /\ rows' \in [Jobs -> Row]
           /\ \A k \in Jobs : /\ rows'[k].status = "running" <=> rows'[k].owner # NoWorker
                              /\ rows'[k].lease > 0 => rows'[k].status = "running"
  BY DEF TypeOK

\* What a worker writes into its own snapshot.
LEMMA SnapshotType ==
    ASSUME TypeOK, NEW w \in Workers
    PROVE  /\ Idle \in Snapshot
           /\ workers[w] \in Snapshot
           /\ workers[w].pc # "idle" => workers[w].job \in Jobs
           /\ workers[w].attempts \in Nat
           /\ \A pc \in {"refreshing", "marking"} :
                 /\ [workers[w] EXCEPT !.pc = pc] \in Snapshot
                 /\ [workers[w] EXCEPT !.pc = pc].pc = pc
                 /\ [workers[w] EXCEPT !.pc = pc].job = workers[w].job
  BY Constants DEF TypeOK, Snapshot, Idle

\* The snapshots after a step of worker w: it becomes idle, or keeps its job
\* for a closing transaction.
LEMMA WorkerStepType ==
    ASSUME TypeOK, NEW w \in Workers, workers[w].pc # "idle",
           \/ workers' = [workers EXCEPT ![w] = Idle]
           \/ workers' = [workers EXCEPT ![w].pc = "refreshing"]
           \/ workers' = [workers EXCEPT ![w].pc = "marking"]
    PROVE  /\ workers' \in [Workers -> Snapshot]
           /\ \A v \in Workers : workers'[v].pc = "idle" <=> workers'[v].job = NoJob
  <1>1. /\ workers \in [Workers -> Snapshot]
        /\ \A v \in Workers : workers[v].pc = "idle" <=> workers[v].job = NoJob
    BY DEF TypeOK
  <1>2. Idle.pc = "idle" /\ Idle.job = NoJob
    BY DEF Idle
  <1>3. CASE workers' = [workers EXCEPT ![w] = Idle]
    BY <1>1, <1>2, <1>3, SnapshotType
  <1>4. CASE workers' = [workers EXCEPT ![w].pc = "refreshing"]
    <2>1. workers' = [workers EXCEPT ![w] = [workers[w] EXCEPT !.pc = "refreshing"]]
      BY <1>1, <1>4
    <2>2. QED
      BY <1>1, <2>1, SnapshotType
  <1>5. CASE workers' = [workers EXCEPT ![w].pc = "marking"]
    <2>1. workers' = [workers EXCEPT ![w] = [workers[w] EXCEPT !.pc = "marking"]]
      BY <1>1, <1>5
    <2>2. QED
      BY <1>1, <2>1, SnapshotType
  <1>6. QED
    BY <1>3, <1>4, <1>5

LEMMA NoRowType ==
    /\ NoRow \in Row
    /\ NoRow.status = "absent" /\ NoRow.owner = NoWorker
    /\ NoRow.lease = 0 /\ NoRow.attempts = 0
  BY Constants DEF NoRow, Row

LEMMA FreshRowType ==
    ASSUME NEW d \in Nat, NEW r,
           \/ r = [NoRow EXCEPT !.status = "queued", !.delay = d]
           \/ r = [NoRow EXCEPT !.status = "queued"]
    PROVE  /\ r \in Row
           /\ r.status = "queued" /\ r.owner = NoWorker
           /\ r.lease = 0 /\ r.attempts = 0
  BY NoRowType DEF Row, Pending, NoRow

-----------------------------------------------------------------------------
LEMMA TypeInit == Init => TypeOK
  BY Constants, NoRowType, JobQueueAssumption DEF Init, TypeOK, Idle, Snapshot, JobQueueAssumption

LEMMA TypeEnqueue ==
    ASSUME TypeOK, NEW j \in Jobs, Enqueue(j) \/ Revive(j) \/ DeleteRow(j)
    PROVE  TypeOK'
  <1>1. /\ enqueues' \in 0..MaxEnqueues
        /\ workers' = workers /\ late' = late /\ torn' \subseteq torn \cup {j}
    <2>1. MaxEnqueues \in Nat /\ enqueues \in 0..MaxEnqueues
      BY JobQueueAssumption DEF JobQueueAssumption, TypeOK
    <2>2. CASE Enqueue(j) \/ Revive(j)
      <3>1. enqueues < MaxEnqueues /\ enqueues' = enqueues + 1
        BY <2>2 DEF Enqueue, Revive
      <3>2. workers' = workers /\ late' = late /\ torn' = torn
        BY <2>2 DEF Enqueue, Revive
      <3>3. QED
        BY <2>1, <3>1, <3>2
    <2>3. CASE DeleteRow(j)
      BY <2>1, <2>3 DEF DeleteRow
    <2>4. QED
      BY <2>2, <2>3
  <1>2. PICK r \in Row : /\ rows' = [rows EXCEPT ![j] = r]
                         /\ r.status # "running" /\ r.owner = NoWorker /\ r.lease = 0
    <2>1. CASE Enqueue(j)
      <3>1. PICK d \in 0..MaxDelay :
               rows' = [rows EXCEPT ![j] = [NoRow EXCEPT !.status = "queued", !.delay = d]]
        BY <2>1 DEF Enqueue
      <3>2. d \in Nat
        BY JobQueueAssumption DEF JobQueueAssumption
      <3>3. QED
        BY <3>1, <3>2, FreshRowType
    <2>2. CASE Revive(j)
      <3>1. rows' = [rows EXCEPT ![j] = [NoRow EXCEPT !.status = "queued"]]
        BY <2>2 DEF Revive
      <3>2. QED
        BY <3>1, FreshRowType
    <2>3. CASE DeleteRow(j)
      BY <2>3, NoRowType DEF DeleteRow
    <2>4. QED
      BY <2>1, <2>2, <2>3
  <1>3. /\ rows' \in [Jobs -> Row]
        /\ \A k \in Jobs : /\ rows'[k].status = "running" <=> rows'[k].owner # NoWorker
                           /\ rows'[k].lease > 0 => rows'[k].status = "running"
    <2>1. /\ r.status = "running" <=> r.owner # NoWorker
          /\ r.lease > 0 => r.status = "running"
      BY <1>2
    <2>2. rows' = [rows EXCEPT ![j] = r]
      BY <1>2
    <2>3. QED
      BY <2>1, <2>2, RewriteType
  <1>4. QED
    BY <1>1, <1>3 DEF TypeOK

LEMMA TypeDeleteAll ==
    ASSUME TypeOK, DeleteAll
    PROVE  TypeOK'
  BY NoRowType DEF DeleteAll, TypeOK

LEMMA TypeClaim ==
    ASSUME TypeOK, NEW w \in Workers, NEW kinds,
           ClaimNext(w, kinds) \/ ClaimNothing(w, kinds)
    PROVE  TypeOK'
  <1>1. /\ Reap \in [Jobs -> Row]
        /\ \A k \in Jobs : /\ Reap[k].status = "running" <=> Reap[k].owner # NoWorker
                           /\ Reap[k].lease > 0 => Reap[k].status = "running"
    <2>1. Reap = [k \in Jobs |-> Reap[k]]
      BY DEF Reap
    <2>2. QED
      BY <2>1, ReapedType
  <1>2. CASE ClaimNext(w, kinds)
    <2>1. PICK j \in Jobs :
             /\ rows' = [Reap EXCEPT ![j] = Claimed(Reap[j], w)]
             /\ workers' = [workers EXCEPT ![w] =
                   [pc |-> "running", job |-> j,
                    attempts |-> Reap[j].attempts + 1, lease |-> Lease]]
      BY <1>1, <1>2 DEF ClaimNext, Due
    <2>2. /\ Claimed(Reap[j], w) \in Row
          /\ Claimed(Reap[j], w).status = "running" /\ Claimed(Reap[j], w).owner = w
      BY <1>1, ClaimedType
    <2>3. [pc |-> "running", job |-> j, attempts |-> Reap[j].attempts + 1, lease |-> Lease] \in Snapshot
      <3>1. Reap[j].attempts \in Nat
        BY <1>1 DEF Row
      <3>2. QED
        BY <3>1, Constants DEF Snapshot
    <2>4. /\ rows' \in [Jobs -> Row]
          /\ \A k \in Jobs : /\ rows'[k].status = "running" <=> rows'[k].owner # NoWorker
                             /\ rows'[k].lease > 0 => rows'[k].status = "running"
      BY <1>1, <2>1, <2>2, Constants
    <2>5. /\ workers' \in [Workers -> Snapshot]
          /\ \A v \in Workers : workers'[v].pc = "idle" <=> workers'[v].job = NoJob
      BY <2>1, <2>3, Constants DEF TypeOK
    <2>6. QED
      BY <1>2, <2>4, <2>5 DEF ClaimNext, TypeOK
  <1>3. CASE ClaimNothing(w, kinds)
    BY <1>1, <1>3 DEF ClaimNothing, TypeOK
  <1>4. QED
    BY <1>2, <1>3

LEMMA TypeStep ==
    ASSUME TypeOK, NEW w \in Workers, Step(w) \/ Crash(w)
    PROVE  TypeOK'
  <1> DEFINE j == workers[w].job
             n == workers[w].attempts
  <1>1. workers[w].pc # "idle" /\ j \in Jobs /\ n \in Nat
    BY SnapshotType DEF Step, Complete, Fail, MarkSyncFailed, RefreshDone, RefreshFails, Crash
  <1>2. rows[j] \in Row
    BY <1>1 DEF TypeOK
  <1>3. /\ workers' \in [Workers -> Snapshot]
        /\ \A v \in Workers : workers'[v].pc = "idle" <=> workers'[v].job = NoJob
    BY <1>1, WorkerStepType
    DEF Step, Complete, Fail, MarkSyncFailed, RefreshDone, RefreshFails, Crash
  <1>4. CASE Complete(w)
    <2>1. CASE rows[j].status = "absent"
      BY <1>3, <1>4, <2>1 DEF Complete, TypeOK
    <2>2. CASE rows[j].status # "absent"
      <3>1. rows' = [rows EXCEPT ![j] = Finished(rows[j], "succeeded")]
        BY <1>4, <2>2 DEF Complete
      <3>2. QED
        BY <1>1, <1>2, <1>3, <1>4, <3>1, FinishedType, RewriteType DEF Complete, TypeOK, Terminal
    <2>3. QED
      BY <2>1, <2>2
  <1>5. CASE Fail(w) \/ RefreshFails(w)
    <2>1. rows' = [rows EXCEPT ![j] = FailedRow(j, rows[j], n)]
      BY <1>5 DEF Fail, RefreshFails
    <2>2. enqueues' = enqueues /\ late' = late /\ torn' \subseteq torn \cup {j}
      BY <1>5 DEF Fail, RefreshFails
    <2>3. QED
      BY <1>1, <1>3, <2>1, <2>2, FailedRowType, RewriteType DEF TypeOK
  <1>6. CASE MarkSyncFailed(w)
    <2>1. CASE rows' = rows
      BY <1>3, <1>6, <2>1 DEF MarkSyncFailed, TypeOK
    <2>2. CASE rows' = [rows EXCEPT ![j] = Marked(rows[j], n)]
      <3> DEFINE r == Marked(rows[j], n)
      <3>1. /\ r \in Row
            /\ r.status = rows[j].status /\ r.owner = rows[j].owner /\ r.lease = rows[j].lease
        BY <1>1, <1>2, MarkedType
      <3>2. rows' = [rows EXCEPT ![j] = r]
        BY <2>2
      <3> HIDE DEF r
      <3>3. /\ r.status = "running" <=> r.owner # NoWorker
            /\ r.lease > 0 => r.status = "running"
        BY <1>1, <3>1 DEF TypeOK
      <3>4. QED
        BY <1>1, <1>3, <1>6, <3>1, <3>2, <3>3, RewriteType DEF MarkSyncFailed, TypeOK
    <2>3. QED
      BY <1>6, <2>1, <2>2 DEF MarkSyncFailed
  <1>7. CASE RefreshDone(w) \/ Crash(w)
    BY <1>3, <1>7 DEF RefreshDone, Crash, TypeOK
  <1>8. QED
    BY <1>4, <1>5, <1>6, <1>7 DEF Step

LEMMA TypePrune ==
    ASSUME TypeOK, NEW w \in Workers, Prune(w)
    PROVE  TypeOK'
  BY NoRowType DEF Prune, TypeOK

LEMMA TypeTick ==
    ASSUME TypeOK, Tick
    PROVE  TypeOK'
  <1>1. \A k \in Jobs : /\ rows'[k] \in Row
                        /\ rows'[k].status = "running" <=> rows'[k].owner # NoWorker
                        /\ rows'[k].lease > 0 => rows'[k].status = "running"
    <2> SUFFICES ASSUME NEW k \in Jobs
                 PROVE  /\ rows'[k] \in Row
                        /\ rows'[k].status = "running" <=> rows'[k].owner # NoWorker
                        /\ rows'[k].lease > 0 => rows'[k].status = "running"
      OBVIOUS
    <2>1. rows'[k] = Older(rows[k])
      BY DEF Tick
    <2>2. /\ rows[k].status = "running" <=> rows[k].owner # NoWorker
          /\ rows[k].lease > 0 => rows[k].status = "running"
      BY DEF TypeOK
    <2>3. QED
      BY <2>1, <2>2, OlderType
  <1>2. rows' \in [Jobs -> Row]
    BY <1>1 DEF Tick
  <1>3. \A w \in Workers : /\ workers'[w] \in Snapshot
                           /\ workers'[w].pc = workers[w].pc
                           /\ workers'[w].job = workers[w].job
    <2> SUFFICES ASSUME NEW w \in Workers
                 PROVE  /\ workers'[w] \in Snapshot
                        /\ workers'[w].pc = workers[w].pc
                        /\ workers'[w].job = workers[w].job
      OBVIOUS
    <2>1. workers[w] \in Snapshot
      BY DEF TypeOK
    <2>2. Dec(workers[w].lease) \in 0..Lease
      BY <2>1, Constants DEF Snapshot, Dec
    <2>3. workers'[w] = [workers[w] EXCEPT !.lease = Dec(workers[w].lease)]
      BY <2>1 DEF Tick, Snapshot
    <2>4. QED
      BY <2>1, <2>2, <2>3 DEF Snapshot
  <1>4. workers' \in [Workers -> Snapshot]
    BY <1>3 DEF Tick
  <1>5. /\ \A w \in Workers : workers'[w].pc = "idle" <=> workers'[w].job = NoJob
        /\ enqueues' \in 0..MaxEnqueues /\ late' \subseteq Jobs /\ torn' \subseteq Jobs
    BY <1>3 DEF Tick, TypeOK
  <1>6. QED
    BY <1>1, <1>2, <1>4, <1>5 DEF TypeOK

LEMMA TypeNext ==
    ASSUME TypeOK, Next
    PROVE  TypeOK'
  BY TypeEnqueue, TypeDeleteAll, TypeClaim, TypeStep, TypePrune, TypeTick DEF Next

\* Type correctness: every row and every snapshot keeps its type, and locked_by
\* and locked_until are set exactly on running rows.
THEOREM TypeCorrect == Spec => []TypeOK
  <1>1. TypeOK /\ UNCHANGED vars => TypeOK'
    BY DEF vars, TypeOK
  <1>2. TypeOK /\ [Next]_vars => TypeOK'
    BY <1>1, TypeNext
  <1>3. QED
    BY <1>2, TypeInit, PTL DEF Spec

-----------------------------------------------------------------------------
\* A job that was undisturbed after a step was so before it.
LEMMA UndisturbedBefore ==
    ASSUME Next, NEW j \in Jobs, Undisturbed(j)'
    PROVE  Undisturbed(j)
  <1>1. late \subseteq late' /\ torn \subseteq torn'
    BY DEF Next, Step, Enqueue, Revive, DeleteRow, DeleteAll, ClaimNext, ClaimNothing, Complete, Fail,
           MarkSyncFailed, RefreshDone, RefreshFails, Prune, Crash, Tick
  <1>2. QED
    BY <1>1 DEF Undisturbed

LEMMA InvEnqueue ==
    ASSUME IInv, NEW k \in Jobs, Next, Enqueue(k) \/ Revive(k) \/ DeleteRow(k)
    PROVE  (Agreement /\ AttemptBudget)'
  <1>1. workers' = workers
    BY DEF Enqueue, Revive, DeleteRow
  <1>2. PICK r : /\ rows' = [rows EXCEPT ![k] = r]
                 /\ r.attempts = 0
                 /\ r.status # "running"
    <2>1. CASE Enqueue(k)
      <3>1. PICK d \in 0..MaxDelay :
               rows' = [rows EXCEPT ![k] = [NoRow EXCEPT !.status = "queued", !.delay = d]]
        BY <2>1 DEF Enqueue
      <3>2. d \in Nat
        BY JobQueueAssumption DEF JobQueueAssumption
      <3>3. QED
        BY <3>1, <3>2, FreshRowType
    <2>2. CASE Revive(k)
      <3>1. rows' = [rows EXCEPT ![k] = [NoRow EXCEPT !.status = "queued"]]
        BY <2>2 DEF Revive
      <3>2. QED
        BY <3>1, FreshRowType
    <2>3. CASE DeleteRow(k)
      BY <2>3, NoRowType DEF DeleteRow
    <2>4. QED
      BY <2>1, <2>2, <2>3
  <1>3. \A w \in Workers : Undisturbed(k)' => ~ Runs(w, k)
    <2> SUFFICES ASSUME NEW w \in Workers, Undisturbed(k)', Runs(w, k) PROVE FALSE
      OBVIOUS
    <2>1. rows[k].status = "running"
      BY UndisturbedBefore DEF IInv, Agreement
    <2>2. ~ Enqueue(k) /\ ~ Revive(k)
      BY <2>1 DEF Enqueue, Revive, Terminal
    <2>3. DeleteRow(k) /\ Holds(w, k)
      BY <2>2 DEF Runs, Holds
    <2>4. k \in torn'
      BY <2>3 DEF DeleteRow
    <2>5. QED
      BY <2>4 DEF Undisturbed
  <1>4. rows \in [Jobs -> Row] /\ MaxAttempts[k] \in Nat \ {0}
    BY Constants DEF IInv, TypeOK
  <1>5. Agreement'
    <2> SUFFICES ASSUME NEW j \in Jobs, Undisturbed(j)', NEW w \in Workers, Runs(w, j)'
                 PROVE  /\ rows'[j].status = "running"
                        /\ rows'[j].owner = w
                        /\ rows'[j].attempts = workers'[w].attempts
                        /\ rows'[j].lease = workers'[w].lease
                        /\ rows'[j].lease > 0
      BY DEF Agreement
    <2>1. Runs(w, j) /\ Undisturbed(j)
      BY <1>1, UndisturbedBefore DEF Runs
    <2>2. j # k
      BY <1>3, <2>1
    <2>3. rows'[j] = rows[j]
      BY <1>2, <1>4, <2>2
    <2>4. QED
      BY <1>1, <2>1, <2>3 DEF IInv, Agreement
  <1>6. AttemptBudget'
    <2> SUFFICES ASSUME NEW j \in Jobs, Undisturbed(j)'
                 PROVE  /\ rows'[j].attempts <= MaxAttempts[j]
                        /\ rows'[j].status = "queued" => rows'[j].attempts < MaxAttempts[j]
      BY DEF AttemptBudget
    <2>1. CASE j = k
      BY <1>2, <1>4, <2>1
    <2>2. CASE j # k
      <3>1. rows'[j] = rows[j]
        BY <1>2, <1>4, <2>2
      <3>2. QED
        BY <3>1, UndisturbedBefore DEF IInv, AttemptBudget
    <2>3. QED
      BY <2>1, <2>2
  <1>7. QED
    BY <1>5, <1>6

\* Nothing that runs is left undisturbed, and no row has a claim.
LEMMA InvDeleteAll ==
    ASSUME IInv, Next, DeleteAll
    PROVE  (Agreement /\ AttemptBudget)'
  <1>1. Agreement'
    BY DEF DeleteAll, Agreement, Undisturbed, Runs, Holds
  <1>2. AttemptBudget'
    BY NoRowType, Constants DEF DeleteAll, AttemptBudget
  <1>3. QED
    BY <1>1, <1>2

LEMMA InvClaim ==
    ASSUME IInv, NEW v \in Workers, NEW kinds, Next,
           ClaimNext(v, kinds) \/ ClaimNothing(v, kinds)
    PROVE  (Agreement /\ AttemptBudget)'
  <1>1. TypeOK /\ workers[v].pc = "idle"
    BY DEF IInv, ClaimNext, ClaimNothing
  <1>2. Reap = [k \in Jobs |-> Reap[k]]
    BY DEF Reap
  \* A row that a worker runs within its lease is not touched by the reaper.
  <1>3. ASSUME NEW j \in Jobs, Undisturbed(j)', NEW w \in Workers, Runs(w, j)
        PROVE  /\ Reap[j] = rows[j]
               /\ rows[j].status = "running"
               /\ rows[j].owner = w
               /\ rows[j].attempts = workers[w].attempts
               /\ rows[j].lease = workers[w].lease
               /\ rows[j].lease > 0
    BY <1>1, <1>3, UndisturbedBefore, ReapedType DEF IInv, Agreement
  \* No reaped row waits without an attempt left.
  <1>4. ASSUME NEW j \in Jobs, Undisturbed(j)'
        PROVE  /\ Reap[j].attempts <= MaxAttempts[j]
               /\ Reap[j].status = "queued" => Reap[j].attempts < MaxAttempts[j]
               /\ Reap[j].attempts \in Nat /\ MaxAttempts[j] \in Nat
    <2>1. Reap[j].attempts \in Nat /\ MaxAttempts[j] \in Nat
      BY <1>1, ReapedType, Constants DEF Row
    <2>2. /\ rows[j].attempts <= MaxAttempts[j]
          /\ rows[j].status = "queued" => rows[j].attempts < MaxAttempts[j]
      BY <1>4, UndisturbedBefore DEF IInv, AttemptBudget
    <2>3. QED
      BY <1>1, <2>1, <2>2, ReapedType
  <1>5. CASE ClaimNothing(v, kinds)
    <2>1. rows' = Reap /\ workers' = workers
      BY <1>5 DEF ClaimNothing
    <2>2. Agreement'
      BY <1>3, <2>1 DEF Agreement, Runs
    <2>3. AttemptBudget'
      BY <1>4, <2>1 DEF AttemptBudget
    <2>4. QED
      BY <2>2, <2>3
  <1>6. CASE ClaimNext(v, kinds)
    <2>1. PICK k \in Jobs :
             /\ Reap[k].status = "queued"
             /\ rows' = [Reap EXCEPT ![k] = Claimed(Reap[k], v)]
             /\ workers' = [workers EXCEPT ![v] =
                   [pc |-> "running", job |-> k,
                    attempts |-> Reap[k].attempts + 1, lease |-> Lease]]
      BY <1>2, <1>6 DEF ClaimNext, Due
    <2>2. /\ Claimed(Reap[k], v).status = "running"
          /\ Claimed(Reap[k], v).owner = v
          /\ Claimed(Reap[k], v).lease = Lease
          /\ Claimed(Reap[k], v).attempts = Reap[k].attempts + 1
      BY <1>1, ReapedType, ClaimedType
    <2>3. /\ rows'[k] = Claimed(Reap[k], v)
          /\ \A j \in Jobs : j # k => rows'[j] = Reap[j]
      BY <1>2, <2>1
    <2>4. /\ workers'[v].job = k
          /\ workers'[v].attempts = Reap[k].attempts + 1
          /\ workers'[v].lease = Lease
          /\ \A w \in Workers : w # v => workers'[w] = workers[w]
      BY <1>1, <2>1 DEF TypeOK
    <2>5. Agreement'
      <3> SUFFICES ASSUME NEW j \in Jobs, Undisturbed(j)', NEW w \in Workers, Runs(w, j)'
                   PROVE  /\ rows'[j].status = "running"
                          /\ rows'[j].owner = w
                          /\ rows'[j].attempts = workers'[w].attempts
                          /\ rows'[j].lease = workers'[w].lease
                          /\ rows'[j].lease > 0
        BY DEF Agreement
      <3>1. CASE w = v
        <4>1. j = k
          BY <2>4, <3>1 DEF Runs
        <4>2. QED
          BY <2>2, <2>3, <2>4, <3>1, <4>1, Constants
      <3>2. CASE w # v
        <4>1. Runs(w, j)
          BY <2>4, <3>2 DEF Runs
        <4>2. j # k
          BY <1>3, <2>1, <4>1
        <4>3. QED
          BY <1>3, <2>3, <2>4, <3>2, <4>1, <4>2
      <3>3. QED
        BY <3>1, <3>2
    <2>6. AttemptBudget'
      <3> SUFFICES ASSUME NEW j \in Jobs, Undisturbed(j)'
                   PROVE  /\ rows'[j].attempts <= MaxAttempts[j]
                          /\ rows'[j].status = "queued" => rows'[j].attempts < MaxAttempts[j]
        BY DEF AttemptBudget
      <3>1. CASE j = k
        BY <1>4, <2>1, <2>2, <2>3, <3>1
      <3>2. CASE j # k
        BY <1>4, <2>3, <3>2
      <3>3. QED
        BY <3>1, <3>2
    <2>7. QED
      BY <2>5, <2>6
  <1>7. QED
    BY <1>5, <1>6

\* The steps that end the run of worker v, or do what follows it.  Only the row
\* of v's own job changes, and it is no longer run by anyone.
LEMMA InvStep ==
    ASSUME IInv, NEW v \in Workers, Next, Step(v) \/ Crash(v)
    PROVE  (Agreement /\ AttemptBudget)'
  <1> DEFINE k == workers[v].job
             n == workers[v].attempts
  <1>1. TypeOK /\ workers[v].pc # "idle" /\ k \in Jobs /\ n \in Nat
    BY SnapshotType DEF IInv, Step, Complete, Fail, MarkSyncFailed, RefreshDone, RefreshFails, Crash
  <1>2. /\ rows \in [Jobs -> Row] /\ rows[k] \in Row
        /\ workers \in [Workers -> Snapshot]
        /\ rows[k].attempts \in Nat /\ MaxAttempts[k] \in Nat
    BY <1>1, Constants DEF TypeOK, Row
  <1>3. \A w \in Workers : workers'[w].pc = "running" => w # v /\ workers'[w] = workers[w]
    BY <1>2 DEF Step, Complete, Fail, MarkSyncFailed, RefreshDone, RefreshFails, Crash, Idle, Snapshot
  <1>4. \A j \in Jobs : j # k => rows'[j] = rows[j]
    BY <1>2 DEF Step, Complete, Fail, MarkSyncFailed, RefreshDone, RefreshFails, Crash
  <1>5. \/ /\ rows'[k].status = rows[k].status
           /\ rows'[k].owner = rows[k].owner
           /\ rows'[k].attempts = rows[k].attempts
           /\ rows'[k].lease = rows[k].lease
        \/ /\ workers[v].pc = "running"
           /\ rows'[k].attempts = rows[k].attempts
           /\ rows'[k].status = "queued" => n < MaxAttempts[k]
        \/ k \in torn'
    <2>1. CASE Complete(v)
      <3>1. CASE rows[k].status = "absent"
        BY <2>1, <3>1 DEF Complete
      <3>2. CASE rows[k].status # "absent"
        <4>1. rows'[k] = Finished(rows[k], "succeeded") /\ workers[v].pc = "running"
          BY <1>2, <1>1, <2>1, <3>2 DEF Complete
        <4>2. QED
          BY <1>2, <4>1, FinishedType DEF Terminal
      <3>3. QED
        BY <3>1, <3>2
    <2>2. CASE Fail(v)
      <3>1. rows'[k] = FailedRow(k, rows[k], n) /\ workers[v].pc = "running"
        BY <1>1, <1>2, <2>2 DEF Fail
      <3>2. QED
        BY <1>1, <3>1, FailedRowType
    <2>3. CASE MarkSyncFailed(v)
      <3>1. rows' = rows \/ rows'[k] = Marked(rows[k], n)
        BY <1>1, <1>2, <2>3 DEF MarkSyncFailed
      <3>2. CASE rows' = rows
        BY <3>2
      <3>3. CASE rows'[k] = Marked(rows[k], n)
        <4>1. /\ Marked(rows[k], n).status = rows[k].status
              /\ Marked(rows[k], n).owner = rows[k].owner
              /\ Marked(rows[k], n).attempts = rows[k].attempts
              /\ Marked(rows[k], n).lease = rows[k].lease
          BY <1>1, <1>2, MarkedType
        <4>2. QED
          BY <3>3, <4>1
      <3>4. QED
        BY <3>1, <3>2, <3>3
    <2>4. CASE RefreshFails(v)
      BY <1>1, <2>4 DEF RefreshFails
    <2>5. CASE RefreshDone(v) \/ Crash(v)
      BY <2>5 DEF RefreshDone, Crash
    <2>6. QED
      BY <2>1, <2>2, <2>3, <2>4, <2>5 DEF Step
  <1>6. Agreement'
    <2> SUFFICES ASSUME NEW j \in Jobs, Undisturbed(j)', NEW w \in Workers, Runs(w, j)'
                 PROVE  /\ rows'[j].status = "running"
                        /\ rows'[j].owner = w
                        /\ rows'[j].attempts = workers'[w].attempts
                        /\ rows'[j].lease = workers'[w].lease
                        /\ rows'[j].lease > 0
      BY DEF Agreement
    <2>1. w # v /\ workers'[w] = workers[w] /\ Runs(w, j) /\ Undisturbed(j)
      BY <1>3, UndisturbedBefore DEF Runs
    <2>2. /\ rows[j].status = "running"
          /\ rows[j].owner = w
          /\ rows[j].attempts = workers[w].attempts
          /\ rows[j].lease = workers[w].lease
          /\ rows[j].lease > 0
      BY <2>1 DEF IInv, Agreement
    <2>3. CASE j # k
      BY <1>4, <2>1, <2>2, <2>3
    <2>4. CASE j = k
      <3>1. workers[v].pc # "running"
        BY <2>1, <2>2, <2>4 DEF IInv, Agreement, Runs
      <3>2. k \notin torn'
        BY <2>4 DEF Undisturbed
      <3>3. QED
        BY <1>5, <2>1, <2>2, <2>4, <3>1, <3>2
    <2>5. QED
      BY <2>3, <2>4
  <1>7. AttemptBudget'
    <2> SUFFICES ASSUME NEW j \in Jobs, Undisturbed(j)'
                 PROVE  /\ rows'[j].attempts <= MaxAttempts[j]
                        /\ rows'[j].status = "queued" => rows'[j].attempts < MaxAttempts[j]
      BY DEF AttemptBudget
    <2>1. /\ Undisturbed(j)
          /\ rows[j].attempts <= MaxAttempts[j]
          /\ rows[j].status = "queued" => rows[j].attempts < MaxAttempts[j]
      BY UndisturbedBefore DEF IInv, AttemptBudget
    <2>2. CASE j # k
      BY <1>4, <2>1, <2>2
    <2>3. CASE j = k
      <3>1. k \notin torn'
        BY <2>3 DEF Undisturbed
      <3>2. workers[v].pc = "running" => rows[k].attempts = n
        BY <2>1, <2>3 DEF IInv, Agreement, Runs
      <3>3. QED
        BY <1>5, <2>1, <2>3, <3>1, <3>2
    <2>4. QED
      BY <2>2, <2>3
  <1>8. QED
    BY <1>6, <1>7

LEMMA InvPrune ==
    ASSUME IInv, NEW v \in Workers, Next, Prune(v)
    PROVE  (Agreement /\ AttemptBudget)'
  <1>1. workers' = workers
    BY DEF Prune
  <1>2. \A j \in Jobs : rows'[j] = rows[j] \/ (rows[j].status \in Terminal /\ rows'[j] = NoRow)
    BY DEF Prune
  <1>3. Agreement'
    BY <1>1, <1>2, UndisturbedBefore DEF IInv, Agreement, Runs, Terminal
  <1>4. AttemptBudget'
    BY <1>2, NoRowType, UndisturbedBefore, Constants DEF IInv, AttemptBudget
  <1>5. QED
    BY <1>3, <1>4

LEMMA InvTick ==
    ASSUME IInv, Next, Tick
    PROVE  (Agreement /\ AttemptBudget)'
  <1>1. ASSUME NEW j \in Jobs
        PROVE  /\ rows'[j].status = rows[j].status
               /\ rows'[j].owner = rows[j].owner
               /\ rows'[j].attempts = rows[j].attempts
               /\ rows'[j].lease = Dec(rows[j].lease)
    BY OlderType DEF IInv, Tick
  <1>2. ASSUME NEW w \in Workers
        PROVE  /\ workers'[w].pc = workers[w].pc
               /\ workers'[w].job = workers[w].job
               /\ workers'[w].attempts = workers[w].attempts
               /\ workers'[w].lease = Dec(workers[w].lease)
               /\ workers[w].lease \in Nat
    <2>1. workers[w] \in Snapshot
      BY DEF IInv, TypeOK
    <2>2. workers'[w] = [workers[w] EXCEPT !.lease = Dec(workers[w].lease)]
      BY <2>1 DEF Tick, Snapshot
    <2>3. QED
      BY <2>1, <2>2, Constants DEF Snapshot
  <1>3. Agreement'
    <2> SUFFICES ASSUME NEW j \in Jobs, Undisturbed(j)', NEW w \in Workers, Runs(w, j)'
                 PROVE  /\ rows'[j].status = "running"
                        /\ rows'[j].owner = w
                        /\ rows'[j].attempts = workers'[w].attempts
                        /\ rows'[j].lease = workers'[w].lease
                        /\ rows'[j].lease > 0
      BY DEF Agreement
    <2>1. Runs(w, j) /\ Undisturbed(j)
      BY <1>2, UndisturbedBefore DEF Runs
    <2>2. ~ (workers[w].lease <= 1)
      BY <2>1 DEF Tick, Undisturbed
    <2>3. Dec(workers[w].lease) > 0
      BY <1>2, <2>2 DEF Dec
    <2>4. QED
      BY <1>1, <1>2, <2>1, <2>3 DEF IInv, Agreement
  <1>4. AttemptBudget'
    BY <1>1, UndisturbedBefore DEF IInv, AttemptBudget
  <1>5. QED
    BY <1>3, <1>4

-----------------------------------------------------------------------------
\* The inductive invariant holds in every reachable state.
THEOREM InvCorrect == Spec => []IInv
  <1>1. Init => IInv
    <2> SUFFICES ASSUME Init PROVE IInv
      OBVIOUS
    <2>1. TypeOK
      BY TypeInit
    <2>2. Agreement
      BY DEF Init, Agreement, Runs, Idle
    <2>3. AttemptBudget
      BY NoRowType, Constants DEF Init, AttemptBudget
    <2>4. QED
      BY <2>1, <2>2, <2>3 DEF IInv
  <1>2. IInv /\ [Next]_vars => IInv'
    <2> SUFFICES ASSUME IInv, [Next]_vars PROVE IInv'
      OBVIOUS
    <2>1. CASE Next
      <3>1. TypeOK'
        BY <2>1, TypeNext DEF IInv
      <3>2. (Agreement /\ AttemptBudget)'
        BY <2>1, InvEnqueue, InvDeleteAll, InvClaim, InvStep, InvPrune, InvTick DEF Next
      <3>3. QED
        BY <3>1, <3>2 DEF IInv
    <2>2. CASE UNCHANGED vars
      BY <2>2 DEF vars, IInv, TypeOK, Agreement, AttemptBudget, Undisturbed, Runs
    <2>3. QED
      BY <2>1, <2>2
  <1>3. QED
    BY <1>1, <1>2, PTL DEF Spec

\* Mutual exclusion: as long as no worker outlives its lease on a job and the
\* job's row is not removed under it, the job is run by at most one worker, and
\* that worker owns the row.
THEOREM Exclusive == Spec => []ExclusiveRun
  <1>1. IInv => ExclusiveRun
    BY DEF IInv, Agreement, ExclusiveRun
  <1>2. QED
    BY <1>1, InvCorrect, PTL

\* Bounded retries: such a job is claimed at most max_attempts times, and it is
\* never left waiting in the queue without an attempt.
THEOREM Budget == Spec => []AttemptBudget
  <1>1. IInv => AttemptBudget
    BY DEF IInv
  <1>2. QED
    BY <1>1, InvCorrect, PTL

\* A running row is left alone while its lease lasts, by the reaper, by every
\* other worker's claim, and by every worker but the owner: the owner alone
\* ends the run.
THEOREM LeaseRespected == Spec => LiveLeaseUntouched
  <1> DEFINE Kept(j) == \/ rows'[j] \in {rows[j], Older(rows[j]), NoRow}
                        \/ \E w \in Workers : EndsRun(w, j) \/ MovesRunAt(w, j)
             A == \A j \in Jobs :
                     /\ rows[j].status = "running" /\ rows[j].lease > 0
                     /\ j \notin late \cup torn'
                     => Kept(j)
  <1>1. ASSUME IInv, Next PROVE A
    <2> SUFFICES ASSUME NEW j \in Jobs,
                        rows[j].status = "running", rows[j].lease > 0,
                        j \notin late, j \notin torn'
                 PROVE  Kept(j)
      OBVIOUS
    <2>1. /\ TypeOK /\ rows \in [Jobs -> Row] /\ workers \in [Workers -> Snapshot]
          /\ rows[j] \in Row /\ rows[j].attempts \in Nat
      BY <1>1 DEF IInv, TypeOK, Row
    <2>2. ASSUME NEW w \in Workers, Runs(w, j), torn' = torn
          PROVE  rows[j].owner = w /\ rows[j].attempts = workers[w].attempts
      BY <1>1, <2>2 DEF IInv, Agreement, Undisturbed
    <2>3. ASSUME NEW k \in Jobs, Enqueue(k) \/ Revive(k) \/ DeleteRow(k) PROVE Kept(j)
      <3>1. rows[k].status # "running" => rows'[j] = rows[j]
        BY <2>1, <2>3 DEF Enqueue, Revive, DeleteRow
      <3>2. rows[k].status = "running" => rows' = [rows EXCEPT ![k] = NoRow]
        BY <2>3 DEF Enqueue, Revive, DeleteRow, Terminal
      <3>3. QED
        BY <2>1, <3>1, <3>2
    <2>4. ASSUME NEW v \in Workers, NEW kinds, ClaimNext(v, kinds) \/ ClaimNothing(v, kinds)
          PROVE  Kept(j)
      <3>1. Reap[j] = rows[j] /\ Reap = [k \in Jobs |-> Reap[k]]
        BY <2>1, ReapedType DEF Reap
      <3>2. ClaimNothing(v, kinds) => rows'[j] = rows[j]
        BY <3>1 DEF ClaimNothing
      <3>3. ASSUME ClaimNext(v, kinds) PROVE rows'[j] = rows[j]
        <4>1. PICK k \in Jobs : /\ Reap[k].status = "queued"
                                /\ rows' = [Reap EXCEPT ![k] = Claimed(Reap[k], v)]
          BY <3>1, <3>3 DEF ClaimNext, Due
        <4>2. QED
          BY <3>1, <4>1
      <3>4. QED
        BY <2>4, <3>2, <3>3
    <2>5. ASSUME NEW v \in Workers, Step(v) PROVE Kept(j)
      <3> DEFINE k == workers[v].job
                 n == workers[v].attempts
      <3>1. j # k => rows'[j] = rows[j]
        BY <2>1, <2>5 DEF Step, Complete, Fail, MarkSyncFailed, RefreshDone, RefreshFails
      <3>2. CASE j = k /\ Complete(v)
        <4>1. rows'[j] = Finished(rows[j], "succeeded") /\ Runs(v, j) /\ torn' = torn
          BY <2>1, <3>2 DEF Complete, Runs
        <4>2. EndsRun(v, j)
          BY <2>2, <4>1 DEF EndsRun
        <4>3. QED
          BY <4>2
      <3>3. CASE j = k /\ Fail(v)
        <4>1. rows'[j] = FailedRow(j, rows[j], n) /\ Runs(v, j) /\ torn' = torn
          BY <2>1, <3>3 DEF Fail, Runs
        <4>2. EndsRun(v, j)
          BY <2>2, <4>1 DEF EndsRun
        <4>3. QED
          BY <4>2
      <3>4. CASE j = k /\ MarkSyncFailed(v)
        <4>1. rows'[j] = rows[j] \/ rows'[j] = Marked(rows[j], n)
          BY <2>1, <3>4 DEF MarkSyncFailed
        <4>2. ASSUME rows'[j] = Marked(rows[j], n) PROVE MovesRunAt(v, j)
          <5>1. rows'[j] = [rows[j] EXCEPT !.delay = rows'[j].delay, !.age = rows'[j].age]
            BY <2>1, <4>2 DEF Marked, Row
          <5>2. QED
            BY <3>4, <5>1 DEF MovesRunAt, MarkSyncFailed
        <4>3. QED
          BY <4>1, <4>2
      <3>5. CASE j = k /\ RefreshDone(v)
        BY <3>5 DEF RefreshDone
      <3>6. CASE j = k /\ RefreshFails(v)
        BY <3>6 DEF RefreshFails
      <3>7. QED
        BY <2>5, <3>1, <3>2, <3>3, <3>4, <3>5, <3>6 DEF Step
    <2>6. ASSUME NEW v \in Workers, Prune(v) \/ Crash(v) PROVE Kept(j)
      BY <2>6 DEF Prune, Crash
    <2>7. CASE DeleteAll
      BY <2>7 DEF DeleteAll
    <2>8. CASE Tick
      BY <2>8 DEF Tick
    <2>9. QED
      BY <1>1, <2>3, <2>4, <2>5, <2>6, <2>7, <2>8 DEF Next
  <1>2. IInv /\ [Next]_vars => [A]_vars
    BY <1>1
  <1>3. QED
    BY <1>2, InvCorrect, PTL DEF Spec, LiveLeaseUntouched

\* What succeeded is not run again: the row of an undisturbed job that has
\* succeeded stays so until it is pruned or deleted, or revived from attempt 0.
THEOREM SuccessKept == Spec => SuccessIsFinal
  <1> DEFINE A == \A j \in Jobs :
                     rows[j].status = "succeeded" /\ j \notin late' \cup torn' =>
                         \/ rows'[j].status \in {"succeeded", "absent"}
                         \/ Kind[j] = "embed_memory" /\ rows'[j].attempts = 0 /\ rows'[j].owner = NoWorker
  <1>1. ASSUME IInv, Next PROVE A
    <2> SUFFICES ASSUME NEW j \in Jobs, rows[j].status = "succeeded", Undisturbed(j)',
                        ~ (Kind[j] = "embed_memory" /\ rows'[j].attempts = 0 /\ rows'[j].owner = NoWorker)
                 PROVE  rows'[j].status \in {"succeeded", "absent"}
      BY DEF Undisturbed
    <2>1. TypeOK /\ rows \in [Jobs -> Row] /\ workers \in [Workers -> Snapshot]
      BY <1>1 DEF IInv, TypeOK
    <2>2. \A w \in Workers : ~ Runs(w, j)
      BY <1>1, UndisturbedBefore DEF IInv, Agreement
    <2>3. ASSUME NEW k \in Jobs, Enqueue(k) \/ DeleteRow(k)
          PROVE  rows'[j].status \in {"succeeded", "absent"}
      <3>1. j # k => rows'[j] = rows[j]
        BY <2>1, <2>3 DEF Enqueue, DeleteRow
      <3>2. j = k => rows'[j] = NoRow
        BY <2>1, <2>3 DEF Enqueue, DeleteRow
      <3>3. QED
        BY <3>1, <3>2, NoRowType
    <2>4. ASSUME NEW k \in Jobs, Revive(k)
          PROVE  rows'[j].status \in {"succeeded", "absent"}
      <3>1. j # k => rows'[j] = rows[j]
        BY <2>1, <2>4 DEF Revive
      <3>2. j = k => FALSE
        <4> SUFFICES ASSUME j = k PROVE FALSE
          OBVIOUS
        <4>1. rows'[j] = [NoRow EXCEPT !.status = "queued"] /\ Kind[j] = "embed_memory"
          BY <2>1, <2>4 DEF Revive
        <4>2. QED
          BY <4>1, FreshRowType
      <3>3. QED
        BY <3>1, <3>2
    <2>5. ASSUME NEW v \in Workers, NEW kinds, ClaimNext(v, kinds) \/ ClaimNothing(v, kinds)
          PROVE  rows'[j] = rows[j]
      <3>1. Reap[j] = rows[j] /\ Reap = [k \in Jobs |-> Reap[k]]
        BY <2>1, ReapedType DEF Reap
      <3>2. ClaimNothing(v, kinds) => rows'[j] = rows[j]
        BY <3>1 DEF ClaimNothing
      <3>3. ASSUME ClaimNext(v, kinds) PROVE rows'[j] = rows[j]
        <4>1. PICK k \in Jobs : /\ Reap[k].status = "queued"
                                /\ rows' = [Reap EXCEPT ![k] = Claimed(Reap[k], v)]
          BY <3>1, <3>3 DEF ClaimNext, Due
        <4>2. QED
          BY <3>1, <4>1
      <3>4. QED
        BY <2>5, <3>2, <3>3
    <2>6. ASSUME NEW v \in Workers, Step(v) PROVE rows'[j].status = rows[j].status
      <3>1. CASE j # workers[v].job
        BY <2>1, <2>6, <3>1 DEF Step, Complete, Fail, MarkSyncFailed, RefreshDone, RefreshFails
      <3>2. CASE j = workers[v].job
        <4>1. workers[v].pc # "running" /\ j \notin torn'
          BY <2>2, <3>2 DEF Runs, Undisturbed
        <4>2. MarkSyncFailed(v) \/ RefreshDone(v)
          BY <2>6, <3>2, <4>1 DEF Step, Complete, Fail, RefreshFails
        <4>3. \/ rows' = rows
              \/ rows'[j] = Marked(rows[j], workers[v].attempts)
          BY <2>1, <3>2, <4>2 DEF MarkSyncFailed, RefreshDone
        <4>4. rows[j] \in Row /\ workers[v].attempts \in Nat
          BY <2>1 DEF Snapshot
        <4>5. QED
          BY <4>3, <4>4, MarkedType
      <3>3. QED
        BY <3>1, <3>2
    <2>7. ASSUME NEW v \in Workers, Prune(v) \/ Crash(v)
          PROVE  rows'[j].status \in {"succeeded", "absent"}
      BY <2>7, NoRowType DEF Prune, Crash
    <2>8. ASSUME Tick PROVE rows'[j].status = rows[j].status
      <3>1. rows'[j] = Older(rows[j])
        BY <2>8 DEF Tick
      <3>2. QED
        BY <2>1, <3>1, OlderType
    <2>9. ASSUME DeleteAll PROVE rows'[j].status = "absent"
      BY <2>9, NoRowType DEF DeleteAll
    <2>10. QED
      BY <1>1, <2>3, <2>4, <2>5, <2>6, <2>7, <2>8, <2>9 DEF Next
  <1>2. IInv /\ [Next]_vars => [A]_vars
    BY <1>1
  <1>3. QED
    BY <1>2, InvCorrect, PTL DEF Spec, SuccessIsFinal

-----------------------------------------------------------------------------
(***************************************************************************)
(* The session: while its requests do not overlap, what one of them has    *)
(* read is what the row still says                                         *)
(***************************************************************************)
Serving(r) == work[r].at \in {"look", "save", "pin", "answer", "rehydrate", "seed"}

\* The packs that may still be pinned, and the checkpoints that may be recorded,
\* are paid for by the bound.
Pinning   == {r \in Requests : work[r].at \in {"look", "save", "pin"}}
Recording == {r \in Requests : work[r].at \in {"check.save", "check.record"}}
Within ==
    /\ served + begun <= MaxBegun
    /\ IsFiniteSet(Pinning) /\ Len(packs) + Cardinality(Pinning) <= served
    /\ IsFiniteSet(Recording) /\ recorded + Cardinality(Recording) <= begun
    /\ row.turn <= served /\ row.cursor <= served
    /\ \A r \in Requests :
          /\ work[r].at = "look" => work[r].seen.turn < served /\ work[r].seen.cursor < served
          /\ work[r].next.turn <= served /\ work[r].next.cursor <= served
          /\ work[r].at = "check.save" => work[r].index \in 1 .. MaxBegun
          /\ work[r].at \in {"rehydrate", "seed"} =>
                \A m \in Memories : work[r].next.known[m] <= work[r].next.turn

\* Nothing known was cited later than its turn says.
Aged(w) == \A m \in Known(w) : idle[m] >= w.turn - w.known[m]

Disjoint(r) == work[r].delta.new \cap told = {}

Looking(r) == work[r].at = "look" => work[r].seen = row

Saving(r) ==
    work[r].at = "save" =>
        /\ work[r].next.cursor > 0 /\ work[r].next.turn = row.turn + 1
        /\ Disjoint(r)
        /\ \A m \in work[r].delta.evicted : idle[m] + 1 >= Ttl
        /\ \A m \in Known(work[r].next) :
              IF m \in work[r].cited THEN work[r].next.known[m] = work[r].next.turn
              ELSE m \in Known(row) /\ work[r].next.known[m] = row.known[m]

Answering(r) ==
    work[r].at \in {"pin", "answer"} => Disjoint(r) /\ Known(work[r].seen) \subseteq Known(row)

InTurn ==
    "overlap" \notin raced =>
        /\ \A q, r \in Requests : Serving(q) /\ Serving(r) => q = r
        /\ told \subseteq Known(row)
        /\ Aged(row)
        /\ \A r \in Requests : Looking(r) /\ Saving(r) /\ Answering(r)

SessionInv == SessionTypeOK /\ Within /\ InTurn
-----------------------------------------------------------------------------
LEMMA Bounds ==
    /\ MaxBegun \in Nat /\ MaxMishaps \in Nat /\ Ttl \in Nat /\ ReplayCap \in Nat \ {0}
    /\ KnownCap \in Nat /\ HeadDepth \in Nat
  BY SessionAssumption

LEMMA Numbers ==
  ASSUME NEW w \in WorkingSet
  PROVE  /\ w.turn \in Turns /\ w.cursor \in Turns /\ w.turn \in Nat /\ w.cursor \in Nat
         /\ w.known \in [Memories -> Turns] /\ w.known \in [Memories -> Nat]
  BY Bounds DEF WorkingSet, Turns

LEMMA FreshIsOne == Fresh \in WorkingSet /\ Known(Fresh) = {} /\ Fresh.turn = 0 /\ Fresh.cursor = 0
  BY Bounds DEF Fresh, WorkingSet, Turns, Known

LEMMA NoCallIsOne ==
    /\ NoCall \in Work /\ NoCall.at = "idle" /\ NoCall.cited = {} /\ NoCall.seen = Fresh
    /\ NoCall.next = Fresh /\ NoCall.delta = NoDelta /\ NoCall.index = 0 /\ NoCall.content = 0
  <1>1. NoDelta \in Delta
    BY DEF NoDelta, Delta
  <1> QED
    BY <1>1, Bounds, FreshIsOne DEF NoCall, Work

\* What one request does to its own part of the work.
Moves(r, q) == work' = [work EXCEPT ![r] = q]

LEMMA AfterMove ==
  ASSUME work \in [Requests -> Work], NEW r \in Requests, NEW q \in Work, Moves(r, q)
  PROVE  /\ work' \in [Requests -> Work]
         /\ work'[r] = q
         /\ \A s \in Requests \ {r} : work'[s] = work[s]
  BY DEF Moves

LEMMA InitType == SessionInit => SessionTypeOK
  <1> SUFFICES ASSUME SessionInit PROVE SessionTypeOK
    OBVIOUS
  <1>1. work \in [Requests -> Work]
    BY NoCallIsOne DEF SessionInit
  <1>2. packs \in Seq(SUBSET Memories)
    BY EmptySeq DEF SessionInit
  <1>3. checkpoints \in [1 .. MaxBegun -> 0 .. MaxBegun] /\ idle \in [Memories -> Nat]
    BY Bounds DEF SessionInit
  <1> QED
    BY <1>1, <1>2, <1>3, FreshIsOne, Bounds DEF SessionInit, SessionTypeOK

LEMMA InitInv == SessionInit => SessionInv
  <1> SUFFICES ASSUME SessionInit PROVE SessionInv
    OBVIOUS
  <1>1. \A r \in Requests : work[r] = NoCall
    BY DEF SessionInit
  <1>2. Pinning = {} /\ Recording = {}
    BY <1>1, NoCallIsOne DEF Pinning, Recording
  <1>3. Within
    BY <1>1, <1>2, NoCallIsOne, FreshIsOne, Bounds, FS_EmptySet, EmptySeq DEF SessionInit, Within
  <1>4. /\ \A r \in Requests : Looking(r) /\ Saving(r) /\ Answering(r) /\ ~Serving(r)
        /\ Aged(row) /\ told \subseteq Known(row)
    BY <1>1, NoCallIsOne, FreshIsOne
       DEF SessionInit, Looking, Saving, Answering, Serving, Aged
  <1> QED
    BY <1>3, <1>4, InitType DEF SessionInv, InTurn

LEMMA Typed ==
  ASSUME SessionInv
  PROVE  /\ row \in WorkingSet /\ packs \in Seq(SUBSET Memories) /\ Len(packs) \in Nat
         /\ work \in [Requests -> Work] /\ told \subseteq Memories /\ idle \in [Memories -> Nat]
         /\ served \in 0 .. MaxBegun /\ begun \in 0 .. MaxBegun /\ recorded \in 0 .. MaxBegun
         /\ supersededBy \in [Memories -> Memories \cup {NoMemory}]
         /\ Cardinality(Pinning) \in Nat /\ Cardinality(Recording) \in Nat
         /\ row.turn \in Nat /\ row.cursor \in Nat /\ row.known \in [Memories -> Nat]
         /\ served \in Nat /\ begun \in Nat /\ recorded \in Nat
  <1>1. Len(packs) \in Nat
    BY LenProperties DEF SessionInv, SessionTypeOK
  <1>2. Cardinality(Pinning) \in Nat /\ Cardinality(Recording) \in Nat
    BY FS_CardinalityType DEF SessionInv, Within
  <1> QED
    BY <1>1, <1>2, Bounds DEF SessionInv, SessionTypeOK, WorkingSet, Turns

-----------------------------------------------------------------------------
(***************************************************************************)
(* What every step keeps                                                   *)
(***************************************************************************)
Pays(c)    == IF c.at \in {"look", "save", "pin"} THEN 1 ELSE 0
Records(c) == IF c.at \in {"check.save", "check.record"} THEN 1 ELSE 0

\* One element more, one less, or none.
LEMMA CountMove ==
  ASSUME NEW S, IsFiniteSet(S), NEW x, NEW T, NEW n \in {0, 1}, NEW k \in {0, 1},
         n = 1 <=> x \in S, k = 1 <=> x \in T, S \ {x} = T \ {x}
  PROVE  /\ IsFiniteSet(T) /\ Cardinality(T) \in Nat
         /\ Cardinality(T) + n = Cardinality(S) + k
  <1>1. Cardinality(S) \in Nat
    BY FS_CardinalityType
  <1>2. CASE n = k
    <2>1. S = T
      BY <1>2
    <2> QED
      BY <1>1, <1>2, <2>1
  <1>3. CASE n = 1 /\ k = 0
    <2>1. T = S \ {x} /\ x \in S
      BY <1>3
    <2> QED
      BY <1>1, <1>3, <2>1, FS_RemoveElement, FS_CardinalityType
  <1>4. CASE n = 0 /\ k = 1
    <2>1. T = S \cup {x} /\ x \notin S
      BY <1>4
    <2> QED
      BY <1>1, <1>4, <2>1, FS_AddElement, FS_CardinalityType
  <1> QED
    BY <1>2, <1>3, <1>4

LEMMA Counting ==
  ASSUME SessionInv, NEW r \in Requests, NEW q \in Work, Moves(r, q)
  PROVE  /\ IsFiniteSet(Pinning') /\ Cardinality(Pinning') \in Nat
         /\ Cardinality(Pinning') + Pays(work[r]) = Cardinality(Pinning) + Pays(q)
         /\ IsFiniteSet(Recording') /\ Cardinality(Recording') \in Nat
         /\ Cardinality(Recording') + Records(work[r]) = Cardinality(Recording) + Records(q)
  <1>1. /\ work'[r] = q /\ \A s \in Requests \ {r} : work'[s] = work[s]
        /\ IsFiniteSet(Pinning) /\ IsFiniteSet(Recording)
    BY AfterMove DEF SessionInv, SessionTypeOK, Within
  <1>2. /\ Pays(work[r]) \in {0, 1} /\ (Pays(work[r]) = 1 <=> r \in Pinning)
        /\ Pays(q) \in {0, 1} /\ (Pays(q) = 1 <=> r \in Pinning')
        /\ Pinning \ {r} = Pinning' \ {r}
    BY <1>1 DEF Pays, Pinning
  <1>3. /\ Records(work[r]) \in {0, 1} /\ (Records(work[r]) = 1 <=> r \in Recording)
        /\ Records(q) \in {0, 1} /\ (Records(q) = 1 <=> r \in Recording')
        /\ Recording \ {r} = Recording' \ {r}
    BY <1>1 DEF Records, Recording
  <1>4. /\ IsFiniteSet(Pinning') /\ Cardinality(Pinning') \in Nat
        /\ Cardinality(Pinning') + Pays(work[r]) = Cardinality(Pinning) + Pays(q)
    BY ONLY <1>1, <1>2, CountMove
  <1>5. /\ IsFiniteSet(Recording') /\ Cardinality(Recording') \in Nat
        /\ Cardinality(Recording') + Records(work[r]) = Cardinality(Recording) + Records(q)
    BY ONLY <1>1, <1>3, CountMove
  <1> QED
    BY <1>4, <1>5

LEMMA WithinStep ==
  ASSUME SessionInv, NEW r \in Requests, NEW q \in Work, Moves(r, q),
         served' \in Nat, begun' \in Nat, recorded' \in Nat, Len(packs') \in Nat,
         served <= served', served' + begun' <= MaxBegun,
         Len(packs') + Pays(q) + served <= Len(packs) + Pays(work[r]) + served',
         recorded' + Records(q) + begun <= recorded + Records(work[r]) + begun',
         row'.turn \in Nat, row'.cursor \in Nat, row'.turn <= served', row'.cursor <= served',
         q.at = "look" => q.seen.turn < served' /\ q.seen.cursor < served',
         q.next.turn <= served', q.next.cursor <= served',
         q.at = "check.save" => q.index \in 1 .. MaxBegun,
         q.at \in {"rehydrate", "seed"} =>
            \A m \in Memories : q.next.known[m] <= q.next.turn
  PROVE  Within'
  <1>1. /\ IsFiniteSet(Pinning') /\ IsFiniteSet(Recording')
        /\ Cardinality(Pinning') \in Nat /\ Cardinality(Recording') \in Nat
        /\ Cardinality(Pinning') + Pays(work[r]) = Cardinality(Pinning) + Pays(q)
        /\ Cardinality(Recording') + Records(work[r]) = Cardinality(Recording) + Records(q)
    BY Counting
  <1>2. /\ Len(packs) \in Nat /\ served \in Nat /\ begun \in Nat /\ recorded \in Nat
        /\ Cardinality(Pinning) \in Nat /\ Cardinality(Recording) \in Nat
        /\ Len(packs) + Cardinality(Pinning) <= served
        /\ recorded + Cardinality(Recording) <= begun
    BY Typed DEF SessionInv, Within
  <1>3. Pays(q) \in Nat /\ Pays(work[r]) \in Nat /\ Records(q) \in Nat /\ Records(work[r]) \in Nat
    BY DEF Pays, Records
  <1>4. Len(packs') + Cardinality(Pinning') <= served'
    <2> PICK a, b, s, t \in Nat : a = Len(packs) /\ b = Len(packs') /\ s = served /\ t = served'
      BY <1>2
    <2> PICK c, d, m, n \in Nat : /\ c = Cardinality(Pinning) /\ d = Cardinality(Pinning')
                                  /\ m = Pays(work[r]) /\ n = Pays(q)
      BY <1>1, <1>2, <1>3
    <2>1. b + n + s <= a + m + t /\ d + m = c + n /\ a + c <= s
      BY <1>1, <1>2
    <2>2. b + d <= t
      BY ONLY <2>1, a \in Nat, b \in Nat, c \in Nat, d \in Nat, m \in Nat, n \in Nat,
              s \in Nat, t \in Nat
    <2> QED
      BY <2>2
  <1>5. recorded' + Cardinality(Recording') <= begun'
    <2> PICK a, b, s, t \in Nat : a = recorded /\ b = recorded' /\ s = begun /\ t = begun'
      BY <1>2
    <2> PICK c, d, m, n \in Nat : /\ c = Cardinality(Recording) /\ d = Cardinality(Recording')
                                  /\ m = Records(work[r]) /\ n = Records(q)
      BY <1>1, <1>2, <1>3
    <2>1. b + n + s <= a + m + t /\ d + m = c + n /\ a + c <= s
      BY <1>1, <1>2
    <2>2. b + d <= t
      BY ONLY <2>1, a \in Nat, b \in Nat, c \in Nat, d \in Nat, m \in Nat, n \in Nat,
              s \in Nat, t \in Nat
    <2> QED
      BY <2>2
  <1>6. \A s \in Requests :
           /\ work'[s].at = "look" => work'[s].seen.turn < served' /\ work'[s].seen.cursor < served'
           /\ work'[s].next.turn <= served' /\ work'[s].next.cursor <= served'
           /\ work'[s].at = "check.save" => work'[s].index \in 1 .. MaxBegun
           /\ work'[s].at \in {"rehydrate", "seed"} =>
                 \A m \in Memories : work'[s].next.known[m] <= work'[s].next.turn
    <2> SUFFICES ASSUME NEW s \in Requests
                 PROVE  /\ work'[s].at = "look" =>
                              work'[s].seen.turn < served' /\ work'[s].seen.cursor < served'
                        /\ work'[s].next.turn <= served' /\ work'[s].next.cursor <= served'
                        /\ work'[s].at = "check.save" => work'[s].index \in 1 .. MaxBegun
                        /\ work'[s].at \in {"rehydrate", "seed"} =>
                              \A m \in Memories : work'[s].next.known[m] <= work'[s].next.turn
      OBVIOUS
    <2>1. CASE s = r
      BY <2>1, AfterMove DEF SessionInv, SessionTypeOK
    <2>2. CASE s # r
      <3>1. work'[s] = work[s] /\ work[s] \in Work
        BY <2>2, AfterMove DEF SessionInv, SessionTypeOK
      <3>2. /\ work[s].seen.turn \in Nat /\ work[s].seen.cursor \in Nat
            /\ work[s].next.turn \in Nat /\ work[s].next.cursor \in Nat
        <4>1. work[s].seen \in WorkingSet /\ work[s].next \in WorkingSet
          BY <3>1 DEF Work
        <4> QED
          BY <4>1, Numbers
      <3>3. /\ work[s].at = "look" => work[s].seen.turn < served /\ work[s].seen.cursor < served
            /\ work[s].next.turn <= served /\ work[s].next.cursor <= served
            /\ work[s].at = "check.save" => work[s].index \in 1 .. MaxBegun
            /\ work[s].at \in {"rehydrate", "seed"} =>
                  \A m \in Memories : work[s].next.known[m] <= work[s].next.turn
        BY DEF SessionInv, Within
      <3> PICK old \in Nat : old = served
        BY <1>2
      <3> PICK now \in Nat : now = served'
        OBVIOUS
      <3>4. old <= now
        OBVIOUS
      <3>5. /\ work[s].at = "look" => work[s].seen.turn < now /\ work[s].seen.cursor < now
            /\ work[s].next.turn <= now /\ work[s].next.cursor <= now
        BY ONLY <3>2, <3>3, <3>4, old \in Nat, now \in Nat, old = served
      <3> QED
        BY <3>1, <3>3, <3>5
    <2> QED
      BY <2>1, <2>2
  <1> QED
    BY <1>1, <1>4, <1>5, <1>6 DEF Within

\* A step of a request that is served: nobody else is, unless they overlap.
LEMMA TurnStep ==
  ASSUME SessionInv, NEW r \in Requests, NEW q \in Work, Moves(r, q), raced \subseteq raced',
         "overlap" \notin raced' =>
            /\ \A s \in Requests \ {r} : ~Serving(s)
            /\ told' \subseteq Known(row') /\ Aged(row)'
            /\ Looking(r)' /\ Saving(r)' /\ Answering(r)'
  PROVE  InTurn'
  <1> SUFFICES ASSUME "overlap" \notin raced'
               PROVE  /\ \A s, t \in Requests : Serving(s)' /\ Serving(t)' => s = t
                      /\ \A s \in Requests : /\ Looking(s)' /\ Saving(s)'
                                             /\ Answering(s)'
    BY DEF InTurn
  <1>1. \A s \in Requests \ {r} : work'[s] = work[s] /\ ~Serving(s)'
    BY AfterMove DEF SessionInv, SessionTypeOK, Serving
  <1>2. \A s \in Requests \ {r} : Looking(s)' /\ Saving(s)' /\ Answering(s)'
    BY <1>1 DEF Serving, Looking, Saving, Answering
  <1> QED
    BY <1>1, <1>2

\* A step that leaves the working set alone, of a request that is not served after it.
LEMMA AsideStep ==
  ASSUME SessionInv, NEW r \in Requests, NEW q \in Work, Moves(r, q),
         UNCHANGED <<row, told, idle, packs, raced>>,
         q.at \notin {"look", "save", "pin", "answer", "rehydrate", "seed"}
  PROVE  InTurn'
  <1> SUFFICES ASSUME InTurn, "overlap" \notin raced, "overlap" \notin raced'
               PROVE  InTurn'
    BY DEF SessionInv, InTurn
  <1>1. work'[r] = q /\ \A s \in Requests \ {r} : work'[s] = work[s]
    BY AfterMove DEF SessionInv, SessionTypeOK
  <1>2. \A s \in Requests : Serving(s)' => Serving(s)
    BY <1>1 DEF Serving
  <1>3. /\ told' \subseteq Known(row') /\ Aged(row)'
    BY DEF InTurn, Aged, Known
  <1>4. \A s \in Requests : Looking(s)' /\ Saving(s)' /\ Answering(s)'
    <2> SUFFICES ASSUME NEW s \in Requests
                 PROVE  Looking(s)' /\ Saving(s)' /\ Answering(s)'
      OBVIOUS
    <2>1. CASE s = r
      BY <1>1, <2>1 DEF Looking, Saving, Answering
    <2>2. CASE s # r
      <3>1. work'[s] = work[s] /\ Looking(s) /\ Saving(s) /\ Answering(s)
        BY <1>1, <2>2 DEF InTurn
      <3> QED
        BY <3>1 DEF Looking, Saving, Answering, Disjoint, Known, Aged
    <2> QED
      BY <2>1, <2>2
  <1> QED
    BY <1>2, <1>3, <1>4 DEF InTurn

-----------------------------------------------------------------------------
(***************************************************************************)
(* The steps                                                               *)
(***************************************************************************)
\* Nobody disturbs a request that is served alone.
LEMMA Calm ==
  ASSUME SessionInv, NEW r \in Requests, Serving(r), "overlap" \notin raced
  PROVE  /\ \A s \in Requests \ {r} : ~Serving(s)
         /\ told \subseteq Known(row) /\ Aged(row)
         /\ Looking(r) /\ Saving(r) /\ Answering(r)
  BY DEF SessionInv, InTurn

LEMMA Alone ==
  ASSUME SessionInv, NEW r \in Requests, raced' = raced \cup Overlap(r), "overlap" \notin raced'
  PROVE  /\ "overlap" \notin raced
         /\ \A s \in Requests \ {r} : ~Serving(s)
         /\ told \subseteq Known(row) /\ Aged(row)
  BY DEF SessionInv, InTurn, Overlap, Serving

LEMMA WorkOf ==
  ASSUME SessionInv, NEW r \in Requests
  PROVE  /\ work[r] \in Work /\ work[r].seen \in WorkingSet /\ work[r].next \in WorkingSet
         /\ work[r].cited \subseteq Memories /\ work[r].delta \in Delta
         /\ work[r].seen.known \in [Memories -> Nat] /\ work[r].next.known \in [Memories -> Nat]
         /\ work[r].seen.turn \in Nat /\ work[r].next.turn \in Nat
         /\ work[r].seen.cursor \in Nat /\ work[r].next.cursor \in Nat
         /\ work[r].next.turn <= served /\ work[r].next.cursor <= served
         /\ work[r].delta.new \subseteq Memories
  <1>1. work[r] \in Work
    BY DEF SessionInv, SessionTypeOK
  <1>2. work[r].seen \in WorkingSet /\ work[r].next \in WorkingSet
        /\ work[r].cited \subseteq Memories /\ work[r].delta \in Delta
    BY <1>1 DEF Work
  <1>3. work[r].next.turn <= served /\ work[r].next.cursor <= served
    BY DEF SessionInv, Within
  <1> QED
    BY <1>1, <1>2, <1>3, Numbers DEF Delta

LEMMA LoadStep ==
  ASSUME SessionInv, NEW r \in Requests, NEW cited \in SUBSET Memories, Load(r, cited)
  PROVE  SessionInv'
  <1> PICK q : q = [NoCall EXCEPT !.at = "look", !.cited = cited, !.seen = row]
    OBVIOUS
  <1>1. q \in Work /\ q.at = "look" /\ q.seen = row /\ q.next = Fresh
    BY NoCallIsOne, Typed DEF Work
  <1>2. Moves(r, q) /\ raced' = raced \cup Overlap(r) /\ work[r].at = "idle"
        /\ served' = served + 1 /\ served + begun < MaxBegun
        /\ UNCHANGED <<supersededBy, inactive, row, told, idle, packs, status, recorded,
                       checkpoints, begun, mishaps>>
    BY DEF Load, Moves, Goes, At, TheMemories, TheCheckpoints
  <1>3. SessionTypeOK'
    <2>1. work' \in [Requests -> Work]
      BY <1>1, <1>2, AfterMove, Typed
    <2>2. Overlap(r) \subseteq {"overlap"}
      BY DEF Overlap
    <2>3. served' \in 0 .. MaxBegun
      BY <1>2, Typed, Bounds
    <2> QED
      BY <1>2, <2>1, <2>2, <2>3 DEF SessionInv, SessionTypeOK
  <1>4. Within'
    <2>1. Pays(q) = 1 /\ Pays(work[r]) = 0 /\ Records(q) = 0 /\ Records(work[r]) = 0
      BY <1>1, <1>2 DEF Pays, Records
    <2>2. row.turn <= served /\ row.cursor <= served /\ served + begun <= MaxBegun
      BY DEF SessionInv, Within
    <2>3. served' \in Nat /\ served <= served' /\ served' + begun' <= MaxBegun
      <3>1. served \in Nat /\ begun \in Nat /\ MaxBegun \in Nat
        BY Typed, Bounds
      <3>2. served' = served + 1 /\ begun' = begun /\ served + begun < MaxBegun
        BY <1>2
      <3> QED
        BY ONLY <3>1, <3>2
    <2>4. /\ row.turn < served' /\ row.cursor < served' /\ row.turn <= served' /\ row.cursor <= served'
          /\ q.next.turn <= served' /\ q.next.cursor <= served'
      BY <1>1, <1>2, <2>2, Typed, FreshIsOne
    <2>5. /\ Len(packs') + Pays(q) + served <= Len(packs) + Pays(work[r]) + served'
          /\ recorded' + Records(q) + begun <= recorded + Records(work[r]) + begun'
      BY <1>2, <2>1, Typed
    <2> QED
      BY <1>1, <1>2, <2>3, <2>4, <2>5, Typed, WithinStep
  <1>5. InTurn'
    <2>1. ASSUME "overlap" \notin raced'
          PROVE  /\ \A s \in Requests \ {r} : ~Serving(s)
                 /\ told' \subseteq Known(row') /\ Aged(row)'
                 /\ Looking(r)' /\ Saving(r)' /\ Answering(r)'
      <3>1. /\ \A s \in Requests \ {r} : ~Serving(s)
            /\ told \subseteq Known(row) /\ Aged(row)
        BY <1>2, <2>1, Alone
      <3>2. work'[r] = q
        BY <1>1, <1>2, AfterMove, Typed
      <3>3. Looking(r)' /\ Saving(r)' /\ Answering(r)'
        BY <1>1, <1>2, <3>2 DEF Looking, Saving, Answering
      <3> QED
        BY <1>2, <3>1, <3>3 DEF Aged, Known
    <2> QED
      BY <1>1, <1>2, <2>1, TurnStep
  <1> QED
    BY <1>3, <1>4, <1>5 DEF SessionInv

LEMMA LookStep ==
  ASSUME SessionInv, NEW r \in Requests, NEW kept \in SUBSET Memories, Look(r, kept)
  PROVE  SessionInv'
  <1> PICK seen \in WorkingSet : seen = work[r].seen
    BY WorkOf
  <1> PICK next : next = [known |-> [m \in Memories |-> IF m \in kept THEN NextKnown(r)[m] ELSE 0],
                          turn |-> seen.turn + 1, cursor |-> seen.cursor + 1]
    OBVIOUS
  <1> PICK delta : delta = [new |-> New(r), evicted |-> Evicted(r), gone |-> Gone(r),
                            superseded |-> [m \in Memories |-> IF m \in Gone(r) THEN Replacement(r, m)
                                                               ELSE NoMemory]]
    OBVIOUS
  <1> PICK q : q = [work[r] EXCEPT !.at = "save", !.next = next, !.delta = delta]
    OBVIOUS
  <1>1. /\ Moves(r, q) /\ work[r].at = "look" /\ Newest(NextKnown(r), kept)
        /\ UNCHANGED <<supersededBy, inactive, row, told, idle, served, packs, status, recorded,
                       checkpoints, begun, raced, mishaps>>
    BY DEF Look, Moves, Goes, At, TheMemories, TheCheckpoints, TheDeltas
  <1>2. /\ seen.turn < served /\ seen.cursor < served /\ served \in 0 .. MaxBegun
        /\ seen.turn \in Nat /\ seen.cursor \in Nat /\ served \in Nat
    BY <1>1, Typed, Numbers DEF SessionInv, Within
  <1>3. /\ seen.turn + 1 \in Turns /\ seen.cursor + 1 \in Turns
        /\ seen.turn + 1 <= served /\ seen.cursor + 1 <= served
    BY <1>2, Bounds DEF Turns
  <1>4. NextKnown(r) \in [Memories -> Turns]
    <2>1. 0 \in Turns /\ seen.known \in [Memories -> Turns]
      BY Bounds, Numbers DEF Turns
    <2> QED
      BY <1>3, <2>1 DEF NextKnown
  <1>5. next \in WorkingSet /\ next.turn = seen.turn + 1 /\ next.cursor = seen.cursor + 1
    BY <1>3, <1>4, Bounds DEF WorkingSet, Turns
  <1>6. delta \in Delta
    <2>1. New(r) \subseteq Memories /\ Evicted(r) \subseteq Memories /\ Gone(r) \subseteq Memories
      BY WorkOf DEF New, Evicted, Gone, Known
    <2>2. \A m \in Memories : Replacement(r, m) \in Memories \cup {NoMemory}
      BY WorkOf DEF Replacement, Known
    <2> QED
      BY <2>1, <2>2 DEF Delta
  <1>7. /\ q \in Work /\ q.at = "save" /\ q.next = next /\ q.delta = delta /\ q.seen = seen
        /\ q.cited = work[r].cited
    BY <1>5, <1>6, WorkOf DEF Work
  <1>8. work' \in [Requests -> Work] /\ work'[r] = q
    BY <1>1, <1>7, AfterMove, Typed
  <1>9. SessionTypeOK'
    BY <1>1, <1>8 DEF SessionInv, SessionTypeOK
  <1>10. Within'
    <2>1. Pays(q) = 1 /\ Pays(work[r]) = 1 /\ Records(q) = 0 /\ Records(work[r]) = 0
      BY <1>1, <1>7 DEF Pays, Records
    <2>2. row.turn <= served /\ row.cursor <= served /\ served + begun <= MaxBegun
      BY DEF SessionInv, Within
    <2>3. /\ Len(packs') + Pays(q) + served <= Len(packs) + Pays(work[r]) + served'
          /\ recorded' + Records(q) + begun <= recorded + Records(work[r]) + begun'
      BY <1>1, <2>1, Typed
    <2>4. /\ served' \in Nat /\ begun' \in Nat /\ recorded' \in Nat /\ Len(packs') \in Nat
          /\ served <= served' /\ served' + begun' <= MaxBegun
          /\ row'.turn \in Nat /\ row'.cursor \in Nat
          /\ row'.turn <= served' /\ row'.cursor <= served'
          /\ q.next.turn <= served' /\ q.next.cursor <= served'
      BY <1>1, <1>3, <1>5, <1>7, <2>2, Typed
    <2> QED
      BY <1>1, <1>7, <2>3, <2>4, WithinStep
  <1>11. InTurn'
    <2>1. ASSUME "overlap" \notin raced'
          PROVE  /\ \A s \in Requests \ {r} : ~Serving(s)
                 /\ told' \subseteq Known(row') /\ Aged(row)'
                 /\ Looking(r)' /\ Saving(r)' /\ Answering(r)'
      <3>1. /\ \A s \in Requests \ {r} : ~Serving(s)
            /\ told \subseteq Known(row) /\ Aged(row) /\ seen = row
        BY <1>1, <2>1, Calm DEF Serving, Looking
      <3>2. Disjoint(r)'
        <4>1. New(r) \cap Known(row) = {}
          BY <3>1 DEF New
        <4> QED
          BY <1>1, <1>7, <1>8, <3>1, <4>1 DEF Disjoint
      <3>3. \A m \in delta.evicted : idle'[m] + 1 >= Ttl
        <4> SUFFICES ASSUME NEW m \in Evicted(r) PROVE idle[m] + 1 >= Ttl
          BY <1>1
        <4>1. m \in Known(row) /\ row.turn + 1 - row.known[m] >= Ttl
          BY <3>1 DEF Evicted
        <4>2. idle[m] >= row.turn - row.known[m] /\ m \in Memories
          BY <3>1, <4>1 DEF Aged, Known
        <4>3. idle[m] \in Nat /\ row.turn \in Nat /\ row.known[m] \in Nat
          BY <4>2, Typed
        <4> QED
          BY ONLY <4>1, <4>2, <4>3, Bounds
      <3>4. \A m \in Known(next) :
               IF m \in work[r].cited THEN next.known[m] = next.turn
               ELSE m \in Known(row) /\ next.known[m] = row.known[m]
        <4> SUFFICES ASSUME NEW m \in Known(next)
                     PROVE  IF m \in work[r].cited THEN next.known[m] = next.turn
                            ELSE m \in Known(row) /\ next.known[m] = row.known[m]
          OBVIOUS
        <4>1. m \in Memories /\ next.known[m] > 0 /\ next.known[m] = NextKnown(r)[m]
          BY DEF Known
        <4>2. CASE m \in work[r].cited
          BY <1>5, <4>1, <4>2 DEF NextKnown
        <4>3. CASE m \notin work[r].cited
          BY <3>1, <4>1, <4>3 DEF NextKnown, Known
        <4> QED
          BY <4>2, <4>3
      <3>5. Saving(r)'
        <4>1. next.cursor > 0 /\ next.turn = row.turn + 1
          BY <1>2, <1>5, <3>1
        <4> QED
          BY <1>1, <1>7, <1>8, <3>2, <3>3, <3>4, <4>1 DEF Saving, Known
      <3>6. Looking(r)' /\ Answering(r)'
        BY <1>7, <1>8 DEF Looking, Answering
      <3> QED
        BY <1>1, <3>1, <3>5, <3>6 DEF Aged, Known
    <2> QED
      BY <1>1, <1>7, <2>1, TurnStep
  <1> QED
    BY <1>9, <1>10, <1>11 DEF SessionInv

LEMMA SaveStep ==
  ASSUME SessionInv, NEW r \in Requests, Save(r)
  PROVE  SessionInv'
  <1> PICK next \in WorkingSet : next = work[r].next
    BY WorkOf
  <1> PICK q : q = [NoCall EXCEPT !.at = "pin", !.cited = work[r].cited, !.delta = work[r].delta,
                                  !.seen = next]
    OBVIOUS
  <1>1. /\ Moves(r, q) /\ work[r].at = "save" /\ row' = next /\ told' = told \cap Known(next)
        /\ idle' = [m \in Memories |-> IF m \in work[r].cited THEN 0 ELSE idle[m] + 1]
        /\ UNCHANGED <<supersededBy, inactive, served, packs, status, recorded,
                       checkpoints, begun, raced, mishaps>>
    BY DEF Save, Moves, Goes, At, TheMemories, TheCheckpoints
  <1>2. /\ q \in Work /\ q.at = "pin" /\ q.next = Fresh /\ q.delta = work[r].delta /\ q.seen = next
        /\ work[r].at # "idle"
    BY <1>1, NoCallIsOne, WorkOf DEF Work
  <1>3. work' \in [Requests -> Work] /\ work'[r] = q
    BY <1>1, <1>2, AfterMove, Typed
  <1>4. idle' \in [Memories -> Nat]
    BY <1>1, Typed
  <1>5. SessionTypeOK'
    BY <1>1, <1>3, <1>4 DEF SessionInv, SessionTypeOK
  <1>6. Within'
    <2>1. Pays(q) = 1 /\ Pays(work[r]) = 1 /\ Records(q) = 0 /\ Records(work[r]) = 0
      BY <1>1, <1>2 DEF Pays, Records
    <2>2. served + begun <= MaxBegun
      BY DEF SessionInv, Within
    <2>3. /\ Len(packs') + Pays(q) + served <= Len(packs) + Pays(work[r]) + served'
          /\ recorded' + Records(q) + begun <= recorded + Records(work[r]) + begun'
      BY <1>1, <2>1, Typed
    <2>4. /\ served' \in Nat /\ begun' \in Nat /\ recorded' \in Nat /\ Len(packs') \in Nat
          /\ served <= served' /\ served' + begun' <= MaxBegun
          /\ row'.turn \in Nat /\ row'.cursor \in Nat
          /\ row'.turn <= served' /\ row'.cursor <= served'
          /\ q.next.turn <= served' /\ q.next.cursor <= served'
      BY <1>1, <1>2, <2>2, Typed, WorkOf, FreshIsOne
    <2> QED
      BY <1>1, <1>2, <2>3, <2>4, WithinStep
  <1>7. InTurn'
    <2>1. ASSUME "overlap" \notin raced'
          PROVE  /\ \A s \in Requests \ {r} : ~Serving(s)
                 /\ told' \subseteq Known(row') /\ Aged(row)'
                 /\ Looking(r)' /\ Saving(r)' /\ Answering(r)'
      <3>1. /\ \A s \in Requests \ {r} : ~Serving(s)
            /\ Aged(row) /\ Saving(r)
        BY <1>1, <2>1, Calm DEF Serving
      <3>2. Aged(row)'
        <4> SUFFICES ASSUME NEW m \in Known(next) PROVE idle'[m] >= next.turn - next.known[m]
          BY <1>1 DEF Aged, Known
        <4>1. /\ next.turn = row.turn + 1
              /\ IF m \in work[r].cited THEN next.known[m] = next.turn
                 ELSE m \in Known(row) /\ next.known[m] = row.known[m]
          BY <1>1, <3>1 DEF Saving
        <4>2. m \in Memories /\ idle[m] \in Nat /\ row.turn \in Nat /\ row.known[m] \in Nat
          BY Typed DEF Known
        <4>3. CASE m \in work[r].cited
          BY <1>1, <4>1, <4>2, <4>3
        <4>4. CASE m \notin work[r].cited
          <5>1. idle[m] >= row.turn - row.known[m]
            BY <3>1, <4>1, <4>4 DEF Aged
          <5>2. idle'[m] = idle[m] + 1 /\ next.turn = row.turn + 1 /\ next.known[m] = row.known[m]
            BY <1>1, <4>1, <4>2, <4>4
          <5> QED
            BY ONLY <4>2, <5>1, <5>2
        <4> QED
          BY <4>3, <4>4
      <3>3. Answering(r)'
        <4>1. Disjoint(r)'
          BY <1>1, <1>2, <1>3, <3>1 DEF Saving, Disjoint
        <4> QED
          BY <1>1, <1>2, <1>3, <4>1 DEF Answering, Known
      <3> QED
        BY <1>1, <1>2, <1>3, <3>1, <3>2, <3>3 DEF Looking, Saving
    <2> QED
      BY <1>1, <1>2, <2>1, TurnStep
  <1> QED
    BY <1>5, <1>6, <1>7 DEF SessionInv

LEMMA NoWorkingMemoryStep ==
  ASSUME SessionInv, NEW r \in Requests, NoWorkingMemory(r)
  PROVE  SessionInv'
  <1> PICK q : q = [NoCall EXCEPT !.at = "pin", !.cited = work[r].cited]
    OBVIOUS
  <1>1. /\ Moves(r, q) /\ work[r].at \in {"look", "save"} /\ mishaps < MaxMishaps
        /\ mishaps' = mishaps + 1
        /\ UNCHANGED <<supersededBy, inactive, row, told, idle, served, packs, status, recorded,
                       checkpoints, begun, raced>>
    BY DEF NoWorkingMemory, Moves, Goes, TheMemories, TheCheckpoints, TheDeltas
  <1>2. q \in Work /\ q.at = "pin" /\ q.next = Fresh /\ q.delta = NoDelta /\ q.seen = Fresh
    BY <1>1, NoCallIsOne, WorkOf DEF Work
  <1>3. work' \in [Requests -> Work] /\ work'[r] = q
    BY <1>1, <1>2, AfterMove, Typed
  <1>4. SessionTypeOK'
    <2>1. mishaps' \in 0 .. MaxMishaps
      BY <1>1, Bounds DEF SessionInv, SessionTypeOK
    <2> QED
      BY <1>1, <1>3, <2>1 DEF SessionInv, SessionTypeOK
  <1>5. Within'
    <2>1. Pays(q) = 1 /\ Pays(work[r]) = 1 /\ Records(q) = 0 /\ Records(work[r]) = 0
      BY <1>1, <1>2 DEF Pays, Records
    <2>2. served + begun <= MaxBegun /\ row.turn <= served /\ row.cursor <= served
      BY DEF SessionInv, Within
    <2>3. /\ Len(packs') + Pays(q) + served <= Len(packs) + Pays(work[r]) + served'
          /\ recorded' + Records(q) + begun <= recorded + Records(work[r]) + begun'
      BY <1>1, <2>1, Typed
    <2>4. /\ served' \in Nat /\ begun' \in Nat /\ recorded' \in Nat /\ Len(packs') \in Nat
          /\ served <= served' /\ served' + begun' <= MaxBegun
          /\ row'.turn \in Nat /\ row'.cursor \in Nat
          /\ row'.turn <= served' /\ row'.cursor <= served'
          /\ q.next.turn <= served' /\ q.next.cursor <= served'
      BY <1>1, <1>2, <2>2, Typed, FreshIsOne
    <2> QED
      BY <1>1, <1>2, <2>3, <2>4, WithinStep
  <1>6. InTurn'
    <2>1. ASSUME "overlap" \notin raced'
          PROVE  /\ \A s \in Requests \ {r} : ~Serving(s)
                 /\ told' \subseteq Known(row') /\ Aged(row)'
                 /\ Looking(r)' /\ Saving(r)' /\ Answering(r)'
      <3>1. \A s \in Requests \ {r} : ~Serving(s)
        BY <1>1, <2>1, Calm DEF Serving
      <3>2. told \subseteq Known(row) /\ Aged(row)
        BY <1>1, <2>1, Calm DEF Serving
      <3>3. Answering(r)'
        <4>1. NoDelta.new = {} /\ Known(Fresh) = {}
          BY FreshIsOne DEF NoDelta
        <4> QED
          BY <1>2, <1>3, <4>1 DEF Answering, Disjoint, Known
      <3> QED
        BY <1>1, <1>2, <1>3, <3>1, <3>2, <3>3 DEF Looking, Saving, Aged, Known
    <2> QED
      BY <1>1, <1>2, <2>1, TurnStep
  <1> QED
    BY <1>4, <1>5, <1>6 DEF SessionInv

LEMMA PinStep ==
  ASSUME SessionInv, NEW r \in Requests, NEW again \in BOOLEAN, Pin(r, again)
  PROVE  SessionInv'
  <1> PICK q : q = [work[r] EXCEPT !.at = "answer", !.cited = {}]
    OBVIOUS
  <1>1. /\ Moves(r, q) /\ work[r].at = "pin"
        /\ packs' = packs \/ packs' = Append(packs, work[r].cited)
        /\ UNCHANGED <<supersededBy, inactive, row, told, idle, served, status, recorded,
                       checkpoints, begun, raced, mishaps>>
    BY DEF Pin, Moves, Goes, At, TheMemories, TheCheckpoints, TheDeltas
  <1>2. /\ q \in Work /\ q.at = "answer" /\ q.next = work[r].next /\ q.delta = work[r].delta
        /\ q.seen = work[r].seen
    BY <1>1, WorkOf DEF Work
  <1>3. work' \in [Requests -> Work] /\ work'[r] = q
    BY <1>1, <1>2, AfterMove, Typed
  <1>4. packs' \in Seq(SUBSET Memories) /\ Len(packs') \in Nat /\ Len(packs') <= Len(packs) + 1
    <2>1. packs \in Seq(SUBSET Memories) /\ work[r].cited \in SUBSET Memories /\ Len(packs) \in Nat
      BY Typed, WorkOf
    <2>2. CASE packs' = packs
      BY <2>1, <2>2
    <2>3. CASE packs' = Append(packs, work[r].cited)
      <3>1. packs' \in Seq(SUBSET Memories) /\ Len(packs') = Len(packs) + 1
        BY ONLY <2>1, <2>3, AppendProperties
      <3> QED
        BY <2>1, <3>1
    <2> QED
      BY <1>1, <2>2, <2>3
  <1>5. SessionTypeOK'
    BY <1>1, <1>3, <1>4 DEF SessionInv, SessionTypeOK
  <1>6. Within'
    <2>1. Pays(q) = 0 /\ Pays(work[r]) = 1 /\ Records(q) = 0 /\ Records(work[r]) = 0
      BY <1>1, <1>2 DEF Pays, Records
    <2>2. served + begun <= MaxBegun /\ row.turn <= served /\ row.cursor <= served
      BY DEF SessionInv, Within
    <2>3. /\ Len(packs') + Pays(q) + served <= Len(packs) + Pays(work[r]) + served'
          /\ recorded' + Records(q) + begun <= recorded + Records(work[r]) + begun'
      BY <1>1, <1>4, <2>1, Typed
    <2>4. /\ served' \in Nat /\ begun' \in Nat /\ recorded' \in Nat /\ Len(packs') \in Nat
          /\ served <= served' /\ served' + begun' <= MaxBegun
          /\ row'.turn \in Nat /\ row'.cursor \in Nat
          /\ row'.turn <= served' /\ row'.cursor <= served'
          /\ q.next.turn <= served' /\ q.next.cursor <= served'
      BY <1>1, <1>2, <1>4, <2>2, Typed, WorkOf
    <2> QED
      BY <1>1, <1>2, <2>3, <2>4, WithinStep
  <1>7. InTurn'
    <2>1. ASSUME "overlap" \notin raced'
          PROVE  /\ \A s \in Requests \ {r} : ~Serving(s)
                 /\ told' \subseteq Known(row') /\ Aged(row)'
                 /\ Looking(r)' /\ Saving(r)' /\ Answering(r)'
      <3>1. /\ \A s \in Requests \ {r} : ~Serving(s)
            /\ told \subseteq Known(row) /\ Aged(row) /\ Answering(r)
        BY <1>1, <2>1, Calm DEF Serving
      <3> QED
        BY <1>1, <1>2, <1>3, <3>1 DEF Looking, Saving, Answering, Disjoint, Aged, Known
    <2> QED
      BY <1>1, <1>2, <2>1, TurnStep
  <1> QED
    BY <1>5, <1>6, <1>7 DEF SessionInv

-----------------------------------------------------------------------------
LEMMA Least ==
    ASSUME NEW S \in SUBSET Nat, S # {}
    PROVE  \E n \in S : \A k \in S : n <= k
  <1>1. PICK n \in S : \A k \in S : ~ (<<k, n>> \in OpToRel(<, Nat))
    BY NatLessThanWellFounded, WFMin
  <1>2. \A k \in S : ~ (k < n)
    BY <1>1 DEF OpToRel
  <1>3. QED
    BY <1>2

LEMMA Greatest ==
    ASSUME NEW S \in SUBSET Nat, S # {}, NEW b \in Nat, \A k \in S : k <= b
    PROVE  \E n \in S : \A k \in S : n >= k
  <1> DEFINE T == {n \in Nat : \A k \in S : k <= n}
  <1>1. PICK m \in T : \A k \in T : m <= k
    BY Least
  <1>2. m \in S
    <2> SUFFICES ASSUME m \notin S PROVE FALSE
      OBVIOUS
    <2>1. m \in Nat /\ \A k \in S : k \in Nat /\ k < m
      BY <1>1
    <2>2. m > 0
      <3>1. PICK x \in S : TRUE
        OBVIOUS
      <3>2. QED
        BY <2>1, <3>1
    <2>3. m - 1 \in Nat /\ \A k \in S : k <= m - 1
      <3> HIDE DEF T
      <3>1. m - 1 \in Nat
        BY <2>1, <2>2
      <3>2. ASSUME NEW k \in S PROVE k <= m - 1
        BY <2>1
      <3>3. QED
        BY <3>1, <3>2
    <2>4. m - 1 \in T
      BY <2>3
    <2>5. QED
      BY <1>1, <2>1, <2>4
  <1>3. QED
    BY <1>1, <1>2

LEMMA AnswerStep ==
  ASSUME SessionInv, NEW r \in Requests, Answer(r)
  PROVE  SessionInv'
  <1> PICK q : q = NoCall
    OBVIOUS
  <1>1. /\ Moves(r, q) /\ work[r].at \in {"pin", "answer"}
        /\ told' = told \cup (work[r].delta.new \cap Known(work[r].seen))
        /\ UNCHANGED <<supersededBy, inactive, row, idle, served, packs, status, recorded,
                       checkpoints, begun, raced, mishaps>>
    BY DEF Answer, Moves, Goes, TheMemories, TheCheckpoints
  <1>2. q \in Work /\ q.at = "idle" /\ q.next = Fresh
    BY NoCallIsOne
  <1>3. work' \in [Requests -> Work] /\ work'[r] = q
    BY <1>1, <1>2, AfterMove, Typed
  <1>4. told' \subseteq Memories
    BY <1>1, Typed, WorkOf
  <1>5. SessionTypeOK'
    BY <1>1, <1>3, <1>4 DEF SessionInv, SessionTypeOK
  <1>6. Within'
    <2>1. /\ Pays(q) = 0 /\ Pays(work[r]) \in {0, 1}
          /\ Records(q) = 0 /\ Records(work[r]) = 0
      BY <1>1, <1>2 DEF Pays, Records
    <2>2. served + begun <= MaxBegun /\ row.turn <= served /\ row.cursor <= served
      BY DEF SessionInv, Within
    <2>3. /\ Len(packs') + Pays(q) + served <= Len(packs) + Pays(work[r]) + served'
          /\ recorded' + Records(q) + begun <= recorded + Records(work[r]) + begun'
      BY <1>1, <2>1, Typed
    <2>4. /\ served' \in Nat /\ begun' \in Nat /\ recorded' \in Nat /\ Len(packs') \in Nat
          /\ served <= served' /\ served' + begun' <= MaxBegun
          /\ row'.turn \in Nat /\ row'.cursor \in Nat
          /\ row'.turn <= served' /\ row'.cursor <= served'
          /\ q.next.turn <= served' /\ q.next.cursor <= served'
      BY <1>1, <1>2, <2>2, Typed, FreshIsOne
    <2> QED
      BY <1>1, <1>2, <2>3, <2>4, WithinStep
  <1>7. InTurn'
    <2>1. ASSUME "overlap" \notin raced'
          PROVE  /\ \A s \in Requests \ {r} : ~Serving(s)
                 /\ told' \subseteq Known(row') /\ Aged(row)'
                 /\ Looking(r)' /\ Saving(r)' /\ Answering(r)'
      <3>1. /\ \A s \in Requests \ {r} : ~Serving(s)
            /\ told \subseteq Known(row) /\ Aged(row) /\ Answering(r)
        BY <1>1, <2>1, Calm DEF Serving
      <3>2. told' \subseteq Known(row)
        BY <1>1, <3>1 DEF Answering
      <3> QED
        BY <1>1, <1>2, <1>3, <3>1, <3>2 DEF Looking, Saving, Answering, Aged, Known
    <2> QED
      BY <1>1, <1>2, <2>1, TurnStep
  <1> QED
    BY <1>5, <1>6, <1>7 DEF SessionInv

\* What the replayed packs make of a memory: 0, or a turn of theirs.
LEMMA Replayed ==
  ASSUME SessionInv, NEW left \in Nat, left <= Len(packs), NEW m \in Memories,
         NEW S, S = {i \in left + 1 .. Len(packs) : m \in packs[i]}
  PROVE  (IF S = {} THEN 0 ELSE Max(S) - left) \in 0 .. (Len(packs) - left)
  <1> PICK n \in Nat : n = Len(packs)
    BY Typed
  <1>1. n - left \in Nat /\ left <= n /\ S \subseteq left + 1 .. n
    OBVIOUS
  <1>2. CASE S = {}
    BY <1>1, <1>2
  <1>3. CASE S # {}
    <2>1. S \in SUBSET Nat /\ \A k \in S : k <= n
      BY <1>1
    <2>2. \E x \in S : \A y \in S : x >= y
      BY ONLY <1>3, <2>1, n \in Nat, Greatest
    <2>3. Max(S) \in S
      BY <2>2 DEF Max
    <2> PICK x \in S : x = Max(S)
      BY <2>3
    <2>4. x \in left + 1 .. n
      BY <1>1
    <2>5. x - left \in 0 .. (n - left)
      BY ONLY <1>1, <2>4, left \in Nat, n \in Nat
    <2> QED
      BY <1>3, <2>5
  <1> QED
    BY <1>2, <1>3

LEMMA RehydrateStep ==
  ASSUME SessionInv, NEW r \in Requests, Rehydrate(r)
  PROVE  SessionInv'
  <1> PICK left : left = IF Len(packs) > ReplayCap THEN Len(packs) - ReplayCap ELSE 0
    OBVIOUS
  <1> PICK known : known = [m \in Memories |->
                              IF {i \in left + 1 .. Len(packs) : m \in packs[i]} = {} THEN 0
                              ELSE Max({i \in left + 1 .. Len(packs) : m \in packs[i]}) - left]
    OBVIOUS
  <1> PICK next : next = [known |-> known, turn |-> Len(packs) - left, cursor |-> 0]
    OBVIOUS
  <1> PICK q : q = [NoCall EXCEPT !.at = "rehydrate", !.next = next]
    OBVIOUS
  <1>1. /\ Moves(r, q) /\ work[r].at = "idle" /\ raced' = raced \cup Overlap(r)
        /\ UNCHANGED <<supersededBy, inactive, row, told, idle, served, packs, status, recorded,
                       checkpoints, begun, mishaps>>
    BY DEF Rehydrate, Moves, Goes, At, TheMemories, TheCheckpoints, TheDeltas
  <1>2. left \in Nat /\ left <= Len(packs) /\ Len(packs) \in Nat
    <2>1. Len(packs) \in Nat
      BY Typed
    <2> QED
      BY <2>1, Bounds
  <1>3. Len(packs) <= served /\ served \in 0 .. MaxBegun /\ served \in Nat
    BY <1>2, Typed DEF SessionInv, Within
  <1>4. Len(packs) - left \in Nat /\ Len(packs) - left <= served /\ Len(packs) - left \in Turns
    BY <1>2, <1>3, Bounds DEF Turns
  <1>5. \A m \in Memories : known[m] \in 0 .. (Len(packs) - left)
    BY <1>2, Replayed
  <1>6. known \in [Memories -> Turns] /\ \A m \in Memories : known[m] <= Len(packs) - left
    <2> PICK k \in Nat : k = Len(packs) - left
      BY <1>4
    <2>1. k \in 0 .. MaxBegun /\ \A m \in Memories : known[m] \in 0 .. k
      BY <1>4, <1>5 DEF Turns
    <2>2. 0 .. k \subseteq 0 .. MaxBegun /\ \A i \in 0 .. k : i <= k
      BY ONLY <2>1, k \in Nat, Bounds
    <2>3. \A m \in Memories : known[m] \in Turns /\ known[m] <= Len(packs) - left
      BY <2>1, <2>2 DEF Turns
    <2> QED
      BY <2>3
  <1>7. next \in WorkingSet /\ next.turn <= served /\ next.cursor = 0
        /\ next.turn = Len(packs) - left /\ next.known = known
    <2>1. 0 \in Turns
      BY Bounds DEF Turns
    <2>2. next.turn = Len(packs) - left /\ next.known = known /\ next.cursor = 0
      OBVIOUS
    <2>3. next \in WorkingSet
      BY <1>4, <1>6, <2>1 DEF WorkingSet
    <2> QED
      BY <1>4, <2>2, <2>3
  <1>8. q \in Work /\ q.at = "rehydrate" /\ q.next = next
    BY <1>7, NoCallIsOne DEF Work
  <1>9. work' \in [Requests -> Work] /\ work'[r] = q
    BY <1>1, <1>8, AfterMove, Typed
  <1>10. SessionTypeOK'
    <2>1. Overlap(r) \subseteq {"overlap"}
      BY DEF Overlap
    <2> QED
      BY <1>1, <1>9, <2>1 DEF SessionInv, SessionTypeOK
  <1>11. Within'
    <2>1. Pays(q) = 0 /\ Pays(work[r]) = 0 /\ Records(q) = 0 /\ Records(work[r]) = 0
      BY <1>1, <1>8 DEF Pays, Records
    <2>2. served + begun <= MaxBegun /\ row.turn <= served /\ row.cursor <= served
      BY DEF SessionInv, Within
    <2>3. /\ Len(packs') + Pays(q) + served <= Len(packs) + Pays(work[r]) + served'
          /\ recorded' + Records(q) + begun <= recorded + Records(work[r]) + begun'
      BY <1>1, <2>1, Typed
    <2>4. /\ served' \in Nat /\ begun' \in Nat /\ recorded' \in Nat /\ Len(packs') \in Nat
          /\ served <= served' /\ served' + begun' <= MaxBegun
          /\ row'.turn \in Nat /\ row'.cursor \in Nat
          /\ row'.turn <= served' /\ row'.cursor <= served'
          /\ q.next.turn <= served' /\ q.next.cursor <= served'
      BY <1>1, <1>7, <1>8, <2>2, Typed
    <2>5. \A m \in Memories : q.next.known[m] <= q.next.turn
      BY <1>6, <1>7, <1>8
    <2> QED
      BY <1>1, <1>8, <2>3, <2>4, <2>5, WithinStep
  <1>12. InTurn'
    <2>1. ASSUME "overlap" \notin raced'
          PROVE  /\ \A s \in Requests \ {r} : ~Serving(s)
                 /\ told' \subseteq Known(row') /\ Aged(row)'
                 /\ Looking(r)' /\ Saving(r)' /\ Answering(r)'
      <3>1. /\ \A s \in Requests \ {r} : ~Serving(s)
            /\ told \subseteq Known(row) /\ Aged(row)
        BY <1>1, <2>1, Alone
      <3> QED
        BY <1>1, <1>8, <1>9, <3>1 DEF Looking, Saving, Answering, Aged, Known
    <2> QED
      BY <1>1, <1>8, <2>1, TurnStep
  <1> QED
    BY <1>10, <1>11, <1>12 DEF SessionInv

LEMMA ResumeLoadStep ==
  ASSUME SessionInv, NEW r \in Requests, ResumeLoad(r)
  PROVE  SessionInv'
  <1> PICK q : q = IF row.cursor = 0 /\ Known(work[r].next) # {}
                   THEN [work[r] EXCEPT !.at = "seed", !.seen = row] ELSE NoCall
    OBVIOUS
  <1>1. /\ Moves(r, q) /\ work[r].at = "rehydrate"
        /\ UNCHANGED <<supersededBy, inactive, row, told, idle, served, packs, status, recorded,
                       checkpoints, begun, raced, mishaps>>
    BY DEF ResumeLoad, Moves, Goes, At, TheMemories, TheCheckpoints, TheDeltas
  <1>2. q \in Work /\ (\/ q.at = "seed" /\ q.next = work[r].next
                       \/ q.at = "idle" /\ q.next = Fresh)
    <2>1. CASE row.cursor = 0 /\ Known(work[r].next) # {}
      BY <2>1, Typed, WorkOf DEF Work
    <2>2. CASE ~(row.cursor = 0 /\ Known(work[r].next) # {})
      BY <2>2, NoCallIsOne
    <2> QED
      BY <2>1, <2>2
  <1>3. work' \in [Requests -> Work] /\ work'[r] = q
    BY <1>1, <1>2, AfterMove, Typed
  <1>4. SessionTypeOK'
    BY <1>1, <1>3 DEF SessionInv, SessionTypeOK
  <1>5. Within'
    <2>1. Pays(q) = 0 /\ Pays(work[r]) = 0 /\ Records(q) = 0 /\ Records(work[r]) = 0
      BY <1>1, <1>2 DEF Pays, Records
    <2>2. served + begun <= MaxBegun /\ row.turn <= served /\ row.cursor <= served
      BY DEF SessionInv, Within
    <2>3. /\ Len(packs') + Pays(q) + served <= Len(packs) + Pays(work[r]) + served'
          /\ recorded' + Records(q) + begun <= recorded + Records(work[r]) + begun'
      BY <1>1, <2>1, Typed
    <2>4. /\ served' \in Nat /\ begun' \in Nat /\ recorded' \in Nat /\ Len(packs') \in Nat
          /\ served <= served' /\ served' + begun' <= MaxBegun
          /\ row'.turn \in Nat /\ row'.cursor \in Nat
          /\ row'.turn <= served' /\ row'.cursor <= served'
      BY <1>1, <2>2, Typed
    <2>5. q.next.turn <= served' /\ q.next.cursor <= served'
      BY <1>1, <1>2, WorkOf, FreshIsOne, Typed
    <2>6. q.at \in {"rehydrate", "seed"} => \A m \in Memories : q.next.known[m] <= q.next.turn
      BY <1>1, <1>2 DEF SessionInv, Within
    <2> QED
      BY <1>1, <1>2, <2>3, <2>4, <2>5, <2>6, WithinStep
  <1>6. InTurn'
    <2>1. ASSUME "overlap" \notin raced'
          PROVE  /\ \A s \in Requests \ {r} : ~Serving(s)
                 /\ told' \subseteq Known(row') /\ Aged(row)'
                 /\ Looking(r)' /\ Saving(r)' /\ Answering(r)'
      <3>1. /\ \A s \in Requests \ {r} : ~Serving(s)
            /\ told \subseteq Known(row) /\ Aged(row)
        BY <1>1, <2>1, Calm DEF Serving
      <3> QED
        BY <1>1, <1>2, <1>3, <3>1 DEF Looking, Saving, Answering, Aged, Known
    <2> QED
      BY <1>1, <1>2, <2>1, TurnStep
  <1> QED
    BY <1>4, <1>5, <1>6 DEF SessionInv

LEMMA ResumeSeedStep ==
  ASSUME SessionInv, NEW r \in Requests, ResumeSeed(r)
  PROVE  SessionInv'
  <1> PICK next \in WorkingSet : next = work[r].next
    BY WorkOf
  <1> PICK q : q = NoCall
    OBVIOUS
  <1>1. /\ Moves(r, q) /\ work[r].at = "seed" /\ row' = next /\ told' = Known(next)
        /\ idle' = [m \in Memories |-> IF m \in Known(next) THEN next.turn - next.known[m]
                                       ELSE idle[m]]
        /\ UNCHANGED <<supersededBy, inactive, served, packs, status, recorded,
                       checkpoints, begun, raced, mishaps>>
    BY DEF ResumeSeed, Moves, Goes, At, TheMemories, TheCheckpoints
  <1>2. q \in Work /\ q.at = "idle" /\ q.next = Fresh
    BY NoCallIsOne
  <1>3. work' \in [Requests -> Work] /\ work'[r] = q
    BY <1>1, <1>2, AfterMove, Typed
  <1>4. idle' \in [Memories -> Nat]
    <2>1. \A m \in Memories : next.known[m] <= next.turn /\ next.known[m] \in Nat /\ next.turn \in Nat
      BY <1>1, Numbers DEF SessionInv, Within
    <2>2. \A m \in Memories : next.turn - next.known[m] \in Nat /\ idle[m] \in Nat
      BY <2>1, Typed
    <2> QED
      BY <1>1, <2>2
  <1>5. SessionTypeOK'
    <2>1. told' \subseteq Memories
      BY <1>1 DEF Known
    <2> QED
      BY <1>1, <1>3, <1>4, <2>1 DEF SessionInv, SessionTypeOK
  <1>6. Within'
    <2>1. Pays(q) = 0 /\ Pays(work[r]) = 0 /\ Records(q) = 0 /\ Records(work[r]) = 0
      BY <1>1, <1>2 DEF Pays, Records
    <2>2. served + begun <= MaxBegun
      BY DEF SessionInv, Within
    <2>3. /\ Len(packs') + Pays(q) + served <= Len(packs) + Pays(work[r]) + served'
          /\ recorded' + Records(q) + begun <= recorded + Records(work[r]) + begun'
      BY <1>1, <2>1, Typed
    <2>4. /\ served' \in Nat /\ begun' \in Nat /\ recorded' \in Nat /\ Len(packs') \in Nat
          /\ served <= served' /\ served' + begun' <= MaxBegun
          /\ row'.turn \in Nat /\ row'.cursor \in Nat
          /\ row'.turn <= served' /\ row'.cursor <= served'
          /\ q.next.turn <= served' /\ q.next.cursor <= served'
      BY <1>1, <1>2, <2>2, Typed, WorkOf, FreshIsOne
    <2> QED
      BY <1>1, <1>2, <2>3, <2>4, WithinStep
  <1>7. InTurn'
    <2>1. ASSUME "overlap" \notin raced'
          PROVE  /\ \A s \in Requests \ {r} : ~Serving(s)
                 /\ told' \subseteq Known(row') /\ Aged(row)'
                 /\ Looking(r)' /\ Saving(r)' /\ Answering(r)'
      <3>1. \A s \in Requests \ {r} : ~Serving(s)
        BY <1>1, <2>1, Calm DEF Serving
      <3>2. Aged(row)'
        <4> SUFFICES ASSUME NEW m \in Known(next) PROVE idle'[m] >= next.turn - next.known[m]
          BY <1>1 DEF Aged, Known
        <4>1. m \in Memories /\ next.turn \in Nat /\ next.known[m] \in Nat
          BY Numbers DEF Known
        <4>2. idle'[m] = next.turn - next.known[m]
          BY <1>1, <4>1
        <4> QED
          BY <4>1, <4>2
      <3> QED
        BY <1>1, <1>2, <1>3, <3>1, <3>2 DEF Looking, Saving, Answering, Known
    <2> QED
      BY <1>1, <1>2, <2>1, TurnStep
  <1> QED
    BY <1>5, <1>6, <1>7 DEF SessionInv

LEMMA CheckpointReadStep ==
  ASSUME SessionInv, NEW r \in Requests, CheckpointRead(r)
  PROVE  SessionInv'
  <1> PICK q : q = [NoCall EXCEPT !.at = "check.save", !.index = recorded + 1, !.content = begun + 1]
    OBVIOUS
  <1>1. /\ Moves(r, q) /\ work[r].at = "idle" /\ begun' = begun + 1 /\ served + begun < MaxBegun
        /\ UNCHANGED <<supersededBy, inactive, row, told, idle, served, packs, status, recorded,
                       checkpoints, raced, mishaps>>
    BY DEF CheckpointRead, Moves, Goes, At, TheMemories, TheDeltas
  <1>2. /\ recorded \in Nat /\ begun \in Nat /\ served \in Nat /\ recorded <= begun
        /\ served + begun <= MaxBegun
    BY Typed DEF SessionInv, Within
  <1>3. recorded + 1 \in 1 .. MaxBegun /\ begun + 1 \in 0 .. MaxBegun
        /\ recorded + 1 \in 0 .. MaxBegun + 1
    BY <1>1, <1>2, Bounds
  <1>4. q \in Work /\ q.at = "check.save" /\ q.next = Fresh /\ q.index = recorded + 1
    BY <1>3, NoCallIsOne DEF Work
  <1>5. work' \in [Requests -> Work] /\ work'[r] = q
    BY <1>1, <1>4, AfterMove, Typed
  <1>6. SessionTypeOK'
    BY <1>1, <1>3, <1>5 DEF SessionInv, SessionTypeOK
  <1>7. Within'
    <2>1. Pays(q) = 0 /\ Pays(work[r]) = 0 /\ Records(q) = 1 /\ Records(work[r]) = 0
      BY <1>1, <1>4 DEF Pays, Records
    <2>2. row.turn <= served /\ row.cursor <= served
      BY DEF SessionInv, Within
    <2>3. /\ Len(packs') + Pays(q) + served <= Len(packs) + Pays(work[r]) + served'
          /\ recorded' + Records(q) + begun <= recorded + Records(work[r]) + begun'
      BY <1>1, <2>1, Typed
    <2>4. /\ served' \in Nat /\ begun' \in Nat /\ recorded' \in Nat /\ Len(packs') \in Nat
          /\ served <= served' /\ served' + begun' <= MaxBegun
          /\ row'.turn \in Nat /\ row'.cursor \in Nat
          /\ row'.turn <= served' /\ row'.cursor <= served'
          /\ q.next.turn <= served' /\ q.next.cursor <= served'
      <3>1. served + (begun + 1) <= MaxBegun /\ begun + 1 \in Nat
        BY <1>1, <1>2, Bounds
      <3>2. Fresh.turn <= served /\ Fresh.cursor <= served
        BY <1>2, FreshIsOne
      <3> QED
        BY <1>1, <1>2, <1>4, <2>2, <3>1, <3>2, Typed
    <2> QED
      BY <1>1, <1>3, <1>4, <2>3, <2>4, WithinStep
  <1>8. InTurn'
    BY <1>1, <1>4, AsideStep
  <1> QED
    BY <1>6, <1>7, <1>8 DEF SessionInv

LEMMA CheckpointSaveStep ==
  ASSUME SessionInv, NEW r \in Requests, CheckpointSave(r)
  PROVE  SessionInv'
  <1> PICK q : q = [work[r] EXCEPT !.at = "check.record"]
    OBVIOUS
  <1>1. /\ Moves(r, q) /\ work[r].at = "check.save"
        /\ checkpoints' = [checkpoints EXCEPT ![work[r].index] = work[r].content]
        /\ UNCHANGED <<supersededBy, inactive, row, told, idle, served, packs, status, recorded,
                       begun, raced, mishaps>>
    BY DEF CheckpointSave, Moves, Goes, Then, At, TheMemories, TheDeltas
  <1>2. q \in Work /\ q.at = "check.record" /\ q.next = work[r].next
        /\ work[r].content \in 0 .. MaxBegun
    BY <1>1, WorkOf DEF Work
  <1>3. work' \in [Requests -> Work] /\ work'[r] = q
    BY <1>1, <1>2, AfterMove, Typed
  <1>4. SessionTypeOK'
    <2>1. checkpoints' \in [1 .. MaxBegun -> 0 .. MaxBegun]
      BY <1>1, <1>2 DEF SessionInv, SessionTypeOK
    <2> QED
      BY <1>1, <1>3, <2>1 DEF SessionInv, SessionTypeOK
  <1>5. Within'
    <2>1. Pays(q) = 0 /\ Pays(work[r]) = 0 /\ Records(q) = 1 /\ Records(work[r]) = 1
      BY <1>1, <1>2 DEF Pays, Records
    <2>2. served + begun <= MaxBegun /\ row.turn <= served /\ row.cursor <= served
      BY DEF SessionInv, Within
    <2>3. /\ Len(packs') + Pays(q) + served <= Len(packs) + Pays(work[r]) + served'
          /\ recorded' + Records(q) + begun <= recorded + Records(work[r]) + begun'
      BY <1>1, <2>1, Typed
    <2>4. /\ served' \in Nat /\ begun' \in Nat /\ recorded' \in Nat /\ Len(packs') \in Nat
          /\ served <= served' /\ served' + begun' <= MaxBegun
          /\ row'.turn \in Nat /\ row'.cursor \in Nat
          /\ row'.turn <= served' /\ row'.cursor <= served'
          /\ q.next.turn <= served' /\ q.next.cursor <= served'
      BY <1>1, <1>2, <2>2, Typed, WorkOf
    <2> QED
      BY <1>1, <1>2, <2>3, <2>4, WithinStep
  <1>6. InTurn'
    BY <1>1, <1>2, AsideStep
  <1> QED
    BY <1>4, <1>5, <1>6 DEF SessionInv

LEMMA CheckpointRecordStep ==
  ASSUME SessionInv, NEW r \in Requests, CheckpointRecord(r)
  PROVE  SessionInv'
  <1> PICK q : q = NoCall
    OBVIOUS
  <1>1. /\ Moves(r, q) /\ work[r].at = "check.record" /\ status' = "active"
        /\ recorded' = recorded + 1
        /\ UNCHANGED <<supersededBy, inactive, row, told, idle, served, packs, checkpoints,
                       begun, raced, mishaps>>
    BY DEF CheckpointRecord, Moves, Goes, At, TheMemories, TheDeltas
  <1>2. q \in Work /\ q.at = "idle" /\ q.next = Fresh
    BY NoCallIsOne
  <1>3. work' \in [Requests -> Work] /\ work'[r] = q
    BY <1>1, <1>2, AfterMove, Typed
  <1>4. Within'
    <2>1. Pays(q) = 0 /\ Pays(work[r]) = 0 /\ Records(q) = 0 /\ Records(work[r]) = 1
      BY <1>1, <1>2 DEF Pays, Records
    <2>2. served + begun <= MaxBegun /\ row.turn <= served /\ row.cursor <= served
      BY DEF SessionInv, Within
    <2>3. /\ Len(packs') + Pays(q) + served <= Len(packs) + Pays(work[r]) + served'
          /\ recorded' + Records(q) + begun <= recorded + Records(work[r]) + begun'
      BY <1>1, <2>1, Typed
    <2>4. /\ served' \in Nat /\ begun' \in Nat /\ recorded' \in Nat /\ Len(packs') \in Nat
          /\ served <= served' /\ served' + begun' <= MaxBegun
          /\ row'.turn \in Nat /\ row'.cursor \in Nat
          /\ row'.turn <= served' /\ row'.cursor <= served'
          /\ q.next.turn <= served' /\ q.next.cursor <= served'
      BY <1>1, <1>2, <2>2, Typed, FreshIsOne
    <2> QED
      BY <1>1, <1>2, <2>3, <2>4, WithinStep
  <1>5. SessionTypeOK'
    <2>1. recorded' \in 0 .. MaxBegun
      <3>1. recorded' <= begun /\ recorded' \in Nat
        <4>1. Cardinality(Recording') \in Nat /\ recorded' + Cardinality(Recording') <= begun'
          BY <1>1, <1>2, <1>4, Counting DEF Within
        <4> QED
          BY <1>1, <4>1, Typed
      <3> QED
        BY <3>1, Typed, Bounds
    <2> QED
      BY <1>1, <1>3, <2>1 DEF SessionInv, SessionTypeOK
  <1>6. InTurn'
    BY <1>1, <1>2, AsideStep
  <1> QED
    BY <1>4, <1>5, <1>6 DEF SessionInv

LEMMA DieStep ==
  ASSUME SessionInv, NEW r \in Requests, Die(r)
  PROVE  SessionInv'
  <1> PICK q : q = NoCall
    OBVIOUS
  <1>1. /\ Moves(r, q) /\ mishaps < MaxMishaps /\ mishaps' = mishaps + 1
        /\ UNCHANGED <<supersededBy, inactive, row, told, idle, served, packs, status, recorded,
                       checkpoints, begun, raced>>
    BY DEF Die, Moves, Goes, TheMemories, TheCheckpoints, TheDeltas
  <1>2. q \in Work /\ q.at = "idle" /\ q.next = Fresh
    BY NoCallIsOne
  <1>3. work' \in [Requests -> Work] /\ work'[r] = q
    BY <1>1, <1>2, AfterMove, Typed
  <1>4. SessionTypeOK'
    <2>1. mishaps' \in 0 .. MaxMishaps
      BY <1>1, Bounds DEF SessionInv, SessionTypeOK
    <2> QED
      BY <1>1, <1>3, <2>1 DEF SessionInv, SessionTypeOK
  <1>5. Within'
    <2>1. /\ Pays(q) = 0 /\ Pays(work[r]) \in {0, 1}
          /\ Records(q) = 0 /\ Records(work[r]) \in {0, 1}
      BY <1>2 DEF Pays, Records
    <2>2. served + begun <= MaxBegun /\ row.turn <= served /\ row.cursor <= served
      BY DEF SessionInv, Within
    <2>3. /\ Len(packs') + Pays(q) + served <= Len(packs) + Pays(work[r]) + served'
          /\ recorded' + Records(q) + begun <= recorded + Records(work[r]) + begun'
      BY <1>1, <2>1, Typed
    <2>4. /\ served' \in Nat /\ begun' \in Nat /\ recorded' \in Nat /\ Len(packs') \in Nat
          /\ served <= served' /\ served' + begun' <= MaxBegun
          /\ row'.turn \in Nat /\ row'.cursor \in Nat
          /\ row'.turn <= served' /\ row'.cursor <= served'
          /\ q.next.turn <= served' /\ q.next.cursor <= served'
      BY <1>1, <1>2, <2>2, Typed, FreshIsOne
    <2> QED
      BY <1>1, <1>2, <2>3, <2>4, WithinStep
  <1>6. InTurn'
    BY <1>1, <1>2, AsideStep
  <1> QED
    BY <1>4, <1>5, <1>6 DEF SessionInv

\* The memories and the status are nothing the invariant speaks of.
LEMMA BesideStep ==
  ASSUME SessionInv,
         UNCHANGED <<row, told, idle, served, packs, recorded, checkpoints, begun, work, raced, mishaps>>,
         supersededBy' \in [Memories -> Memories \cup {NoMemory}], inactive' \subseteq Memories,
         status' \in {"active", "closed"}
  PROVE  SessionInv'
  <1>1. SessionTypeOK'
    BY DEF SessionInv, SessionTypeOK
  <1>2. Within'
    <2>1. Pinning' = Pinning /\ Recording' = Recording
      BY DEF Pinning, Recording
    <2> QED
      BY <2>1 DEF SessionInv, Within
  <1>3. InTurn'
    <2>1. \A r \in Requests : /\ Serving(r)' = Serving(r) /\ Looking(r)' = Looking(r)
                              /\ Saving(r)' = Saving(r) /\ Answering(r)' = Answering(r)
      BY DEF Serving, Looking, Saving, Answering, Disjoint, Known
    <2>2. Aged(row)' = Aged(row) /\ Known(row)' = Known(row)
      BY DEF Aged, Known
    <2> QED
      BY <2>1, <2>2 DEF SessionInv, InTurn
  <1> QED
    BY <1>1, <1>2, <1>3 DEF SessionInv

LEMMA MemoriesStep ==
  ASSUME SessionInv, \/ \E m, n \in Memories : Supersede(m, n)
                     \/ \E m \in Memories : Archive(m)
                     \/ \E r \in Requests : Close(r)
  PROVE  SessionInv'
  <1>1. /\ supersededBy \in [Memories -> Memories \cup {NoMemory}] /\ inactive \subseteq Memories
        /\ status \in {"active", "closed"}
    BY DEF SessionInv, SessionTypeOK
  <1>2. ASSUME NEW m \in Memories, NEW n \in Memories, Supersede(m, n) PROVE SessionInv'
    <2>1. supersededBy' \in [Memories -> Memories \cup {NoMemory}]
      BY <1>1, <1>2 DEF Supersede
    <2> QED
      BY <1>1, <1>2, <2>1, BesideStep DEF Supersede, TheDeltas, TheCheckpoints
  <1>3. ASSUME NEW m \in Memories, Archive(m) PROVE SessionInv'
    BY <1>1, <1>3, BesideStep DEF Archive, TheDeltas, TheCheckpoints
  <1>4. ASSUME NEW r \in Requests, Close(r) PROVE SessionInv'
    BY <1>1, <1>4, BesideStep DEF Close, TheDeltas, TheMemories
  <1> QED
    BY <1>2, <1>3, <1>4

LEMMA SessionStep ==
  ASSUME SessionInv, [SessionNext]_sessionVars
  PROVE  SessionInv'
  <1>1. CASE UNCHANGED sessionVars
    <2>1. supersededBy' \in [Memories -> Memories \cup {NoMemory}] /\ inactive' \subseteq Memories
          /\ status' \in {"active", "closed"}
      BY <1>1 DEF SessionInv, SessionTypeOK, sessionVars
    <2> QED
      BY <1>1, <2>1, BesideStep DEF sessionVars
  <1>2. ASSUME NEW r \in Requests, Serve(r) PROVE SessionInv'
    <2>1. ASSUME NEW cited \in SUBSET Memories, Load(r, cited) PROVE SessionInv'
      BY <2>1, LoadStep
    <2>2. ASSUME NEW kept \in SUBSET Memories, Look(r, kept) PROVE SessionInv'
      BY <2>2, LookStep
    <2>3. ASSUME NEW again \in BOOLEAN, Pin(r, again) PROVE SessionInv'
      BY <2>3, PinStep
    <2> QED
      BY <1>2, <2>1, <2>2, <2>3, SaveStep, NoWorkingMemoryStep, AnswerStep DEF Serve
  <1>3. ASSUME NEW r \in Requests, Resume(r) PROVE SessionInv'
    BY <1>3, RehydrateStep, ResumeLoadStep, ResumeSeedStep DEF Resume
  <1>4. ASSUME NEW r \in Requests, Checkpoint(r) PROVE SessionInv'
    BY <1>4, CheckpointReadStep, CheckpointSaveStep, CheckpointRecordStep, MemoriesStep
       DEF Checkpoint
  <1> QED
    BY <1>1, <1>2, <1>3, <1>4, DieStep, MemoriesStep DEF SessionNext

-----------------------------------------------------------------------------
(***************************************************************************)
(* The theorems about the session                                          *)
(***************************************************************************)
\* The invariant holds in every state of the session, for every set of memories
\* and requests and every setting of the caps (storage.py,
\* _compute_working_memory_delta and _rehydrate_session_known_set).
THEOREM SessionInvCorrect == SessionSpec => []SessionInv
  <1>1. SessionInv /\ [SessionNext]_sessionVars => SessionInv'
    BY SessionStep
  <1> QED
    BY <1>1, InitInv, PTL DEF SessionSpec

\* The rows, the packs, the checkpoints and what the requests hold keep their
\* shapes; no checkpoint is stored outside the indexes that were counted.
THEOREM SessionTypeCorrect == SessionSpec => []SessionTypeOK
  BY SessionInvCorrect, PTL DEF SessionInv

\* What a delta announces, the session has not been told already, whatever
\* answers and deltas are lost, whenever it is resumed and however the memories
\* change, as long as its requests do not overlap (delta_no_resend).
THEOREM NothingResent == SessionSpec => []NoResend
  <1>1. SessionInv => NoResend
    BY DEF SessionInv, InTurn, Answering, Disjoint, NoResend
  <1> QED
    BY <1>1, SessionInvCorrect, PTL

\* A delta evicts only what the last Ttl turns did not cite, as long as the
\* requests of the session do not overlap (eviction_soundness).
THEOREM EvictionIsSound == SessionSpec => []EvictionSound
  <1>1. SessionInv => EvictionSound
    BY DEF SessionInv, InTurn, Saving, EvictionSound, At
  <1> QED
    BY <1>1, SessionInvCorrect, PTL
=============================================================================
