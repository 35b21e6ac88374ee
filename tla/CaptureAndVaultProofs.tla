----------------------- MODULE CaptureAndVaultProofs -----------------------
(***************************************************************************)
(* The safety of the capture pipeline for every set of captures, contents, *)
(* threads and workers, and of the vault and its index for every set of    *)
(* memories, texts and threads.  The two parts share no definition.        *)
(***************************************************************************)
EXTENDS CapturePipeline, Vault, FiniteSetTheorems, TLAPS

-----------------------------------------------------------------------------
(***************************************************************************)
(* The capture pipeline                                                    *)
(***************************************************************************)

\* What a process holds while it is in the middle of something.
Fits(p, q) ==
    /\ q.pc # "idle" => q.capture \in Captures
    /\ q.pc \in {"enqueue", "save", "mark", "extract"} => q.content \in Contents
    /\ p \in Workers /\ q.pc # "idle" => q.job \in Contents
    /\ p \in Workers => q.pc \notin {"enqueue", "approve"}

Shape == \A p \in Procs : Fits(p, procs[p])

\* Machine artifacts have no memories to archive.
ArtifactsYieldNothing == \A c \in Captures, h \in Artifacts : memories[c][h] = "none"

\* The part of the invariant that speaks of the tables.
Consistent ==
    /\ ForgottenStaysForgotten
    /\ DerivedRowsHaveCapture
    /\ ArtifactsYieldNothing
    /\ MemoriesMatchContent
    /\ ArchivedIsQuiet

IInv == TypeOK /\ Shape /\ Consistent

-----------------------------------------------------------------------------
(***************************************************************************)
(* Types                                                                   *)
(***************************************************************************)
LEMMA Constants ==
    /\ NoContent \notin Contents /\ NoCapture \notin Captures
    /\ Artifacts \subseteq Contents
    /\ Callers \subseteq Procs /\ Workers \subseteq Procs
    /\ \A p \in Callers : p \notin Workers
  BY CaptureAssumption DEF CaptureAssumption, Procs

LEMMA RowTypes ==
    /\ NoRow \in Capture /\ NoRow.content = NoContent
    /\ NoJob \in Job /\ NoJob.status = "absent"
    /\ NothingSeen \in Seen
  BY DEF NoRow, Capture, Review, NoJob, Job, NothingSeen, Seen

LEMMA IdleType == Idle \in Proc /\ Idle.pc = "idle" /\ \A p : Fits(p, Idle)
  BY RowTypes, Constants DEF Idle, Proc, Fits

LEMMA SnapshotType ==
    ASSUME TypeOK, NEW c \in Captures
    PROVE  Snapshot(c) \in Seen
  BY DEF TypeOK, Snapshot, Selected, Seen, Capture

LEMMA ProcOf ==
    ASSUME TypeOK, Shape, NEW p \in Procs
    PROVE  procs[p] \in Proc /\ Fits(p, procs[p])
  BY DEF TypeOK, Shape

\* One process changes, to something that fits.
LEMMA ProcsType ==
    ASSUME TypeOK, Shape, NEW p \in Procs, NEW q \in Proc, Fits(p, q),
           procs' = [procs EXCEPT ![p] = q]
    PROVE  procs' \in [Procs -> Proc] /\ Shape'
  BY DEF TypeOK, Shape

\* A process that begins something.
LEMMA BegunType ==
    ASSUME NEW c \in Captures, NEW h \in Contents, NEW x \in Seen,
           NEW pc \in {"enqueue", "save"}
    PROVE  LET q == [Idle EXCEPT !.pc = pc, !.capture = c, !.content = h, !.seen = x]
           IN  q \in Proc /\ \A p : p \notin Workers => Fits(p, q)
  BY DEF Idle, Proc, Fits

LEMMA ApprovingType ==
    ASSUME NEW c \in Captures, NEW x \in Seen
    PROVE  LET q == [Idle EXCEPT !.pc = "approve", !.capture = c, !.seen = x]
           IN  q \in Proc /\ \A p : p \notin Workers => Fits(p, q)
  BY DEF Idle, Proc, Fits

LEMMA ClaimedType ==
    ASSUME NEW c \in Captures, NEW h \in Contents, NEW n \in Nat
    PROVE  LET q == [Idle EXCEPT !.pc = "load", !.capture = c, !.job = h, !.attempts = n]
           IN  q \in Proc /\ \A p : Fits(p, q)
  BY RowTypes DEF Idle, Proc, Fits

\* A process that goes on to its next transaction.
LEMMA MovedType ==
    ASSUME NEW q \in Proc, NEW p, Fits(p, q), q.pc # "idle",
           NEW pc \in {"extract", "finish", "complete"},
           pc = "extract" => q.content \in Contents
    PROVE  [q EXCEPT !.pc = pc] \in Proc /\ Fits(p, [q EXCEPT !.pc = pc])
  BY DEF Proc, Fits

LEMMA LoadedType ==
    ASSUME NEW q \in Proc, NEW p, Fits(p, q), q.pc # "idle", NEW h \in Contents
    PROVE  LET r == [q EXCEPT !.pc = "mark", !.content = h]
           IN  r \in Proc /\ Fits(p, r)
  BY DEF Proc, Fits

LEMMA ReadType ==
    ASSUME NEW q \in Proc, NEW p, Fits(p, q), q.pc = "extract", NEW x \in Seen
    PROVE  LET r == [q EXCEPT !.pc = "save", !.seen = x]
           IN  r \in Proc /\ Fits(p, r)
  BY DEF Proc, Fits

LEMMA SavedType ==
    ASSUME NEW q \in Proc, NEW p, Fits(p, q), q.pc = "save"
    PROVE  LET r == [q EXCEPT !.pc = "finish", !.seen = NothingSeen]
           IN  r \in Proc /\ Fits(p, r)
  BY RowTypes DEF Proc, Fits

LEMMA TypeInit == Init => TypeOK /\ Shape
  <1> SUFFICES ASSUME Init PROVE TypeOK /\ Shape
    OBVIOUS
  <1>1. procs \in [Procs -> Proc] /\ Shape
    BY IdleType DEF Init, Shape
  <1>2. /\ stable \subseteq Captures /\ forgotten = {} /\ deleted = {} /\ raced = {}
        /\ ingests \in 0..MaxIngests
        /\ captures \in [Captures -> Capture]
        /\ extraction \in [Captures -> {"none", "queued", "running", "succeeded", "failed"}]
    BY RowTypes, CaptureAssumption DEF Init, CaptureAssumption
  <1>3. /\ memories \in [Captures -> [Contents -> Memory]]
        /\ jobs \in [Captures -> [Contents -> Job]]
    BY RowTypes DEF Init, Memory
  <1>4. QED
    BY <1>1, <1>2, <1>3 DEF TypeOK

LEMMA ProcStep ==
    ASSUME TypeOK, Shape, NEW p \in Procs,
           \/ /\ p \in Callers
              /\ \E c \in Captures : ApproveRead(p, c) \/ \E h \in Contents : Ingest(p, c, h)
           \/ p \in Callers /\ (EnqueueWrite(p) \/ SaveWrite(p) \/ ApproveWrite(p))
           \/ p \in Workers /\ \E c \in Captures, h \in Contents : Claim(p, c, h)
           \/ p \in Workers /\ (Work(p) \/ Fail(p))
           \/ Crash(p)
    PROVE  procs' \in [Procs -> Proc] /\ Shape'
  <1> DEFINE q == procs[p]
  <1>1. /\ procs \in [Procs -> Proc] /\ q \in Proc /\ Fits(p, q)
        /\ p \in Callers => p \notin Workers
        /\ q.pc # "idle" => q.capture \in Captures
    BY ProcOf, Constants DEF TypeOK, Fits
  <1>2. SUFFICES \E r \in Proc : Fits(p, r) /\ procs' = [procs EXCEPT ![p] = r]
    BY ProcsType
  <1>3. ASSUME procs' = [procs EXCEPT ![p] = Idle]
        PROVE  \E r \in Proc : Fits(p, r) /\ procs' = [procs EXCEPT ![p] = r]
    BY <1>3, IdleType
  <1>4. CASE p \in Callers /\ \E c \in Captures : \E h \in Contents : Ingest(p, c, h)
    <2>1. PICK c \in Captures, h \in Contents : Ingest(p, c, h)
      BY <1>4
    <2>2. PICK pc \in {"enqueue", "save"} : procs' = [procs EXCEPT ![p] =
              [Idle EXCEPT !.pc = pc, !.capture = c, !.content = h, !.seen = Snapshot(c)]]
      BY <2>1 DEF Ingest
    <2>3. QED
      BY <1>1, <1>4, <2>2, SnapshotType, BegunType
  <1>5. CASE p \in Callers /\ \E c \in Captures : ApproveRead(p, c)
    <2>1. PICK c \in Captures : ApproveRead(p, c)
      BY <1>5
    <2>2. procs' = [procs EXCEPT ![p] =
              [Idle EXCEPT !.pc = "approve", !.capture = c, !.seen = Snapshot(c)]]
      BY <2>1 DEF ApproveRead
    <2>3. QED
      BY <1>1, <1>5, <2>2, SnapshotType, ApprovingType
  <1>6. CASE EnqueueWrite(p) \/ ApproveWrite(p) \/ Complete(p) \/ Fail(p) \/ Crash(p)
    BY <1>3, <1>6 DEF EnqueueWrite, ApproveWrite, Complete, Fail, Crash
  <1>7. CASE SaveWrite(p)
    <2>1. CASE p \notin Workers
      BY <1>3, <1>7, <2>1 DEF SaveWrite
    <2>2. CASE p \in Workers
      <3>1. procs' = [procs EXCEPT ![p] = [q EXCEPT !.pc = "finish", !.seen = NothingSeen]]
        BY <1>1, <1>7, <2>2 DEF SaveWrite
      <3>2. q.pc = "save"
        BY <1>7 DEF SaveWrite
      <3>3. QED
        BY <1>1, <3>1, <3>2, SavedType
    <2>3. QED
      BY <2>1, <2>2
  <1>8. CASE p \in Workers /\ \E c \in Captures, h \in Contents : Claim(p, c, h)
    <2>1. PICK c \in Captures, h \in Contents : Claim(p, c, h)
      BY <1>8
    <2>2. jobs[c][h].attempts + 1 \in Nat
      BY DEF TypeOK, Job
    <2>3. procs' = [procs EXCEPT ![p] =
              [Idle EXCEPT !.pc = "load", !.capture = c, !.job = h,
                           !.attempts = jobs[c][h].attempts + 1]]
      BY <2>1 DEF Claim
    <2>4. QED
      BY <2>2, <2>3, ClaimedType
  <1>9. CASE Load(p)
    <2>1. q.pc = "load"
      BY <1>9 DEF Load
    <2>2. CASE Exists(q.capture)
      <3>1. captures[q.capture].content \in Contents
        BY <1>1, <2>1, <2>2 DEF TypeOK, Capture, Exists
      <3>2. procs' = [procs EXCEPT ![p] =
               [q EXCEPT !.pc = "mark", !.content = captures[q.capture].content]]
        BY <1>1, <1>9, <2>2 DEF Load
      <3>3. QED
        BY <1>1, <2>1, <3>1, <3>2, LoadedType
    <2>3. CASE ~ Exists(q.capture)
      <3>1. procs' = [procs EXCEPT ![p] = [q EXCEPT !.pc = "complete"]]
        BY <1>1, <1>9, <2>3 DEF Load
      <3>2. QED
        BY <1>1, <2>1, <3>1, MovedType
    <2>4. QED
      BY <2>2, <2>3
  <1>10. CASE Mark(p)
    <2>1. q.pc = "mark" /\ q.content \in Contents
      BY <1>1, <1>10 DEF Mark, Fits
    <2>2. procs' = [procs EXCEPT ![p] = [q EXCEPT !.pc = "extract"]]
      BY <1>1, <1>10 DEF Mark
    <2>3. QED
      BY <1>1, <2>1, <2>2, MovedType
  <1>11. CASE Extract(p)
    <2>1. q.pc = "extract" /\ Snapshot(q.capture) \in Seen
      BY <1>1, <1>11, SnapshotType DEF Extract
    <2>2. procs' = [procs EXCEPT ![p] = [q EXCEPT !.pc = "save", !.seen = Snapshot(q.capture)]]
      BY <1>1, <1>11 DEF Extract
    <2>3. QED
      BY <1>1, <2>1, <2>2, ReadType
  <1>12. CASE Finish(p)
    <2>1. q.pc = "finish"
      BY <1>12 DEF Finish
    <2>2. procs' = [procs EXCEPT ![p] = [q EXCEPT !.pc = "complete"]]
      BY <1>1, <1>12 DEF Finish
    <2>3. QED
      BY <1>1, <2>1, <2>2, MovedType
  <1>13. QED
    BY <1>4, <1>5, <1>6, <1>7, <1>8, <1>9, <1>10, <1>11, <1>12 DEF Work

-----------------------------------------------------------------------------
\* What the pieces of a save return.
LEMMA ReviewTypes ==
    ASSUME NEW c \in Captures, NEW h \in Contents, NEW seen \in Seen,
           NEW base \in {"pending", "approved"}
    PROVE  /\ EnqueueReview(c, seen, h, base) \in {"pending", "approved"}
           /\ SaveReview(c, seen, h, base) \in {"pending", "approved"}
           /\ AutoArchived(SaveReview(c, seen, h, base), h) \in Review
  BY DEF EnqueueReview, SaveReview, AutoArchived, Review, Seen, Capture

LEMMA DerivativesType ==
    ASSUME TypeOK, NEW c \in Captures, NEW h \in Contents, NEW seen \in Seen
    PROVE  /\ Derivatives(c, seen, h) \in [Contents -> Memory]
           /\ Saved(c, h, Derivatives(c, seen, h)) \in [Contents -> Memory]
           /\ JobsLeft(c, seen, h) \in [Contents -> Job]
  <1>1. memories[c] \in [Contents -> Memory] /\ jobs[c] \in [Contents -> Job]
    BY DEF TypeOK
  <1>2. Derivatives(c, seen, h) \in [Contents -> Memory]
    BY <1>1 DEF Derivatives, Memory
  <1>3. Saved(c, h, Derivatives(c, seen, h)) \in [Contents -> Memory]
    BY <1>2 DEF Saved, Memory
  <1>4. JobsLeft(c, seen, h) \in [Contents -> Job]
    BY <1>1, RowTypes DEF JobsLeft
  <1>5. QED
    BY <1>2, <1>3, <1>4

LEMMA VerdictType ==
    ASSUME NEW n \in Nat
    PROVE  Verdict(n) \in {"failed", "queued"}
  BY DEF Verdict

\* The types of the tables.
Tables ==
    /\ captures \in [Captures -> Capture]
    /\ memories \in [Captures -> [Contents -> Memory]]
    /\ forgotten \subseteq Captures \X Contents
    /\ jobs \in [Captures -> [Contents -> Job]]
    /\ extraction \in [Captures -> {"none", "queued", "running", "succeeded", "failed"}]
    /\ deleted \subseteq Captures /\ raced \subseteq Captures

LEMMA TablesSave ==
    ASSUME TypeOK, Shape, NEW p \in Procs, EnqueueWrite(p) \/ SaveWrite(p)
    PROVE  Tables'
  <1> DEFINE c == procs[p].capture
             h == procs[p].content
             seen == procs[p].seen
  <1>1. c \in Captures /\ h \in Contents /\ seen \in Seen
    BY ProcOf DEF Fits, Proc, EnqueueWrite, SaveWrite
  <1>2. raced' \subseteq Captures /\ UNCHANGED <<forgotten, deleted>>
    BY <1>1 DEF EnqueueWrite, SaveWrite, NoteRace, TypeOK
  <1>3. captures' \in [Captures -> Capture]
    <2>1. PICK review \in Review : captures' = [captures EXCEPT ![c] = [content |-> h, review |-> review]]
      BY <1>1, ReviewTypes DEF EnqueueWrite, SaveWrite, Review
    <2>2. [content |-> h, review |-> review] \in Capture
      BY <1>1 DEF Capture
    <2>3. QED
      BY <2>1, <2>2 DEF TypeOK
  <1>4. memories' \in [Captures -> [Contents -> Memory]]
    <2>1. \/ memories' = [memories EXCEPT ![c] = Derivatives(c, seen, h)]
          \/ memories' = [memories EXCEPT ![c] = Saved(c, h, Derivatives(c, seen, h))]
      BY DEF EnqueueWrite, SaveWrite
    <2>2. /\ Derivatives(c, seen, h) \in [Contents -> Memory]
          /\ Saved(c, h, Derivatives(c, seen, h)) \in [Contents -> Memory]
      BY <1>1, DerivativesType
    <2>3. memories \in [Captures -> [Contents -> Memory]]
      BY DEF TypeOK
    <2>4. QED
      BY <1>1, <2>1, <2>2, <2>3
  <1>5. jobs' \in [Captures -> [Contents -> Job]]
    <2> DEFINE left == JobsLeft(c, seen, h)
               fresh == [left EXCEPT ![h] = [status |-> "queued", attempts |-> 0]]
    <2>1. left \in [Contents -> Job] /\ fresh \in [Contents -> Job]
      <3>1. left \in [Contents -> Job] /\ [status |-> "queued", attempts |-> 0] \in Job
        BY <1>1, DerivativesType DEF Job
      <3>2. QED
        BY <3>1
    <2>2. jobs' = [jobs EXCEPT ![c] = left] \/ jobs' = [jobs EXCEPT ![c] = fresh]
      BY DEF EnqueueWrite, SaveWrite
    <2>3. QED
      BY <2>1, <2>2 DEF TypeOK
  <1>6. extraction' \in [Captures -> {"none", "queued", "running", "succeeded", "failed"}]
    BY DEF EnqueueWrite, SaveWrite, TypeOK
  <1>7. QED
    BY <1>2, <1>3, <1>4, <1>5, <1>6 DEF Tables, TypeOK

LEMMA TablesUser ==
    ASSUME TypeOK, Shape, NEW c \in Captures,
           \/ Archive(c) \/ Delete(c)
           \/ \E h \in Contents : ArchiveMemory(c, h) \/ ForgetMemory(c, h)
    PROVE  Tables'
  <1> USE DEF Tables, TypeOK
  <1>1. CASE Archive(c)
    <2>1. captures' = [captures EXCEPT ![c] = [captures[c] EXCEPT !.review = "archived"]]
      BY <1>1 DEF Archive
    <2>2. [captures[c] EXCEPT !.review = "archived"] \in Capture
      BY DEF Capture, Review
    <2>3. memories' \in [Captures -> [Contents -> Memory]]
      BY <1>1 DEF Archive, Memory
    <2>4. captures' \in [Captures -> Capture]
      BY <2>1, <2>2
    <2>5. QED
      BY <1>1, <2>3, <2>4 DEF Archive
  <1>2. CASE Delete(c)
    <2>1. captures' \in [Captures -> Capture] /\ jobs' \in [Captures -> [Contents -> Job]]
      BY <1>2, RowTypes DEF Delete
    <2>2. memories' \in [Captures -> [Contents -> Memory]]
      BY <1>2 DEF Delete, Memory
    <2>3. QED
      BY <1>2, <2>1, <2>2 DEF Delete
  <1>3. ASSUME NEW h \in Contents, ArchiveMemory(c, h) \/ ForgetMemory(c, h)
        PROVE  Tables'
    <2>1. memories' \in [Captures -> [Contents -> Memory]]
      <3>1. \E m \in Memory : memories' = [memories EXCEPT ![c][h] = m]
        BY <1>3 DEF ArchiveMemory, ForgetMemory, Memory
      <3>2. QED
        BY <3>1
    <2>2. QED
      BY <1>3, <2>1 DEF ArchiveMemory, ForgetMemory
  <1>4. QED
    BY <1>1, <1>2, <1>3

LEMMA TablesApprove ==
    ASSUME TypeOK, Shape, NEW p \in Procs, ApproveWrite(p)
    PROVE  Tables'
  <1> DEFINE c == procs[p].capture
  <1>1. c \in Captures
    BY ProcOf DEF Fits, ApproveWrite
  <1>2. [captures[c] EXCEPT !.review = "approved"] \in Capture
    BY <1>1 DEF TypeOK, Capture, Review
  <1>3. captures' \in [Captures -> Capture]
    BY <1>1, <1>2 DEF ApproveWrite, TypeOK
  <1>4. raced' \subseteq Captures
    BY <1>1 DEF ApproveWrite, NoteRace, TypeOK
  <1>5. QED
    BY <1>3, <1>4 DEF ApproveWrite, Tables, TypeOK

LEMMA TablesJob ==
    ASSUME TypeOK, Shape,
           \/ \E w \in Workers :
                 \/ \E c \in Captures, h \in Contents : Claim(w, c, h)
                 \/ Mark(w) \/ Finish(w) \/ Complete(w) \/ Fail(w)
           \/ \E c \in Captures, h \in Contents : Reap(c, h) \/ Prune(c, h)
    PROVE  Tables'
  <1> DEFINE Statuses == {"none", "queued", "running", "succeeded", "failed"}
  <1>1. jobs \in [Captures -> [Contents -> Job]] /\ extraction \in [Captures -> Statuses]
    BY DEF TypeOK
  <1>2. SUFFICES /\ UNCHANGED <<captures, memories, forgotten, deleted, raced>>
                 /\ jobs' \in [Captures -> [Contents -> Job]] /\ extraction' \in [Captures -> Statuses]
    BY DEF Tables, TypeOK
  <1>3. ASSUME NEW c \in Captures, NEW h \in Contents, NEW s \in {"queued", "running", "succeeded", "failed"},
               jobs' = [jobs EXCEPT ![c][h].status = s]
        PROVE  jobs' \in [Captures -> [Contents -> Job]]
    <2>1. [jobs[c][h] EXCEPT !.status = s] \in Job
      BY <1>1 DEF Job
    <2>2. jobs' = [jobs EXCEPT ![c][h] = [jobs[c][h] EXCEPT !.status = s]]
      BY <1>1, <1>3
    <2>3. QED
      BY <1>1, <2>1, <2>2
  <1>4. ASSUME NEW w \in Workers, NEW c \in Captures, NEW h \in Contents, Claim(w, c, h)
        PROVE  /\ UNCHANGED <<captures, memories, forgotten, deleted, raced>>
               /\ jobs' \in [Captures -> [Contents -> Job]] /\ extraction' \in [Captures -> Statuses]
    <2>1. [status |-> "running", attempts |-> jobs[c][h].attempts + 1] \in Job
      BY <1>1 DEF Job
    <2>2. QED
      BY <1>1, <1>4, <2>1 DEF Claim
  <1>5. ASSUME NEW w \in Workers, Mark(w) \/ Finish(w) \/ Complete(w) \/ Fail(w)
        PROVE  /\ UNCHANGED <<captures, memories, forgotten, deleted, raced>>
               /\ jobs' \in [Captures -> [Contents -> Job]] /\ extraction' \in [Captures -> Statuses]
    <2> DEFINE c == procs[w].capture
               h == procs[w].job
               v == Verdict(procs[w].attempts)
    <2>1. c \in Captures /\ h \in Contents /\ v \in {"failed", "queued"}
      BY <1>5, ProcOf, VerdictType, Constants DEF Fits, Proc, Mark, Finish, Complete, Fail
    <2>2. \/ jobs' = jobs
          \/ jobs' = [jobs EXCEPT ![c][h].status = "succeeded"]
          \/ jobs' = [jobs EXCEPT ![c][h].status = v]
      BY <1>5 DEF Mark, Finish, Complete, Fail
    <2>3. extraction' \in [Captures -> Statuses]
      BY <1>1, <1>5, <2>1 DEF Mark, Finish, Complete, Fail, FailedExtraction
    <2>4. QED
      BY <1>1, <1>3, <1>5, <2>1, <2>2, <2>3 DEF Mark, Finish, Complete, Fail
  <1>6. ASSUME NEW c \in Captures, NEW h \in Contents, Reap(c, h) \/ Prune(c, h)
        PROVE  /\ UNCHANGED <<captures, memories, forgotten, deleted, raced>>
               /\ jobs' \in [Captures -> [Contents -> Job]] /\ extraction' \in [Captures -> Statuses]
    <2>1. CASE Reap(c, h)
      <3>1. Verdict(jobs[c][h].attempts) \in {"failed", "queued"}
        BY <1>1, VerdictType DEF Job
      <3>2. QED
        BY <1>1, <1>3, <2>1, <3>1 DEF Reap
    <2>2. CASE Prune(c, h)
      BY <1>1, <2>2, RowTypes DEF Prune
    <2>3. QED
      BY <1>6, <2>1, <2>2
  <1>7. QED
    BY <1>4, <1>5, <1>6

LEMMA TypeNext == TypeOK /\ Shape /\ Next => (TypeOK /\ Shape)'
  <1> SUFFICES ASSUME TypeOK, Shape, Next PROVE (TypeOK /\ Shape)'
    OBVIOUS
  <1>1. stable' = stable
    BY DEF Next, Ingest, ApproveRead, EnqueueWrite, SaveWrite, ApproveWrite, Archive, Delete,
           ArchiveMemory, ForgetMemory, Claim, Work, Load, Mark, Extract, Finish, Complete, Fail,
           Crash, Reap, Prune
  <1>2. ingests' \in 0..MaxIngests
    <2>1. CASE \E p \in Callers, c \in Captures, h \in Contents : Ingest(p, c, h)
      BY <2>1, CaptureAssumption DEF Ingest, TypeOK, CaptureAssumption
    <2>2. CASE ~ \E p \in Callers, c \in Captures, h \in Contents : Ingest(p, c, h)
      <3>1. ingests' = ingests
        BY <2>2 DEF Next, ApproveRead, EnqueueWrite, SaveWrite, ApproveWrite, Archive, Delete,
               ArchiveMemory, ForgetMemory, Claim, Work, Load, Mark, Extract, Finish, Complete, Fail,
               Crash, Reap, Prune
      <3>2. QED
        BY <3>1 DEF TypeOK
    <2>3. QED
      BY <2>1, <2>2
  <1>3. procs' \in [Procs -> Proc] /\ Shape'
    <2>1. \/ UNCHANGED procs
          \/ \E p \in Procs :
               \/ /\ p \in Callers
                  /\ \E c \in Captures : ApproveRead(p, c) \/ \E h \in Contents : Ingest(p, c, h)
               \/ p \in Callers /\ (EnqueueWrite(p) \/ SaveWrite(p) \/ ApproveWrite(p))
               \/ p \in Workers /\ \E c \in Captures, h \in Contents : Claim(p, c, h)
               \/ p \in Workers /\ (Work(p) \/ Fail(p))
               \/ Crash(p)
      <3>1. CASE \E c \in Captures : \/ Archive(c) \/ Delete(c)
                                     \/ \E h \in Contents : ArchiveMemory(c, h) \/ ForgetMemory(c, h)
        BY <3>1 DEF Archive, Delete, ArchiveMemory, ForgetMemory
      <3>2. CASE \E c \in Captures, h \in Contents : Reap(c, h) \/ Prune(c, h)
        BY <3>2 DEF Reap, Prune
      <3>3. QED
        BY <3>1, <3>2, Constants DEF Next
    <2>2. CASE UNCHANGED procs
      BY <2>2 DEF TypeOK, Shape, Fits
    <2>3. QED
      BY <2>1, <2>2, ProcStep
  <1>4. Tables'
    <2>1. CASE UNCHANGED <<captures, memories, forgotten, deleted, jobs, extraction, raced>>
      BY <2>1 DEF Tables, TypeOK
    <2>2. \/ UNCHANGED <<captures, memories, forgotten, deleted, jobs, extraction, raced>>
          \/ \E p \in Procs : EnqueueWrite(p) \/ SaveWrite(p) \/ ApproveWrite(p)
          \/ \E c \in Captures : \/ Archive(c) \/ Delete(c)
                                 \/ \E h \in Contents : ArchiveMemory(c, h) \/ ForgetMemory(c, h)
          \/ \E w \in Workers :
                 \/ \E c \in Captures, h \in Contents : Claim(w, c, h)
                 \/ Mark(w) \/ Finish(w) \/ Complete(w) \/ Fail(w)
          \/ \E c \in Captures, h \in Contents : Reap(c, h) \/ Prune(c, h)
      <3>1. ASSUME NEW p \in Procs,
                   Load(p) \/ Extract(p) \/ Crash(p)
                     \/ \E c \in Captures : ApproveRead(p, c) \/ \E h \in Contents : Ingest(p, c, h)
            PROVE  UNCHANGED <<captures, memories, forgotten, deleted, jobs, extraction, raced>>
        BY <3>1 DEF Load, Extract, Crash, ApproveRead, Ingest
      <3>2. QED
        BY <3>1, Constants DEF Next, Work
    <2>3. QED
      BY <2>1, <2>2, TablesSave, TablesUser, TablesApprove, TablesJob
  <1>5. QED
    BY <1>1, <1>2, <1>3, <1>4 DEF TypeOK, Tables

\* Types, and what a process holds in the middle of a handler, in every
\* reachable state.
THEOREM TypeCorrect == Spec => []TypeOK
  <1>1. TypeOK /\ Shape /\ UNCHANGED vars => (TypeOK /\ Shape)'
    BY DEF vars, TypeOK, Shape, Fits
  <1>2. TypeOK /\ Shape /\ [Next]_vars => (TypeOK /\ Shape)'
    BY <1>1, TypeNext
  <1>3. QED
    BY <1>2, TypeInit, PTL DEF Spec

-----------------------------------------------------------------------------
(***************************************************************************)
(* The tables agree                                                        *)
(***************************************************************************)

\* The conjuncts of Consistent for one capture.
ConsistentAt(c) ==
    /\ \A h \in Contents : <<c, h>> \in forgotten => memories[c][h] = "none"
    /\ ~ Exists(c) => /\ extraction[c] = "none"
                      /\ \A h \in Contents : memories[c][h] = "none" /\ jobs[c][h] = NoJob
    /\ \A h \in Artifacts : memories[c][h] = "none"
    /\ c \notin raced => \A h \in Contents :
          memories[c][h] = "active" \/ (memories[c][h] = "archived" /\ c \notin stable)
              => captures[c].content = h
    /\ c \notin raced /\ Exists(c) /\ captures[c].review = "archived" =>
          \A h \in Contents : memories[c][h] # "active"

LEMMA CaptureByCapture == Consistent <=> \A c \in Captures : ConsistentAt(c)
  <1>1. ForgottenStaysForgotten <=>
          \A c \in Captures : \A h \in Contents : <<c, h>> \in forgotten => memories[c][h] = "none"
    BY DEF ForgottenStaysForgotten
  <1>2. DerivedRowsHaveCapture <=>
          \A c \in Captures : ~ Exists(c) =>
              /\ extraction[c] = "none"
              /\ \A h \in Contents : memories[c][h] = "none" /\ jobs[c][h] = NoJob
    BY DEF DerivedRowsHaveCapture
  <1>3. ArtifactsYieldNothing <=> \A c \in Captures : \A h \in Artifacts : memories[c][h] = "none"
    BY DEF ArtifactsYieldNothing
  <1>4. MemoriesMatchContent <=>
          \A c \in Captures : c \notin raced => \A h \in Contents :
              memories[c][h] = "active" \/ (memories[c][h] = "archived" /\ c \notin stable)
                  => captures[c].content = h
    BY DEF MemoriesMatchContent
  <1>5. ArchivedIsQuiet <=>
          \A c \in Captures : c \notin raced /\ Exists(c) /\ captures[c].review = "archived" =>
              \A h \in Contents : memories[c][h] # "active"
    BY DEF ArchivedIsQuiet
  <1>6. QED
    BY <1>1, <1>2, <1>3, <1>4, <1>5 DEF Consistent, ConsistentAt

LEMMA PointwiseNext == (\A c \in Captures : ConsistentAt(c)') => Consistent'
  <1>1. (\A c \in Captures : ConsistentAt(c))' => Consistent'
    BY CaptureByCapture, PTL
  <1>2. (\A c \in Captures : ConsistentAt(c)') => (\A c \in Captures : ConsistentAt(c))'
    OBVIOUS
  <1>3. QED
    BY <1>1, <1>2

\* A step that does not touch a capture keeps its rows consistent.
LEMMA Frame ==
    ASSUME NEW d \in Captures, ConsistentAt(d),
           captures'[d] = captures[d], memories'[d] = memories[d], jobs'[d] = jobs[d],
           extraction'[d] = extraction[d], stable' = stable,
           \A h \in Contents : <<d, h>> \in forgotten' => <<d, h>> \in forgotten,
           raced \subseteq raced'
    PROVE  ConsistentAt(d)'
  BY DEF ConsistentAt, Exists

\* What a handler that replaces content leaves of the derivatives, when it has
\* read what is still there.
LEMMA DerivativesMatch ==
    ASSUME TypeOK, NEW c \in Captures, ConsistentAt(c), NEW h \in Contents,
           NEW seen, c \notin raced, ~ Stale(c, seen, h), NEW k \in Contents
    PROVE  /\ Derivatives(c, seen, h)[k] = "active" => k = h /\ ~ Replaces(seen, h)
           /\ Derivatives(c, seen, h)[k] = "archived" /\ c \notin stable => k = h
  <1>1. seen.row = captures[c] /\ (Replaces(seen, h) => Selected(c) \subseteq seen.memories)
    BY DEF Stale
  <1>2. CASE Replaces(seen, h)
    <2>1. k \notin seen.memories => memories[c][k] = "none" \/ (memories[c][k] = "archived" /\ c \in stable)
      BY <1>1, <1>2 DEF Selected, TypeOK, Memory
    <2>2. Derivatives(c, seen, h)[k] =
            IF k \notin seen.memories \/ memories[c][k] = "none" THEN memories[c][k]
            ELSE IF c \in stable THEN "archived" ELSE "none"
      BY <1>2 DEF Derivatives
    <2>3. QED
      BY <2>1, <2>2
  <1>3. CASE ~ Replaces(seen, h)
    <2>1. Derivatives(c, seen, h)[k] = memories[c][k]
      BY <1>3 DEF Derivatives
    <2>2. CASE captures[c].content = h
      BY <1>3, <2>1, <2>2 DEF ConsistentAt
    <2>3. CASE captures[c].content = NoContent
      BY <2>1, <2>3 DEF ConsistentAt, Exists
    <2>4. QED
      BY <1>1, <1>3, <2>2, <2>3 DEF Replaces
  <1>4. QED
    BY <1>2, <1>3

\* Nothing comes back by itself.
LEMMA DerivativesShrink ==
    ASSUME TypeOK, NEW c \in Captures, NEW h \in Contents, NEW seen, NEW k \in Contents,
           memories[c][k] = "none"
    PROVE  Derivatives(c, seen, h)[k] = "none"
  BY DEF Derivatives

LEMMA ConsistentEnqueue ==
    ASSUME IInv, NEW p \in Procs, EnqueueWrite(p)
    PROVE  \A d \in Captures : ConsistentAt(d)'
  <1>0. PICK c : c = procs[p].capture
    OBVIOUS
  <1> DEFINE h == procs[p].content
             seen == procs[p].seen
  <1>1. /\ TypeOK /\ c \in Captures /\ h \in Contents /\ h # NoContent /\ seen \in Seen
        /\ \A d \in Captures : ConsistentAt(d)
    BY <1>0, ProcOf, CaptureByCapture, Constants DEF IInv, Fits, Proc, EnqueueWrite
  <1>2. PICK base \in {"pending", "approved"} :
            captures' = [captures EXCEPT ![c] = [content |-> h, review |-> EnqueueReview(c, seen, h, base)]]
    BY <1>0 DEF EnqueueWrite
  <1>3. /\ captures'[c].content = h /\ captures'[c].review # "archived"
        /\ memories'[c] = Derivatives(c, seen, h)
        /\ raced \subseteq raced' /\ UNCHANGED <<stable, forgotten>>
        /\ c \notin raced' => c \notin raced /\ ~ Stale(c, seen, h)
    BY <1>0, <1>1, <1>2, ReviewTypes DEF EnqueueWrite, NoteRace, TypeOK
  <1>4. ASSUME NEW d \in Captures, d # c PROVE ConsistentAt(d)'
    <2>1. /\ captures'[d] = captures[d] /\ memories'[d] = memories[d]
          /\ jobs'[d] = jobs[d] /\ extraction'[d] = extraction[d]
      BY <1>0, <1>2, <1>4 DEF EnqueueWrite, TypeOK
    <2>2. QED
      BY <1>1, <1>3, <2>1, Frame
  <1>5. ConsistentAt(c)'
    <2>1. ASSUME NEW k \in Contents, <<c, k>> \in forgotten' PROVE memories'[c][k] = "none"
      BY <1>1, <1>3, <2>1, DerivativesShrink DEF ConsistentAt
    <2>2. ASSUME NEW k \in Artifacts PROVE memories'[c][k] = "none"
      BY <1>1, <1>3, DerivativesShrink, Constants DEF ConsistentAt
    <2>3. ASSUME c \notin raced', NEW k \in Contents,
                 memories'[c][k] = "active" \/ (memories'[c][k] = "archived" /\ c \notin stable')
          PROVE  captures'[c].content = k
      BY <1>1, <1>3, <2>3, DerivativesMatch
    <2>4. Exists(c)'
      BY <1>1, <1>3 DEF Exists
    <2>5. QED
      BY <1>3, <2>1, <2>2, <2>3, <2>4 DEF ConsistentAt
  <1>6. QED
    BY <1>4, <1>5

LEMMA ConsistentSave ==
    ASSUME IInv, NEW p \in Procs, SaveWrite(p)
    PROVE  \A d \in Captures : ConsistentAt(d)'
  <1>0. PICK c : c = procs[p].capture
    OBVIOUS
  <1> DEFINE h == procs[p].content
             seen == procs[p].seen
             D == Derivatives(c, seen, h)
  <1>1. /\ TypeOK /\ c \in Captures /\ h \in Contents /\ h # NoContent /\ seen \in Seen
        /\ \A d \in Captures : ConsistentAt(d)
        /\ D \in [Contents -> Memory]
    BY <1>0, ProcOf, CaptureByCapture, Constants, DerivativesType DEF IInv, Fits, Proc, SaveWrite
  <1>2. PICK base \in {"pending", "approved"} :
            captures' = [captures EXCEPT ![c] =
                [content |-> h, review |-> AutoArchived(SaveReview(c, seen, h, base), h)]]
    BY <1>0 DEF SaveWrite
  <1>3. /\ captures'[c].content = h
        /\ captures'[c].review = "archived" => h \in Artifacts
        /\ raced \subseteq raced' /\ UNCHANGED <<stable, forgotten>>
        /\ c \notin raced' => c \notin raced /\ ~ Stale(c, seen, h)
    BY <1>0, <1>1, <1>2, ReviewTypes DEF SaveWrite, NoteRace, TypeOK, AutoArchived
  <1>4. \A k \in Contents :
            memories'[c][k] = IF k = h /\ h \notin Artifacts /\ <<c, h>> \notin forgotten
                              THEN "active" ELSE D[k]
    <2>1. memories'[c] = Saved(c, h, D)
      BY <1>0, <1>1 DEF SaveWrite, TypeOK
    <2>2. QED
      BY <1>1, <2>1 DEF Saved
  <1> HIDE DEF D
  <1>5. ASSUME NEW d \in Captures, d # c PROVE ConsistentAt(d)'
    <2>1. /\ captures'[d] = captures[d] /\ memories'[d] = memories[d]
          /\ jobs'[d] = jobs[d] /\ extraction'[d] = extraction[d]
      BY <1>0, <1>2, <1>5 DEF SaveWrite, TypeOK
    <2>2. QED
      BY <1>1, <1>3, <2>1, Frame
  <1>6. \A k \in Contents : memories[c][k] = "none" => D[k] = "none"
    BY <1>1, DerivativesShrink DEF D
  <1>7. ConsistentAt(c)'
    <2>1. ASSUME NEW k \in Contents, <<c, k>> \in forgotten' PROVE memories'[c][k] = "none"
      BY <1>1, <1>3, <1>4, <1>6, <2>1 DEF ConsistentAt
    <2>2. ASSUME NEW k \in Artifacts PROVE memories'[c][k] = "none"
      BY <1>1, <1>4, <1>6, <2>2, Constants DEF ConsistentAt
    <2>3. ASSUME c \notin raced', NEW k \in Contents,
                 memories'[c][k] = "active" \/ (memories'[c][k] = "archived" /\ c \notin stable')
          PROVE  captures'[c].content = k
      <3>1. D[k] = "active" \/ (D[k] = "archived" /\ c \notin stable) => k = h
        BY <1>1, <1>3, <2>3, DerivativesMatch DEF D
      <3>2. QED
        BY <1>3, <1>4, <2>3, <3>1
    <2>4. ASSUME captures'[c].review = "archived", c \notin raced', NEW k \in Contents
          PROVE  memories'[c][k] # "active"
      <3>1. D[k] = "active" => k = h
        BY <1>1, <1>3, <2>4, DerivativesMatch DEF D
      <3>2. h \in Artifacts /\ memories'[c][h] = "none"
        BY <1>3, <2>2, <2>4
      <3>3. QED
        BY <1>4, <3>1, <3>2
    <2>5. Exists(c)'
      BY <1>1, <1>3 DEF Exists
    <2>6. QED
      BY <2>1, <2>2, <2>3, <2>4, <2>5 DEF ConsistentAt
  <1>8. QED
    BY <1>5, <1>7

LEMMA ConsistentUser ==
    ASSUME IInv, NEW c \in Captures,
           \/ Archive(c) \/ Delete(c)
           \/ \E h \in Contents : ArchiveMemory(c, h) \/ ForgetMemory(c, h)
    PROVE  \A d \in Captures : ConsistentAt(d)'
  <1>1. TypeOK /\ \A d \in Captures : ConsistentAt(d)
    BY CaptureByCapture DEF IInv
  <1>2. ASSUME NEW d \in Captures, d # c PROVE ConsistentAt(d)'
    <2>1. /\ captures'[d] = captures[d] /\ memories'[d] = memories[d]
          /\ jobs'[d] = jobs[d] /\ extraction'[d] = extraction[d] /\ stable' = stable
          /\ raced' = raced
          /\ \A h \in Contents : <<d, h>> \in forgotten' => <<d, h>> \in forgotten
      BY <1>1, <1>2 DEF Archive, Delete, ArchiveMemory, ForgetMemory, TypeOK
    <2>2. QED
      BY <1>1, <2>1, Frame
  <1>3. CASE Archive(c)
    <2>1. /\ captures'[c].content = captures[c].content
          /\ \A k \in Contents : memories'[c][k] = IF memories[c][k] = "none" THEN "none" ELSE "archived"
          /\ UNCHANGED <<stable, forgotten, jobs, extraction, raced>>
      BY <1>1, <1>3 DEF Archive, TypeOK, Capture
    <2>2. \A k \in Contents : memories[c][k] \in {"none", "active", "archived"}
      BY <1>1 DEF TypeOK, Memory
    <2>3. ConsistentAt(c)'
      BY <1>1, <1>3, <2>1, <2>2, Constants DEF ConsistentAt, Exists, Archive
    <2>4. QED
      BY <1>2, <2>3
  <1>4. CASE Delete(c)
    <2>1. /\ captures'[c] = NoRow /\ extraction'[c] = "none"
          /\ \A k \in Contents : memories'[c][k] = "none" /\ jobs'[c][k] = NoJob
      BY <1>1, <1>4 DEF Delete, TypeOK
    <2>2. ConsistentAt(c)'
      BY <2>1, RowTypes, Constants DEF ConsistentAt, Exists
    <2>3. QED
      BY <1>2, <2>2
  <1>5. ASSUME NEW h \in Contents, ArchiveMemory(c, h) \/ ForgetMemory(c, h)
        PROVE  \A d \in Captures : ConsistentAt(d)'
    <2>1. UNCHANGED <<stable, captures, jobs, extraction, raced>>
      BY <1>5 DEF ArchiveMemory, ForgetMemory
    <2>2. CASE ArchiveMemory(c, h)
      <3>1. /\ memories[c][h] = "active" /\ forgotten' = forgotten
            /\ \A k \in Contents : memories'[c][k] = IF k = h THEN "archived" ELSE memories[c][k]
        BY <1>1, <2>2 DEF ArchiveMemory, TypeOK
      <3>2. ConsistentAt(c)'
        BY <1>1, <2>1, <3>1, Constants DEF ConsistentAt, Exists
      <3>3. QED
        BY <1>2, <3>2
    <2>3. CASE ForgetMemory(c, h)
      <3>1. /\ \A k \in Contents : memories'[c][k] = IF k = h THEN "none" ELSE memories[c][k]
            /\ \A k \in Contents : k # h => (<<c, k>> \in forgotten' => <<c, k>> \in forgotten)
        BY <1>1, <2>3 DEF ForgetMemory, TypeOK
      <3>2. ConsistentAt(c)'
        BY <1>1, <2>1, <3>1, Constants DEF ConsistentAt, Exists
      <3>3. QED
        BY <1>2, <3>2
    <2>4. QED
      BY <1>5, <2>2, <2>3
  <1>6. QED
    BY <1>3, <1>4, <1>5

LEMMA ConsistentApprove ==
    ASSUME IInv, NEW p \in Procs, ApproveWrite(p)
    PROVE  \A d \in Captures : ConsistentAt(d)'
  <1> DEFINE c == procs[p].capture
  <1>1. TypeOK /\ c \in Captures /\ \A d \in Captures : ConsistentAt(d)
    BY ProcOf, CaptureByCapture DEF IInv, Fits, ApproveWrite
  <1>2. /\ UNCHANGED <<stable, memories, forgotten, jobs, extraction>>
        /\ raced \subseteq raced'
        /\ \A d \in Captures : captures'[d].content = captures[d].content
        /\ \A d \in Captures : captures'[d] = captures[d] \/ captures'[d].review = "approved"
    BY <1>1 DEF ApproveWrite, NoteRace, TypeOK, Capture
  <1>3. QED
    BY <1>1, <1>2 DEF ConsistentAt, Exists

LEMMA ConsistentJob ==
    ASSUME IInv,
           \/ \E w \in Workers :
                 \/ \E c \in Captures, h \in Contents : Claim(w, c, h)
                 \/ Mark(w) \/ Finish(w) \/ Complete(w) \/ Fail(w)
           \/ \E c \in Captures, h \in Contents : Reap(c, h) \/ Prune(c, h)
    PROVE  \A d \in Captures : ConsistentAt(d)'
  <1>1. TypeOK /\ \A d \in Captures : ConsistentAt(d)
    BY CaptureByCapture DEF IInv
  <1>2. jobs \in [Captures -> [Contents -> Job]]
    BY <1>1 DEF TypeOK
  <1>3. UNCHANGED <<stable, captures, memories, forgotten, raced>>
    BY DEF Claim, Mark, Finish, Complete, Fail, Reap, Prune
  <1>4. SUFFICES \A d \in Captures : ~ Exists(d) =>
                    /\ extraction'[d] = "none"
                    /\ \A k \in Contents : jobs'[d][k] = NoJob
    BY <1>1, <1>3 DEF ConsistentAt, Exists
  <1>5. \A d \in Captures : ~ Exists(d) => extraction[d] = "none" /\ \A k \in Contents : jobs[d][k] = NoJob
    BY <1>1 DEF ConsistentAt
  <1>6. ASSUME NEW c \in Captures, NEW h \in Contents, jobs[c][h].status # "absent", NEW x,
               \/ jobs' = [jobs EXCEPT ![c][h] = x]
               \/ jobs' = [jobs EXCEPT ![c][h].status = x]
        PROVE  \A d \in Captures : ~ Exists(d) => \A k \in Contents : jobs'[d][k] = NoJob
    BY <1>2, <1>5, <1>6, RowTypes
  <1>7. ASSUME NEW w \in Workers, NEW c \in Captures, NEW h \in Contents, Claim(w, c, h)
        PROVE  \A d \in Captures : ~ Exists(d) =>
                    /\ extraction'[d] = "none"
                    /\ \A k \in Contents : jobs'[d][k] = NoJob
    BY <1>5, <1>6, <1>7 DEF Claim
  <1>8. ASSUME NEW w \in Workers, Mark(w) \/ Finish(w) \/ Complete(w) \/ Fail(w)
        PROVE  \A d \in Captures : ~ Exists(d) =>
                    /\ extraction'[d] = "none"
                    /\ \A k \in Contents : jobs'[d][k] = NoJob
    <2> DEFINE c == procs[w].capture
               h == procs[w].job
               v == Verdict(procs[w].attempts)
    <2>1. c \in Captures /\ h \in Contents
      BY <1>1, <1>8, ProcOf, Constants DEF IInv, Fits, Mark, Finish, Complete, Fail
    <2>2. \A d \in Captures : ~ Exists(d) => extraction'[d] = "none"
      BY <1>1, <1>5, <1>8, <2>1 DEF Mark, Finish, Complete, Fail, FailedExtraction, TypeOK
    <2>3. \/ jobs' = jobs
          \/ /\ jobs[c][h].status # "absent"
             /\ \/ jobs' = [jobs EXCEPT ![c][h].status = "succeeded"]
                \/ jobs' = [jobs EXCEPT ![c][h].status = v]
      BY <1>8 DEF Mark, Finish, Complete, Fail
    <2>4. CASE jobs' = jobs
      BY <1>5, <2>2, <2>4
    <2>5. CASE jobs' # jobs
      <3>1. PICK x : jobs[c][h].status # "absent" /\ jobs' = [jobs EXCEPT ![c][h].status = x]
        BY <2>3, <2>5
      <3>2. QED
        BY <1>6, <2>1, <2>2, <3>1
    <2>6. QED
      BY <2>4, <2>5
  <1>9. ASSUME NEW c \in Captures, NEW h \in Contents, Reap(c, h) \/ Prune(c, h)
        PROVE  \A d \in Captures : ~ Exists(d) =>
                    /\ extraction'[d] = "none"
                    /\ \A k \in Contents : jobs'[d][k] = NoJob
    <2>1. CASE Reap(c, h)
      BY <1>5, <1>6, <2>1 DEF Reap
    <2>2. CASE Prune(c, h)
      BY <1>5, <1>6, <2>2 DEF Prune
    <2>3. QED
      BY <1>9, <2>1, <2>2
  <1>10. QED
    BY <1>7, <1>8, <1>9

LEMMA ConsistentNext ==
    ASSUME IInv, Next
    PROVE  Consistent'
  <1>1. \A d \in Captures : ConsistentAt(d)
    BY CaptureByCapture DEF IInv
  <1>2. CASE UNCHANGED <<stable, captures, memories, forgotten, jobs, extraction, raced>>
    <2>1. \A d \in Captures : ConsistentAt(d)'
      BY <1>1, <1>2, Frame
    <2>2. QED
      BY <2>1, PointwiseNext
  <1>3. ASSUME \A d \in Captures : ConsistentAt(d)' PROVE Consistent'
    BY <1>3, PointwiseNext
  <1>4. ASSUME NEW p \in Procs,
               Load(p) \/ Extract(p) \/ Crash(p)
                 \/ \E c \in Captures : ApproveRead(p, c) \/ \E h \in Contents : Ingest(p, c, h)
        PROVE  UNCHANGED <<stable, captures, memories, forgotten, jobs, extraction, raced>>
    BY <1>4 DEF Load, Extract, Crash, ApproveRead, Ingest
  <1>5. \/ UNCHANGED <<stable, captures, memories, forgotten, jobs, extraction, raced>>
        \/ \E p \in Procs : EnqueueWrite(p) \/ SaveWrite(p) \/ ApproveWrite(p)
        \/ \E c \in Captures : \/ Archive(c) \/ Delete(c)
                               \/ \E h \in Contents : ArchiveMemory(c, h) \/ ForgetMemory(c, h)
        \/ \E w \in Workers :
               \/ \E c \in Captures, h \in Contents : Claim(w, c, h)
               \/ Mark(w) \/ Finish(w) \/ Complete(w) \/ Fail(w)
        \/ \E c \in Captures, h \in Contents : Reap(c, h) \/ Prune(c, h)
    BY <1>4, Constants DEF Next, Work
  <1>6. QED
    BY <1>2, <1>3, <1>5, ConsistentEnqueue, ConsistentSave, ConsistentApprove, ConsistentUser,
         ConsistentJob

-----------------------------------------------------------------------------
\* The inductive invariant: types, what a process holds in the middle of a
\* handler, and the agreement of the tables.
THEOREM InvCorrect == Spec => []IInv
  <1>1. Init => IInv
    <2> SUFFICES ASSUME Init PROVE IInv
      OBVIOUS
    <2>1. TypeOK /\ Shape
      BY TypeInit
    <2>2. \A c \in Captures : ConsistentAt(c)
      BY RowTypes, Constants DEF Init, ConsistentAt, Exists
    <2>3. QED
      BY <2>1, <2>2, CaptureByCapture DEF IInv
  <1>2. IInv /\ [Next]_vars => IInv'
    <2> SUFFICES ASSUME IInv, [Next]_vars PROVE IInv'
      OBVIOUS
    <2>1. CASE Next
      BY <2>1, TypeNext, ConsistentNext DEF IInv
    <2>2. CASE UNCHANGED vars
      BY <2>2 DEF vars, IInv, TypeOK, Shape, Fits, Consistent, ForgottenStaysForgotten,
           DerivedRowsHaveCapture, ArtifactsYieldNothing, MemoriesMatchContent, ArchivedIsQuiet, Exists
    <2>3. QED
      BY <2>1, <2>2
  <1>3. QED
    BY <1>1, <1>2, PTL DEF Spec

\* A forgotten memory is never brought back, by whatever extraction is or will
\* be under way.
THEOREM NoResurrection == Spec => []ForgottenStaysForgotten
  <1>1. IInv => ForgottenStaysForgotten
    BY DEF IInv, Consistent
  <1>2. QED
    BY <1>1, InvCorrect, PTL

\* Jobs, memories and processing states do not outlive the row of their
\* capture.
THEOREM NoOrphans == Spec => []DerivedRowsHaveCapture
  <1>1. IInv => DerivedRowsHaveCapture
    BY DEF IInv, Consistent
  <1>2. QED
    BY <1>1, InvCorrect, PTL

\* As long as no handler has written on a stale read, memories speak of the
\* content that their capture holds.
THEOREM ContentKept == Spec => []MemoriesMatchContent
  <1>1. IInv => MemoriesMatchContent
    BY DEF IInv, Consistent
  <1>2. QED
    BY <1>1, InvCorrect, PTL

\* Under the same condition an archived capture has no active memory.
THEOREM Quiet == Spec => []ArchivedIsQuiet
  <1>1. IInv => ArchivedIsQuiet
    BY DEF IInv, Consistent
  <1>2. QED
    BY <1>1, InvCorrect, PTL

\* A worker that saves the content a capture already has keeps its approval,
\* unless it decided on a stale read.
THEOREM ApprovalKept == Spec => WorkerKeepsApproval
  <1> DEFINE A == \A w \in Workers :
                     LET c == procs[w].capture IN
                     /\ SaveWrite(w)
                     /\ Exists(c) /\ captures[c].review = "approved"
                     /\ captures'[c].content = captures[c].content
                     /\ c \notin raced'
                     => captures'[c].review = "approved"
  <1>1. ASSUME TypeOK, Shape PROVE A
    <2> SUFFICES ASSUME NEW w \in Workers, NEW c, c = procs[w].capture, SaveWrite(w),
                        Exists(c), captures[c].review = "approved",
                        captures'[c].content = captures[c].content, c \notin raced'
                 PROVE  captures'[c].review = "approved"
      OBVIOUS
    <2> DEFINE h == procs[w].content
               seen == procs[w].seen
    <2>1. c \in Captures /\ captures \in [Captures -> Capture]
      BY <1>1, ProcOf, Constants DEF Fits, SaveWrite, TypeOK
    <2>2. PICK base \in {"pending", "approved"} :
              captures' = [captures EXCEPT ![c] =
                  [content |-> h, review |-> AutoArchived(SaveReview(c, seen, h, base), h)]]
      BY DEF SaveWrite
    <2>3. seen.row = captures[c]
      BY <2>1 DEF SaveWrite, NoteRace, Stale
    <2>4. captures'[c].content = h /\ captures'[c].review = AutoArchived(SaveReview(c, seen, h, base), h)
      BY <2>1, <2>2
    <2>5. SaveReview(c, seen, h, base) = "approved"
      BY <2>3, <2>4 DEF SaveReview
    <2>6. QED
      BY <2>4, <2>5 DEF AutoArchived
  <1>2. IInv => A
    BY <1>1 DEF IInv
  <1>3. IInv => [A]_vars
    BY <1>2
  <1>4. QED
    BY <1>3, InvCorrect, PTL DEF WorkerKeepsApproval

-----------------------------------------------------------------------------
(***************************************************************************)
(* The vault: types and shape                                              *)
(***************************************************************************)
Writing(p) == work[p].at \in {"save.files", "save.note", "commit"}
Erasing(p) == work[p].at \in {"bury", "erase"}

\* What a thread holds where it is, and what a stopped server has left.
Posture(p) ==
    /\ Writing(p) => work[p].text \in Texts
    /\ Writing(p) \/ Erasing(p) => work[p].mem \in Memories /\ writer = p
    /\ Erasing(p) => rows[work[p].mem] # None
    /\ work[p].at \in {"rows", "decide", "remove"} => work[p].reconciling
    /\ work[p].reconciling =>
         work[p].at \in {"rows", "decide", "remove", "bury", "erase", "graves", "read", "rewrite"}
    /\ work[p].queue # {} => Deciding(p) /\ ~At(p, "decide")
    /\ At(p, "swap") => work[p].rebuild
    /\ ~up => work[p] = VaultIdle

VaultShape ==
    /\ VaultTypeOK
    /\ \A p \in Threads : Posture(p)
    /\ ~up => writer = None /\ calm = {}
    /\ ~present => notes = Nothing /\ records = Nothing

LEMMA VaultConstants ==
    /\ None \notin Threads /\ None \notin Memories /\ None \notin Texts
    /\ Garbled \notin Texts /\ None # Garbled
    /\ Handmade \subseteq Memories /\ IsFiniteSet(Memories)
    /\ MaxCalls \in Nat /\ MaxEdits \in Nat /\ MaxFaults \in Nat /\ MassMin \in Nat \ {0}
    /\ Nothing \in [Memories -> Row] /\ Nothing \in [Memories -> Note]
    /\ \A m \in Memories : Nothing[m] = None
  BY VaultAssumption DEF VaultAssumption, Nothing, Row, Note

LEMMA VaultIdleType ==
    /\ VaultIdle \in Tasks /\ VaultIdle.at = "idle" /\ VaultIdle.queue = {} /\ VaultIdle.buried = {}
    /\ VaultIdle.reconciling = FALSE /\ VaultIdle.rebuild = FALSE
  BY VaultConstants DEF VaultIdle, Tasks, Row

\* A thread goes on with other work.
Carries(p, q) == q \in Tasks /\ work' = [work EXCEPT ![p] = q]

LEMMA AfterCarrying ==
  ASSUME VaultTypeOK, NEW p \in Threads, NEW q, Carries(p, q)
  PROVE  /\ work' \in [Threads -> Tasks] /\ work'[p] = q
         /\ \A r \in Threads : r # p => work'[r] = work[r]
  BY DEF VaultTypeOK, Carries

LEMMA ParsedType ==
  ASSUME VaultTypeOK
  PROVE  Parsed \in [Memories -> Row] /\ \A m \in Memories : Parsed[m] = IF Readable(m) THEN notes[m] ELSE None
  BY DEF VaultTypeOK, Parsed, Readable, Row

LEMMA UnlinkedType ==
  ASSUME VaultTypeOK, NEW set, Unlinked(set)
  PROVE  /\ records' \in [Memories -> Row] /\ notes' \in [Memories -> Note] /\ present' = TRUE
         /\ misnamed' = misnamed /\ graves' = graves /\ migrated' = migrated /\ bare' = bare
         /\ \A m \in Memories : records'[m] = IF m \in set THEN None ELSE records[m]
         /\ \A m \in Memories : m \in set /\ m \notin misnamed => notes'[m] = None
         /\ \A m \in Memories : notes'[m] \in {notes[m], None} /\ (m \notin set => notes'[m] = notes[m])
  BY DEF VaultTypeOK, Unlinked, Row, Note, Found


\* Everything but the place is as it was.
Same(q, w) ==
    /\ q.mem = w.mem /\ q.text = w.text /\ q.notes = w.notes /\ q.rows = w.rows
    /\ q.queue = w.queue /\ q.rebuild = w.rebuild /\ q.reconciling = w.reconciling
    /\ q.buried = w.buried
\* A thread with no deletions, files or rows in its hands.
Fresh(q) == q.queue = {} /\ q.buried = {} /\ q.rebuild = FALSE /\ q.reconciling = FALSE

Labels == {"idle", "save.files", "save.note", "commit", "bury", "erase", "rows", "decide",
           "remove", "graves", "read", "rewrite", "swap", "rebury"}

LEMMA WorkType ==
  ASSUME VaultTypeOK, NEW p \in Threads
  PROVE  /\ work[p] \in Tasks /\ work[p].at \in Labels /\ work[p].mem \in Memories \cup {None}
         /\ work[p].text \in Row /\ work[p].notes \in [Memories -> Row]
         /\ work[p].rows \in [Memories -> Row] /\ work[p].queue \subseteq Memories
         /\ work[p].rebuild \in BOOLEAN /\ work[p].reconciling \in BOOLEAN
         /\ work[p].buried \subseteq Memories
  <1>1. work[p] \in Tasks
    BY DEF VaultTypeOK
  <1> QED
    BY <1>1 DEF Tasks, Labels

LEMMA ThenCarries ==
  ASSUME VaultTypeOK, NEW p \in Threads, NEW label \in Labels, Then(p, label)
  PROVE  \E q : Carries(p, q) /\ q.at = label /\ Same(q, work[p])
  <1> DEFINE q == [work[p] EXCEPT !.at = label]
  <1>1. work[p] \in Tasks
    BY WorkType
  <1>2. q \in Tasks /\ q.at = label /\ Same(q, work[p])
    BY <1>1 DEF Tasks, Labels, Same
  <1> QED
    BY <1>2 DEF Then, Goes, Carries

LEMMA RestCarries ==
  ASSUME VaultTypeOK, NEW p \in Threads, Goes(p, VaultIdle)
  PROVE  Carries(p, VaultIdle)
  BY VaultIdleType DEF Goes, Carries

LEMMA SaveBeginCarries ==
  ASSUME VaultTypeOK, NEW p \in Threads, NEW m \in Memories, NEW t \in Texts, SaveBegin(p, m, t)
  PROVE  \E q : Carries(p, q) /\ q.at = "save.files" /\ q.mem = m /\ q.text = t /\ Fresh(q)
  <1> DEFINE q == [VaultIdle EXCEPT !.at = "save.files", !.mem = m, !.text = t]
  <1>1. q \in Tasks /\ q.at = "save.files" /\ q.mem = m /\ q.text = t /\ Fresh(q)
    BY VaultConstants DEF VaultIdle, Tasks, Row, Fresh
  <1> QED
    BY <1>1 DEF SaveBegin, Goes, Carries

LEMMA DeleteBeginCarries ==
  ASSUME VaultTypeOK, NEW p \in Threads, NEW m \in Memories, DeleteBegin(p, m)
  PROVE  \E q : Carries(p, q) /\ q.at = "bury" /\ q.mem = m /\ Fresh(q)
  <1> DEFINE q == [VaultIdle EXCEPT !.at = "bury", !.mem = m]
  <1>1. q \in Tasks /\ q.at = "bury" /\ q.mem = m /\ Fresh(q)
    BY VaultConstants DEF VaultIdle, Tasks, Row, Fresh
  <1> QED
    BY <1>1 DEF DeleteBegin, Goes, Carries

\* After a deletion a reconciliation takes the next one.
LEMMA AfterDeleteCarries ==
  ASSUME VaultTypeOK, NEW p \in Threads, AfterDelete(p)
  PROVE  \E q : /\ Carries(p, q)
                /\ \/ work[p].reconciling = FALSE /\ q = VaultIdle
                   \/ /\ work[p].reconciling = TRUE /\ q.reconciling = TRUE /\ q.at = "remove"
                      /\ q.queue = work[p].queue /\ q.buried = work[p].buried
                      /\ q.rows = work[p].rows /\ q.rebuild = work[p].rebuild
  <1> DEFINE q == [work[p] EXCEPT !.at = "remove", !.mem = None]
  <1>1. work[p] \in Tasks /\ work[p].reconciling \in BOOLEAN
    BY WorkType
  <1>2. /\ q \in Tasks /\ q.reconciling = work[p].reconciling /\ q.at = "remove"
        /\ q.queue = work[p].queue /\ q.buried = work[p].buried
        /\ q.rows = work[p].rows /\ q.rebuild = work[p].rebuild
    BY <1>1 DEF Tasks
  <1>3. CASE work[p].reconciling
    <2>1. Carries(p, q)
      BY <1>2, <1>3 DEF AfterDelete, Goes, Carries
    <2> QED
      BY <1>1, <1>2, <1>3, <2>1
  <1>4. CASE ~work[p].reconciling
    BY <1>1, <1>4, VaultIdleType DEF AfterDelete, Goes, Carries
  <1> QED
    BY <1>3, <1>4

LEMMA ReconcileNotesCarries ==
  ASSUME VaultTypeOK, NEW p \in Threads, ReconcileNotes(p)
  PROVE  \E q : /\ Carries(p, q) /\ q.at = "rows" /\ q.notes = Parsed /\ q.reconciling = TRUE
                /\ q.queue = {} /\ q.buried = {} /\ q.rebuild = FALSE
  <1> DEFINE q == [VaultIdle EXCEPT !.at = "rows", !.notes = Parsed, !.reconciling = TRUE]
  <1>1. Parsed \in [Memories -> Row]
    BY ParsedType
  <1>2. /\ q \in Tasks /\ q.at = "rows" /\ q.notes = Parsed /\ q.reconciling = TRUE
        /\ q.queue = {} /\ q.buried = {} /\ q.rebuild = FALSE
    BY <1>1, VaultConstants DEF VaultIdle, Tasks, Row
  <1> QED
    BY <1>2 DEF ReconcileNotes, Goes, Carries

LEMMA ReconcileRowsCarries ==
  ASSUME VaultTypeOK, NEW p \in Threads, ReconcileRows(p)
  PROVE  \E q : /\ Carries(p, q) /\ q.at = "decide" /\ q.rows = rows
                /\ q.mem = work[p].mem /\ q.text = work[p].text /\ q.notes = work[p].notes
                /\ q.queue = work[p].queue /\ q.rebuild = work[p].rebuild
                /\ q.reconciling = work[p].reconciling /\ q.buried = work[p].buried
  <1> DEFINE q == [work[p] EXCEPT !.at = "decide", !.rows = rows]
  <1>1. work[p] \in Tasks /\ rows \in [Memories -> Row]
    BY WorkType DEF VaultTypeOK
  <1>2. /\ q \in Tasks /\ q.at = "decide" /\ q.rows = rows
        /\ q.mem = work[p].mem /\ q.text = work[p].text /\ q.notes = work[p].notes
        /\ q.queue = work[p].queue /\ q.rebuild = work[p].rebuild
        /\ q.reconciling = work[p].reconciling /\ q.buried = work[p].buried
    BY <1>1 DEF Tasks
  <1> QED
    BY <1>2 DEF ReconcileRows, Goes, Carries

LEMMA MissingType ==
  ASSUME VaultTypeOK, NEW p \in Threads
  PROVE  /\ Missing(p) \subseteq Memories
         /\ \A m \in Missing(p) : /\ migrated /\ present /\ work[p].rows[m] # None
                                  /\ work[p].notes[m] = None /\ ~Found(m)
         /\ \A m \in Memories : migrated /\ present /\ work[p].rows[m] # None
                                  /\ work[p].notes[m] = None /\ ~Found(m) => m \in Missing(p)
  BY DEF Missing

\* Nothing to do, or deletions to do and perhaps a rebuild.
LEMMA ReconcileDecideCarries ==
  ASSUME VaultTypeOK, NEW p \in Threads, ReconcileDecide(p)
  PROVE  \E q : /\ Carries(p, q)
                /\ \/ /\ Implausible(p) \/ (Missing(p) = {} /\ ~Differs(p))
                      /\ q = VaultIdle /\ marks' = marks
                   \/ /\ ~Implausible(p) /\ q.at = "remove" /\ q.queue = Missing(p)
                      /\ q.reconciling = TRUE /\ q.rebuild = Differs(p) /\ q.buried = {}
                      /\ marks \subseteq marks' /\ marks' \subseteq Memories \X Reasons
                      /\ \A m \in Missing(p) :
                           /\ \A r \in Threads : At(r, "save.note") /\ work[r].mem = m => <<m, "moving">> \in marks'
                           /\ away.notes[m] # None => <<m, "swept">> \in marks'
                           /\ m \in misnamed => <<m, "misnamed">> \in marks'
                           /\ (\E r \in Threads \ {p} : ~work[r].reconciling /\ work[r].rebuild) => <<m, "restored">> \in marks'
                      /\ \A m \in Memories : records[m] # None /\ notes[m] = None /\ work[p].rows[m] = None
                            => <<m, "stray">> \in marks'
  <1>1. CASE Implausible(p) \/ (Missing(p) = {} /\ ~Differs(p))
    BY <1>1, VaultIdleType DEF ReconcileDecide, Goes, Carries
  <1>2. CASE ~(Implausible(p) \/ (Missing(p) = {} /\ ~Differs(p)))
    <2> DEFINE q == [VaultIdle EXCEPT !.at = "remove", !.queue = Missing(p), !.reconciling = TRUE,
                                      !.rebuild = Differs(p)]
               all == {m \in Memories : work[p].rows[m] # None}
               few == Cardinality(Missing(p)) < MassMin \/ 2 * Cardinality(Missing(p)) < Cardinality(all)
               moving == {work[r].mem : r \in {s \in Threads : At(s, "save.note")}}
               stray == {m \in Memories : records[m] # None /\ notes[m] = None /\ work[p].rows[m] = None}
               replaced == IF \E r \in Threads \ {p} : ~work[r].reconciling /\ work[r].rebuild
                           THEN Memories ELSE {}
               hidden == {m \in Memories : away.notes[m] # None /\ few}
    <2>1. Missing(p) \subseteq Memories /\ Differs(p) \in BOOLEAN
      BY MissingType DEF Differs
    <2>2. /\ q \in Tasks /\ q.at = "remove" /\ q.queue = Missing(p)
          /\ q.reconciling = TRUE /\ q.rebuild = Differs(p) /\ q.buried = {}
      BY <2>1, VaultConstants DEF VaultIdle, Tasks, Row
    <2>3. /\ Goes(p, q)
          /\ marks' = marks \cup ((Missing(p) \cap moving) \X {"moving"})
                            \cup ((Missing(p) \cap hidden) \X {"swept"})
                            \cup ((Missing(p) \cap misnamed) \X {"misnamed"})
                            \cup ((Missing(p) \cap replaced) \X {"restored"})
                            \cup (stray \X {"stray"})
      BY <1>2 DEF ReconcileDecide
    <2>4. few
      <3>1. IsFiniteSet(Missing(p)) /\ IsFiniteSet(all)
        BY <2>1, VaultConstants, FS_Subset
      <3>2. Cardinality(Missing(p)) \in Nat /\ Cardinality(all) \in Nat
        BY <3>1, FS_CardinalityType
      <3>3. ~(Cardinality(Missing(p)) >= MassMin /\ 2 * Cardinality(Missing(p)) >= Cardinality(all))
        BY <1>2 DEF Implausible
      <3> QED
        BY <3>2, <3>3, VaultConstants
    <2>5. marks \subseteq marks' /\ marks' \subseteq Memories \X Reasons
      BY <2>1, <2>3 DEF VaultTypeOK, Reasons
    <2>6. \A m \in Missing(p), r \in Threads : At(r, "save.note") /\ work[r].mem = m => <<m, "moving">> \in marks'
      BY <2>3
    <2>7. \A m \in Missing(p) : away.notes[m] # None => <<m, "swept">> \in marks'
      BY <2>1, <2>3, <2>4
    <2>8. \A m \in Missing(p) : m \in misnamed => <<m, "misnamed">> \in marks'
      BY <2>3
    <2>9. (\E r \in Threads \ {p} : ~work[r].reconciling /\ work[r].rebuild) => \A m \in Missing(p) : <<m, "restored">> \in marks'
      BY <2>1, <2>3
    <2>10. \A m \in stray : <<m, "stray">> \in marks'
      BY <2>3
    <2>11. Carries(p, q)
      BY <2>2, <2>3 DEF Goes, Carries
    <2> QED
      BY <1>2, <2>2, <2>5, <2>6, <2>7, <2>8, <2>9, <2>10, <2>11
  <1> QED
    BY <1>1, <1>2

LEMMA ReconcileRemoveCarries ==
  ASSUME VaultTypeOK, NEW p \in Threads, NEW m \in Memories, ReconcileRemove(p, m)
  PROVE  \E q : /\ Carries(p, q) /\ q.queue = work[p].queue \ {m} /\ m \in work[p].queue
                /\ q.reconciling = work[p].reconciling /\ q.rebuild = work[p].rebuild
                /\ q.rows = work[p].rows /\ q.buried = work[p].buried /\ work[p].at = "remove"
                /\ \/ /\ rows[m] = None /\ q.at = "remove"
                      /\ UNCHANGED <<files, writer, calm, marks>>
                   \/ /\ rows[m] # None /\ q.at = "bury" /\ q.mem = m
                      /\ writer = None /\ writer' = p /\ Unlinked({m})
                      /\ marks' = marks \cup (({m} \cap misnamed) \X {"misnamed"})
                      /\ calm' = calm \cap {p}
  <1> DEFINE q1 == [work[p] EXCEPT !.queue = @ \ {m}]
             q2 == [work[p] EXCEPT !.at = "bury", !.mem = m, !.queue = @ \ {m}]
  <1>1. work[p] \in Tasks
    BY WorkType
  <1>2. /\ q1 \in Tasks /\ q1.at = work[p].at /\ q1.queue = work[p].queue \ {m}
        /\ q1.reconciling = work[p].reconciling /\ q1.rebuild = work[p].rebuild
        /\ q1.rows = work[p].rows /\ q1.buried = work[p].buried
    BY <1>1 DEF Tasks
  <1>3. /\ q2 \in Tasks /\ q2.at = "bury" /\ q2.mem = m /\ q2.queue = work[p].queue \ {m}
        /\ q2.reconciling = work[p].reconciling /\ q2.rebuild = work[p].rebuild
        /\ q2.rows = work[p].rows /\ q2.buried = work[p].buried
    BY <1>1 DEF Tasks
  <1>4. CASE rows[m] = None
    BY <1>2, <1>4 DEF ReconcileRemove, Goes, Carries, At
  <1>5. CASE rows[m] # None
    BY <1>3, <1>5 DEF ReconcileRemove, Goes, Carries, At, Marked, Stirs
  <1> QED
    BY <1>4, <1>5

LEMMA ReconcileRestCarries ==
  ASSUME VaultTypeOK, NEW p \in Threads, ReconcileRest(p)
  PROVE  \E q : /\ Carries(p, q)
                /\ \/ work[p].rebuild = FALSE /\ q = VaultIdle
                   \/ /\ work[p].rebuild = TRUE /\ q.at = "graves" /\ Same(q, work[p])
  <1> DEFINE q == [work[p] EXCEPT !.at = "graves"]
  <1>1. work[p] \in Tasks /\ work[p].rebuild \in BOOLEAN
    BY WorkType
  <1>2. q \in Tasks /\ q.at = "graves" /\ Same(q, work[p])
    BY <1>1 DEF Tasks, Same
  <1>3. CASE work[p].rebuild
    <2>1. Carries(p, q)
      BY <1>2, <1>3 DEF ReconcileRest, Goes, Carries
    <2> QED
      BY <1>1, <1>2, <1>3, <2>1
  <1>4. CASE ~work[p].rebuild
    BY <1>1, <1>4, VaultIdleType DEF ReconcileRest, Goes, Carries
  <1> QED
    BY <1>3, <1>4

LEMMA RebuildBeginCarries ==
  ASSUME VaultTypeOK, NEW p \in Threads, RebuildBegin(p)
  PROVE  \E q : Carries(p, q) /\ q.at = "graves" /\ Fresh(q)
  <1> DEFINE q == [VaultIdle EXCEPT !.at = "graves"]
  <1>1. q \in Tasks /\ q.at = "graves" /\ Fresh(q)
    BY VaultConstants DEF VaultIdle, Tasks, Row, Fresh
  <1> QED
    BY <1>1 DEF RebuildBegin, Goes, Carries

\* What a rebuild makes of the files of a memory.
FromFiles(m) == IF Readable(m) THEN notes[m] ELSE records[m]

LEMMA ReadVaultCarries ==
  ASSUME VaultTypeOK, NEW p \in Threads, ReadVault(p)
  PROVE  \E q : /\ Carries(p, q) /\ q.at = "rewrite" /\ \A m \in Memories : q.rows[m] = FromFiles(m)
                /\ q.queue = work[p].queue /\ q.rebuild = work[p].rebuild
                /\ q.reconciling = work[p].reconciling /\ q.buried = work[p].buried
  <1> DEFINE read == [m \in Memories |-> IF Readable(m) THEN notes[m] ELSE records[m]]
             q == [work[p] EXCEPT !.at = "rewrite", !.rows = read]
  <1>1. work[p] \in Tasks
    BY WorkType
  <1>2. read \in [Memories -> Row] /\ \A m \in Memories : read[m] = FromFiles(m)
    BY DEF VaultTypeOK, Readable, Row, FromFiles
  <1>3. /\ q \in Tasks /\ q.at = "rewrite" /\ q.rows = read
        /\ q.queue = work[p].queue /\ q.rebuild = work[p].rebuild
        /\ q.reconciling = work[p].reconciling /\ q.buried = work[p].buried
    <2> HIDE DEF read
    <2> QED
      BY <1>1, <1>2 DEF Tasks
  <1> QED
    BY <1>2, <1>3 DEF ReadVault, Goes, Carries

LEMMA RestoreBeginCarries ==
  ASSUME VaultTypeOK, NEW p \in Threads, RestoreBegin(p)
  PROVE  \E q : /\ Carries(p, q) /\ q.at = "swap" /\ q.buried = graves /\ q.rebuild = TRUE
                /\ q.queue = {} /\ q.reconciling = FALSE
  <1> DEFINE q == [VaultIdle EXCEPT !.at = "swap", !.buried = graves, !.rebuild = TRUE]
  <1>1. /\ q \in Tasks /\ q.at = "swap" /\ q.buried = graves /\ q.rebuild = TRUE
        /\ q.queue = {} /\ q.reconciling = FALSE
    BY VaultConstants DEF VaultIdle, Tasks, Row, VaultTypeOK
  <1> QED
    BY <1>1 DEF RestoreBegin, Goes, Carries

\* The tables have their types; the threads' work is told apart.
TablesOK ==
    /\ rows \in [Memories -> Row] /\ tombstoned \subseteq Memories
    /\ records \in [Memories -> Row] /\ notes \in [Memories -> Note]
    /\ misnamed \subseteq Memories /\ graves \subseteq Memories
    /\ present \in BOOLEAN /\ migrated \in BOOLEAN /\ bare \in BOOLEAN
    /\ away \in Aside /\ backup \in Copy
    /\ calm \subseteq Threads /\ marks \subseteq Memories \X Reasons
    /\ calls \in 0 .. MaxCalls /\ edits \in 0 .. MaxEdits /\ faults \in 0 .. MaxFaults

LEMMA VaultTables == ASSUME VaultTypeOK PROVE TablesOK
  BY DEF VaultTypeOK, TablesOK

\* A thread p takes a step, in a server that runs.
Takes(p, q) ==
    /\ Carries(p, q) /\ TablesOK' /\ up /\ up'
    /\ \/ writer = None /\ writer' \in {p, None}
       \/ writer = p /\ writer' \in {p, None}
       \/ writer' = writer /\ rows' = rows
    /\ ~present' => notes' = Nothing /\ records' = Nothing
    /\ q.at \in {"save.files", "save.note", "commit"} => q.text \in Texts /\ q.mem \in Memories /\ writer' = p
    /\ q.at \in {"bury", "erase"} => q.mem \in Memories /\ writer' = p /\ rows'[q.mem] # None
    /\ q.at \in {"rows", "decide", "remove"} => q.reconciling
    /\ q.reconciling => q.at \in {"rows", "decide", "remove", "bury", "erase", "graves", "read", "rewrite"}
    /\ q.queue # {} => q.reconciling /\ q.at \in {"remove", "bury", "erase"}
    /\ q.at = "swap" => q.rebuild

LEMMA ShapeStep ==
  ASSUME VaultShape, NEW p \in Threads, NEW q, Takes(p, q)
  PROVE  VaultShape'
  <1>1. /\ work' \in [Threads -> Tasks] /\ work'[p] = q
        /\ \A r \in Threads : r # p => work'[r] = work[r]
    BY AfterCarrying DEF VaultShape, Takes
  <1>2. VaultTypeOK'
    <2>1. writer' \in Threads \cup {None}
      BY DEF Takes, VaultShape, VaultTypeOK
    <2> QED
      BY <1>1, <2>1 DEF TablesOK, VaultTypeOK, Takes
  <1>3. ASSUME NEW r \in Threads PROVE Posture(r)'
    <2>1. CASE r = p
      BY <1>1, <2>1 DEF Posture, Writing, Erasing, Deciding, At, Takes
    <2>2. CASE r # p
      <3>1. Posture(r) /\ work'[r] = work[r] /\ up /\ up'
        BY <1>1, <2>2 DEF VaultShape, Takes
      <3>2. writer = r => writer' = writer /\ rows' = rows
        BY <2>2, VaultConstants DEF Takes
      <3>3. Writing(r) \/ Erasing(r) => writer = r
        BY <3>1 DEF Posture
      <3> QED
        BY <3>1, <3>2, <3>3 DEF Posture, Writing, Erasing, Deciding, At
    <2> QED
      BY <2>1, <2>2
  <1> QED
    BY <1>2, <1>3 DEF VaultShape, Takes

\* Somebody is somewhere only in a server that runs.
LEMMA Running ==
  ASSUME VaultShape, NEW p \in Threads, work[p].at # "idle"
  PROVE  up
  BY VaultIdleType DEF VaultShape, Posture

-----------------------------------------------------------------------------
(***************************************************************************)
(* What each step of a thread does to the tables and the files             *)
(***************************************************************************)
LEMMA SaveBeginEffect ==
  ASSUME NEW p \in Threads, NEW m \in Memories, NEW t \in Texts, SaveBegin(p, m, t)
  PROVE  /\ work[p].at = "idle"
         /\ up
         /\ calls' = calls + 1
         /\ calls < MaxCalls
         /\ m \notin tombstoned
         /\ writer = None
         /\ writer' = p
         /\ marks' = marks \cup ((IF rows[m] = None /\ (\E r \in Threads : Deciding(r)) THEN {m} ELSE {}) \X {"moving"})
         /\ UNCHANGED <<rows, tombstoned, records, notes, misnamed, graves, present, migrated,
                        bare, away, backup, up, calm, edits, faults>>
  BY DEF SaveBegin, Begins, At, Marked, index, files

LEMMA SaveFilesEffect ==
  ASSUME NEW p \in Threads, SaveFiles(p)
  PROVE  /\ work[p].at = "save.files"
         /\ Then(p, "save.note")
         /\ records' = [records EXCEPT ![work[p].mem] = work[p].text]
         /\ notes' = [notes EXCEPT ![work[p].mem] = IF @ = work[p].text THEN work[p].text ELSE None]
         /\ present' = TRUE
         /\ bare' = FALSE
         /\ calm' = calm \cap {p}
         /\ UNCHANGED <<rows, tombstoned, misnamed, graves, migrated, away, backup,
                        writer, up, marks, calls, edits, faults>>
  BY DEF SaveFiles, At, Stirs, Bounds, index

LEMMA SaveNoteEffect ==
  ASSUME NEW p \in Threads, SaveNote(p)
  PROVE  /\ work[p].at = "save.note"
         /\ Then(p, "commit")
         /\ \/ /\ notes' = [notes EXCEPT ![work[p].mem] = work[p].text] /\ present' = TRUE
               /\ marks' = marks /\ faults' = faults
            \/ /\ notes' = notes /\ present' = present /\ faults < MaxFaults /\ faults' = faults + 1
               /\ marks' = marks \cup ({work[p].mem} \X {"unwritten"})
         /\ calm' = calm \cap {p}
         /\ UNCHANGED <<rows, tombstoned, records, misnamed, graves, migrated, bare,
                        away, backup, writer, up, calls, edits>>
  BY DEF SaveNote, At, Stirs, Bounds, index, Fault, Marked

LEMMA SaveCommitEffect ==
  ASSUME NEW p \in Threads, SaveCommit(p)
  PROVE  /\ work[p].at = "commit"
         /\ Goes(p, VaultIdle)
         /\ rows' = [rows EXCEPT ![work[p].mem] = work[p].text]
         /\ writer' = None
         /\ calm' = calm \cap {p}
         /\ UNCHANGED <<tombstoned, records, notes, misnamed, graves, present, migrated, bare,
                        away, backup, up, marks, calls, edits, faults>>
  BY DEF SaveCommit, At, Stirs, Bounds, files

LEMMA DeleteBeginEffect ==
  ASSUME NEW p \in Threads, NEW m \in Memories, DeleteBegin(p, m)
  PROVE  /\ work[p].at = "idle"
         /\ up
         /\ calls' = calls + 1
         /\ calls < MaxCalls
         /\ rows[m] # None
         /\ writer = None
         /\ writer' = p
         /\ Unlinked({m})
         /\ marks' = marks \cup {<<m, "asked">>} \cup (({m} \cap misnamed) \X {"misnamed"})
         /\ calm' = calm \cap {p}
         /\ UNCHANGED <<rows, tombstoned, away, backup, up, edits, faults>>
  BY DEF DeleteBegin, Begins, At, Stirs, index

LEMMA BuryEffect ==
  ASSUME NEW p \in Threads, Bury(p)
  PROVE  /\ work[p].at = "bury"
         /\ Then(p, "erase")
         /\ graves' = graves \cup {work[p].mem}
         /\ marks' = marks \cup ((IF AnyAt({"swap", "read", "rewrite"}) THEN {work[p].mem} ELSE {}) \X {"raced"})
         /\ calm' = calm \cap {p}
         /\ UNCHANGED <<rows, tombstoned, records, notes, misnamed, present, migrated, bare,
                        away, backup, writer, up, calls, edits, faults>>
  BY DEF Bury, At, Stirs, Bounds, index, Raced, Marked

LEMMA EraseEffect ==
  ASSUME NEW p \in Threads, Erase(p)
  PROVE  /\ work[p].at = "erase"
         /\ AfterDelete(p)
         /\ rows' = [rows EXCEPT ![work[p].mem] = None]
         /\ tombstoned' = tombstoned \cup {work[p].mem}
         /\ writer' = None
         /\ calm' = calm \cap {p}
         /\ UNCHANGED <<records, notes, misnamed, graves, present, migrated, bare, away,
                        backup, up, marks, calls, edits, faults>>
  BY DEF Erase, At, Stirs, Bounds, files

LEMMA AbortEffect ==
  ASSUME NEW p \in Threads, Abort(p)
  PROVE  /\ work[p].at \in {"save.files", "save.note", "commit", "bury", "erase"}
         /\ AfterDelete(p)
         /\ faults < MaxFaults
         /\ faults' = faults + 1
         /\ writer' = None
         /\ marks' = marks \cup ((IF work[p].at \in {"save.note", "commit"} THEN {work[p].mem} ELSE {}) \X {"halfway"})
         /\ calm' = calm \ {p}
         /\ UNCHANGED <<rows, tombstoned, records, notes, misnamed, graves, present, migrated,
                        bare, away, backup, up, calls, edits>>
  BY DEF Abort, Fault, Marked, Saving, index, files

LEMMA ReconcileNotesEffect ==
  ASSUME NEW p \in Threads, ReconcileNotes(p)
  PROVE  /\ work[p].at = "idle"
         /\ up
         /\ calls' = calls + 1
         /\ calls < MaxCalls
         /\ calm' = calm \cup {p}
         /\ UNCHANGED <<rows, tombstoned, records, notes, misnamed, graves, present, migrated, bare,
                        away, backup, writer, up, marks, edits, faults>>
  BY DEF ReconcileNotes, Begins, At, index, files

LEMMA ReconcileRowsEffect ==
  ASSUME NEW p \in Threads, ReconcileRows(p)
  PROVE  /\ work[p].at = "rows"
         /\ UNCHANGED <<rows, tombstoned, records, notes, misnamed, graves, present, migrated, bare, away,
                        backup, writer, up, calm, marks, calls, edits, faults>>
  BY DEF ReconcileRows, At, Bounds, index, files

LEMMA ReconcileRestEffect ==
  ASSUME NEW p \in Threads, ReconcileRest(p)
  PROVE  /\ work[p].at = "remove"
         /\ work[p].queue = {}
         /\ UNCHANGED <<rows, tombstoned, records, notes, misnamed, graves, present, migrated, bare, away,
                        backup, writer, up, calm, marks, calls, edits, faults>>
  BY DEF ReconcileRest, At, Bounds, index, files

LEMMA RebuildBeginEffect ==
  ASSUME NEW p \in Threads, RebuildBegin(p)
  PROVE  /\ work[p].at = "idle"
         /\ up
         /\ calls' = calls + 1
         /\ calls < MaxCalls
         /\ UNCHANGED <<rows, tombstoned, records, notes, misnamed, graves, present, migrated, bare,
                        away, backup, writer, up, calm, marks, edits, faults>>
  BY DEF RebuildBegin, Begins, At, index, files

LEMMA ApplyGravesEffect ==
  ASSUME NEW p \in Threads, ApplyGraves(p)
  PROVE  /\ work[p].at = "graves"
         /\ Then(p, "read")
         /\ Unlinked({m \in graves : records[m] # None})
         /\ marks' = marks \cup (IF AnyAt({"rebury"}) THEN Memories \X {"raced"} ELSE {})
                      \cup ({m \in graves \cap misnamed : records[m] # None} \X {"misnamed"})
         /\ calm' = calm \cap {p}
         /\ UNCHANGED <<rows, tombstoned, away, backup, writer, up, calls, edits, faults>>
  BY DEF ApplyGraves, At, Stirs, Bounds, index

LEMMA ReadVaultEffect ==
  ASSUME NEW p \in Threads, ReadVault(p)
  PROVE  /\ work[p].at = "read"
         /\ UNCHANGED <<rows, tombstoned, records, notes, misnamed, graves, present, migrated, bare, away,
                        backup, writer, up, calm, marks, calls, edits, faults>>
  BY DEF ReadVault, At, Bounds, index, files

LEMMA RewriteEffect ==
  ASSUME NEW p \in Threads, Rewrite(p)
  PROVE  /\ work[p].at = "rewrite"
         /\ Goes(p, VaultIdle)
         /\ writer = None
         /\ rows' = work[p].rows
         /\ calm' = calm \cap {p}
         /\ UNCHANGED <<tombstoned, records, notes, misnamed, graves, present, migrated, bare, away,
                        backup, writer, up, marks, calls, edits, faults>>
  BY DEF Rewrite, At, Stirs, Bounds, files

LEMMA RestoreBeginEffect ==
  ASSUME NEW p \in Threads, RestoreBegin(p)
  PROVE  /\ work[p].at = "idle"
         /\ up
         /\ calls' = calls + 1
         /\ calls < MaxCalls
         /\ marks' = marks \cup ((IF AnyAt({"rebury"}) THEN Memories ELSE {}) \X {"raced"})
         /\ UNCHANGED <<rows, tombstoned, records, notes, misnamed, graves, present, migrated, bare,
                        away, backup, writer, up, calm, edits, faults>>
  BY DEF RestoreBegin, Begins, At, Raced, Marked, index, files

LEMMA RestoreReburyEffect ==
  ASSUME NEW p \in Threads, RestoreRebury(p)
  PROVE  /\ work[p].at = "rebury"
         /\ Then(p, "graves")
         /\ graves' = graves \cup work[p].buried
         /\ calm' = calm \cap {p}
         /\ UNCHANGED <<rows, tombstoned, records, notes, misnamed, present, migrated, bare, away,
                        backup, writer, up, marks, calls, edits, faults>>
  BY DEF RestoreRebury, At, Stirs, Bounds, index

LEMMA ReconcileDecideEffect ==
  ASSUME NEW p \in Threads, ReconcileDecide(p)
  PROVE  /\ work[p].at = "decide"
         /\ UNCHANGED <<rows, tombstoned, records, notes, misnamed, graves, present, migrated,
                        bare, away, backup, writer, up, calm, calls, edits, faults>>
  BY DEF ReconcileDecide, At, Bounds, index, files

LEMMA ReconcileRemoveEffect ==
  ASSUME NEW p \in Threads, NEW m \in Memories, ReconcileRemove(p, m)
  PROVE  /\ work[p].at = "remove"
         /\ UNCHANGED <<rows, tombstoned, away, backup, up, calls, edits, faults>>
  BY DEF ReconcileRemove, At, Bounds, index

LEMMA BackupEffect ==
  ASSUME NEW p \in Threads, Backup(p)
  PROVE  /\ work[p].at = "idle"
         /\ up
         /\ calls' = calls + 1
         /\ calls < MaxCalls
         /\ backup' = [records |-> records, notes |-> notes, misnamed |-> misnamed, graves |-> graves,
                       migrated |-> migrated, bare |-> bare, taken |-> TRUE]
         /\ present' = TRUE
         /\ marks' = marks \cup Halves(records, notes)
         /\ calm' = calm \cap {p}
         /\ UNCHANGED <<rows, tombstoned, records, notes, misnamed, graves, migrated, bare, away,
                        work, writer, up, edits, faults>>
  BY DEF Backup, Begins, At, Stirs, index

LEMMA RestoreSwapEffect ==
  ASSUME NEW p \in Threads, RestoreSwap(p)
  PROVE  /\ work[p].at = "swap"
         /\ \/ /\ records' = backup.records /\ notes' = backup.notes /\ misnamed' = backup.misnamed
               /\ graves' = backup.graves /\ migrated' = backup.migrated /\ bare' = backup.bare
               /\ Then(p, "rebury")
               /\ faults' = faults
            \/ /\ faults < MaxFaults /\ faults' = faults + 1
               /\ Goes(p, VaultIdle)
               /\ UNCHANGED <<records, notes, misnamed, graves, migrated, bare>>
         /\ present' = TRUE
         /\ marks' = marks \cup (IF AnyAt({"read"}) THEN Memories \X {"raced"} ELSE {})
                     \cup (IF AnyAt({"rewrite", "rows"}) \/ \E q \in Threads : Deciding(q)
                           THEN Memories \X {"restored"} ELSE {})
         /\ calm' = calm \cap {p}
         /\ UNCHANGED <<rows, tombstoned, away, backup, writer, up, calls, edits>>
  BY DEF RestoreSwap, At, Stirs, Fault, Bounds, index

LEMMA RestoreFailsEffect ==
  ASSUME NEW p \in Threads, RestoreFails(p)
  PROVE  /\ work[p].at \in {"swap", "rebury"}
         /\ \/ /\ records' = backup.records /\ notes' = backup.notes /\ misnamed' = backup.misnamed
               /\ graves' = backup.graves /\ bare' = backup.bare
               /\ migrated' \in {migrated, backup.migrated}
               /\ present' = TRUE
            \/ /\ \E some \in SUBSET work[p].buried : graves' = graves \cup some
               /\ UNCHANGED <<records, notes, misnamed, present, migrated, bare>>
         /\ faults < MaxFaults /\ faults' = faults + 1
         /\ Goes(p, VaultIdle)
         /\ marks' = marks \cup (Memories \X {"torn"})
         /\ calm' = {}
         /\ UNCHANGED <<rows, tombstoned, away, backup, writer, up, calls, edits>>
  BY DEF RestoreFails, At, Fault, Marked, index

LEMMA RebuildFailsEffect ==
  ASSUME NEW p \in Threads, RebuildFails(p)
  PROVE  /\ work[p].at \in {"graves", "read", "rewrite"}
         /\ \E some \in SUBSET {m \in graves : records[m] # None} :
               /\ Unlinked(some) \/ (some = {} /\ UNCHANGED files)
               /\ marks' = marks \cup (IF Restoring(p) THEN Memories \X {"torn"} ELSE {})
                           \cup (IF AnyAt({"rebury"}) THEN Memories \X {"raced"} ELSE {})
                           \cup ((some \cap misnamed) \X {"misnamed"})
         /\ faults < MaxFaults /\ faults' = faults + 1
         /\ Goes(p, VaultIdle)
         /\ calm' = {}
         /\ UNCHANGED <<rows, tombstoned, away, backup, writer, up, calls, edits>>
  BY DEF RebuildFails, At, Fault, index

\* What a stop leaves, be it a crash or in the middle of a restore.
StoppedAs(torn) ==
    /\ up
    /\ faults < MaxFaults /\ faults' = faults + 1
    /\ up' = FALSE
    /\ work' = [p \in Threads |-> VaultIdle]
    /\ writer' = None
    /\ calm' = {}
    /\ marks' = marks \cup ({work[p].mem : p \in {q \in Threads : Saving(q)}} \X {"halfway"})
                \cup (torn \X {"torn"})
    /\ UNCHANGED <<rows, tombstoned, away, backup, calls, edits>>

LEMMA StopsEffect ==
  ASSUME NEW torn, Stops(torn)
  PROVE  StoppedAs(torn)
  BY DEF Stops, StoppedAs, Fault, index

LEMMA VaultCrashEffect ==
  ASSUME VaultCrash
  PROVE  /\ StoppedAs(IF \E p \in Threads : Restoring(p) THEN Memories ELSE {})
         /\ UNCHANGED <<records, notes, misnamed, graves, present, migrated, bare>>
  BY StopsEffect DEF VaultCrash, files

LEMMA RestoreDiesEffect ==
  ASSUME NEW p \in Threads, RestoreDies(p)
  PROVE  /\ work[p].at = "swap"
         /\ StoppedAs(Memories)
         /\ \/ records' = Nothing /\ notes' = Nothing /\ misnamed' = {} /\ present' = FALSE
            \/ /\ records' = backup.records /\ notes' = backup.notes /\ misnamed' = backup.misnamed
               /\ present' = TRUE
            \/ UNCHANGED <<records, notes, misnamed, present>>
         /\ graves' \in {graves, backup.graves}
         /\ UNCHANGED <<migrated, bare>>
  BY StopsEffect DEF RestoreDies, At

LEMMA StartEffect ==
  ASSUME VaultTypeOK, Start
  PROVE  /\ ~up /\ up' = TRUE /\ present' = TRUE
         /\ UNCHANGED <<rows, tombstoned, graves, away, backup, work, writer, calm, marks, calls, edits>>
         /\ faults' \in 0 .. MaxFaults
         /\ records' = IF bare /\ records = Nothing THEN rows ELSE records
         /\ bare' \in BOOLEAN /\ migrated' \in BOOLEAN /\ misnamed' \subseteq misnamed
         /\ notes' \in [Memories -> Note]
         /\ \A m \in Memories : notes'[m] = notes[m] \/ (notes'[m] = rows[m] /\ rows[m] # None)
         /\ migrated => migrated'
         /\ bare /\ records = Nothing => \A m \in Memories : notes'[m] = rows[m] \/ rows[m] = None
         /\ migrated' => \A m \in Memories : rows[m] # None /\ ~migrated => notes'[m] # None
  <1> DEFINE lacking == {m \in Memories : rows[m] # None /\ ~Found(m)}
             new == IF migrated THEN {} ELSE lacking
             blank == bare /\ records = Nothing
             anew(failed) == IF blank THEN {m \in Memories : rows[m] # None} ELSE new \ failed
  <1>1. /\ ~up /\ up' = TRUE /\ present' = TRUE
        /\ UNCHANGED <<rows, tombstoned, graves, away, backup, work, writer, calm, marks>>
        /\ records' = IF blank THEN rows ELSE records
        /\ bare' \in BOOLEAN
    BY DEF Start, index
  <1>2. PICK failed \in SUBSET new :
            /\ IF failed = {} THEN UNCHANGED Bounds ELSE Fault
            /\ notes' = [m \in Memories |-> IF m \in anew(failed) THEN rows[m] ELSE notes[m]]
            /\ misnamed' = {m \in misnamed \ anew(failed) : notes[m] = Garbled}
            /\ migrated' = (migrated \/ failed = {})
    BY DEF Start
  <1>3. faults' \in 0 .. MaxFaults /\ UNCHANGED <<calls, edits>>
    BY <1>2, VaultConstants DEF Fault, Bounds, VaultTypeOK
  <1>4. \A m \in anew(failed) : m \in Memories /\ rows[m] # None
    OBVIOUS
  <1>5. notes' \in [Memories -> Note]
    BY <1>2 DEF VaultTypeOK, Note
  <1>6. ASSUME NEW m \in Memories
        PROVE  notes'[m] = notes[m] \/ (notes'[m] = rows[m] /\ rows[m] # None)
    BY <1>2, <1>4
  <1>7. ASSUME blank, NEW m \in Memories PROVE notes'[m] = rows[m] \/ rows[m] = None
    BY <1>2, <1>7
  <1>8. ASSUME migrated', NEW m \in Memories, rows[m] # None, ~migrated PROVE notes'[m] # None
    BY <1>2, <1>8 DEF Found
  <1>9. migrated' \in BOOLEAN /\ (migrated => migrated') /\ misnamed' \subseteq misnamed
    BY <1>2
  <1> QED
    BY <1>1, <1>3, <1>5, <1>6, <1>7, <1>8, <1>9

LEMMA EditEffect ==
  ASSUME VaultTypeOK, NEW m \in Memories, Edit(m)
  PROVE  /\ edits < MaxEdits /\ edits' = edits + 1 /\ calm' = {}
         /\ notes[m] \in Texts
         /\ \E t \in Texts \cup {Garbled} : notes' = [notes EXCEPT ![m] = t]
         /\ UNCHANGED <<rows, tombstoned, records, misnamed, graves, present, migrated, bare, away,
                        backup, work, writer, up, marks, calls, faults>>
  BY DEF Edit, Acts, Readable, index

LEMMA CreateEffect ==
  ASSUME VaultTypeOK, NEW m \in Memories, NEW t \in Texts, Create(m, t)
  PROVE  /\ edits < MaxEdits /\ edits' = edits + 1 /\ calm' = {}
         /\ notes[m] = None /\ rows[m] = None
         /\ notes' = [notes EXCEPT ![m] = t]
         /\ misnamed' \subseteq Memories
         /\ present' = TRUE
         /\ marks' = marks \cup (({m} \cap tombstoned) \X {"again"})
                      \cup (IF \E q \in Threads : Deciding(q) THEN {<<m, "moving">>} ELSE {})
         /\ UNCHANGED <<rows, tombstoned, records, graves, migrated, bare, away, backup, work,
                        writer, up, calls, faults>>
  BY DEF Create, Acts, index, VaultTypeOK

LEMMA DiscardEffect ==
  ASSUME VaultTypeOK, NEW m \in Memories, Discard(m)
  PROVE  /\ edits < MaxEdits /\ edits' = edits + 1 /\ calm' = {}
         /\ notes' = [notes EXCEPT ![m] = None]
         /\ misnamed' \subseteq Memories
         /\ marks' = marks \cup ({m} \X {"asked"})
         /\ UNCHANGED <<rows, tombstoned, records, graves, present, migrated, bare, away, backup,
                        work, writer, up, calls, faults>>
  BY DEF Discard, Acts, Marked, index, VaultTypeOK

LEMMA ClearEffect ==
  ASSUME VaultTypeOK, Clear
  PROVE  /\ edits < MaxEdits /\ edits' = edits + 1 /\ calm' = {}
         /\ away = NoneAside /\ away' = [records |-> records, notes |-> notes]
         /\ records' = Nothing /\ notes' = Nothing /\ present' \in BOOLEAN
         /\ UNCHANGED <<rows, tombstoned, misnamed, graves, migrated, bare, backup, work, writer,
                        up, marks, calls, faults>>
  BY DEF Clear, Acts, index

LEMMA ReturnEffect ==
  ASSUME VaultTypeOK, Return
  PROVE  /\ \A m \in Memories : records'[m] = IF records[m] = None THEN away.records[m] ELSE records[m]
         /\ \A m \in Memories : notes'[m] = IF notes[m] = None THEN away.notes[m] ELSE notes[m]
         /\ records' \in [Memories -> Row] /\ notes' \in [Memories -> Note]
         /\ present' = TRUE /\ away' = NoneAside /\ calm' = {}
         /\ marks' = marks \cup (IF AnyAt({"bury", "erase", "read"}) THEN Memories \X {"raced"} ELSE {})
                      \cup Halves(records', notes')
         /\ UNCHANGED <<rows, tombstoned, misnamed, graves, migrated, bare, backup, work, writer, up,
                        calls, edits, faults>>
  <1>1. /\ records' = [m \in Memories |-> IF records[m] = None THEN away.records[m] ELSE records[m]]
        /\ notes' = [m \in Memories |-> IF notes[m] = None THEN away.notes[m] ELSE notes[m]]
        /\ present' = TRUE /\ away' = NoneAside /\ calm' = {}
        /\ marks' = marks \cup (IF AnyAt({"bury", "erase", "read"}) THEN Memories \X {"raced"} ELSE {})
                      \cup Halves(records', notes')
        /\ UNCHANGED <<rows, tombstoned, misnamed, graves, migrated, bare, backup, work, writer, up,
                        calls, edits, faults>>
    BY DEF Return, Bounds, index
  <1>2. away.records \in [Memories -> Row] /\ away.notes \in [Memories -> Note]
    BY DEF VaultTypeOK, Aside
  <1> QED
    BY <1>1, <1>2 DEF VaultTypeOK

-----------------------------------------------------------------------------
(***************************************************************************)
(* Every step keeps types and shape                                        *)
(***************************************************************************)
\* Bounded counters.
LEMMA Counters ==
  ASSUME VaultTypeOK
  PROVE  /\ calls < MaxCalls => calls + 1 \in 0 .. MaxCalls
         /\ edits < MaxEdits => edits + 1 \in 0 .. MaxEdits
         /\ faults < MaxFaults => faults + 1 \in 0 .. MaxFaults
  BY VaultConstants DEF VaultTypeOK

LEMMA MarkTypes ==
  \A r, n : Halves(r, n) \subseteq Memories \X Reasons
  BY DEF Halves, Reasons

LEMMA SaveBeginShape ==
  ASSUME VaultShape, NEW p \in Threads, NEW m \in Memories, NEW t \in Texts, SaveBegin(p, m, t)
  PROVE  VaultShape'
  <1>1. VaultTypeOK /\ Posture(p) /\ TablesOK /\ up /\ (~present => notes = Nothing /\ records = Nothing)
    BY VaultTables, Running, SaveBeginEffect DEF VaultShape
  <1>2. PICK q : Carries(p, q) /\ q.at = "save.files" /\ q.mem = m /\ q.text = t /\ Fresh(q)
    BY <1>1, SaveBeginCarries
  <1>3. marks' \subseteq Memories \X Reasons
    <2>1. marks' = marks \cup ((IF rows[m] = None /\ (\E r \in Threads : Deciding(r)) THEN {m} ELSE {}) \X {"moving"})
      BY SaveBeginEffect
    <2>2. (Writing(p) \/ Erasing(p) => work[p].mem \in Memories) /\ marks \subseteq Memories \X Reasons
      BY <1>1 DEF TablesOK, Posture
    <2> QED
      BY <2>1, <2>2 DEF Writing, Erasing, Reasons
  <1>4. TablesOK'
    BY <1>1, <1>3, SaveBeginEffect, Counters DEF TablesOK
  <1>5. Takes(p, q)
    BY <1>1, <1>2, <1>4, SaveBeginEffect DEF VaultShape, Fresh, Takes
  <1> QED
    BY <1>5, ShapeStep

LEMMA SaveFilesShape ==
  ASSUME VaultShape, NEW p \in Threads, SaveFiles(p)
  PROVE  VaultShape'
  <1>1. VaultTypeOK /\ Posture(p) /\ TablesOK /\ up /\ (~present => notes = Nothing /\ records = Nothing)
    BY VaultTables, Running, SaveFilesEffect DEF VaultShape
  <1>2. PICK q : Carries(p, q) /\ q.at = "save.note" /\ Same(q, work[p])
    BY <1>1, SaveFilesEffect, ThenCarries DEF Labels
  <1>3. TablesOK'
    <2>1. records' \in [Memories -> Row] /\ notes' \in [Memories -> Note]
      BY <1>1, SaveFilesEffect DEF TablesOK, Posture, Writing, Row, Note
    <2>2. /\ present' = TRUE /\ bare' = FALSE /\ calm' = calm \cap {p}
          /\ UNCHANGED <<tombstoned, rows, misnamed, graves, migrated, away, backup, marks, calls, edits, faults>>
      BY SaveFilesEffect
    <2> QED
      BY <1>1, <2>1, <2>2 DEF TablesOK
  <1>4. Takes(p, q)
    BY <1>1, <1>2, <1>3, SaveFilesEffect DEF Same, Posture, Writing, Erasing, Deciding, At, Takes
  <1> QED
    BY <1>4, ShapeStep

LEMMA SaveNoteShape ==
  ASSUME VaultShape, NEW p \in Threads, SaveNote(p)
  PROVE  VaultShape'
  <1>1. VaultTypeOK /\ Posture(p) /\ TablesOK /\ up /\ (~present => notes = Nothing /\ records = Nothing)
    BY VaultTables, Running, SaveNoteEffect DEF VaultShape
  <1>2. PICK q : Carries(p, q) /\ q.at = "commit" /\ Same(q, work[p])
    BY <1>1, SaveNoteEffect, ThenCarries DEF Labels
  <1>3. marks' \subseteq Memories \X Reasons
    <2>1. (marks' = marks \/ marks' = marks \cup ({work[p].mem} \X {"unwritten"})) /\ work[p].at = "save.note"
      BY SaveNoteEffect
    <2>2. (Writing(p) \/ Erasing(p) => work[p].mem \in Memories) /\ marks \subseteq Memories \X Reasons
      BY <1>1 DEF TablesOK, Posture
    <2> QED
      BY <2>1, <2>2 DEF Writing, Erasing, Reasons
  <1>4. TablesOK'
    BY <1>1, <1>3, SaveNoteEffect, Counters DEF TablesOK, Posture, Writing, Row, Note
  <1>5. Takes(p, q)
    BY <1>1, <1>2, <1>4, SaveNoteEffect DEF Same, Posture, Writing, Erasing, Deciding, At, Takes
  <1> QED
    BY <1>5, ShapeStep

LEMMA SaveCommitShape ==
  ASSUME VaultShape, NEW p \in Threads, SaveCommit(p)
  PROVE  VaultShape'
  <1>1. VaultTypeOK /\ Posture(p) /\ TablesOK /\ up /\ (~present => notes = Nothing /\ records = Nothing)
    BY VaultTables, Running, SaveCommitEffect DEF VaultShape
  <1>2. Carries(p, VaultIdle)
    BY <1>1, SaveCommitEffect, RestCarries
  <1>3. TablesOK'
    BY <1>1, SaveCommitEffect DEF TablesOK, Posture, Writing, Row
  <1>4. Takes(p, VaultIdle)
    BY <1>1, <1>2, <1>3, SaveCommitEffect, VaultIdleType DEF Posture, Writing, Erasing, Deciding,
         At, Takes
  <1> QED
    BY <1>4, ShapeStep

LEMMA AbortShape ==
  ASSUME VaultShape, NEW p \in Threads, Abort(p)
  PROVE  VaultShape'
  <1>1. VaultTypeOK /\ Posture(p) /\ TablesOK /\ up /\ (~present => notes = Nothing /\ records = Nothing)
    BY VaultTables, Running, AbortEffect DEF VaultShape
  <1>2. PICK q : Carries(p, q) /\ (\/ q = VaultIdle
                                  \/ /\ work[p].reconciling = TRUE /\ q.reconciling = TRUE /\ q.at = "remove")
    BY <1>1, AbortEffect, AfterDeleteCarries
  <1>3. marks' \subseteq Memories \X Reasons
    <2>1. marks' = marks \cup ((IF work[p].at \in {"save.note", "commit"} THEN {work[p].mem} ELSE {}) \X {"halfway"})
      BY AbortEffect
    <2>2. (Writing(p) \/ Erasing(p) => work[p].mem \in Memories) /\ marks \subseteq Memories \X Reasons
      BY <1>1 DEF TablesOK, Posture
    <2> QED
      BY <2>1, <2>2 DEF Writing, Erasing, Reasons
  <1>4. TablesOK'
    BY <1>1, <1>3, AbortEffect, Counters DEF TablesOK, Posture, Erasing, Writing
  <1>5. Takes(p, q)
    BY <1>1, <1>2, <1>4, AbortEffect, VaultIdleType DEF Posture, Writing, Erasing, Deciding, At,
         Takes
  <1> QED
    BY <1>5, ShapeStep

LEMMA ReconcileNotesShape ==
  ASSUME VaultShape, NEW p \in Threads, ReconcileNotes(p)
  PROVE  VaultShape'
  <1>1. VaultTypeOK /\ Posture(p) /\ TablesOK /\ up /\ (~present => notes = Nothing /\ records = Nothing)
    BY VaultTables, Running, ReconcileNotesEffect DEF VaultShape
  <1>2. PICK q : Carries(p, q) /\ q.at = "rows" /\ q.reconciling = TRUE /\ q.queue = {}
    BY <1>1, ReconcileNotesCarries
  <1>3. TablesOK'
    BY <1>1, ReconcileNotesEffect, Counters DEF TablesOK
  <1>4. Takes(p, q)
    BY <1>1, <1>2, <1>3, ReconcileNotesEffect DEF Posture, Writing, Erasing, Deciding, At, Takes
  <1> QED
    BY <1>4, ShapeStep

LEMMA ReconcileRowsShape ==
  ASSUME VaultShape, NEW p \in Threads, ReconcileRows(p)
  PROVE  VaultShape'
  <1>1. VaultTypeOK /\ Posture(p) /\ TablesOK /\ up /\ (~present => notes = Nothing /\ records = Nothing)
    BY VaultTables, Running, ReconcileRowsEffect DEF VaultShape
  <1>2. PICK q : Carries(p, q) /\ q.at = "decide" /\ q.reconciling = work[p].reconciling /\ q.queue = work[p].queue
    BY <1>1, ReconcileRowsCarries
  <1>3. TablesOK'
    BY <1>1, ReconcileRowsEffect DEF TablesOK
  <1>4. Takes(p, q)
    BY <1>1, <1>2, <1>3, ReconcileRowsEffect DEF Posture, Writing, Erasing, Deciding, At, Takes
  <1> QED
    BY <1>4, ShapeStep

LEMMA ReconcileRestShape ==
  ASSUME VaultShape, NEW p \in Threads, ReconcileRest(p)
  PROVE  VaultShape'
  <1>1. VaultTypeOK /\ Posture(p) /\ TablesOK /\ up /\ (~present => notes = Nothing /\ records = Nothing)
    BY VaultTables, Running, ReconcileRestEffect DEF VaultShape
  <1>2. PICK q : Carries(p, q) /\ (q = VaultIdle \/ (q.at = "graves" /\ Same(q, work[p])))
    BY <1>1, ReconcileRestCarries
  <1>3. TablesOK'
    BY <1>1, ReconcileRestEffect DEF TablesOK
  <1>4. Takes(p, q)
    BY <1>1, <1>2, <1>3, ReconcileRestEffect, VaultIdleType DEF Same, Posture, Writing, Erasing,
         Deciding, At, Takes
  <1> QED
    BY <1>4, ShapeStep

LEMMA RebuildBeginShape ==
  ASSUME VaultShape, NEW p \in Threads, RebuildBegin(p)
  PROVE  VaultShape'
  <1>1. VaultTypeOK /\ Posture(p) /\ TablesOK /\ up /\ (~present => notes = Nothing /\ records = Nothing)
    BY VaultTables, Running, RebuildBeginEffect DEF VaultShape
  <1>2. PICK q : Carries(p, q) /\ q.at = "graves" /\ Fresh(q)
    BY <1>1, RebuildBeginCarries
  <1>3. TablesOK'
    BY <1>1, RebuildBeginEffect, Counters DEF TablesOK
  <1>4. Takes(p, q)
    BY <1>1, <1>2, <1>3, RebuildBeginEffect DEF Fresh, Posture, Writing, Erasing, Deciding, At,
         Takes
  <1> QED
    BY <1>4, ShapeStep

LEMMA ReadVaultShape ==
  ASSUME VaultShape, NEW p \in Threads, ReadVault(p)
  PROVE  VaultShape'
  <1>1. VaultTypeOK /\ Posture(p) /\ TablesOK /\ up /\ (~present => notes = Nothing /\ records = Nothing)
    BY VaultTables, Running, ReadVaultEffect DEF VaultShape
  <1>2. PICK q : Carries(p, q) /\ q.at = "rewrite" /\ q.reconciling = work[p].reconciling /\ q.queue = work[p].queue
    BY <1>1, ReadVaultCarries
  <1>3. TablesOK'
    BY <1>1, ReadVaultEffect DEF TablesOK
  <1>4. Takes(p, q)
    BY <1>1, <1>2, <1>3, ReadVaultEffect DEF Posture, Writing, Erasing, Deciding, At, Takes
  <1> QED
    BY <1>4, ShapeStep

LEMMA RewriteShape ==
  ASSUME VaultShape, NEW p \in Threads, Rewrite(p)
  PROVE  VaultShape'
  <1>1. VaultTypeOK /\ Posture(p) /\ TablesOK /\ up /\ (~present => notes = Nothing /\ records = Nothing)
    BY VaultTables, Running, RewriteEffect DEF VaultShape
  <1>2. Carries(p, VaultIdle)
    BY <1>1, RewriteEffect, RestCarries
  <1>3. TablesOK'
    BY <1>1, RewriteEffect, WorkType DEF TablesOK
  <1>4. Takes(p, VaultIdle)
    BY <1>1, <1>2, <1>3, RewriteEffect, VaultIdleType DEF Posture, Writing, Erasing, Deciding, At,
         Takes
  <1> QED
    BY <1>4, ShapeStep

LEMMA RestoreBeginShape ==
  ASSUME VaultShape, NEW p \in Threads, RestoreBegin(p)
  PROVE  VaultShape'
  <1>1. VaultTypeOK /\ Posture(p) /\ TablesOK /\ up /\ (~present => notes = Nothing /\ records = Nothing)
    BY VaultTables, Running, RestoreBeginEffect DEF VaultShape
  <1>2. PICK q : Carries(p, q) /\ q.at = "swap" /\ q.queue = {} /\ q.reconciling = FALSE /\ q.rebuild = TRUE
    BY <1>1, RestoreBeginCarries
  <1>3. marks' \subseteq Memories \X Reasons
    <2>1. marks' = marks \cup ((IF AnyAt({"rebury"}) THEN Memories ELSE {}) \X {"raced"})
      BY RestoreBeginEffect
    <2>2. (Writing(p) \/ Erasing(p) => work[p].mem \in Memories) /\ marks \subseteq Memories \X Reasons
      BY <1>1 DEF TablesOK, Posture
    <2> QED
      BY <2>1, <2>2 DEF Writing, Erasing, Reasons
  <1>4. TablesOK'
    BY <1>1, <1>3, RestoreBeginEffect, Counters DEF TablesOK
  <1>5. Takes(p, q)
    BY <1>1, <1>2, <1>4, RestoreBeginEffect DEF Posture, Writing, Erasing, Deciding, At, Takes
  <1> QED
    BY <1>5, ShapeStep

LEMMA RestoreReburyShape ==
  ASSUME VaultShape, NEW p \in Threads, RestoreRebury(p)
  PROVE  VaultShape'
  <1>1. VaultTypeOK /\ Posture(p) /\ TablesOK /\ up /\ (~present => notes = Nothing /\ records = Nothing)
    BY VaultTables, Running, RestoreReburyEffect DEF VaultShape
  <1>2. PICK q : Carries(p, q) /\ q.at = "graves" /\ Same(q, work[p])
    BY <1>1, RestoreReburyEffect, ThenCarries DEF Labels
  <1>3. TablesOK'
    <2>1. graves' \subseteq Memories /\ calm' = calm \cap {p}
      BY <1>1, RestoreReburyEffect, WorkType DEF TablesOK
    <2>2. UNCHANGED <<tombstoned, rows, records, notes, misnamed, present, migrated, bare, away, backup, marks, calls, edits, faults>>
      BY RestoreReburyEffect
    <2> QED
      BY <1>1, <2>1, <2>2 DEF TablesOK
  <1>4. Takes(p, q)
    BY <1>1, <1>2, <1>3, RestoreReburyEffect DEF Same, Posture, Writing, Erasing, Deciding, At,
         Takes
  <1> QED
    BY <1>4, ShapeStep

LEMMA ReconcileRemoveShape ==
  ASSUME VaultShape, NEW p \in Threads, NEW m \in Memories, ReconcileRemove(p, m)
  PROVE  VaultShape'
  <1>1. VaultTypeOK /\ Posture(p) /\ TablesOK /\ up /\ (~present => notes = Nothing /\ records = Nothing)
    BY VaultTables, Running, ReconcileRemoveEffect DEF VaultShape
  <1>2. PICK q :
          /\ Carries(p, q) /\ q.queue = work[p].queue \ {m} /\ m \in work[p].queue
          /\ q.reconciling = work[p].reconciling /\ work[p].at = "remove"
          /\ \/ q.at = "remove" /\ UNCHANGED <<files, writer, calm, marks>>
             \/ /\ rows[m] # None /\ q.at = "bury" /\ q.mem = m
                /\ writer = None /\ writer' = p /\ Unlinked({m})
                /\ marks' = marks \cup (({m} \cap misnamed) \X {"misnamed"})
                /\ calm' = calm \cap {p}
    BY <1>1, ReconcileRemoveCarries
  <1>3. UNCHANGED <<rows, tombstoned, away, backup, up, calls, edits, faults>>
    BY ReconcileRemoveEffect
  <1>4. CASE q.at = "remove" /\ UNCHANGED <<files, writer, calm, marks>>
    <2>1. UNCHANGED <<records, notes, misnamed, graves, present, migrated, bare, writer, calm, marks>>
      BY <1>4 DEF files
    <2>2. TablesOK'
      BY <1>1, <1>3, <2>1 DEF TablesOK
    <2>3. Takes(p, q)
      BY <1>1, <1>2, <1>3, <1>4, <2>1, <2>2 DEF Takes, Posture
    <2> QED
      BY <2>3, ShapeStep
  <1>5. CASE /\ rows[m] # None /\ q.at = "bury" /\ q.mem = m
             /\ writer = None /\ writer' = p /\ Unlinked({m})
             /\ marks' = marks \cup (({m} \cap misnamed) \X {"misnamed"})
             /\ calm' = calm \cap {p}
    <2>1. /\ records' \in [Memories -> Row] /\ notes' \in [Memories -> Note] /\ present' = TRUE
          /\ UNCHANGED <<misnamed, graves, migrated, bare>>
      BY <1>1, <1>5, UnlinkedType
    <2>2. marks' \subseteq Memories \X Reasons /\ calm' \subseteq Threads
      BY <1>1, <1>5 DEF TablesOK, Reasons
    <2>3. TablesOK'
      BY <1>1, <1>3, <2>1, <2>2 DEF TablesOK
    <2>4. Takes(p, q)
      BY <1>1, <1>2, <1>3, <1>5, <2>1, <2>3 DEF Takes, Posture
    <2> QED
      BY <2>4, ShapeStep
  <1> QED
    BY <1>2, <1>4, <1>5

LEMMA EraseShape ==
  ASSUME VaultShape, NEW p \in Threads, Erase(p)
  PROVE  VaultShape'
  <1>1. /\ VaultTypeOK /\ Posture(p) /\ TablesOK /\ up /\ (~present => notes = Nothing /\ records = Nothing)
        /\ work[p].at = "erase"
    BY VaultTables, Running, EraseEffect DEF VaultShape
  <1>2. PICK q : Carries(p, q) /\ (\/ q = VaultIdle
                                  \/ /\ work[p].reconciling = TRUE /\ q.reconciling = TRUE /\ q.at = "remove")
    BY <1>1, EraseEffect, AfterDeleteCarries
  <1>3. work[p].mem \in Memories /\ writer = p
    BY <1>1 DEF Posture, Erasing
  <1>4. /\ rows' = [rows EXCEPT ![work[p].mem] = None] /\ tombstoned' = tombstoned \cup {work[p].mem}
        /\ writer' = None /\ calm' = calm \cap {p}
        /\ UNCHANGED <<records, notes, misnamed, graves, present, migrated, bare, away, backup, up,
                       marks, calls, edits, faults>>
    BY EraseEffect
  <1>5. rows' \in [Memories -> Row] /\ tombstoned' \subseteq Memories /\ calm' \subseteq Threads
    BY <1>1, <1>3, <1>4 DEF TablesOK, Row
  <1>6. TablesOK'
    BY <1>1, <1>4, <1>5 DEF TablesOK
  <1>7. Takes(p, q)
    BY <1>1, <1>2, <1>3, <1>4, <1>6, VaultIdleType DEF Takes, Posture
  <1> QED
    BY <1>7, ShapeStep

LEMMA BuryShape ==
  ASSUME VaultShape, NEW p \in Threads, Bury(p)
  PROVE  VaultShape'
  <1>1. /\ VaultTypeOK /\ Posture(p) /\ TablesOK /\ up /\ (~present => notes = Nothing /\ records = Nothing)
        /\ work[p].at = "bury"
    BY VaultTables, Running, BuryEffect DEF VaultShape
  <1>2. PICK q : Carries(p, q) /\ q.at = "erase" /\ Same(q, work[p])
    BY <1>1, BuryEffect, ThenCarries DEF Labels
  <1>3. work[p].mem \in Memories /\ writer = p /\ rows[work[p].mem] # None
    BY <1>1 DEF Posture, Erasing
  <1>4. marks' \subseteq Memories \X Reasons
    <2>1. marks' = marks \cup ((IF AnyAt({"swap", "read", "rewrite"}) THEN {work[p].mem} ELSE {}) \X {"raced"})
      BY BuryEffect
    <2> QED
      BY <1>1, <1>3, <2>1 DEF TablesOK, Reasons
  <1>5. /\ graves' = graves \cup {work[p].mem} /\ calm' = calm \cap {p}
        /\ UNCHANGED <<rows, tombstoned, records, notes, misnamed, present, migrated, bare, away,
                       backup, writer, up, calls, edits, faults>>
    BY BuryEffect
  <1>6. TablesOK'
    BY <1>1, <1>3, <1>4, <1>5 DEF TablesOK
  <1>7. Takes(p, q)
    BY <1>1, <1>2, <1>3, <1>5, <1>6 DEF Takes, Same, Posture, Deciding, At
  <1> QED
    BY <1>7, ShapeStep

LEMMA ReconcileDecideShape ==
  ASSUME VaultShape, NEW p \in Threads, ReconcileDecide(p)
  PROVE  VaultShape'
  <1>1. /\ VaultTypeOK /\ TablesOK /\ up /\ (~present => notes = Nothing /\ records = Nothing)
        /\ marks \subseteq Memories \X Reasons
    BY VaultTables, Running, ReconcileDecideEffect DEF VaultShape, TablesOK
  <1>2. \E q : /\ Carries(p, q) /\ marks' \subseteq Memories \X Reasons
               /\ q = VaultIdle \/ (q.at = "remove" /\ q.reconciling = TRUE)
    <2>1. PICK q : /\ Carries(p, q)
                   /\ \/ q = VaultIdle /\ marks' = marks
                      \/ q.at = "remove" /\ q.reconciling = TRUE /\ marks' \subseteq Memories \X Reasons
      BY ONLY <1>1, ReconcileDecide(p), p \in Threads, ReconcileDecideCarries
    <2> QED
      BY <1>1, <2>1
  <1>3. PICK q : /\ Carries(p, q) /\ marks' \subseteq Memories \X Reasons
                 /\ q = VaultIdle \/ (q.at = "remove" /\ q.reconciling = TRUE)
    BY <1>2
  <1>4. UNCHANGED <<rows, tombstoned, records, notes, misnamed, graves, present, migrated,
                    bare, away, backup, writer, up, calm, calls, edits, faults>>
    BY ReconcileDecideEffect
  <1>5. TablesOK'
    BY <1>1, <1>3, <1>4 DEF TablesOK
  <1>6. Takes(p, q)
    BY <1>1, <1>3, <1>4, <1>5, VaultIdleType DEF Takes
  <1> QED
    BY <1>6, ShapeStep

LEMMA DeleteBeginShape ==
  ASSUME VaultShape, NEW p \in Threads, NEW m \in Memories, DeleteBegin(p, m)
  PROVE  VaultShape'
  <1>1. VaultTypeOK /\ TablesOK
    BY VaultTables DEF VaultShape
  <1>2. PICK q : Carries(p, q) /\ q.at = "bury" /\ q.mem = m /\ Fresh(q)
    BY <1>1, DeleteBeginCarries
  <1>3. /\ up /\ calls < MaxCalls /\ calls' = calls + 1 /\ rows[m] # None
        /\ writer = None /\ writer' = p /\ Unlinked({m})
        /\ marks' = marks \cup {<<m, "asked">>} \cup (({m} \cap misnamed) \X {"misnamed"})
        /\ calm' = calm \cap {p}
        /\ UNCHANGED <<rows, tombstoned, away, backup, up, edits, faults>>
    BY DeleteBeginEffect
  <1>4. /\ records' \in [Memories -> Row] /\ notes' \in [Memories -> Note] /\ present' = TRUE
        /\ UNCHANGED <<misnamed, graves, migrated, bare>>
    BY <1>1, <1>3, UnlinkedType
  <1>5. marks' \subseteq Memories \X Reasons /\ calm' \subseteq Threads
    BY <1>1, <1>3 DEF TablesOK, Reasons
  <1>6. TablesOK'
    BY <1>1, <1>3, <1>4, <1>5, Counters DEF TablesOK
  <1>7. Takes(p, q)
    BY <1>2, <1>3, <1>4, <1>6 DEF Takes, Fresh
  <1> QED
    BY <1>7, ShapeStep

LEMMA ApplyGravesShape ==
  ASSUME VaultShape, NEW p \in Threads, ApplyGraves(p)
  PROVE  VaultShape'
  <1> DEFINE set == {m \in graves : records[m] # None}
  <1>1. VaultTypeOK /\ TablesOK /\ Posture(p) /\ up
    BY VaultTables, Running, ApplyGravesEffect DEF VaultShape
  <1>2. PICK q : Carries(p, q) /\ q.at = "read" /\ Same(q, work[p])
    BY <1>1, ApplyGravesEffect, ThenCarries DEF Labels
  <1>3. /\ work[p].at = "graves" /\ Unlinked(set)
        /\ marks' = marks \cup (IF AnyAt({"rebury"}) THEN Memories \X {"raced"} ELSE {})
                    \cup ({m \in graves \cap misnamed : records[m] # None} \X {"misnamed"})
        /\ calm' = calm \cap {p}
        /\ UNCHANGED <<rows, tombstoned, away, backup, writer, up, calls, edits, faults>>
    BY ApplyGravesEffect
  <1>4. /\ records' \in [Memories -> Row] /\ notes' \in [Memories -> Note] /\ present' = TRUE
        /\ UNCHANGED <<misnamed, graves, migrated, bare>>
    <2> HIDE DEF set
    <2> QED
      BY <1>1, <1>3, UnlinkedType
  <1>5. marks' \subseteq Memories \X Reasons /\ calm' \subseteq Threads
    BY <1>1, <1>3 DEF TablesOK, Reasons
  <1>6. TablesOK'
    BY <1>1, <1>3, <1>4, <1>5 DEF TablesOK
  <1>7. Takes(p, q)
    BY <1>1, <1>2, <1>3, <1>4, <1>6 DEF Takes, Same, Posture, Deciding, At
  <1> QED
    BY <1>7, ShapeStep

LEMMA RestoreSwapShape ==
  ASSUME VaultShape, NEW p \in Threads, RestoreSwap(p)
  PROVE  VaultShape'
  <1>1. VaultTypeOK /\ Posture(p) /\ TablesOK /\ up
    BY VaultTables, Running, RestoreSwapEffect DEF VaultShape
  <1>2. PICK q : Carries(p, q) /\ (q = VaultIdle \/ (q.at = "rebury" /\ Same(q, work[p])))
    BY <1>1, RestoreSwapEffect, ThenCarries, RestCarries DEF Labels
  <1>3. /\ work[p].at = "swap" /\ present' = TRUE /\ calm' = calm \cap {p}
        /\ marks' = marks \cup (IF AnyAt({"read"}) THEN Memories \X {"raced"} ELSE {})
                    \cup (IF AnyAt({"rewrite", "rows"}) \/ \E r \in Threads : Deciding(r)
                          THEN Memories \X {"restored"} ELSE {})
        /\ UNCHANGED <<rows, tombstoned, away, backup, writer, up, calls, edits>>
    BY RestoreSwapEffect
  <1>4. marks' \subseteq Memories \X Reasons /\ calm' \subseteq Threads
    BY <1>1, <1>3 DEF TablesOK, Reasons
  <1>5. /\ records' \in [Memories -> Row] /\ notes' \in [Memories -> Note] /\ misnamed' \subseteq Memories
        /\ graves' \subseteq Memories /\ migrated' \in BOOLEAN /\ bare' \in BOOLEAN /\ faults' \in 0 .. MaxFaults
    <2>1. /\ backup.records \in [Memories -> Row] /\ backup.notes \in [Memories -> Note]
          /\ backup.misnamed \subseteq Memories /\ backup.graves \subseteq Memories
          /\ backup.migrated \in BOOLEAN /\ backup.bare \in BOOLEAN
      BY <1>1 DEF TablesOK, Copy
    <2> QED
      BY <1>1, <2>1, RestoreSwapEffect, Counters DEF TablesOK
  <1>6. TablesOK'
    BY <1>1, <1>3, <1>4, <1>5 DEF TablesOK
  <1>7. Takes(p, q)
    BY <1>1, <1>2, <1>3, <1>6, VaultIdleType DEF Takes, Same, Posture, Deciding, At
  <1> QED
    BY <1>7, ShapeStep

LEMMA RestoreFailsShape ==
  ASSUME VaultShape, NEW p \in Threads, RestoreFails(p)
  PROVE  VaultShape'
  <1>1. VaultTypeOK /\ Posture(p) /\ TablesOK /\ up /\ (~present => notes = Nothing /\ records = Nothing)
    BY VaultTables, Running, RestoreFailsEffect DEF VaultShape
  <1>2. Carries(p, VaultIdle)
    BY <1>1, RestoreFailsEffect, RestCarries
  <1>3. /\ work[p].at \in {"swap", "rebury"} /\ calm' = {}
        /\ marks' = marks \cup (Memories \X {"torn"})
        /\ UNCHANGED <<rows, tombstoned, away, backup, writer, up, calls, edits>>
    BY RestoreFailsEffect
  <1>4. marks' \subseteq Memories \X Reasons
    BY <1>1, <1>3 DEF TablesOK, Reasons
  <1>5. /\ records' \in [Memories -> Row] /\ notes' \in [Memories -> Note] /\ misnamed' \subseteq Memories
        /\ graves' \subseteq Memories /\ migrated' \in BOOLEAN /\ bare' \in BOOLEAN
        /\ present' \in BOOLEAN /\ faults' \in 0 .. MaxFaults
        /\ ~present' => notes' = Nothing /\ records' = Nothing
    <2>1. /\ backup.records \in [Memories -> Row] /\ backup.notes \in [Memories -> Note]
          /\ backup.misnamed \subseteq Memories /\ backup.graves \subseteq Memories
          /\ backup.migrated \in BOOLEAN /\ backup.bare \in BOOLEAN
      BY <1>1 DEF TablesOK, Copy
    <2>2. work[p].buried \subseteq Memories
      BY <1>1, WorkType DEF Tasks
    <2> QED
      BY <1>1, <2>1, <2>2, RestoreFailsEffect, Counters DEF TablesOK
  <1>6. TablesOK'
    BY <1>1, <1>3, <1>4, <1>5 DEF TablesOK
  <1>7. Takes(p, VaultIdle)
    BY <1>1, <1>2, <1>3, <1>5, <1>6, VaultIdleType DEF Takes
  <1> QED
    BY <1>7, ShapeStep

LEMMA RebuildFailsShape ==
  ASSUME VaultShape, NEW p \in Threads, RebuildFails(p)
  PROVE  VaultShape'
  <1>1. VaultTypeOK /\ TablesOK /\ Posture(p) /\ up /\ (~present => notes = Nothing /\ records = Nothing)
    BY VaultTables, Running, RebuildFailsEffect DEF VaultShape
  <1>2. Carries(p, VaultIdle)
    BY <1>1, RebuildFailsEffect, RestCarries
  <1>3. /\ work[p].at \in {"graves", "read", "rewrite"} /\ calm' = {}
        /\ faults < MaxFaults /\ faults' = faults + 1
        /\ UNCHANGED <<rows, tombstoned, away, backup, writer, up, calls, edits>>
    BY RebuildFailsEffect
  <1>4. PICK some \in SUBSET {m \in graves : records[m] # None} :
               /\ Unlinked(some) \/ (some = {} /\ UNCHANGED files)
               /\ marks' = marks \cup (IF Restoring(p) THEN Memories \X {"torn"} ELSE {})
                           \cup (IF AnyAt({"rebury"}) THEN Memories \X {"raced"} ELSE {})
                           \cup ((some \cap misnamed) \X {"misnamed"})
    BY RebuildFailsEffect
  <1>5. /\ records' \in [Memories -> Row] /\ notes' \in [Memories -> Note]
        /\ present' = TRUE \/ UNCHANGED <<present, notes, records>>
        /\ UNCHANGED <<misnamed, graves, migrated, bare>>
    BY <1>1, <1>4, UnlinkedType DEF TablesOK, files
  <1>6. marks' \subseteq Memories \X Reasons
    BY <1>1, <1>4 DEF TablesOK, Reasons
  <1>7. TablesOK'
    BY <1>1, <1>3, <1>5, <1>6, Counters DEF TablesOK
  <1>8. Takes(p, VaultIdle)
    BY <1>1, <1>2, <1>3, <1>5, <1>7, VaultIdleType DEF Takes
  <1> QED
    BY <1>8, ShapeStep

LEMMA BackupShape ==
  ASSUME VaultShape, NEW p \in Threads, Backup(p)
  PROVE  VaultShape'
  <1>1. TablesOK
    BY VaultTables DEF VaultShape
  <1>2. backup' \in Copy
    <2>1. backup' = [records |-> records, notes |-> notes, misnamed |-> misnamed, graves |-> graves,
                     migrated |-> migrated, bare |-> bare, taken |-> TRUE]
      BY BackupEffect
    <2> QED
      BY <1>1, <2>1 DEF TablesOK, Copy
  <1>3. marks' \subseteq Memories \X Reasons
    BY <1>1, BackupEffect, MarkTypes DEF TablesOK
  <1>4. /\ up /\ present' = TRUE /\ calm' = calm \cap {p} /\ calls' \in 0 .. MaxCalls
        /\ UNCHANGED <<rows, tombstoned, records, notes, misnamed, graves, migrated, bare, away,
                       work, writer, up, edits, faults>>
    BY BackupEffect, Counters DEF VaultShape
  <1>5. VaultTypeOK'
    BY <1>1, <1>2, <1>3, <1>4 DEF TablesOK, VaultShape, VaultTypeOK
  <1> QED
    BY <1>4, <1>5 DEF VaultShape, Posture, Writing, Erasing, Deciding, At

\* A server that was stopped has no thread.
LEMMA StoppedShape ==
  ASSUME VaultShape, NEW torn, torn \subseteq Memories, StoppedAs(torn),
         records' \in [Memories -> Row], notes' \in [Memories -> Note], misnamed' \subseteq Memories,
         graves' \subseteq Memories, present' \in BOOLEAN, migrated' = migrated, bare' = bare,
         ~present' => notes' = Nothing /\ records' = Nothing
  PROVE  VaultShape'
  <1>1. TablesOK
    BY VaultTables DEF VaultShape
  <1>2. marks' \subseteq Memories \X Reasons
    <2>1. {work[p].mem : p \in {q \in Threads : Saving(q)}} \subseteq Memories
      BY DEF VaultShape, Posture, Writing, Saving
    <2> QED
      BY <1>1, <2>1 DEF TablesOK, StoppedAs, Reasons
  <1>3. VaultTypeOK'
    BY <1>1, <1>2, Counters, VaultIdleType, VaultConstants DEF TablesOK, VaultShape, VaultTypeOK,
         StoppedAs
  <1>4. \A p \in Threads : Posture(p)'
    BY VaultIdleType DEF StoppedAs, Posture, Writing, Erasing, Deciding, At
  <1> QED
    BY <1>3, <1>4 DEF StoppedAs, VaultShape

LEMMA VaultCrashShape ==
  ASSUME VaultShape, VaultCrash
  PROVE  VaultShape'
  BY VaultCrashEffect, StoppedShape DEF VaultShape, VaultTypeOK

LEMMA RestoreDiesShape ==
  ASSUME VaultShape, NEW p \in Threads, RestoreDies(p)
  PROVE  VaultShape'
  <1>1. /\ backup.records \in [Memories -> Row] /\ backup.notes \in [Memories -> Note]
        /\ backup.misnamed \subseteq Memories /\ backup.graves \subseteq Memories
    BY DEF VaultShape, VaultTypeOK, Copy
  <1> QED
    BY <1>1, RestoreDiesEffect, StoppedShape, VaultConstants DEF VaultShape, VaultTypeOK

LEMMA StartShape ==
  ASSUME VaultShape, Start
  PROVE  VaultShape'
  <1>1. VaultTypeOK /\ TablesOK
    BY VaultTables DEF VaultShape
  <1>2. VaultTypeOK'
    BY <1>1, StartEffect DEF TablesOK, VaultTypeOK
  <1> QED
    BY <1>1, <1>2, StartEffect, VaultIdleType DEF VaultShape, Posture, Writing, Erasing, Deciding,
         At

\* The user touches no thread.
LEMMA UserShape ==
  ASSUME VaultShape, TablesOK', UNCHANGED <<rows, work, writer, up>>, calm' = {},
         ~present' => notes' = Nothing /\ records' = Nothing
  PROVE  VaultShape'
  <1>1. VaultTypeOK'
    BY DEF VaultShape, TablesOK, VaultTypeOK
  <1>2. \A p \in Threads : Posture(p)'
    BY DEF VaultShape, Posture, Writing, Erasing, Deciding, At
  <1> QED
    BY <1>1, <1>2 DEF VaultShape

LEMMA EditShape ==
  ASSUME VaultShape, NEW m \in Memories, Edit(m)
  PROVE  VaultShape'
  <1>1. VaultTypeOK /\ TablesOK
    BY VaultTables DEF VaultShape
  <1>2. TablesOK'
    BY <1>1, EditEffect, Counters DEF TablesOK, Note, Row
  <1>3. present
    BY <1>1, EditEffect, VaultConstants DEF VaultShape
  <1> QED
    BY <1>1, <1>2, <1>3, EditEffect, UserShape

LEMMA CreateShape ==
  ASSUME VaultShape, NEW m \in Memories, NEW t \in Texts, Create(m, t)
  PROVE  VaultShape'
  <1>1. VaultTypeOK /\ TablesOK
    BY VaultTables DEF VaultShape
  <1>2. marks' = marks \cup (({m} \cap tombstoned) \X {"again"})
                      \cup (IF \E q \in Threads : Deciding(q) THEN {<<m, "moving">>} ELSE {})
    BY <1>1, CreateEffect
  <1>3. marks' \subseteq Memories \X Reasons
    BY <1>1, <1>2 DEF TablesOK, Reasons
  <1>4. /\ edits' \in 0 .. MaxEdits /\ calm' = {} /\ misnamed' \subseteq Memories /\ present' = TRUE
        /\ notes' \in [Memories -> Note]
        /\ UNCHANGED <<rows, tombstoned, records, graves, migrated, bare, away, backup, work,
                       writer, up, calls, faults>>
    <2>1. notes' = [notes EXCEPT ![m] = t] /\ t \in Note /\ notes \in [Memories -> Note]
      BY <1>1, CreateEffect DEF TablesOK, Note, Row
    <2> QED
      BY <1>1, <2>1, CreateEffect, Counters
  <1>5. TablesOK'
    BY <1>1, <1>3, <1>4 DEF TablesOK
  <1> QED
    BY <1>4, <1>5, UserShape

LEMMA DiscardShape ==
  ASSUME VaultShape, NEW m \in Memories, Discard(m)
  PROVE  VaultShape'
  <1>1. VaultTypeOK /\ TablesOK
    BY VaultTables DEF VaultShape
  <1>2. TablesOK'
    BY <1>1, DiscardEffect, Counters DEF TablesOK, Note, Row, Reasons
  <1>3. ~present => notes = Nothing /\ notes' = Nothing
    BY <1>1, DiscardEffect, VaultConstants DEF VaultShape, Nothing
  <1> QED
    BY <1>1, <1>2, <1>3, DiscardEffect, UserShape DEF VaultShape

LEMMA ClearShape ==
  ASSUME VaultShape, Clear
  PROVE  VaultShape'
  <1>1. VaultTypeOK /\ TablesOK
    BY VaultTables DEF VaultShape
  <1>2. TablesOK'
    <2>1. away' \in Aside
      BY <1>1, ClearEffect DEF TablesOK, Aside
    <2> QED
      BY <1>1, <2>1, ClearEffect, Counters, VaultConstants DEF TablesOK
  <1> QED
    BY <1>1, <1>2, ClearEffect, UserShape

LEMMA ReturnShape ==
  ASSUME VaultShape, Return
  PROVE  VaultShape'
  <1>1. VaultTypeOK /\ TablesOK
    BY VaultTables DEF VaultShape
  <1>2. TablesOK'
    <2>1. away' \in Aside
      BY <1>1, ReturnEffect, VaultConstants DEF NoneAside, Aside
    <2> QED
      BY <1>1, <2>1, ReturnEffect, MarkTypes DEF TablesOK, Reasons
  <1> QED
    BY <1>1, <1>2, ReturnEffect, UserShape

-----------------------------------------------------------------------------
(***************************************************************************)
(* What the steps do to the files and the row of one memory                *)
(***************************************************************************)
\* Only one thread at a time writes files in a transaction.
LEMMA OneWriter ==
  ASSUME VaultShape, NEW p \in Threads
  PROVE  /\ Writing(p) \/ Erasing(p) => writer = p /\ work[p].mem \in Memories
         /\ Writing(p) => work[p].text \in Texts /\ work[p].text # None
         /\ Erasing(p) => rows[work[p].mem] # None
         /\ writer = None => ~Writing(p) /\ ~Erasing(p)
  BY VaultConstants DEF VaultShape, Posture

\* A thread that moves, and the others, which do not.
LEMMA Moved ==
  ASSUME VaultShape, NEW p \in Threads, NEW q, Carries(p, q)
  PROVE  work'[p] = q /\ \A r \in Threads : r # p => work'[r] = work[r]
  BY AfterCarrying DEF VaultShape

LEMMA SaveFilesAt ==
  ASSUME VaultShape, NEW p \in Threads, SaveFiles(p), NEW k \in Memories
  PROVE  /\ work[p].at = "save.files" /\ work[p].text \in Texts /\ work[p].text # None /\ writer = p
         /\ k # work[p].mem => records'[k] = records[k] /\ notes'[k] = notes[k]
         /\ k = work[p].mem => records'[k] = work[p].text /\ notes'[k] \in {work[p].text, None}
  <1>1. work[p].at = "save.files" /\ work[p].text \in Texts /\ work[p].text # None /\ writer = p
    BY SaveFilesEffect, OneWriter DEF Writing
  <1>2. records \in [Memories -> Row] /\ notes \in [Memories -> Note]
    BY DEF VaultShape, VaultTypeOK
  <1> QED
    BY <1>1, <1>2, SaveFilesEffect

LEMMA SaveNoteAt ==
  ASSUME VaultShape, NEW p \in Threads, SaveNote(p), NEW k \in Memories
  PROVE  /\ work[p].at = "save.note" /\ work[p].text \in Texts /\ work[p].text # None /\ writer = p
         /\ marks \subseteq marks' /\ work[p].mem \in Memories
         /\ k # work[p].mem => notes'[k] = notes[k]
         /\ k = work[p].mem => notes'[k] = work[p].text \/ (notes'[k] = notes[k] /\ <<k, "unwritten">> \in marks')
  <1>1. work[p].at = "save.note" /\ work[p].text \in Texts /\ work[p].text # None /\ writer = p /\ work[p].mem \in Memories
    BY SaveNoteEffect, OneWriter DEF Writing
  <1>2. notes \in [Memories -> Note]
    BY DEF VaultShape, VaultTypeOK
  <1>3. \/ notes' = [notes EXCEPT ![work[p].mem] = work[p].text] /\ marks' = marks
        \/ notes' = notes /\ marks' = marks \cup ({work[p].mem} \X {"unwritten"})
    BY SaveNoteEffect
  <1> QED
    BY <1>1, <1>2, <1>3

LEMMA SaveCommitAt ==
  ASSUME VaultShape, NEW p \in Threads, SaveCommit(p), NEW k \in Memories
  PROVE  /\ work[p].at = "commit" /\ work[p].text \in Texts /\ work[p].text # None /\ writer = p
         /\ k # work[p].mem => rows'[k] = rows[k]
         /\ k = work[p].mem => rows'[k] = work[p].text
  <1>1. work[p].at = "commit" /\ work[p].text \in Texts /\ work[p].text # None /\ writer = p
    BY SaveCommitEffect, OneWriter DEF Writing
  <1> QED
    BY <1>1, SaveCommitEffect DEF VaultShape, VaultTypeOK

LEMMA UnlinkedAt ==
  ASSUME VaultShape, NEW set, Unlinked(set), NEW k \in Memories
  PROVE  /\ records'[k] = IF k \in set THEN None ELSE records[k]
         /\ k \in set => notes'[k] \in {notes[k], None} /\ (k \notin misnamed => notes'[k] = None)
         /\ k \notin set => notes'[k] = notes[k]
         /\ misnamed' = misnamed /\ graves' = graves /\ migrated' = migrated /\ present' = TRUE
  BY UnlinkedType DEF VaultShape

LEMMA EraseAt ==
  ASSUME VaultShape, NEW p \in Threads, Erase(p), NEW k \in Memories
  PROVE  /\ work[p].at = "erase" /\ work[p].mem \in Memories /\ writer = p
         /\ rows'[k] = IF k = work[p].mem THEN None ELSE rows[k]
         /\ tombstoned' = tombstoned \cup {work[p].mem}
  <1>1. work[p].at = "erase" /\ work[p].mem \in Memories /\ writer = p
    BY EraseEffect, OneWriter DEF Erasing
  <1> QED
    BY <1>1, EraseEffect DEF VaultShape, VaultTypeOK

\* Of a thread that ends its transaction or gives it up.
LEMMA AfterDeleteAt ==
  ASSUME VaultShape, NEW p \in Threads, AfterDelete(p)
  PROVE  \E q : /\ Carries(p, q)
                /\ \/ work[p].reconciling = FALSE /\ q = VaultIdle
                   \/ /\ work[p].reconciling = TRUE /\ q.reconciling = TRUE /\ q.at = "remove"
                      /\ q.queue = work[p].queue /\ q.buried = work[p].buried /\ q.rebuild = work[p].rebuild
  BY AfterDeleteCarries DEF VaultShape

LEMMA BackupTypes ==
  ASSUME VaultShape
  PROVE  /\ backup.records \in [Memories -> Row] /\ backup.notes \in [Memories -> Note]
         /\ backup.graves \subseteq Memories /\ backup.migrated \in BOOLEAN
         /\ away.records \in [Memories -> Row] /\ away.notes \in [Memories -> Note]
  BY DEF VaultShape, VaultTypeOK, Copy, Aside

LEMMA NoneAsideAt ==
  ASSUME NEW k \in Memories
  PROVE  NoneAside.records[k] = None /\ NoneAside.notes[k] = None
  BY VaultConstants DEF NoneAside

LEMMA HalvesAt ==
  ASSUME NEW r, NEW n, NEW k \in Memories
  PROVE  /\ r[k] = None /\ n[k] # None => <<k, "unrecorded">> \in Halves(r, n)
         /\ r[k] # None /\ n[k] = None => <<k, "unwritten">> \in Halves(r, n)
  BY DEF Halves

LEMMA EditAt ==
  ASSUME VaultShape, NEW m \in Memories, Edit(m), NEW k \in Memories
  PROVE  /\ k # m => notes'[k] = notes[k]
         /\ k = m => notes[k] # None /\ notes'[k] # None
  BY EditEffect, VaultConstants DEF VaultShape, VaultTypeOK

LEMMA StoppedAt ==
  ASSUME VaultShape, NEW torn, StoppedAs(torn)
  PROVE  /\ \A p \in Threads : work'[p] = VaultIdle
         /\ marks \subseteq marks'
         /\ \A k \in torn : <<k, "torn">> \in marks'
         /\ \A p \in Threads : work[p].at \in {"save.note", "commit"} => <<work[p].mem, "halfway">> \in marks'
         /\ UNCHANGED <<rows, tombstoned, away, backup>>
  BY DEF StoppedAs, Saving

\* Who has deletions to decide or to do is deciding.
LEMMA WhoDecides ==
  ASSUME VaultShape, NEW p \in Threads
  PROVE  /\ work[p].queue # {} \/ At(p, "decide") => Deciding(p)
         /\ At(p, "swap") => work[p].rebuild /\ ~work[p].reconciling
         /\ work[p].queue # {} => ~At(p, "decide")
  BY DEF VaultShape, Posture, Deciding, At

-----------------------------------------------------------------------------
(***************************************************************************)
(* A deleted memory stays out                                              *)
(***************************************************************************)
\* Nothing befell the memory that StayOut excepts.
Stayed(m) == \A r \in {"raced", "torn", "unrecorded", "misnamed", "again"} : <<m, r>> \notin marks

Going(m) == \E p \in Threads : Erasing(p) /\ work[p].mem = m
Sunk(m)  == m \in tombstoned \/ \E p \in Threads : At(p, "erase") /\ work[p].mem = m

\* A row that is deleted is gone, nobody writes it, and its tombstone is in the
\* vault, or in the hands of the restore that replaced the vault; the files of the
\* vault and of the backup are such that a tombstone finds them; and whoever has
\* read the vault since has not seen the memory.
StaysOut(m) == Stayed(m) =>
    /\ m \in tombstoned => rows[m] = None /\ \A p \in Threads : Writing(p) => work[p].mem # m
    /\ Sunk(m) => m \in graves \/ \E p \in Threads : At(p, "rebury") /\ m \in work[p].buried
    /\ Sunk(m) => \A p \in Threads : At(p, "swap") => m \in work[p].buried
    /\ backup.notes[m] # None => backup.records[m] # None
    /\ m \in tombstoned \/ Going(m) => (notes[m] # None => records[m] # None)
    /\ Sunk(m) => \A p \in Threads : At(p, "read") => records[m] = None /\ notes[m] = None
    /\ Sunk(m) => \A p \in Threads : At(p, "rewrite") => work[p].rows[m] = None

LEMMA SaveBeginOut ==
  ASSUME VaultShape, NEW p \in Threads, NEW m \in Memories, NEW t \in Texts, SaveBegin(p, m, t),
         NEW k \in Memories, StaysOut(k)
  PROVE  StaysOut(k)'
  <1>1. PICK q : Carries(p, q) /\ q.at = "save.files" /\ q.mem = m
    BY SaveBeginCarries DEF VaultShape
  <1>2. work'[p] = q /\ \A r \in Threads : r # p => work'[r] = work[r]
    BY <1>1, AfterCarrying DEF VaultShape
  <1>3. /\ work[p].at = "idle" /\ m \notin tombstoned /\ marks \subseteq marks'
        /\ UNCHANGED <<rows, tombstoned, records, notes, graves, backup>>
    BY SaveBeginEffect
  <1> QED
    BY <1>1, <1>2, <1>3 DEF StaysOut, Stayed, Going, Sunk, Writing, Erasing, At

LEMMA SaveFilesOut ==
  ASSUME VaultShape, NEW p \in Threads, SaveFiles(p), NEW k \in Memories, StaysOut(k)
  PROVE  StaysOut(k)'
  <1>1. PICK q : Carries(p, q) /\ q.at = "save.note" /\ Same(q, work[p])
    BY SaveFilesEffect, ThenCarries DEF VaultShape, Labels
  <1>2. work'[p] = q /\ \A r \in Threads : r # p => work'[r] = work[r]
    BY <1>1, Moved
  <1>3. /\ work[p].at = "save.files"
        /\ k # work[p].mem => records'[k] = records[k] /\ notes'[k] = notes[k]
        /\ k = work[p].mem => records'[k] # None
        /\ UNCHANGED <<rows, tombstoned, graves, backup, marks>>
    <2>1. UNCHANGED <<rows, tombstoned, graves, backup, marks>>
      BY SaveFilesEffect
    <2> QED
      BY <2>1, SaveFilesAt
  <1>4. \A r \in Threads : (Writing(r) \/ Erasing(r)) => r = p
    BY <1>3, OneWriter, SaveFilesAt
  <1> QED
    BY <1>1, <1>2, <1>3, <1>4 DEF StaysOut, Stayed, Going, Sunk, Writing, Erasing, At, Same

LEMMA SaveNoteOut ==
  ASSUME VaultShape, NEW p \in Threads, SaveNote(p), NEW k \in Memories, StaysOut(k)
  PROVE  StaysOut(k)'
  <1>1. PICK q : Carries(p, q) /\ q.at = "commit" /\ Same(q, work[p])
    BY SaveNoteEffect, ThenCarries DEF VaultShape, Labels
  <1>2. work'[p] = q /\ \A r \in Threads : r # p => work'[r] = work[r]
    BY <1>1, Moved
  <1>3. /\ work[p].at = "save.note" /\ marks \subseteq marks'
        /\ k # work[p].mem => notes'[k] = notes[k]
        /\ UNCHANGED <<rows, tombstoned, records, graves, backup>>
    BY SaveNoteEffect, SaveNoteAt
  <1>4. \A r \in Threads : (Writing(r) \/ Erasing(r)) => r = p
    BY <1>3, OneWriter, SaveNoteAt
  <1> QED
    BY <1>1, <1>2, <1>3, <1>4 DEF StaysOut, Stayed, Going, Sunk, Writing, Erasing, At, Same

LEMMA SaveCommitOut ==
  ASSUME VaultShape, NEW p \in Threads, SaveCommit(p), NEW k \in Memories, StaysOut(k)
  PROVE  StaysOut(k)'
  <1>1. PICK q : Carries(p, q) /\ q = VaultIdle
    BY SaveCommitEffect, RestCarries DEF VaultShape
  <1>2. work'[p] = q /\ \A r \in Threads : r # p => work'[r] = work[r]
    BY <1>1, Moved
  <1>3. /\ work[p].at = "commit" /\ q.at = "idle"
        /\ k # work[p].mem => rows'[k] = rows[k]
        /\ UNCHANGED <<tombstoned, records, notes, graves, backup, marks>>
    BY <1>1, SaveCommitEffect, SaveCommitAt, VaultIdleType
  <1> QED
    BY <1>1, <1>2, <1>3 DEF StaysOut, Stayed, Going, Sunk, Writing, Erasing, At

LEMMA DeleteBeginOut ==
  ASSUME VaultShape, NEW p \in Threads, NEW m \in Memories, DeleteBegin(p, m), NEW k \in Memories, StaysOut(k)
  PROVE  StaysOut(k)'
  <1>1. PICK q : Carries(p, q) /\ q.at = "bury" /\ q.mem = m
    BY DeleteBeginCarries DEF VaultShape
  <1>2. work'[p] = q /\ \A r \in Threads : r # p => work'[r] = work[r]
    BY <1>1, Moved
  <1>3. /\ work[p].at = "idle" /\ marks \subseteq marks' /\ graves' = graves
        /\ k # m => records'[k] = records[k] /\ notes'[k] = notes[k]
        /\ k = m => records'[k] = None /\ notes'[k] \in {notes[k], None} /\ (notes'[k] = None \/ <<k, "misnamed">> \in marks')
        /\ UNCHANGED <<rows, tombstoned, backup>>
    <2>1. /\ Unlinked({m}) /\ work[p].at = "idle"
          /\ marks' = marks \cup {<<m, "asked">>} \cup (({m} \cap misnamed) \X {"misnamed"})
          /\ UNCHANGED <<rows, tombstoned, backup>>
      BY DeleteBeginEffect
    <2>2. /\ records'[k] = IF k \in {m} THEN None ELSE records[k]
          /\ k \in {m} => notes'[k] \in {notes[k], None} /\ (k \notin misnamed => notes'[k] = None)
          /\ k \notin {m} => notes'[k] = notes[k]
          /\ graves' = graves
      BY <2>1, UnlinkedAt
    <2> QED
      BY <2>1, <2>2
  <1> QED
    BY <1>1, <1>2, <1>3 DEF StaysOut, Stayed, Going, Sunk, Writing, Erasing, At

LEMMA BuryOut ==
  ASSUME VaultShape, NEW p \in Threads, Bury(p), NEW k \in Memories, StaysOut(k)
  PROVE  StaysOut(k)'
  <1>1. PICK q : Carries(p, q) /\ q.at = "erase" /\ Same(q, work[p])
    BY BuryEffect, ThenCarries DEF VaultShape, Labels
  <1>2. work'[p] = q /\ \A r \in Threads : r # p => work'[r] = work[r]
    BY <1>1, Moved
  <1>3. /\ work[p].at = "bury" /\ graves' = graves \cup {work[p].mem} /\ marks \subseteq marks'
        /\ k = work[p].mem /\ AnyAt({"swap", "read", "rewrite"}) => <<k, "raced">> \in marks'
        /\ UNCHANGED <<rows, tombstoned, records, notes, backup>>
    BY BuryEffect
  <1> QED
    BY <1>1, <1>2, <1>3 DEF StaysOut, Stayed, Going, Sunk, Writing, Erasing, At, Same, AnyAt

LEMMA EraseOut ==
  ASSUME VaultShape, NEW p \in Threads, Erase(p), NEW k \in Memories, StaysOut(k)
  PROVE  StaysOut(k)'
  <1>1. PICK q : Carries(p, q) /\ (q = VaultIdle \/ q.at = "remove")
    BY AfterDeleteAt, EraseEffect
  <1>2. work'[p] = q /\ \A r \in Threads : r # p => work'[r] = work[r]
    BY <1>1, Moved
  <1>3. /\ work[p].at = "erase" /\ (q.at = "idle" \/ q.at = "remove") /\ writer = p
        /\ rows'[k] = IF k = work[p].mem THEN None ELSE rows[k]
        /\ tombstoned' = tombstoned \cup {work[p].mem}
        /\ UNCHANGED <<records, notes, graves, backup, marks>>
    BY <1>1, EraseEffect, EraseAt, VaultIdleType
  <1>4. \A r \in Threads : (Writing(r) \/ Erasing(r)) => r = p
    BY <1>3, OneWriter
  <1> QED
    BY <1>1, <1>2, <1>3, <1>4 DEF StaysOut, Stayed, Going, Sunk, Writing, Erasing, At

LEMMA AbortOut ==
  ASSUME VaultShape, NEW p \in Threads, Abort(p), NEW k \in Memories, StaysOut(k)
  PROVE  StaysOut(k)'
  <1>1. PICK q : Carries(p, q) /\ (q = VaultIdle \/ q.at = "remove")
    BY AfterDeleteAt, AbortEffect
  <1>2. work'[p] = q /\ \A r \in Threads : r # p => work'[r] = work[r]
    BY <1>1, Moved
  <1>3. /\ work[p].at \in {"save.files", "save.note", "commit", "bury", "erase"} /\ (q.at = "idle" \/ q.at = "remove")
        /\ marks \subseteq marks'
        /\ UNCHANGED <<rows, tombstoned, records, notes, graves, backup>>
    BY <1>1, AbortEffect, VaultIdleType
  <1> QED
    BY <1>1, <1>2, <1>3 DEF StaysOut, Stayed, Going, Sunk, Writing, Erasing, At

LEMMA ReconcileNotesOut ==
  ASSUME VaultShape, NEW p \in Threads, ReconcileNotes(p), NEW k \in Memories, StaysOut(k)
  PROVE  StaysOut(k)'
  <1>1. PICK q : Carries(p, q) /\ q.at = "rows"
    BY ReconcileNotesCarries DEF VaultShape
  <1>2. work'[p] = q /\ \A r \in Threads : r # p => work'[r] = work[r]
    BY <1>1, Moved
  <1>3. /\ work[p].at = "idle"
        /\ marks \subseteq marks'
        /\ UNCHANGED <<rows, tombstoned, records, notes, graves, backup>>
    BY ReconcileNotesEffect
  <1> QED
    BY <1>1, <1>2, <1>3 DEF StaysOut, Stayed, Going, Sunk, Writing, Erasing, At

LEMMA ReconcileRowsOut ==
  ASSUME VaultShape, NEW p \in Threads, ReconcileRows(p), NEW k \in Memories, StaysOut(k)
  PROVE  StaysOut(k)'
  <1>1. PICK q : Carries(p, q) /\ q.at = "decide"
    BY ReconcileRowsCarries DEF VaultShape
  <1>2. work'[p] = q /\ \A r \in Threads : r # p => work'[r] = work[r]
    BY <1>1, Moved
  <1>3. /\ work[p].at = "rows"
        /\ marks \subseteq marks'
        /\ UNCHANGED <<rows, tombstoned, records, notes, graves, backup>>
    BY ReconcileRowsEffect
  <1> QED
    BY <1>1, <1>2, <1>3 DEF StaysOut, Stayed, Going, Sunk, Writing, Erasing, At

LEMMA ReconcileDecideOut ==
  ASSUME VaultShape, NEW p \in Threads, ReconcileDecide(p), NEW k \in Memories, StaysOut(k)
  PROVE  StaysOut(k)'
  <1>1. PICK q : Carries(p, q) /\ (q = VaultIdle \/ q.at = "remove") /\ marks \subseteq marks'
    BY ReconcileDecideCarries DEF VaultShape
  <1>2. work'[p] = q /\ \A r \in Threads : r # p => work'[r] = work[r]
    BY <1>1, Moved
  <1>3. /\ work[p].at = "decide" /\ (q.at = "idle" \/ q.at = "remove")
        /\ marks \subseteq marks'
        /\ UNCHANGED <<rows, tombstoned, records, notes, graves, backup>>
    BY <1>1, ReconcileDecideEffect, VaultIdleType
  <1> QED
    BY <1>1, <1>2, <1>3 DEF StaysOut, Stayed, Going, Sunk, Writing, Erasing, At

LEMMA ReconcileRestOut ==
  ASSUME VaultShape, NEW p \in Threads, ReconcileRest(p), NEW k \in Memories, StaysOut(k)
  PROVE  StaysOut(k)'
  <1>1. PICK q : Carries(p, q) /\ (q = VaultIdle \/ q.at = "graves")
    BY ReconcileRestCarries DEF VaultShape
  <1>2. work'[p] = q /\ \A r \in Threads : r # p => work'[r] = work[r]
    BY <1>1, Moved
  <1>3. /\ work[p].at = "remove" /\ (q.at = "idle" \/ q.at = "graves")
        /\ marks \subseteq marks'
        /\ UNCHANGED <<rows, tombstoned, records, notes, graves, backup>>
    BY <1>1, ReconcileRestEffect, VaultIdleType
  <1> QED
    BY <1>1, <1>2, <1>3 DEF StaysOut, Stayed, Going, Sunk, Writing, Erasing, At

LEMMA RebuildBeginOut ==
  ASSUME VaultShape, NEW p \in Threads, RebuildBegin(p), NEW k \in Memories, StaysOut(k)
  PROVE  StaysOut(k)'
  <1>1. PICK q : Carries(p, q) /\ q.at = "graves"
    BY RebuildBeginCarries DEF VaultShape
  <1>2. work'[p] = q /\ \A r \in Threads : r # p => work'[r] = work[r]
    BY <1>1, Moved
  <1>3. /\ work[p].at = "idle"
        /\ marks \subseteq marks'
        /\ UNCHANGED <<rows, tombstoned, records, notes, graves, backup>>
    BY RebuildBeginEffect
  <1> QED
    BY <1>1, <1>2, <1>3 DEF StaysOut, Stayed, Going, Sunk, Writing, Erasing, At

LEMMA ReconcileRemoveOut ==
  ASSUME VaultShape, NEW p \in Threads, NEW m \in Memories, ReconcileRemove(p, m), NEW k \in Memories, StaysOut(k)
  PROVE  StaysOut(k)'
  <1>1. PICK q :
          /\ Carries(p, q) /\ work[p].at = "remove"
          /\ \/ q.at = "remove" /\ UNCHANGED <<files, writer, calm, marks>>
             \/ /\ q.at = "bury" /\ q.mem = m /\ Unlinked({m})
                /\ marks' = marks \cup (({m} \cap misnamed) \X {"misnamed"})
    BY ReconcileRemoveCarries DEF VaultShape
  <1>2. work'[p] = q /\ \A r \in Threads : r # p => work'[r] = work[r]
    BY <1>1, Moved
  <1>3. UNCHANGED <<rows, tombstoned, backup>>
    BY ReconcileRemoveEffect
  <1>4. CASE q.at = "remove" /\ UNCHANGED <<files, writer, calm, marks>>
    <2>1. UNCHANGED <<records, notes, graves, marks>>
      BY <1>4 DEF files
    <2> QED
      BY <1>1, <1>2, <1>3, <1>4, <2>1 DEF StaysOut, Stayed, Going, Sunk, Writing, Erasing, At
  <1>5. CASE /\ q.at = "bury" /\ q.mem = m /\ Unlinked({m})
             /\ marks' = marks \cup (({m} \cap misnamed) \X {"misnamed"})
    <2>1. /\ marks \subseteq marks' /\ graves' = graves
          /\ k # m => records'[k] = records[k] /\ notes'[k] = notes[k]
          /\ k = m => records'[k] = None /\ notes'[k] \in {notes[k], None} /\ (notes'[k] = None \/ <<k, "misnamed">> \in marks')
      BY <1>5, UnlinkedAt
    <2> QED
      BY <1>1, <1>2, <1>3, <1>5, <2>1 DEF StaysOut, Stayed, Going, Sunk, Writing, Erasing, At
  <1> QED
    BY <1>1, <1>4, <1>5

LEMMA ApplyGravesOut ==
  ASSUME VaultShape, NEW p \in Threads, ApplyGraves(p), NEW k \in Memories, StaysOut(k)
  PROVE  StaysOut(k)'
  <1>1. PICK q : Carries(p, q) /\ q.at = "read" /\ Same(q, work[p])
    BY ApplyGravesEffect, ThenCarries DEF VaultShape, Labels
  <1>2. work'[p] = q /\ \A r \in Threads : r # p => work'[r] = work[r]
    BY <1>1, Moved
  <1>3. /\ work[p].at = "graves" /\ marks \subseteq marks'
        /\ AnyAt({"rebury"}) => <<k, "raced">> \in marks'
        /\ UNCHANGED <<rows, tombstoned, graves, backup>>
    BY ApplyGravesEffect DEF Unlinked
  <1>4. /\ k \in graves /\ records[k] # None =>
             /\ records'[k] = None /\ notes'[k] \in {notes[k], None}
             /\ notes'[k] = None \/ <<k, "misnamed">> \in marks'
        /\ ~(k \in graves /\ records[k] # None) => records'[k] = records[k] /\ notes'[k] = notes[k]
    <2> DEFINE set == {m \in graves : records[m] # None}
    <2>1. /\ Unlinked(set)
          /\ k \in set /\ k \in misnamed => <<k, "misnamed">> \in marks'
      BY ApplyGravesEffect
    <2>2. k \in set <=> k \in graves /\ records[k] # None
      OBVIOUS
    <2> HIDE DEF set
    <2> QED
      BY <2>1, <2>2, UnlinkedAt
  <1> QED
    BY <1>1, <1>2, <1>3, <1>4 DEF StaysOut, Stayed, Going, Sunk, Writing, Erasing, At, Same, AnyAt

LEMMA ReadVaultOut ==
  ASSUME VaultShape, NEW p \in Threads, ReadVault(p), NEW k \in Memories, StaysOut(k)
  PROVE  StaysOut(k)'
  <1>1. PICK q : Carries(p, q) /\ q.at = "rewrite" /\ q.rows[k] = FromFiles(k)
    BY ReadVaultCarries DEF VaultShape
  <1>2. work'[p] = q /\ \A r \in Threads : r # p => work'[r] = work[r]
    BY <1>1, Moved
  <1>3. /\ work[p].at = "read"
        /\ marks \subseteq marks'
        /\ UNCHANGED <<rows, tombstoned, records, notes, graves, backup>>
    BY ReadVaultEffect
  <1>4. records[k] = None /\ notes[k] = None => q.rows[k] = None
    BY <1>1, VaultConstants DEF FromFiles, Readable
  <1> QED
    BY <1>1, <1>2, <1>3, <1>4 DEF StaysOut, Stayed, Going, Sunk, Writing, Erasing, At

LEMMA RewriteOut ==
  ASSUME VaultShape, NEW p \in Threads, Rewrite(p), NEW k \in Memories, StaysOut(k)
  PROVE  StaysOut(k)'
  <1>1. PICK q : Carries(p, q) /\ q = VaultIdle
    BY RewriteEffect, RestCarries DEF VaultShape
  <1>2. work'[p] = q /\ \A r \in Threads : r # p => work'[r] = work[r]
    BY <1>1, Moved
  <1>3. /\ work[p].at = "rewrite" /\ q.at = "idle" /\ rows' = work[p].rows
        /\ UNCHANGED <<tombstoned, records, notes, graves, backup, marks>>
    BY <1>1, RewriteEffect, VaultIdleType
  <1> QED
    BY <1>1, <1>2, <1>3 DEF StaysOut, Stayed, Going, Sunk, Writing, Erasing, At

LEMMA RestoreBeginOut ==
  ASSUME VaultShape, NEW p \in Threads, RestoreBegin(p), NEW k \in Memories, StaysOut(k)
  PROVE  StaysOut(k)'
  <1>1. PICK q : Carries(p, q) /\ q.at = "swap" /\ q.buried = graves
    BY RestoreBeginCarries DEF VaultShape
  <1>2. work'[p] = q /\ \A r \in Threads : r # p => work'[r] = work[r]
    BY <1>1, Moved
  <1>3. /\ work[p].at = "idle" /\ (AnyAt({"rebury"}) => <<k, "raced">> \in marks')
        /\ marks \subseteq marks'
        /\ UNCHANGED <<rows, tombstoned, records, notes, graves, backup>>
    BY RestoreBeginEffect
  <1> QED
    BY <1>1, <1>2, <1>3 DEF StaysOut, Stayed, Going, Sunk, Writing, Erasing, At, AnyAt

LEMMA RestoreSwapOut ==
  ASSUME VaultShape, NEW p \in Threads, RestoreSwap(p), NEW k \in Memories, StaysOut(k)
  PROVE  StaysOut(k)'
  <1>1. /\ work[p].at = "swap" /\ marks \subseteq marks' /\ (AnyAt({"read"}) => <<k, "raced">> \in marks')
        /\ UNCHANGED <<rows, tombstoned, backup>>
    BY RestoreSwapEffect
  <1>2. \/ /\ records' = backup.records /\ notes' = backup.notes /\ graves' = backup.graves /\ Then(p, "rebury")
        \/ Goes(p, VaultIdle) /\ UNCHANGED <<records, notes, graves>>
    BY RestoreSwapEffect
  <1>3. CASE records' = backup.records /\ notes' = backup.notes /\ graves' = backup.graves /\ Then(p, "rebury")
    <2>1. PICK q : Carries(p, q) /\ q.at = "rebury" /\ Same(q, work[p])
      BY <1>3, ThenCarries DEF VaultShape, Labels
    <2>2. work'[p] = q /\ \A r \in Threads : r # p => work'[r] = work[r]
      BY <2>1, Moved
    <2> QED
      BY <1>1, <1>3, <2>1, <2>2 DEF StaysOut, Stayed, Going, Sunk, Writing, Erasing, At, Same, AnyAt
  <1>4. CASE Goes(p, VaultIdle) /\ UNCHANGED <<records, notes, graves>>
    <2>1. Carries(p, VaultIdle)
      BY <1>4, RestCarries DEF VaultShape
    <2>2. work'[p] = VaultIdle /\ \A r \in Threads : r # p => work'[r] = work[r]
      BY <2>1, Moved
    <2> QED
      BY <1>1, <1>4, <2>2, VaultIdleType DEF StaysOut, Stayed, Going, Sunk, Writing, Erasing, At
  <1> QED
    BY <1>2, <1>3, <1>4

LEMMA RestoreReburyOut ==
  ASSUME VaultShape, NEW p \in Threads, RestoreRebury(p), NEW k \in Memories, StaysOut(k)
  PROVE  StaysOut(k)'
  <1>1. PICK q : Carries(p, q) /\ q.at = "graves" /\ Same(q, work[p])
    BY RestoreReburyEffect, ThenCarries DEF VaultShape, Labels
  <1>2. work'[p] = q /\ \A r \in Threads : r # p => work'[r] = work[r]
    BY <1>1, Moved
  <1>3. /\ work[p].at = "rebury" /\ graves' = graves \cup work[p].buried
        /\ UNCHANGED <<rows, tombstoned, records, notes, backup, marks>>
    BY RestoreReburyEffect
  <1> QED
    BY <1>1, <1>2, <1>3 DEF StaysOut, Stayed, Going, Sunk, Writing, Erasing, At, Same

LEMMA BackupOut ==
  ASSUME VaultShape, NEW p \in Threads, Backup(p), NEW k \in Memories, StaysOut(k)
  PROVE  StaysOut(k)'
  <1>1. /\ backup'.records = records /\ backup'.notes = notes /\ marks' = marks \cup Halves(records, notes)
        /\ UNCHANGED <<rows, tombstoned, records, notes, graves, work>>
    <2>1. backup' = [records |-> records, notes |-> notes, misnamed |-> misnamed, graves |-> graves,
                     migrated |-> migrated, bare |-> bare, taken |-> TRUE]
      BY BackupEffect
    <2> QED
      BY <2>1, BackupEffect
  <1>2. marks \subseteq marks' /\ (notes[k] # None /\ records[k] = None => <<k, "unrecorded">> \in marks')
    BY <1>1, HalvesAt
  <1> QED
    BY <1>1, <1>2 DEF StaysOut, Stayed, Going, Sunk, Writing, Erasing, At

\* Nobody is in the middle of anything any more; a restore that was loses its
\* tombstones, and is marked.
LEMMA VaultCrashOut ==
  ASSUME VaultShape, VaultCrash, NEW k \in Memories, StaysOut(k)
  PROVE  StaysOut(k)'
  <1> DEFINE torn == IF \E p \in Threads : Restoring(p) THEN Memories ELSE {}
  <1>1. StoppedAs(torn) /\ UNCHANGED <<records, notes, graves>>
    BY VaultCrashEffect
  <1>2. /\ \A p \in Threads : work'[p] = VaultIdle
        /\ marks \subseteq marks' /\ (k \in torn => <<k, "torn">> \in marks')
        /\ UNCHANGED <<rows, tombstoned, backup>>
    <2> HIDE DEF torn
    <2> QED
      BY <1>1, StoppedAt
  <1>3. \A p \in Threads : At(p, "rebury") => <<k, "torn">> \in marks'
    BY <1>2 DEF Restoring
  <1> QED
    BY <1>1, <1>2, <1>3, VaultIdleType DEF StaysOut, Stayed, Going, Sunk, Writing, Erasing, At

LEMMA RestoreDiesOut ==
  ASSUME VaultShape, NEW p \in Threads, RestoreDies(p), NEW k \in Memories
  PROVE  StaysOut(k)'
  BY RestoreDiesEffect, StoppedAt DEF StaysOut, Stayed

LEMMA RestoreFailsOut ==
  ASSUME VaultShape, NEW p \in Threads, RestoreFails(p), NEW k \in Memories
  PROVE  StaysOut(k)'
  BY RestoreFailsEffect DEF StaysOut, Stayed

LEMMA RebuildFailsOut ==
  ASSUME VaultShape, NEW p \in Threads, RebuildFails(p), NEW k \in Memories, StaysOut(k)
  PROVE  StaysOut(k)'
  <1>1. Carries(p, VaultIdle)
    BY RebuildFailsEffect, RestCarries DEF VaultShape
  <1>2. work'[p] = VaultIdle /\ \A r \in Threads : r # p => work'[r] = work[r]
    BY <1>1, Moved
  <1>3. /\ work[p].at \in {"graves", "read", "rewrite"}
        /\ UNCHANGED <<rows, tombstoned, backup>>
    BY RebuildFailsEffect
  <1>4. PICK some \in SUBSET {m \in graves : records[m] # None} :
               /\ Unlinked(some) \/ (some = {} /\ UNCHANGED files)
               /\ marks' = marks \cup (IF Restoring(p) THEN Memories \X {"torn"} ELSE {})
                           \cup (IF AnyAt({"rebury"}) THEN Memories \X {"raced"} ELSE {})
                           \cup ((some \cap misnamed) \X {"misnamed"})
    BY RebuildFailsEffect
  <1>5. /\ marks \subseteq marks' /\ (AnyAt({"rebury"}) => <<k, "raced">> \in marks')
        /\ Restoring(p) => <<k, "torn">> \in marks'
    BY <1>4
  <1>6. /\ graves' = graves
        /\ k \in some => /\ k \in graves /\ records'[k] = None /\ notes'[k] \in {notes[k], None}
                        /\ (notes'[k] = None \/ <<k, "misnamed">> \in marks')
        /\ k \notin some => records'[k] = records[k] /\ notes'[k] = notes[k]
    BY <1>4, UnlinkedAt DEF files
  <1> QED
    BY <1>2, <1>3, <1>5, <1>6, VaultIdleType DEF StaysOut, Stayed, Going, Sunk, Writing, Erasing, At,
         AnyAt, Restoring

LEMMA StartOut ==
  ASSUME VaultShape, Start, NEW k \in Memories, StaysOut(k)
  PROVE  StaysOut(k)'
  <1>1. /\ ~up /\ UNCHANGED <<rows, tombstoned, graves, backup, work, marks>>
        /\ records' = IF bare /\ records = Nothing THEN rows ELSE records
        /\ notes'[k] = notes[k] \/ (notes'[k] = rows[k] /\ rows[k] # None)
    BY StartEffect DEF VaultShape
  <1>2. \A p \in Threads : work[p] = VaultIdle
    BY <1>1 DEF VaultShape, Posture
  <1>3. records = Nothing => records[k] = None
    BY VaultConstants
  <1> QED
    BY <1>1, <1>2, <1>3, VaultIdleType DEF StaysOut, Stayed, Going, Sunk, Writing, Erasing, At

LEMMA EditOut ==
  ASSUME VaultShape, NEW m \in Memories, Edit(m), NEW k \in Memories, StaysOut(k)
  PROVE  StaysOut(k)'
  <1>1. /\ UNCHANGED <<rows, tombstoned, records, graves, backup, work, marks>>
        /\ notes[k] # None <=> notes'[k] # None
    BY EditEffect, EditAt DEF VaultShape
  <1> QED
    BY <1>1 DEF StaysOut, Stayed, Going, Sunk, Writing, Erasing, At

\* Written again when it was gone, it is marked; while it goes, it has a row.
LEMMA CreateOut ==
  ASSUME VaultShape, NEW m \in Memories, NEW t \in Texts, Create(m, t), NEW k \in Memories, StaysOut(k)
  PROVE  StaysOut(k)'
  <1>1. /\ UNCHANGED <<rows, tombstoned, records, graves, backup, work>> /\ rows[m] = None
        /\ marks \subseteq marks' /\ (k = m /\ k \in tombstoned => <<k, "again">> \in marks')
        /\ k # m => notes'[k] = notes[k]
    BY CreateEffect DEF VaultShape, VaultTypeOK
  <1>2. \A p \in Threads : Erasing(p) => work[p].mem # m
    BY <1>1, OneWriter
  <1> QED
    BY <1>1, <1>2 DEF StaysOut, Stayed, Going, Sunk, Writing, Erasing, At

LEMMA DiscardOut ==
  ASSUME VaultShape, NEW m \in Memories, Discard(m), NEW k \in Memories, StaysOut(k)
  PROVE  StaysOut(k)'
  <1>1. /\ UNCHANGED <<rows, tombstoned, records, graves, backup, work>> /\ marks \subseteq marks'
        /\ notes'[k] \in {notes[k], None}
    BY DiscardEffect DEF VaultShape, VaultTypeOK
  <1> QED
    BY <1>1 DEF StaysOut, Stayed, Going, Sunk, Writing, Erasing, At

LEMMA ClearOut ==
  ASSUME VaultShape, Clear, NEW k \in Memories, StaysOut(k)
  PROVE  StaysOut(k)'
  <1>1. /\ UNCHANGED <<rows, tombstoned, graves, backup, work, marks>>
        /\ records'[k] = None /\ notes'[k] = None
    BY ClearEffect, VaultConstants DEF VaultShape
  <1> QED
    BY <1>1 DEF StaysOut, Stayed, Going, Sunk, Writing, Erasing, At

LEMMA ReturnOut ==
  ASSUME VaultShape, Return, NEW k \in Memories, StaysOut(k)
  PROVE  StaysOut(k)'
  <1>1. /\ UNCHANGED <<rows, tombstoned, graves, backup, work>>
        /\ marks' = marks \cup (IF AnyAt({"bury", "erase", "read"}) THEN Memories \X {"raced"} ELSE {})
                      \cup Halves(records', notes')
    BY ReturnEffect DEF VaultShape
  <1>2. /\ marks \subseteq marks' /\ (AnyAt({"bury", "erase", "read"}) => <<k, "raced">> \in marks')
        /\ notes'[k] # None /\ records'[k] = None => <<k, "unrecorded">> \in marks'
    BY <1>1, HalvesAt
  <1> QED
    BY <1>1, <1>2 DEF StaysOut, Stayed, Going, Sunk, Writing, Erasing, At, AnyAt

-----------------------------------------------------------------------------
(***************************************************************************)
(* Only what was deleted goes                                              *)
(***************************************************************************)
\* Nothing befell the memory that OnlyDeletedGo excepts.
Untouched(m) ==
    \A r \in {"asked", "unwritten", "halfway", "moving", "swept", "misnamed", "restored", "torn"} :
        <<m, r>> \notin marks

SavingNote(m) == \E p \in Threads : At(p, "save.note") /\ work[p].mem = m
\* A restore that has replaced the vault and has not rebuilt the index yet.
Replacing(p) ==
    work[p].at \in {"rebury", "graves", "read", "rewrite"} /\ work[p].rebuild /\ ~work[p].reconciling
\* The memory has a note: in the vault, kept back, or about to be written.
Backed(m) == notes[m] # None \/ away.notes[m] # None \/ SavingNote(m)
\* It is nowhere, and nobody brings it back.
Nowhere(m) ==
    /\ rows[m] = None /\ notes[m] = None /\ away.notes[m] = None /\ records[m] = None
    /\ \A p \in Threads : Writing(p) => work[p].mem # m
    /\ \A p \in Threads : At(p, "rewrite") => work[p].rows[m] = None

\* No tombstone of it is anywhere, and no deletion of it is under way.
Spared(m) ==
    /\ m \notin graves /\ m \notin backup.graves /\ (backup.records[m] # None => backup.notes[m] # None)
    /\ \A p \in Threads : m \notin work[p].buried /\ (Erasing(p) => work[p].mem # m)
\* Whom a reconciliation means to delete is nowhere.
QueuedIsNowhere(m) == \A p \in Threads : m \in work[p].queue => Nowhere(m)
\* A record without a note is of a vault of before notes, and has its row.
RecordHasNote(m) ==
    records[m] # None /\ notes[m] = None /\ ~SavingNote(m) =>
        /\ ~migrated /\ rows[m] # None
        /\ \A p \in Threads : At(p, "rewrite") => work[p].rows[m] # None
\* In a migrated vault what is in the index, or about to be, has a note, unless
\* a restore is about to replace the index.
RowHasNote(m) ==
    /\ migrated /\ rows[m] # None => Backed(m) \/ \E p \in Threads : Replacing(p)
    /\ (\E p \in Threads : At(p, "commit") /\ work[p].mem = m) =>
          notes[m] # None \/ away.notes[m] # None \/ \E p \in Threads : Replacing(p)
    /\ \A p \in Threads : At(p, "rewrite") /\ migrated /\ work[p].rows[m] # None => Backed(m)
\* A reconciliation that read the row decides of a memory that has a note, or is nowhere.
DecidedHasNote(m) ==
    \A p \in Threads : At(p, "decide") /\ migrated /\ work[p].rows[m] # None =>
        Backed(m) \/ (\E r \in Threads \ {p} : Replacing(r)) \/ Nowhere(m)

StaysIn(m) == Untouched(m) =>
    /\ Spared(m)
    /\ QueuedIsNowhere(m)
    /\ RecordHasNote(m)
    /\ RowHasNote(m)
    /\ DecidedHasNote(m)

LEMMA SaveBeginIn ==
  ASSUME VaultShape, NEW p \in Threads, NEW m \in Memories, NEW t \in Texts, SaveBegin(p, m, t), NEW k \in Memories, StaysIn(k)
  PROVE  StaysIn(k)'
  <1>1. PICK q : Carries(p, q) /\ q.at = "save.files" /\ q.mem = m /\ Fresh(q)
    BY SaveBeginCarries DEF VaultShape
  <1>2. work'[p] = q /\ \A r \in Threads : r # p => work'[r] = work[r]
    BY <1>1, Moved
  <1>3. /\ work[p].at = "idle" /\ marks \subseteq marks'
        /\ k = m /\ rows[k] = None /\ (\E r \in Threads : Deciding(r)) => <<k, "moving">> \in marks'
        /\ UNCHANGED <<rows, records, notes, away, graves, backup, migrated>>
    BY SaveBeginEffect
  <1>4. \A r \in Threads : work[r].queue # {} \/ At(r, "decide") => Deciding(r)
    BY WhoDecides
  <1>5. SUFFICES ASSUME Untouched(k)'
        PROVE  /\ Spared(k)'
               /\ QueuedIsNowhere(k)'
               /\ RecordHasNote(k)'
               /\ RowHasNote(k)'
               /\ DecidedHasNote(k)'
    BY DEF StaysIn
  <1>6. Untouched(k) /\ Spared(k) /\ QueuedIsNowhere(k) /\ RecordHasNote(k) /\ RowHasNote(k) /\ DecidedHasNote(k)
    BY <1>1, <1>2, <1>3, <1>4, <1>5 DEF StaysIn, Untouched
  <1>7. Spared(k)'
    BY <1>1, <1>2, <1>3, <1>4, <1>5, <1>6 DEF Untouched, Spared, Erasing, Fresh
  <1>8. QueuedIsNowhere(k)'
    BY <1>1, <1>2, <1>3, <1>4, <1>5, <1>6 DEF Untouched, Spared, QueuedIsNowhere, Nowhere, Writing,
         At, Fresh
  <1>9. RecordHasNote(k)'
    BY <1>1, <1>2, <1>3, <1>4, <1>5, <1>6 DEF Untouched, Spared, RecordHasNote, SavingNote, At,
         Fresh
  <1>10. RowHasNote(k)'
    BY <1>1, <1>2, <1>3, <1>4, <1>5, <1>6 DEF Untouched, Spared, RecordHasNote, RowHasNote, Backed,
         SavingNote, Replacing, At, Fresh
  <1>11. DecidedHasNote(k)'
    BY <1>1, <1>2, <1>3, <1>4, <1>5, <1>6 DEF Untouched, Spared, RowHasNote, DecidedHasNote, Backed,
         SavingNote, Replacing, Nowhere, Writing, At, Fresh
  <1> QED
    BY <1>7, <1>8, <1>9, <1>10, <1>11

LEMMA SaveFilesIn ==
  ASSUME VaultShape, NEW p \in Threads, SaveFiles(p), NEW k \in Memories, StaysIn(k)
  PROVE  StaysIn(k)'
  <1>1. PICK q : Carries(p, q) /\ q.at = "save.note" /\ Same(q, work[p])
    BY SaveFilesEffect, ThenCarries DEF VaultShape, Labels
  <1>2. work'[p] = q /\ \A r \in Threads : r # p => work'[r] = work[r]
    BY <1>1, Moved
  <1>3. /\ work[p].at = "save.files"
        /\ k # work[p].mem => records'[k] = records[k] /\ notes'[k] = notes[k]
        /\ UNCHANGED <<rows, away, graves, backup, migrated, marks>>
    BY SaveFilesEffect, SaveFilesAt
  <1>4. \A r \in Threads : Writing(r) => r = p
    BY <1>3, OneWriter, SaveFilesAt
  <1>5. SUFFICES ASSUME Untouched(k)'
        PROVE  /\ Spared(k)'
               /\ QueuedIsNowhere(k)'
               /\ RecordHasNote(k)'
               /\ RowHasNote(k)'
               /\ DecidedHasNote(k)'
    BY DEF StaysIn
  <1>6. Untouched(k) /\ Spared(k) /\ QueuedIsNowhere(k) /\ RecordHasNote(k) /\ RowHasNote(k) /\ DecidedHasNote(k)
    BY <1>1, <1>2, <1>3, <1>4, <1>5 DEF StaysIn, Untouched
  <1>7. Spared(k)'
    BY <1>1, <1>2, <1>3, <1>4, <1>5, <1>6 DEF Untouched, Spared, Erasing, Same
  <1>8. QueuedIsNowhere(k)'
    BY <1>1, <1>2, <1>3, <1>4, <1>5, <1>6 DEF Untouched, Spared, QueuedIsNowhere, Nowhere, Writing,
         At, Same
  <1>9. RecordHasNote(k)'
    BY <1>1, <1>2, <1>3, <1>4, <1>5, <1>6 DEF Untouched, Spared, RecordHasNote, SavingNote, At, Same
  <1>10. RowHasNote(k)'
    <2>1. CASE k = work[p].mem
      <3>1. SavingNote(k)'
        BY <1>1, <1>2, <1>3, <1>4, <1>5, <1>6, <2>1 DEF SavingNote, At, Same
      <3>2. \A r \in Threads : ~(At(r, "commit")' /\ work'[r].mem = k)
        BY <1>1, <1>2, <1>3, <1>4, <1>5, <1>6, <2>1 DEF At, Writing
      <3> QED
        BY <1>1, <1>2, <1>3, <1>4, <1>5, <1>6, <3>1, <3>2 DEF RowHasNote, Backed
    <2>2. CASE k # work[p].mem
      <3>1. /\ SavingNote(k) => SavingNote(k)'
            /\ \A r \in Threads : Replacing(r) => Replacing(r)'
            /\ \A r \in Threads : At(r, "commit")' => At(r, "commit") /\ work'[r].mem = work[r].mem
            /\ \A r \in Threads : At(r, "rewrite")' => At(r, "rewrite") /\ work'[r].rows = work[r].rows
        BY <1>1, <1>2, <1>3, <1>4, <1>5, <1>6, <2>2 DEF SavingNote, Replacing, At, Same
      <3> QED
        BY <1>1, <1>2, <1>3, <1>4, <1>5, <1>6, <2>2, <3>1 DEF RowHasNote, Backed
    <2> QED
      BY <2>1, <2>2
  <1>11. DecidedHasNote(k)'
    BY <1>1, <1>2, <1>3, <1>4, <1>5, <1>6 DEF Untouched, Spared, RowHasNote, DecidedHasNote, Backed,
         SavingNote, Replacing, Nowhere, Writing, At, Same
  <1> QED
    BY <1>7, <1>8, <1>9, <1>10, <1>11

LEMMA SaveNoteIn ==
  ASSUME VaultShape, NEW p \in Threads, SaveNote(p), NEW k \in Memories, StaysIn(k)
  PROVE  StaysIn(k)'
  <1>1. PICK q : Carries(p, q) /\ q.at = "commit" /\ Same(q, work[p])
    BY SaveNoteEffect, ThenCarries DEF VaultShape, Labels
  <1>2. work'[p] = q /\ \A r \in Threads : r # p => work'[r] = work[r]
    BY <1>1, Moved
  <1>3. /\ work[p].at = "save.note" /\ marks \subseteq marks'
        /\ k # work[p].mem => notes'[k] = notes[k]
        /\ k = work[p].mem => notes'[k] # None \/ <<k, "unwritten">> \in marks'
        /\ UNCHANGED <<rows, records, away, graves, backup, migrated>>
    BY SaveNoteEffect, SaveNoteAt
  <1>4. SUFFICES ASSUME Untouched(k)'
        PROVE  /\ Spared(k)'
               /\ QueuedIsNowhere(k)'
               /\ RecordHasNote(k)'
               /\ RowHasNote(k)'
               /\ DecidedHasNote(k)'
    BY DEF StaysIn
  <1>5. Untouched(k) /\ Spared(k) /\ QueuedIsNowhere(k) /\ RecordHasNote(k) /\ RowHasNote(k) /\ DecidedHasNote(k)
    BY <1>1, <1>2, <1>3, <1>4 DEF StaysIn, Untouched
  <1>6. Spared(k)'
    BY <1>1, <1>2, <1>3, <1>4, <1>5 DEF Untouched, Spared, Erasing, Same
  <1>7. QueuedIsNowhere(k)'
    BY <1>1, <1>2, <1>3, <1>4, <1>5 DEF Untouched, Spared, QueuedIsNowhere, Nowhere, Writing, At,
         Same
  <1>8. RecordHasNote(k)'
    BY <1>1, <1>2, <1>3, <1>4, <1>5 DEF Untouched, Spared, RecordHasNote, SavingNote, At, Same
  <1>9. RowHasNote(k)'
    <2>1. CASE k = work[p].mem
      BY <1>1, <1>2, <1>3, <1>4, <1>5, <2>1 DEF Untouched, RowHasNote, Backed
    <2>2. CASE k # work[p].mem
      <3>1. /\ SavingNote(k) => SavingNote(k)'
            /\ \A r \in Threads : Replacing(r) => Replacing(r)'
            /\ \A r \in Threads : At(r, "commit")' /\ work'[r].mem = k => At(r, "commit") /\ work[r].mem = k
            /\ \A r \in Threads : At(r, "rewrite")' => At(r, "rewrite") /\ work'[r].rows = work[r].rows
        BY <1>1, <1>2, <1>3, <1>4, <1>5, <2>2 DEF SavingNote, Replacing, At, Same
      <3> QED
        BY <1>1, <1>2, <1>3, <1>4, <1>5, <2>2, <3>1 DEF RowHasNote, Backed
    <2> QED
      BY <2>1, <2>2
  <1>10. DecidedHasNote(k)'
    BY <1>1, <1>2, <1>3, <1>4, <1>5 DEF Untouched, Spared, RowHasNote, DecidedHasNote, Backed,
         SavingNote, Replacing, Nowhere, Writing, At, Same
  <1> QED
    BY <1>6, <1>7, <1>8, <1>9, <1>10

LEMMA SaveCommitIn ==
  ASSUME VaultShape, NEW p \in Threads, SaveCommit(p), NEW k \in Memories, StaysIn(k)
  PROVE  StaysIn(k)'
  <1>1. PICK q : Carries(p, q) /\ q = VaultIdle
    BY SaveCommitEffect, RestCarries DEF VaultShape
  <1>2. work'[p] = q /\ \A r \in Threads : r # p => work'[r] = work[r]
    BY <1>1, Moved
  <1>3. /\ work[p].at = "commit" /\ q.at = "idle" /\ q.buried = {} /\ q.queue = {}
        /\ k # work[p].mem => rows'[k] = rows[k]
        /\ k = work[p].mem => rows'[k] # None
        /\ UNCHANGED <<records, notes, away, graves, backup, migrated, marks>>
    BY <1>1, SaveCommitEffect, SaveCommitAt, VaultIdleType
  <1>4. SUFFICES ASSUME Untouched(k)'
        PROVE  /\ Spared(k)'
               /\ QueuedIsNowhere(k)'
               /\ RecordHasNote(k)'
               /\ RowHasNote(k)'
               /\ DecidedHasNote(k)'
    BY DEF StaysIn
  <1>5. Untouched(k) /\ Spared(k) /\ QueuedIsNowhere(k) /\ RecordHasNote(k) /\ RowHasNote(k) /\ DecidedHasNote(k)
    BY <1>1, <1>2, <1>3, <1>4 DEF StaysIn, Untouched
  <1>6. Spared(k)'
    BY <1>1, <1>2, <1>3, <1>4, <1>5 DEF Untouched, Spared, Erasing
  <1>7. QueuedIsNowhere(k)'
    BY <1>1, <1>2, <1>3, <1>4, <1>5 DEF Untouched, Spared, QueuedIsNowhere, Nowhere, Writing, At
  <1>8. RecordHasNote(k)'
    BY <1>1, <1>2, <1>3, <1>4, <1>5 DEF Untouched, Spared, RecordHasNote, SavingNote, At
  <1>9. RowHasNote(k)'
    BY <1>1, <1>2, <1>3, <1>4, <1>5 DEF Untouched, Spared, RecordHasNote, RowHasNote, Backed,
         SavingNote, Replacing, At
  <1>10. DecidedHasNote(k)'
    BY <1>1, <1>2, <1>3, <1>4, <1>5 DEF Untouched, Spared, RowHasNote, DecidedHasNote, Backed,
         SavingNote, Replacing, Nowhere, Writing, At
  <1> QED
    BY <1>6, <1>7, <1>8, <1>9, <1>10

LEMMA DeleteBeginIn ==
  ASSUME VaultShape, NEW p \in Threads, NEW m \in Memories, DeleteBegin(p, m), NEW k \in Memories, StaysIn(k)
  PROVE  StaysIn(k)'
  <1>1. PICK q : Carries(p, q) /\ q.at = "bury" /\ q.mem = m /\ Fresh(q)
    BY DeleteBeginCarries DEF VaultShape
  <1>2. work'[p] = q /\ \A r \in Threads : r # p => work'[r] = work[r]
    BY <1>1, Moved
  <1>3. /\ work[p].at = "idle" /\ marks \subseteq marks'
        /\ k # m => records'[k] = records[k] /\ notes'[k] = notes[k]
        /\ k = m => <<k, "asked">> \in marks'
        /\ UNCHANGED <<rows, away, graves, backup, migrated>>
    <2>1. /\ Unlinked({m}) /\ work[p].at = "idle"
          /\ marks' = marks \cup {<<m, "asked">>} \cup (({m} \cap misnamed) \X {"misnamed"})
          /\ UNCHANGED <<rows, away, backup>>
      BY DeleteBeginEffect
    <2>2. /\ k \notin {m} => records'[k] = records[k] /\ notes'[k] = notes[k]
          /\ graves' = graves /\ migrated' = migrated
      BY <2>1, UnlinkedAt
    <2> QED
      BY <2>1, <2>2
  <1>4. SUFFICES ASSUME Untouched(k)'
        PROVE  /\ Spared(k)'
               /\ QueuedIsNowhere(k)'
               /\ RecordHasNote(k)'
               /\ RowHasNote(k)'
               /\ DecidedHasNote(k)'
    BY DEF StaysIn
  <1>5. Untouched(k) /\ Spared(k) /\ QueuedIsNowhere(k) /\ RecordHasNote(k) /\ RowHasNote(k) /\ DecidedHasNote(k)
    BY <1>1, <1>2, <1>3, <1>4 DEF StaysIn, Untouched
  <1>6. Spared(k)'
    BY <1>1, <1>2, <1>3, <1>4, <1>5 DEF Untouched, Spared, Erasing, Fresh
  <1>7. QueuedIsNowhere(k)'
    BY <1>1, <1>2, <1>3, <1>4, <1>5 DEF Untouched, Spared, QueuedIsNowhere, Nowhere, Writing, At,
         Fresh
  <1>8. RecordHasNote(k)'
    BY <1>1, <1>2, <1>3, <1>4, <1>5 DEF Untouched, Spared, RecordHasNote, SavingNote, At, Fresh
  <1>9. RowHasNote(k)'
    BY <1>1, <1>2, <1>3, <1>4, <1>5 DEF Untouched, Spared, RecordHasNote, RowHasNote, Backed,
         SavingNote, Replacing, At, Fresh
  <1>10. DecidedHasNote(k)'
    BY <1>1, <1>2, <1>3, <1>4, <1>5 DEF Untouched, Spared, RowHasNote, DecidedHasNote, Backed,
         SavingNote, Replacing, Nowhere, Writing, At, Fresh
  <1> QED
    BY <1>6, <1>7, <1>8, <1>9, <1>10

LEMMA BuryIn ==
  ASSUME VaultShape, NEW p \in Threads, Bury(p), NEW k \in Memories, StaysIn(k)
  PROVE  StaysIn(k)'
  <1>1. PICK q : Carries(p, q) /\ q.at = "erase" /\ Same(q, work[p])
    BY BuryEffect, ThenCarries DEF VaultShape, Labels
  <1>2. work'[p] = q /\ \A r \in Threads : r # p => work'[r] = work[r]
    BY <1>1, Moved
  <1>3. /\ work[p].at = "bury" /\ graves' = graves \cup {work[p].mem} /\ marks \subseteq marks'
        /\ UNCHANGED <<rows, records, notes, away, backup, migrated>>
    BY BuryEffect
  <1>4. SUFFICES ASSUME Untouched(k)'
        PROVE  /\ Spared(k)'
               /\ QueuedIsNowhere(k)'
               /\ RecordHasNote(k)'
               /\ RowHasNote(k)'
               /\ DecidedHasNote(k)'
    BY DEF StaysIn
  <1>5. Untouched(k) /\ Spared(k) /\ QueuedIsNowhere(k) /\ RecordHasNote(k) /\ RowHasNote(k) /\ DecidedHasNote(k)
    BY <1>1, <1>2, <1>3, <1>4 DEF StaysIn, Untouched
  <1>6. Spared(k)'
    BY <1>1, <1>2, <1>3, <1>4, <1>5 DEF Untouched, Spared, Erasing, Same
  <1>7. QueuedIsNowhere(k)'
    BY <1>1, <1>2, <1>3, <1>4, <1>5 DEF Untouched, Spared, QueuedIsNowhere, Nowhere, Writing, At,
         Same
  <1>8. RecordHasNote(k)'
    BY <1>1, <1>2, <1>3, <1>4, <1>5 DEF Untouched, Spared, RecordHasNote, SavingNote, At, Same
  <1>9. RowHasNote(k)'
    BY <1>1, <1>2, <1>3, <1>4, <1>5 DEF Untouched, Spared, RecordHasNote, RowHasNote, Backed,
         SavingNote, Replacing, At, Same
  <1>10. DecidedHasNote(k)'
    BY <1>1, <1>2, <1>3, <1>4, <1>5 DEF Untouched, Spared, RowHasNote, DecidedHasNote, Backed,
         SavingNote, Replacing, Nowhere, Writing, At, Same
  <1> QED
    BY <1>6, <1>7, <1>8, <1>9, <1>10

LEMMA EraseIn ==
  ASSUME VaultShape, NEW p \in Threads, Erase(p), NEW k \in Memories, StaysIn(k)
  PROVE  StaysIn(k)'
  <1>1. PICK q : Carries(p, q) /\ (\/ q = VaultIdle
                                  \/ /\ work[p].reconciling = TRUE /\ q.at = "remove" /\ q.queue = work[p].queue
                                     /\ q.buried = work[p].buried)
    BY AfterDeleteAt, EraseEffect
  <1>2. work'[p] = q /\ \A r \in Threads : r # p => work'[r] = work[r]
    BY <1>1, Moved
  <1>3. /\ \/ q.at = "idle" /\ q.buried = {} /\ q.queue = {}
           \/ q.at = "remove" /\ q.queue = work[p].queue /\ q.buried = work[p].buried
        /\ work[p].at = "erase"
        /\ rows'[k] = IF k = work[p].mem THEN None ELSE rows[k]
        /\ UNCHANGED <<records, notes, away, graves, backup, migrated, marks>>
    BY <1>1, EraseEffect, EraseAt, VaultIdleType
  <1>4. SUFFICES ASSUME Untouched(k)'
        PROVE  /\ Spared(k)'
               /\ QueuedIsNowhere(k)'
               /\ RecordHasNote(k)'
               /\ RowHasNote(k)'
               /\ DecidedHasNote(k)'
    BY DEF StaysIn
  <1>5. Untouched(k) /\ Spared(k) /\ QueuedIsNowhere(k) /\ RecordHasNote(k) /\ RowHasNote(k) /\ DecidedHasNote(k)
    BY <1>1, <1>2, <1>3, <1>4 DEF StaysIn, Untouched
  <1>6. Spared(k)'
    BY <1>1, <1>2, <1>3, <1>4, <1>5 DEF Untouched, Spared, Erasing
  <1>7. QueuedIsNowhere(k)'
    BY <1>1, <1>2, <1>3, <1>4, <1>5 DEF Untouched, Spared, QueuedIsNowhere, Nowhere, Writing, At
  <1>8. RecordHasNote(k)'
    BY <1>1, <1>2, <1>3, <1>4, <1>5 DEF Untouched, Spared, RecordHasNote, SavingNote, At, Erasing
  <1>9. RowHasNote(k)'
    BY <1>1, <1>2, <1>3, <1>4, <1>5 DEF Untouched, Spared, RecordHasNote, RowHasNote, Backed,
         SavingNote, Replacing, At
  <1>10. DecidedHasNote(k)'
    BY <1>1, <1>2, <1>3, <1>4, <1>5 DEF Untouched, Spared, RowHasNote, DecidedHasNote, Backed,
         SavingNote, Replacing, Nowhere, Writing, At
  <1> QED
    BY <1>6, <1>7, <1>8, <1>9, <1>10

LEMMA AbortIn ==
  ASSUME VaultShape, NEW p \in Threads, Abort(p), NEW k \in Memories, StaysIn(k)
  PROVE  StaysIn(k)'
  <1>1. PICK q : Carries(p, q) /\ (\/ q = VaultIdle
                                  \/ /\ work[p].reconciling = TRUE /\ q.at = "remove" /\ q.queue = work[p].queue
                                     /\ q.buried = work[p].buried)
    BY AfterDeleteAt, AbortEffect
  <1>2. work'[p] = q /\ \A r \in Threads : r # p => work'[r] = work[r]
    BY <1>1, Moved
  <1>3. /\ \/ q.at = "idle" /\ q.buried = {} /\ q.queue = {}
           \/ q.at = "remove" /\ q.queue = work[p].queue /\ q.buried = work[p].buried
        /\ work[p].at \in {"save.files", "save.note", "commit", "bury", "erase"}
        /\ marks \subseteq marks'
        /\ work[p].at \in {"save.note", "commit"} /\ work[p].mem = k => <<k, "halfway">> \in marks'
        /\ UNCHANGED <<rows, records, notes, away, graves, backup, migrated>>
    BY <1>1, AbortEffect, VaultIdleType
  <1>4. SUFFICES ASSUME Untouched(k)'
        PROVE  /\ Spared(k)'
               /\ QueuedIsNowhere(k)'
               /\ RecordHasNote(k)'
               /\ RowHasNote(k)'
               /\ DecidedHasNote(k)'
    BY DEF StaysIn
  <1>5. Untouched(k) /\ Spared(k) /\ QueuedIsNowhere(k) /\ RecordHasNote(k) /\ RowHasNote(k) /\ DecidedHasNote(k)
    BY <1>1, <1>2, <1>3, <1>4 DEF StaysIn, Untouched
  <1>6. Spared(k)'
    BY <1>1, <1>2, <1>3, <1>4, <1>5 DEF Untouched, Spared, Erasing
  <1>7. QueuedIsNowhere(k)'
    BY <1>1, <1>2, <1>3, <1>4, <1>5 DEF Untouched, Spared, QueuedIsNowhere, Nowhere, Writing, At
  <1>8. RecordHasNote(k)'
    BY <1>1, <1>2, <1>3, <1>4, <1>5 DEF Untouched, Spared, RecordHasNote, SavingNote, At
  <1>9. RowHasNote(k)'
    BY <1>1, <1>2, <1>3, <1>4, <1>5 DEF Untouched, Spared, RecordHasNote, RowHasNote, Backed,
         SavingNote, Replacing, At
  <1>10. DecidedHasNote(k)'
    BY <1>1, <1>2, <1>3, <1>4, <1>5 DEF Untouched, Spared, RowHasNote, DecidedHasNote, Backed,
         SavingNote, Replacing, Nowhere, Writing, At
  <1> QED
    BY <1>6, <1>7, <1>8, <1>9, <1>10

LEMMA ReconcileNotesIn ==
  ASSUME VaultShape, NEW p \in Threads, ReconcileNotes(p), NEW k \in Memories, StaysIn(k)
  PROVE  StaysIn(k)'
  <1>1. PICK q : Carries(p, q) /\ q.at = "rows" /\ q.queue = {} /\ q.buried = {}
    BY ReconcileNotesCarries DEF VaultShape
  <1>2. work'[p] = q /\ \A r \in Threads : r # p => work'[r] = work[r]
    BY <1>1, Moved
  <1>3. /\ work[p].at = "idle"
        /\ marks \subseteq marks'
        /\ UNCHANGED <<rows, records, notes, away, graves, backup, migrated>>
    BY ReconcileNotesEffect
  <1>4. SUFFICES ASSUME Untouched(k)'
        PROVE  /\ Spared(k)'
               /\ QueuedIsNowhere(k)'
               /\ RecordHasNote(k)'
               /\ RowHasNote(k)'
               /\ DecidedHasNote(k)'
    BY DEF StaysIn
  <1>5. Untouched(k) /\ Spared(k) /\ QueuedIsNowhere(k) /\ RecordHasNote(k) /\ RowHasNote(k) /\ DecidedHasNote(k)
    BY <1>1, <1>2, <1>3, <1>4 DEF StaysIn, Untouched
  <1>6. Spared(k)'
    BY <1>1, <1>2, <1>3, <1>4, <1>5 DEF Untouched, Spared, Erasing
  <1>7. QueuedIsNowhere(k)'
    BY <1>1, <1>2, <1>3, <1>4, <1>5 DEF Untouched, Spared, QueuedIsNowhere, Nowhere, Writing, At
  <1>8. RecordHasNote(k)'
    BY <1>1, <1>2, <1>3, <1>4, <1>5 DEF Untouched, Spared, RecordHasNote, SavingNote, At
  <1>9. RowHasNote(k)'
    BY <1>1, <1>2, <1>3, <1>4, <1>5 DEF Untouched, Spared, RecordHasNote, RowHasNote, Backed,
         SavingNote, Replacing, At
  <1>10. DecidedHasNote(k)'
    BY <1>1, <1>2, <1>3, <1>4, <1>5 DEF Untouched, Spared, RowHasNote, DecidedHasNote, Backed,
         SavingNote, Replacing, Nowhere, Writing, At
  <1> QED
    BY <1>6, <1>7, <1>8, <1>9, <1>10

LEMMA ReconcileRowsIn ==
  ASSUME VaultShape, NEW p \in Threads, ReconcileRows(p), NEW k \in Memories, StaysIn(k)
  PROVE  StaysIn(k)'
  <1>1. PICK q : Carries(p, q) /\ q.at = "decide" /\ q.rows = rows /\ q.queue = work[p].queue /\ q.buried = work[p].buried
    BY ReconcileRowsCarries DEF VaultShape
  <1>2. work'[p] = q /\ \A r \in Threads : r # p => work'[r] = work[r]
    BY <1>1, Moved
  <1>3. /\ work[p].at = "rows"
        /\ marks \subseteq marks'
        /\ UNCHANGED <<rows, records, notes, away, graves, backup, migrated>>
    BY ReconcileRowsEffect
  <1>4. SUFFICES ASSUME Untouched(k)'
        PROVE  /\ Spared(k)'
               /\ QueuedIsNowhere(k)'
               /\ RecordHasNote(k)'
               /\ RowHasNote(k)'
               /\ DecidedHasNote(k)'
    BY DEF StaysIn
  <1>5. Untouched(k) /\ Spared(k) /\ QueuedIsNowhere(k) /\ RecordHasNote(k) /\ RowHasNote(k) /\ DecidedHasNote(k)
    BY <1>1, <1>2, <1>3, <1>4 DEF StaysIn, Untouched
  <1>6. Spared(k)'
    BY <1>1, <1>2, <1>3, <1>4, <1>5 DEF Untouched, Spared, Erasing
  <1>7. QueuedIsNowhere(k)'
    BY <1>1, <1>2, <1>3, <1>4, <1>5 DEF Untouched, Spared, QueuedIsNowhere, Nowhere, Writing, At
  <1>8. RecordHasNote(k)'
    BY <1>1, <1>2, <1>3, <1>4, <1>5 DEF Untouched, Spared, RecordHasNote, SavingNote, At
  <1>9. RowHasNote(k)'
    BY <1>1, <1>2, <1>3, <1>4, <1>5 DEF Untouched, Spared, RecordHasNote, RowHasNote, Backed,
         SavingNote, Replacing, At
  <1>10. DecidedHasNote(k)'
    BY <1>1, <1>2, <1>3, <1>4, <1>5 DEF Untouched, Spared, RowHasNote, DecidedHasNote, Backed,
         SavingNote, Replacing, Nowhere, Writing, At
  <1> QED
    BY <1>6, <1>7, <1>8, <1>9, <1>10

LEMMA ReconcileRestIn ==
  ASSUME VaultShape, NEW p \in Threads, ReconcileRest(p), NEW k \in Memories, StaysIn(k)
  PROVE  StaysIn(k)'
  <1>1. PICK q : Carries(p, q) /\ (q = VaultIdle \/ (q.at = "graves" /\ Same(q, work[p])))
    BY ReconcileRestCarries DEF VaultShape
  <1>2. work'[p] = q /\ \A r \in Threads : r # p => work'[r] = work[r]
    BY <1>1, Moved
  <1>3. /\ work[p].at = "remove"
        /\ q.at \in {"idle", "graves"} /\ q.queue = {} /\ q.buried \subseteq work[p].buried
        /\ marks \subseteq marks'
        /\ UNCHANGED <<rows, records, notes, away, graves, backup, migrated>>
    <2>1. work[p].at = "remove" /\ work[p].queue = {}
      BY ReconcileRestEffect
    <2>2. q.at \in {"idle", "graves"} /\ q.queue = {} /\ q.buried \subseteq work[p].buried
      BY <1>1, <2>1, VaultIdleType DEF Same
    <2> QED
      BY <2>1, <2>2, ReconcileRestEffect
  <1>4. SUFFICES ASSUME Untouched(k)'
        PROVE  /\ Spared(k)'
               /\ QueuedIsNowhere(k)'
               /\ RecordHasNote(k)'
               /\ RowHasNote(k)'
               /\ DecidedHasNote(k)'
    BY DEF StaysIn
  <1>5. Untouched(k) /\ Spared(k) /\ QueuedIsNowhere(k) /\ RecordHasNote(k) /\ RowHasNote(k) /\ DecidedHasNote(k)
    BY <1>1, <1>2, <1>3, <1>4 DEF StaysIn, Untouched
  <1>6. Spared(k)'
    BY <1>2, <1>3, <1>4, <1>5 DEF Untouched, Spared, Erasing
  <1>7. QueuedIsNowhere(k)'
    BY <1>2, <1>3, <1>4, <1>5 DEF Untouched, Spared, QueuedIsNowhere, Nowhere, Writing, At
  <1>8. RecordHasNote(k)'
    BY <1>2, <1>3, <1>4, <1>5 DEF Untouched, Spared, RecordHasNote, SavingNote, At
  <1>9. RowHasNote(k)'
    BY <1>2, <1>3, <1>4, <1>5 DEF Untouched, Spared, RecordHasNote, RowHasNote, Backed, SavingNote,
         Replacing, At
  <1>10. DecidedHasNote(k)'
    BY <1>2, <1>3, <1>4, <1>5 DEF Untouched, Spared, RowHasNote, DecidedHasNote, Backed, SavingNote,
         Replacing, Nowhere, Writing, At
  <1> QED
    BY <1>6, <1>7, <1>8, <1>9, <1>10

LEMMA RebuildBeginIn ==
  ASSUME VaultShape, NEW p \in Threads, RebuildBegin(p), NEW k \in Memories, StaysIn(k)
  PROVE  StaysIn(k)'
  <1>1. PICK q : Carries(p, q) /\ q.at = "graves" /\ Fresh(q)
    BY RebuildBeginCarries DEF VaultShape
  <1>2. work'[p] = q /\ \A r \in Threads : r # p => work'[r] = work[r]
    BY <1>1, Moved
  <1>3. /\ work[p].at = "idle"
        /\ marks \subseteq marks'
        /\ UNCHANGED <<rows, records, notes, away, graves, backup, migrated>>
    BY RebuildBeginEffect
  <1>4. SUFFICES ASSUME Untouched(k)'
        PROVE  /\ Spared(k)'
               /\ QueuedIsNowhere(k)'
               /\ RecordHasNote(k)'
               /\ RowHasNote(k)'
               /\ DecidedHasNote(k)'
    BY DEF StaysIn
  <1>5. Untouched(k) /\ Spared(k) /\ QueuedIsNowhere(k) /\ RecordHasNote(k) /\ RowHasNote(k) /\ DecidedHasNote(k)
    BY <1>1, <1>2, <1>3, <1>4 DEF StaysIn, Untouched
  <1>6. Spared(k)'
    BY <1>1, <1>2, <1>3, <1>4, <1>5 DEF Untouched, Spared, Erasing, Fresh
  <1>7. QueuedIsNowhere(k)'
    BY <1>1, <1>2, <1>3, <1>4, <1>5 DEF Untouched, Spared, QueuedIsNowhere, Nowhere, Writing, At,
         Fresh
  <1>8. RecordHasNote(k)'
    BY <1>1, <1>2, <1>3, <1>4, <1>5 DEF Untouched, Spared, RecordHasNote, SavingNote, At, Fresh
  <1>9. RowHasNote(k)'
    BY <1>1, <1>2, <1>3, <1>4, <1>5 DEF Untouched, Spared, RecordHasNote, RowHasNote, Backed,
         SavingNote, Replacing, At, Fresh
  <1>10. DecidedHasNote(k)'
    BY <1>1, <1>2, <1>3, <1>4, <1>5 DEF Untouched, Spared, RowHasNote, DecidedHasNote, Backed,
         SavingNote, Replacing, Nowhere, Writing, At, Fresh
  <1> QED
    BY <1>6, <1>7, <1>8, <1>9, <1>10

LEMMA ApplyGravesIn ==
  ASSUME VaultShape, NEW p \in Threads, ApplyGraves(p), NEW k \in Memories, StaysIn(k)
  PROVE  StaysIn(k)'
  <1>1. PICK q : Carries(p, q) /\ q.at = "read" /\ Same(q, work[p])
    BY ApplyGravesEffect, ThenCarries DEF VaultShape, Labels
  <1>2. work'[p] = q /\ \A r \in Threads : r # p => work'[r] = work[r]
    BY <1>1, Moved
  <1>3. /\ work[p].at = "graves" /\ marks \subseteq marks'
        /\ k \notin graves => records'[k] = records[k] /\ notes'[k] = notes[k]
        /\ UNCHANGED <<rows, away, graves, backup, migrated>>
    <2> DEFINE set == {m \in graves : records[m] # None}
    <2>1. /\ Unlinked(set) /\ work[p].at = "graves" /\ marks \subseteq marks'
          /\ UNCHANGED <<rows, away, backup>>
      BY ApplyGravesEffect
    <2>2. k \notin graves => k \notin set
      OBVIOUS
    <2>3. (k \notin set => records'[k] = records[k] /\ notes'[k] = notes[k]) /\ UNCHANGED <<graves, migrated>>
      <3> HIDE DEF set
      <3> QED
        BY <2>1, UnlinkedAt
    <2> QED
      BY <2>1, <2>2, <2>3
  <1>4. SUFFICES ASSUME Untouched(k)'
        PROVE  /\ Spared(k)'
               /\ QueuedIsNowhere(k)'
               /\ RecordHasNote(k)'
               /\ RowHasNote(k)'
               /\ DecidedHasNote(k)'
    BY DEF StaysIn
  <1>5. Untouched(k) /\ Spared(k) /\ QueuedIsNowhere(k) /\ RecordHasNote(k) /\ RowHasNote(k) /\ DecidedHasNote(k)
    BY <1>1, <1>2, <1>3, <1>4 DEF StaysIn, Untouched
  <1>6. Spared(k)'
    BY <1>1, <1>2, <1>3, <1>4, <1>5 DEF Untouched, Spared, Erasing, Same
  <1>7. QueuedIsNowhere(k)'
    BY <1>1, <1>2, <1>3, <1>4, <1>5 DEF Untouched, Spared, QueuedIsNowhere, Nowhere, Writing, At,
         Same
  <1>8. RecordHasNote(k)'
    BY <1>1, <1>2, <1>3, <1>4, <1>5 DEF Untouched, Spared, RecordHasNote, SavingNote, At, Same
  <1>9. RowHasNote(k)'
    BY <1>1, <1>2, <1>3, <1>4, <1>5 DEF Untouched, Spared, RecordHasNote, RowHasNote, Backed,
         SavingNote, Replacing, At, Same
  <1>10. DecidedHasNote(k)'
    BY <1>1, <1>2, <1>3, <1>4, <1>5 DEF Untouched, Spared, RowHasNote, DecidedHasNote, Backed,
         SavingNote, Replacing, Nowhere, Writing, At, Same
  <1> QED
    BY <1>6, <1>7, <1>8, <1>9, <1>10

LEMMA ReadVaultIn ==
  ASSUME VaultShape, NEW p \in Threads, ReadVault(p), NEW k \in Memories, StaysIn(k)
  PROVE  StaysIn(k)'
  <1>1. PICK q : Carries(p, q) /\ q.at = "rewrite" /\ q.rows[k] = FromFiles(k) /\ q.queue = work[p].queue /\ q.rebuild = work[p].rebuild
               /\ q.reconciling = work[p].reconciling /\ q.buried = work[p].buried
    BY ReadVaultCarries DEF VaultShape
  <1>2. work'[p] = q /\ \A r \in Threads : r # p => work'[r] = work[r]
    BY <1>1, Moved
  <1>3. /\ work[p].at = "read"
        /\ marks \subseteq marks'
        /\ UNCHANGED <<rows, records, notes, away, graves, backup, migrated>>
    BY ReadVaultEffect
  <1>4. (notes[k] = None => q.rows[k] = records[k]) /\ (q.rows[k] # None => notes[k] # None \/ records[k] # None)
    BY <1>1, VaultConstants DEF FromFiles, Readable
  <1>5. SUFFICES ASSUME Untouched(k)'
        PROVE  /\ Spared(k)'
               /\ QueuedIsNowhere(k)'
               /\ RecordHasNote(k)'
               /\ RowHasNote(k)'
               /\ DecidedHasNote(k)'
    BY DEF StaysIn
  <1>6. Untouched(k) /\ Spared(k) /\ QueuedIsNowhere(k) /\ RecordHasNote(k) /\ RowHasNote(k) /\ DecidedHasNote(k)
    BY <1>1, <1>2, <1>3, <1>4, <1>5 DEF StaysIn, Untouched
  <1>7. Spared(k)'
    BY <1>1, <1>2, <1>3, <1>4, <1>5, <1>6 DEF Untouched, Spared, Erasing
  <1>8. QueuedIsNowhere(k)'
    BY <1>1, <1>2, <1>3, <1>4, <1>5, <1>6 DEF Untouched, Spared, QueuedIsNowhere, Nowhere, Writing,
         At
  <1>9. RecordHasNote(k)'
    BY <1>1, <1>2, <1>3, <1>4, <1>5, <1>6 DEF Untouched, Spared, RecordHasNote, SavingNote, At
  <1>10. RowHasNote(k)'
    BY <1>1, <1>2, <1>3, <1>4, <1>5, <1>6 DEF Untouched, Spared, RecordHasNote, RowHasNote, Backed,
         SavingNote, Replacing, At
  <1>11. DecidedHasNote(k)'
    BY <1>1, <1>2, <1>3, <1>4, <1>5, <1>6 DEF Untouched, Spared, RowHasNote, DecidedHasNote, Backed,
         SavingNote, Replacing, Nowhere, Writing, At
  <1> QED
    BY <1>7, <1>8, <1>9, <1>10, <1>11

LEMMA RewriteIn ==
  ASSUME VaultShape, NEW p \in Threads, Rewrite(p), NEW k \in Memories, StaysIn(k)
  PROVE  StaysIn(k)'
  <1>1. PICK q : Carries(p, q) /\ q = VaultIdle
    BY RewriteEffect, RestCarries DEF VaultShape
  <1>2. work'[p] = q /\ \A r \in Threads : r # p => work'[r] = work[r]
    BY <1>1, Moved
  <1>3. /\ work[p].at = "rewrite" /\ q.at = "idle" /\ q.buried = {} /\ q.queue = {} /\ rows' = work[p].rows
        /\ UNCHANGED <<records, notes, away, graves, backup, migrated, marks>>
    BY <1>1, RewriteEffect, VaultIdleType
  <1>4. \A r \in Threads : ~Writing(r) /\ ~Erasing(r)
    BY RewriteEffect, OneWriter
  <1>5. SUFFICES ASSUME Untouched(k)'
        PROVE  /\ Spared(k)'
               /\ QueuedIsNowhere(k)'
               /\ RecordHasNote(k)'
               /\ RowHasNote(k)'
               /\ DecidedHasNote(k)'
    BY DEF StaysIn
  <1>6. Untouched(k) /\ Spared(k) /\ QueuedIsNowhere(k) /\ RecordHasNote(k) /\ RowHasNote(k) /\ DecidedHasNote(k)
    BY <1>1, <1>2, <1>3, <1>4, <1>5 DEF StaysIn, Untouched
  <1>7. Spared(k)'
    BY <1>1, <1>2, <1>3, <1>4, <1>5, <1>6 DEF Untouched, Spared, Erasing
  <1>8. QueuedIsNowhere(k)'
    BY <1>1, <1>2, <1>3, <1>4, <1>5, <1>6 DEF Untouched, Spared, QueuedIsNowhere, Nowhere, Writing,
         At
  <1>9. RecordHasNote(k)'
    BY <1>1, <1>2, <1>3, <1>4, <1>5, <1>6 DEF Untouched, Spared, RecordHasNote, SavingNote, At
  <1>10. RowHasNote(k)'
    BY <1>1, <1>2, <1>3, <1>4, <1>5, <1>6 DEF Untouched, Spared, RecordHasNote, RowHasNote, Backed,
         SavingNote, Replacing, At, Writing
  <1>11. DecidedHasNote(k)'
    BY <1>1, <1>2, <1>3, <1>4, <1>5, <1>6 DEF Untouched, Spared, RowHasNote, DecidedHasNote, Backed,
         SavingNote, Replacing, Nowhere, Writing, At, RecordHasNote
  <1> QED
    BY <1>7, <1>8, <1>9, <1>10, <1>11

LEMMA RestoreBeginIn ==
  ASSUME VaultShape, NEW p \in Threads, RestoreBegin(p), NEW k \in Memories, StaysIn(k)
  PROVE  StaysIn(k)'
  <1>1. PICK q : Carries(p, q) /\ q.at = "swap" /\ q.buried = graves /\ q.queue = {}
    BY RestoreBeginCarries DEF VaultShape
  <1>2. work'[p] = q /\ \A r \in Threads : r # p => work'[r] = work[r]
    BY <1>1, Moved
  <1>3. /\ work[p].at = "idle"
        /\ marks \subseteq marks'
        /\ UNCHANGED <<rows, records, notes, away, graves, backup, migrated>>
    BY RestoreBeginEffect
  <1>4. SUFFICES ASSUME Untouched(k)'
        PROVE  /\ Spared(k)'
               /\ QueuedIsNowhere(k)'
               /\ RecordHasNote(k)'
               /\ RowHasNote(k)'
               /\ DecidedHasNote(k)'
    BY DEF StaysIn
  <1>5. Untouched(k) /\ Spared(k) /\ QueuedIsNowhere(k) /\ RecordHasNote(k) /\ RowHasNote(k) /\ DecidedHasNote(k)
    BY <1>1, <1>2, <1>3, <1>4 DEF StaysIn, Untouched
  <1>6. Spared(k)'
    BY <1>1, <1>2, <1>3, <1>4, <1>5 DEF Untouched, Spared, Erasing
  <1>7. QueuedIsNowhere(k)'
    BY <1>1, <1>2, <1>3, <1>4, <1>5 DEF Untouched, Spared, QueuedIsNowhere, Nowhere, Writing, At
  <1>8. RecordHasNote(k)'
    BY <1>1, <1>2, <1>3, <1>4, <1>5 DEF Untouched, Spared, RecordHasNote, SavingNote, At
  <1>9. RowHasNote(k)'
    BY <1>1, <1>2, <1>3, <1>4, <1>5 DEF Untouched, Spared, RecordHasNote, RowHasNote, Backed,
         SavingNote, Replacing, At
  <1>10. DecidedHasNote(k)'
    BY <1>1, <1>2, <1>3, <1>4, <1>5 DEF Untouched, Spared, RowHasNote, DecidedHasNote, Backed,
         SavingNote, Replacing, Nowhere, Writing, At
  <1> QED
    BY <1>6, <1>7, <1>8, <1>9, <1>10

LEMMA RestoreReburyIn ==
  ASSUME VaultShape, NEW p \in Threads, RestoreRebury(p), NEW k \in Memories, StaysIn(k)
  PROVE  StaysIn(k)'
  <1>1. PICK q : Carries(p, q) /\ q.at = "graves" /\ Same(q, work[p])
    BY RestoreReburyEffect, ThenCarries DEF VaultShape, Labels
  <1>2. work'[p] = q /\ \A r \in Threads : r # p => work'[r] = work[r]
    BY <1>1, Moved
  <1>3. /\ work[p].at = "rebury" /\ graves' = graves \cup work[p].buried
        /\ UNCHANGED <<rows, records, notes, away, backup, migrated, marks>>
    BY RestoreReburyEffect
  <1>4. SUFFICES ASSUME Untouched(k)'
        PROVE  /\ Spared(k)'
               /\ QueuedIsNowhere(k)'
               /\ RecordHasNote(k)'
               /\ RowHasNote(k)'
               /\ DecidedHasNote(k)'
    BY DEF StaysIn
  <1>5. Untouched(k) /\ Spared(k) /\ QueuedIsNowhere(k) /\ RecordHasNote(k) /\ RowHasNote(k) /\ DecidedHasNote(k)
    BY <1>1, <1>2, <1>3, <1>4 DEF StaysIn, Untouched
  <1>6. Spared(k)'
    BY <1>1, <1>2, <1>3, <1>4, <1>5 DEF Untouched, Spared, Erasing, Same
  <1>7. QueuedIsNowhere(k)'
    BY <1>1, <1>2, <1>3, <1>4, <1>5 DEF Untouched, Spared, QueuedIsNowhere, Nowhere, Writing, At,
         Same
  <1>8. RecordHasNote(k)'
    BY <1>1, <1>2, <1>3, <1>4, <1>5 DEF Untouched, Spared, RecordHasNote, SavingNote, At, Same
  <1>9. RowHasNote(k)'
    BY <1>1, <1>2, <1>3, <1>4, <1>5 DEF Untouched, Spared, RecordHasNote, RowHasNote, Backed,
         SavingNote, Replacing, At, Same
  <1>10. DecidedHasNote(k)'
    BY <1>1, <1>2, <1>3, <1>4, <1>5 DEF Untouched, Spared, RowHasNote, DecidedHasNote, Backed,
         SavingNote, Replacing, Nowhere, Writing, At, Same
  <1> QED
    BY <1>6, <1>7, <1>8, <1>9, <1>10

\* Whom a reconciliation finds missing, and nothing else hides, is nowhere.
LEMMA ReconcileDecideIn ==
  ASSUME VaultShape, NEW p \in Threads, ReconcileDecide(p), NEW k \in Memories, StaysIn(k)
  PROVE  StaysIn(k)'
  <1>1. PICK q : Carries(p, q) /\ (\/ q = VaultIdle /\ marks' = marks
                                  \/ /\ q.at = "remove" /\ q.queue = Missing(p) /\ q.buried = {} /\ marks \subseteq marks'
                                     /\ \A m \in Missing(p) :
                                          /\ \A r \in Threads : At(r, "save.note") /\ work[r].mem = m => <<m, "moving">> \in marks'
                                          /\ away.notes[m] # None => <<m, "swept">> \in marks'
                                          /\ m \in misnamed => <<m, "misnamed">> \in marks'
                                          /\ (\E r \in Threads \ {p} : ~work[r].reconciling /\ work[r].rebuild) => <<m, "restored">> \in marks')
    BY ReconcileDecideCarries DEF VaultShape
  <1>2. work'[p] = q /\ \A r \in Threads : r # p => work'[r] = work[r]
    BY <1>1, Moved
  <1>3. /\ work[p].at = "decide" /\ work[p].reconciling /\ marks \subseteq marks'
        /\ (q.at = "idle" /\ q.queue = {} /\ q.buried = {}) \/ (q.at = "remove" /\ q.queue = Missing(p) /\ q.buried = {})
        /\ UNCHANGED <<rows, records, notes, away, graves, backup, migrated>>
    BY <1>1, ReconcileDecideEffect, VaultIdleType, WhoDecides DEF Deciding, At
  <1>4. k \in q.queue /\ Untouched(k)' => Nowhere(k)
    <2> SUFFICES ASSUME k \in q.queue, Untouched(k)' PROVE Nowhere(k)
      OBVIOUS
    <2>1. k \in Missing(p) /\ q # VaultIdle
      BY <1>3, VaultIdleType
    <2>2. /\ migrated /\ work[p].rows[k] # None /\ ~Found(k)
      BY <2>1, MissingType DEF VaultShape
    <2>3. /\ away.notes[k] = None /\ k \notin misnamed /\ ~SavingNote(k)
          /\ \A r \in Threads \ {p} : ~Replacing(r)
      BY <1>1, <2>1 DEF Untouched, SavingNote, Replacing
    <2>4. ~Backed(k)
      BY <2>2, <2>3 DEF Backed, Found
    <2>5. DecidedHasNote(k)
      BY <1>3 DEF StaysIn, Untouched
    <2> QED
      BY <1>3, <2>2, <2>3, <2>4, <2>5 DEF DecidedHasNote, At
  <1>5. SUFFICES ASSUME Untouched(k)'
        PROVE  /\ Spared(k)'
               /\ QueuedIsNowhere(k)'
               /\ RecordHasNote(k)'
               /\ RowHasNote(k)'
               /\ DecidedHasNote(k)'
    BY DEF StaysIn
  <1>6. Untouched(k) /\ Spared(k) /\ QueuedIsNowhere(k) /\ RecordHasNote(k) /\ RowHasNote(k) /\ DecidedHasNote(k)
    BY <1>1, <1>2, <1>3, <1>4, <1>5 DEF StaysIn, Untouched
  <1>7. Spared(k)'
    BY <1>1, <1>2, <1>3, <1>4, <1>5, <1>6 DEF Untouched, Spared, Erasing
  <1>8. QueuedIsNowhere(k)'
    BY <1>1, <1>2, <1>3, <1>4, <1>5, <1>6 DEF Untouched, Spared, QueuedIsNowhere, Nowhere, Writing,
         At
  <1>9. RecordHasNote(k)'
    BY <1>1, <1>2, <1>3, <1>4, <1>5, <1>6 DEF Untouched, Spared, RecordHasNote, SavingNote, At
  <1>10. RowHasNote(k)'
    BY <1>1, <1>2, <1>3, <1>4, <1>5, <1>6 DEF Untouched, Spared, RecordHasNote, RowHasNote, Backed,
         SavingNote, Replacing, At
  <1>11. DecidedHasNote(k)'
    BY <1>1, <1>2, <1>3, <1>4, <1>5, <1>6 DEF Untouched, Spared, RowHasNote, DecidedHasNote, Backed,
         SavingNote, Replacing, Nowhere, Writing, At
  <1> QED
    BY <1>7, <1>8, <1>9, <1>10, <1>11

LEMMA ReconcileRemoveIn ==
  ASSUME VaultShape, NEW p \in Threads, NEW m \in Memories, ReconcileRemove(p, m), NEW k \in Memories, StaysIn(k)
  PROVE  StaysIn(k)'
  <1>1. PICK q : Carries(p, q) /\ q.queue = work[p].queue \ {m} /\ m \in work[p].queue
                /\ q.reconciling = work[p].reconciling /\ q.rebuild = work[p].rebuild
                /\ q.rows = work[p].rows /\ q.buried = work[p].buried /\ work[p].at = "remove"
                /\ \/ /\ rows[m] = None /\ q.at = "remove"
                      /\ UNCHANGED <<files, writer, calm, marks>>
                   \/ /\ rows[m] # None /\ q.at = "bury" /\ q.mem = m
                      /\ writer = None /\ writer' = p /\ Unlinked({m})
                      /\ marks' = marks \cup (({m} \cap misnamed) \X {"misnamed"})
                      /\ calm' = calm \cap {p}
    BY ReconcileRemoveCarries DEF VaultShape
  <1>2. work'[p] = q /\ \A r \in Threads : r # p => work'[r] = work[r]
    BY <1>1, Moved
  <1>3. /\ work[p].at = "remove" /\ work[p].reconciling /\ marks \subseteq marks'
        /\ k # m => records'[k] = records[k] /\ notes'[k] = notes[k]
        /\ q.at = "remove" => records'[k] = records[k] /\ notes'[k] = notes[k]
        /\ UNCHANGED <<rows, away, graves, backup, migrated>>
    <2>1. UNCHANGED <<rows, away, backup>> /\ work[p].reconciling
      BY <1>1, ReconcileRemoveEffect DEF VaultShape, Posture
    <2>2. CASE q.at = "remove" /\ UNCHANGED <<files, writer, calm, marks>>
      BY <1>1, <2>1, <2>2 DEF files
    <2>3. CASE /\ q.at = "bury" /\ Unlinked({m}) /\ marks' = marks \cup (({m} \cap misnamed) \X {"misnamed"})
      <3>1. /\ k \notin {m} => records'[k] = records[k] /\ notes'[k] = notes[k]
            /\ graves' = graves /\ migrated' = migrated
        BY <2>3, UnlinkedAt
      <3> QED
        BY <1>1, <2>1, <2>3, <3>1
    <2> QED
      BY <1>1, <2>2, <2>3
  <1>4. Untouched(k)' /\ q.at = "bury" => k # m
    <2>1. Untouched(k)' => QueuedIsNowhere(k)
      BY <1>3 DEF StaysIn, Untouched
    <2> QED
      BY <1>1, <2>1 DEF QueuedIsNowhere, Nowhere
  <1>5. q.at \in {"remove", "bury"} /\ (q.at = "bury" => q.mem = m)
    BY <1>1
  <1>6. SUFFICES ASSUME Untouched(k)'
        PROVE  /\ Spared(k)'
               /\ QueuedIsNowhere(k)'
               /\ RecordHasNote(k)'
               /\ RowHasNote(k)'
               /\ DecidedHasNote(k)'
    BY DEF StaysIn
  <1>7. Untouched(k) /\ Spared(k) /\ QueuedIsNowhere(k) /\ RecordHasNote(k) /\ RowHasNote(k) /\ DecidedHasNote(k)
    BY <1>1, <1>2, <1>3, <1>4, <1>5, <1>6 DEF StaysIn, Untouched
  <1>8. Spared(k)'
    BY <1>1, <1>2, <1>3, <1>4, <1>5, <1>6, <1>7 DEF Untouched, Spared, Erasing
  <1>9. QueuedIsNowhere(k)'
    BY <1>1, <1>2, <1>3, <1>4, <1>5, <1>6, <1>7 DEF Untouched, Spared, QueuedIsNowhere, Nowhere,
         Writing, At
  <1>10. RecordHasNote(k)'
    BY <1>1, <1>2, <1>3, <1>4, <1>5, <1>6, <1>7 DEF Untouched, Spared, RecordHasNote, SavingNote, At
  <1>11. RowHasNote(k)'
    BY <1>1, <1>2, <1>3, <1>4, <1>5, <1>6, <1>7 DEF Untouched, Spared, RecordHasNote, RowHasNote,
         Backed, SavingNote, Replacing, At
  <1>12. DecidedHasNote(k)'
    BY <1>1, <1>2, <1>3, <1>4, <1>5, <1>6, <1>7 DEF Untouched, Spared, RowHasNote, DecidedHasNote,
         Backed, SavingNote, Replacing, Nowhere, Writing, At
  <1> QED
    BY <1>8, <1>9, <1>10, <1>11, <1>12

LEMMA RestoreSwapIn ==
  ASSUME VaultShape, NEW p \in Threads, RestoreSwap(p), NEW k \in Memories, StaysIn(k)
  PROVE  StaysIn(k)'
  <1>1. /\ work[p].at = "swap" /\ work[p].rebuild /\ ~work[p].reconciling /\ marks \subseteq marks'
        /\ AnyAt({"rewrite", "rows"}) \/ (\E r \in Threads : Deciding(r)) => <<k, "restored">> \in marks'
        /\ UNCHANGED <<rows, away, backup>>
    BY RestoreSwapEffect, WhoDecides DEF At
  <1>2. \/ /\ records' = backup.records /\ notes' = backup.notes /\ graves' = backup.graves
           /\ migrated' = backup.migrated /\ Then(p, "rebury")
        \/ Goes(p, VaultIdle) /\ UNCHANGED <<records, notes, graves, migrated>>
    BY RestoreSwapEffect
  <1>3. SUFFICES ASSUME Untouched(k)'
        PROVE  Spared(k)' /\ QueuedIsNowhere(k)' /\ RecordHasNote(k)' /\ RowHasNote(k)' /\ DecidedHasNote(k)'
    BY DEF StaysIn
  <1>4. Untouched(k) /\ Spared(k) /\ QueuedIsNowhere(k) /\ RecordHasNote(k) /\ RowHasNote(k) /\ DecidedHasNote(k)
    BY <1>1, <1>3 DEF StaysIn, Untouched
  <1>5. \A r \in Threads : work[r].queue = {} /\ ~At(r, "decide") /\ ~At(r, "rewrite")
    BY <1>1, <1>3, WhoDecides DEF Untouched, AnyAt, At
  <1>6. CASE /\ records' = backup.records /\ notes' = backup.notes /\ graves' = backup.graves
             /\ migrated' = backup.migrated /\ Then(p, "rebury")
    <2>1. PICK q : Carries(p, q) /\ q.at = "rebury" /\ Same(q, work[p])
      BY <1>6, ThenCarries DEF VaultShape, Labels
    <2>2. work'[p] = q /\ \A r \in Threads : r # p => work'[r] = work[r]
      BY <2>1, Moved
    <2>3. Replacing(p)'
      BY <1>1, <2>1, <2>2 DEF Replacing, Same
    <2>4. \A r \in Threads : work'[r].queue = {} /\ ~At(r, "decide")' /\ ~At(r, "rewrite")'
      BY <1>5, <2>1, <2>2 DEF At, Same
    <2>5. Spared(k)'
      BY <1>1, <1>4, <1>6, <2>1, <2>2 DEF Spared, Erasing, Same
    <2>6. RecordHasNote(k)'
      BY <1>1, <1>4, <1>6 DEF Spared, RecordHasNote
    <2> QED
      BY <2>3, <2>4, <2>5, <2>6 DEF QueuedIsNowhere, RowHasNote, DecidedHasNote
  <1>7. CASE Goes(p, VaultIdle) /\ UNCHANGED <<records, notes, graves, migrated>>
    <2>1. Carries(p, VaultIdle)
      BY <1>7, RestCarries DEF VaultShape
    <2>2. work'[p] = VaultIdle /\ \A r \in Threads : r # p => work'[r] = work[r]
      BY <2>1, Moved
    <2>3. \A r \in Threads : work'[r].queue = {} /\ ~At(r, "decide")' /\ ~At(r, "rewrite")'
      BY <1>5, <2>2, VaultIdleType DEF At
    <2>4. /\ SavingNote(k) <=> SavingNote(k)'
          /\ \A r \in Threads : Replacing(r) => Replacing(r)'
          /\ \A r \in Threads : At(r, "commit")' => At(r, "commit") /\ work'[r].mem = work[r].mem
          /\ \A r \in Threads : Erasing(r)' => Erasing(r) /\ work'[r].mem = work[r].mem
          /\ \A r \in Threads : work'[r].buried \subseteq work[r].buried
      BY <1>1, <2>2, VaultIdleType DEF SavingNote, Replacing, Erasing, At
    <2>5. Spared(k)'
      BY <1>1, <1>4, <1>7, <2>4 DEF Spared
    <2>6. RecordHasNote(k)' /\ RowHasNote(k)'
      BY <1>1, <1>4, <1>5, <1>7, <2>3, <2>4 DEF RecordHasNote, RowHasNote, Backed
    <2> QED
      BY <2>3, <2>5, <2>6 DEF QueuedIsNowhere, DecidedHasNote
  <1> QED
    BY <1>2, <1>6, <1>7

LEMMA BackupIn ==
  ASSUME VaultShape, NEW p \in Threads, Backup(p), NEW k \in Memories, StaysIn(k)
  PROVE  StaysIn(k)'
  <1>1. /\ backup'.records = records /\ backup'.notes = notes /\ backup'.graves = graves
        /\ marks \subseteq marks' /\ (records[k] # None /\ notes[k] = None => <<k, "unwritten">> \in marks')
        /\ UNCHANGED <<rows, records, notes, away, graves, migrated, work>>
    <2>1. backup' = [records |-> records, notes |-> notes, misnamed |-> misnamed, graves |-> graves,
                     migrated |-> migrated, bare |-> bare, taken |-> TRUE]
      BY BackupEffect
    <2>2. marks' = marks \cup Halves(records, notes)
      BY BackupEffect
    <2>3. records[k] # None /\ notes[k] = None => <<k, "unwritten">> \in Halves(records, notes)
      BY HalvesAt
    <2>4. UNCHANGED <<rows, records, notes, away, graves, migrated, work>>
      BY BackupEffect
    <2> QED
      BY <2>1, <2>2, <2>3, <2>4
  <1>2. SUFFICES ASSUME Untouched(k)'
        PROVE  /\ Spared(k)'
               /\ QueuedIsNowhere(k)'
               /\ RecordHasNote(k)'
               /\ RowHasNote(k)'
               /\ DecidedHasNote(k)'
    BY DEF StaysIn
  <1>3. Untouched(k) /\ Spared(k) /\ QueuedIsNowhere(k) /\ RecordHasNote(k) /\ RowHasNote(k) /\ DecidedHasNote(k)
    BY <1>1, <1>2 DEF StaysIn, Untouched
  <1>4. Spared(k)'
    BY <1>1, <1>2, <1>3 DEF Untouched, Spared, Erasing
  <1>5. QueuedIsNowhere(k)'
    BY <1>1, <1>2, <1>3 DEF Untouched, Spared, QueuedIsNowhere, Nowhere, Writing, At
  <1>6. RecordHasNote(k)'
    BY <1>1, <1>2, <1>3 DEF Untouched, Spared, RecordHasNote, SavingNote, At
  <1>7. RowHasNote(k)'
    BY <1>1, <1>2, <1>3 DEF Untouched, Spared, RecordHasNote, RowHasNote, Backed, SavingNote,
         Replacing, At
  <1>8. DecidedHasNote(k)'
    BY <1>1, <1>2, <1>3 DEF Untouched, Spared, RowHasNote, DecidedHasNote, Backed, SavingNote,
         Replacing, Nowhere, Writing, At
  <1> QED
    BY <1>4, <1>5, <1>6, <1>7, <1>8

\* A save that dies and a restore that dies are marked.
LEMMA VaultCrashIn ==
  ASSUME VaultShape, VaultCrash, NEW k \in Memories, StaysIn(k)
  PROVE  StaysIn(k)'
  <1>1. /\ marks \subseteq marks'
        /\ \A r \in Threads : work'[r] = VaultIdle
        /\ \A r \in Threads : work[r].at \in {"save.note", "commit"} => <<work[r].mem, "halfway">> \in marks'
        /\ \A r \in Threads : Replacing(r) => <<k, "torn">> \in marks'
        /\ UNCHANGED <<rows, records, notes, away, graves, backup, migrated>>
    <2> DEFINE torn == IF \E p \in Threads : Restoring(p) THEN Memories ELSE {}
    <2>1. StoppedAs(torn) /\ UNCHANGED <<records, notes, graves, migrated>>
      BY VaultCrashEffect
    <2>2. /\ \A r \in Threads : work'[r] = VaultIdle
          /\ marks \subseteq marks' /\ (k \in torn => <<k, "torn">> \in marks')
          /\ \A r \in Threads : work[r].at \in {"save.note", "commit"} => <<work[r].mem, "halfway">> \in marks'
          /\ UNCHANGED <<rows, away, backup>>
      <3> HIDE DEF torn
      <3> QED
        BY <2>1, StoppedAt
    <2>3. \A r \in Threads : Replacing(r) => k \in torn
      BY DEF Replacing, Restoring, At
    <2> QED
      BY <2>1, <2>2, <2>3
  <1>2. \A r \in Threads : /\ ~Replacing(r)' /\ ~Writing(r)' /\ ~Erasing(r)'
                            /\ \A label \in Labels : label # "idle" => ~At(r, label)'
                            /\ work'[r].queue = {} /\ work'[r].buried = {}
    BY <1>1, VaultIdleType DEF Replacing, Writing, Erasing, At
  <1>3. SUFFICES ASSUME Untouched(k)'
        PROVE  /\ Spared(k)'
               /\ QueuedIsNowhere(k)'
               /\ RecordHasNote(k)'
               /\ RowHasNote(k)'
               /\ DecidedHasNote(k)'
    BY DEF StaysIn
  <1>4. Untouched(k) /\ Spared(k) /\ QueuedIsNowhere(k) /\ RecordHasNote(k) /\ RowHasNote(k) /\ DecidedHasNote(k)
    BY <1>1, <1>2, <1>3 DEF StaysIn, Untouched
  <1>5. Spared(k)'
    BY <1>1, <1>2, <1>3, <1>4 DEF Untouched, Spared, Erasing, Labels
  <1>6. QueuedIsNowhere(k)'
    BY <1>1, <1>2, <1>3, <1>4 DEF Untouched, Spared, QueuedIsNowhere, Nowhere, Writing, At, Labels
  <1>7. RecordHasNote(k)'
    BY <1>1, <1>2, <1>3, <1>4 DEF Untouched, Spared, RecordHasNote, SavingNote, At, Labels
  <1>8. RowHasNote(k)'
    BY <1>1, <1>2, <1>3, <1>4 DEF Untouched, Spared, RecordHasNote, RowHasNote, Backed, SavingNote,
         Replacing, At, Labels
  <1>9. DecidedHasNote(k)'
    BY <1>1, <1>2, <1>3, <1>4 DEF Untouched, Spared, RowHasNote, DecidedHasNote, Backed, SavingNote,
         Replacing, Nowhere, Writing, At, Labels
  <1> QED
    BY <1>5, <1>6, <1>7, <1>8, <1>9

LEMMA RestoreDiesIn ==
  ASSUME VaultShape, NEW p \in Threads, RestoreDies(p), NEW k \in Memories
  PROVE  StaysIn(k)'
  BY RestoreDiesEffect, StoppedAt DEF StaysIn, Untouched

LEMMA RestoreFailsIn ==
  ASSUME VaultShape, NEW p \in Threads, RestoreFails(p), NEW k \in Memories
  PROVE  StaysIn(k)'
  BY RestoreFailsEffect DEF StaysIn, Untouched

LEMMA RebuildFailsIn ==
  ASSUME VaultShape, NEW p \in Threads, RebuildFails(p), NEW k \in Memories, StaysIn(k)
  PROVE  StaysIn(k)'
  <1>1. Carries(p, VaultIdle)
    BY RebuildFailsEffect, RestCarries DEF VaultShape
  <1>2. work'[p] = VaultIdle /\ \A r \in Threads : r # p => work'[r] = work[r]
    BY <1>1, Moved
  <1>3. /\ work[p].at \in {"graves", "read", "rewrite"} /\ marks \subseteq marks'
        /\ k \notin graves => records'[k] = records[k] /\ notes'[k] = notes[k]
        /\ Restoring(p) => <<k, "torn">> \in marks'
        /\ UNCHANGED <<rows, away, graves, backup, migrated>>
    <2>1. PICK some \in SUBSET {m \in graves : records[m] # None} :
               /\ Unlinked(some) \/ (some = {} /\ UNCHANGED files)
               /\ marks' = marks \cup (IF Restoring(p) THEN Memories \X {"torn"} ELSE {})
                           \cup (IF AnyAt({"rebury"}) THEN Memories \X {"raced"} ELSE {})
                           \cup ((some \cap misnamed) \X {"misnamed"})
      BY RebuildFailsEffect
    <2>2. (k \notin some => records'[k] = records[k] /\ notes'[k] = notes[k]) /\ UNCHANGED <<graves, migrated>>
      BY <2>1, UnlinkedAt DEF files
    <2> QED
      BY <2>1, <2>2, RebuildFailsEffect
  <1>4. SUFFICES ASSUME Untouched(k)'
        PROVE  /\ Spared(k)'
               /\ QueuedIsNowhere(k)'
               /\ RecordHasNote(k)'
               /\ RowHasNote(k)'
               /\ DecidedHasNote(k)'
    BY DEF StaysIn
  <1>5. /\ Untouched(k) /\ Spared(k) /\ QueuedIsNowhere(k) /\ RecordHasNote(k) /\ RowHasNote(k)
        /\ DecidedHasNote(k) /\ ~Replacing(p)
    BY <1>3, <1>4 DEF StaysIn, Untouched, Restoring, Replacing, At
  <1> DEFINE q == VaultIdle
  <1>6. q.at = "idle" /\ q.buried = {} /\ q.queue = {}
    BY VaultIdleType
  <1> HIDE DEF q
  <1>7. work'[p] = q
    BY <1>2 DEF q
  <1>8. Spared(k)'
    BY <1>2, <1>3, <1>5, <1>6, <1>7 DEF Spared, Erasing
  <1>9. QueuedIsNowhere(k)'
    BY <1>2, <1>3, <1>5, <1>6, <1>7 DEF Spared, QueuedIsNowhere, Nowhere, Writing, At
  <1>10. RecordHasNote(k)'
    BY <1>2, <1>3, <1>5, <1>6, <1>7 DEF Spared, RecordHasNote, SavingNote, At
  <1>11. RowHasNote(k)'
    BY <1>2, <1>3, <1>5, <1>6, <1>7 DEF Spared, RowHasNote, Backed, SavingNote, Replacing, At
  <1>12. DecidedHasNote(k)'
    BY <1>2, <1>3, <1>5, <1>6, <1>7 DEF Spared, DecidedHasNote, Backed, SavingNote, Replacing,
         Nowhere, Writing, At
  <1> QED
    BY <1>8, <1>9, <1>10, <1>11, <1>12

LEMMA StartIn ==
  ASSUME VaultShape, Start, NEW k \in Memories, StaysIn(k)
  PROVE  StaysIn(k)'
  <1>1. /\ \A r \in Threads : work[r] = VaultIdle /\ work'[r] = VaultIdle
        /\ UNCHANGED <<rows, away, graves, backup, marks>>
        /\ records'[k] = records[k] \/ (records'[k] = rows[k] /\ (notes'[k] # None \/ rows[k] = None))
        /\ notes'[k] = notes[k] \/ (notes'[k] = rows[k] /\ rows[k] # None)
        /\ (migrated => migrated') /\ (migrated' /\ ~migrated /\ rows[k] # None => notes'[k] # None)
    <2>1. ~up /\ UNCHANGED <<rows, away, graves, backup, work, marks>>
      BY StartEffect DEF VaultShape
    <2>2. \A r \in Threads : work[r] = VaultIdle
      BY <2>1 DEF VaultShape, Posture
    <2>3. /\ records' = IF bare /\ records = Nothing THEN rows ELSE records
          /\ notes'[k] = notes[k] \/ (notes'[k] = rows[k] /\ rows[k] # None)
          /\ migrated => migrated'
          /\ bare /\ records = Nothing => notes'[k] = rows[k] \/ rows[k] = None
          /\ migrated' => (rows[k] # None /\ ~migrated => notes'[k] # None)
      BY StartEffect DEF VaultShape
    <2> QED
      BY <2>1, <2>2, <2>3
  <1>2. \A r \in Threads : /\ ~Replacing(r) /\ ~Replacing(r)' /\ ~Writing(r)' /\ ~Erasing(r)'
                            /\ \A label \in Labels : label # "idle" => ~At(r, label) /\ ~At(r, label)'
                            /\ work'[r].queue = {} /\ work'[r].buried = {}
    BY <1>1, VaultIdleType DEF Replacing, Writing, Erasing, At
  <1>3. SUFFICES ASSUME Untouched(k)'
        PROVE  /\ Spared(k)'
               /\ QueuedIsNowhere(k)'
               /\ RecordHasNote(k)'
               /\ RowHasNote(k)'
               /\ DecidedHasNote(k)'
    BY DEF StaysIn
  <1>4. Untouched(k) /\ Spared(k) /\ QueuedIsNowhere(k) /\ RecordHasNote(k) /\ RowHasNote(k) /\ DecidedHasNote(k)
    BY <1>1, <1>2, <1>3 DEF StaysIn, Untouched
  <1>5. Spared(k)'
    BY <1>1, <1>2, <1>3, <1>4 DEF Untouched, Spared, Erasing, Labels
  <1>6. QueuedIsNowhere(k)'
    BY <1>1, <1>2, <1>3, <1>4 DEF Untouched, Spared, QueuedIsNowhere, Nowhere, Writing, At, Labels
  <1>7. RecordHasNote(k)'
    BY <1>1, <1>2, <1>3, <1>4 DEF Untouched, Spared, RecordHasNote, SavingNote, At, Labels
  <1>8. RowHasNote(k)'
    BY <1>1, <1>2, <1>3, <1>4 DEF Untouched, Spared, RecordHasNote, RowHasNote, Backed, SavingNote,
         Replacing, At, Labels
  <1>9. DecidedHasNote(k)'
    BY <1>1, <1>2, <1>3, <1>4 DEF Untouched, Spared, RowHasNote, DecidedHasNote, Backed, SavingNote,
         Replacing, Nowhere, Writing, At, Labels
  <1> QED
    BY <1>5, <1>6, <1>7, <1>8, <1>9

LEMMA EditIn ==
  ASSUME VaultShape, NEW m \in Memories, Edit(m), NEW k \in Memories, StaysIn(k)
  PROVE  StaysIn(k)'
  <1>1. /\ (notes[k] # None <=> notes'[k] # None)
        /\ UNCHANGED <<rows, records, away, graves, backup, migrated, work, marks>>
    BY EditEffect, EditAt DEF VaultShape
  <1>2. SUFFICES ASSUME Untouched(k)'
        PROVE  /\ Spared(k)'
               /\ QueuedIsNowhere(k)'
               /\ RecordHasNote(k)'
               /\ RowHasNote(k)'
               /\ DecidedHasNote(k)'
    BY DEF StaysIn
  <1>3. Untouched(k) /\ Spared(k) /\ QueuedIsNowhere(k) /\ RecordHasNote(k) /\ RowHasNote(k) /\ DecidedHasNote(k)
    BY <1>1, <1>2 DEF StaysIn, Untouched
  <1>4. Spared(k)'
    BY <1>1, <1>2, <1>3 DEF Untouched, Spared, Erasing
  <1>5. QueuedIsNowhere(k)'
    BY <1>1, <1>2, <1>3 DEF Untouched, Spared, QueuedIsNowhere, Nowhere, Writing, At
  <1>6. RecordHasNote(k)'
    BY <1>1, <1>2, <1>3 DEF Untouched, Spared, RecordHasNote, SavingNote, At
  <1>7. RowHasNote(k)'
    BY <1>1, <1>2, <1>3 DEF Untouched, Spared, RecordHasNote, RowHasNote, Backed, SavingNote,
         Replacing, At
  <1>8. DecidedHasNote(k)'
    BY <1>1, <1>2, <1>3 DEF Untouched, Spared, RowHasNote, DecidedHasNote, Backed, SavingNote,
         Replacing, Nowhere, Writing, At
  <1> QED
    BY <1>4, <1>5, <1>6, <1>7, <1>8

LEMMA CreateIn ==
  ASSUME VaultShape, NEW m \in Memories, NEW t \in Texts, Create(m, t), NEW k \in Memories, StaysIn(k)
  PROVE  StaysIn(k)'
  <1>1. /\ marks \subseteq marks' /\ (k = m /\ (\E r \in Threads : Deciding(r)) => <<k, "moving">> \in marks')
        /\ k # m => notes'[k] = notes[k]
        /\ k = m => notes'[k] # None
        /\ UNCHANGED <<rows, records, away, graves, backup, migrated, work>>
    <2>1. /\ notes' = [notes EXCEPT ![m] = t] /\ notes \in [Memories -> Note] /\ t # None
          /\ UNCHANGED <<rows, records, away, graves, backup, migrated, work>>
      BY CreateEffect, VaultConstants DEF VaultShape, VaultTypeOK
    <2>2. marks' = marks \cup (({m} \cap tombstoned) \X {"again"})
                       \cup (IF \E q \in Threads : Deciding(q) THEN {<<m, "moving">>} ELSE {})
      BY CreateEffect DEF VaultShape
    <2>3. marks \subseteq marks' /\ (k = m /\ (\E r \in Threads : Deciding(r)) => <<k, "moving">> \in marks')
      BY <2>2
    <2> QED
      BY <2>1, <2>3
  <1>2. \A r \in Threads : work[r].queue # {} \/ At(r, "decide") => Deciding(r)
    BY WhoDecides
  <1>3. SUFFICES ASSUME Untouched(k)'
        PROVE  /\ Spared(k)'
               /\ QueuedIsNowhere(k)'
               /\ RecordHasNote(k)'
               /\ RowHasNote(k)'
               /\ DecidedHasNote(k)'
    BY DEF StaysIn
  <1>4. Untouched(k) /\ Spared(k) /\ QueuedIsNowhere(k) /\ RecordHasNote(k) /\ RowHasNote(k) /\ DecidedHasNote(k)
    BY <1>1, <1>2, <1>3 DEF StaysIn, Untouched
  <1>5. Spared(k)'
    BY <1>1, <1>2, <1>3, <1>4 DEF Untouched, Spared, Erasing
  <1>6. QueuedIsNowhere(k)'
    BY <1>1, <1>2, <1>3, <1>4 DEF Untouched, Spared, QueuedIsNowhere, Nowhere, Writing, At
  <1>7. RecordHasNote(k)'
    BY <1>1, <1>2, <1>3, <1>4 DEF Untouched, Spared, RecordHasNote, SavingNote, At
  <1>8. RowHasNote(k)'
    BY <1>1, <1>2, <1>3, <1>4 DEF Untouched, Spared, RecordHasNote, RowHasNote, Backed, SavingNote,
         Replacing, At
  <1>9. DecidedHasNote(k)'
    BY <1>1, <1>2, <1>3, <1>4 DEF Untouched, Spared, RowHasNote, DecidedHasNote, Backed, SavingNote,
         Replacing, Nowhere, Writing, At
  <1> QED
    BY <1>5, <1>6, <1>7, <1>8, <1>9

LEMMA DiscardIn ==
  ASSUME VaultShape, NEW m \in Memories, Discard(m), NEW k \in Memories, StaysIn(k)
  PROVE  StaysIn(k)'
  <1>1. /\ marks \subseteq marks' /\ (k = m => <<k, "asked">> \in marks')
        /\ k # m => notes'[k] = notes[k]
        /\ UNCHANGED <<rows, records, away, graves, backup, migrated, work>>
    BY DiscardEffect DEF VaultShape, VaultTypeOK
  <1>2. SUFFICES ASSUME Untouched(k)'
        PROVE  /\ Spared(k)'
               /\ QueuedIsNowhere(k)'
               /\ RecordHasNote(k)'
               /\ RowHasNote(k)'
               /\ DecidedHasNote(k)'
    BY DEF StaysIn
  <1>3. Untouched(k) /\ Spared(k) /\ QueuedIsNowhere(k) /\ RecordHasNote(k) /\ RowHasNote(k) /\ DecidedHasNote(k)
    BY <1>1, <1>2 DEF StaysIn, Untouched
  <1>4. Spared(k)'
    BY <1>1, <1>2, <1>3 DEF Untouched, Spared, Erasing
  <1>5. QueuedIsNowhere(k)'
    BY <1>1, <1>2, <1>3 DEF Untouched, Spared, QueuedIsNowhere, Nowhere, Writing, At
  <1>6. RecordHasNote(k)'
    BY <1>1, <1>2, <1>3 DEF Untouched, Spared, RecordHasNote, SavingNote, At
  <1>7. RowHasNote(k)'
    BY <1>1, <1>2, <1>3 DEF Untouched, Spared, RecordHasNote, RowHasNote, Backed, SavingNote,
         Replacing, At
  <1>8. DecidedHasNote(k)'
    BY <1>1, <1>2, <1>3 DEF Untouched, Spared, RowHasNote, DecidedHasNote, Backed, SavingNote,
         Replacing, Nowhere, Writing, At
  <1> QED
    BY <1>4, <1>5, <1>6, <1>7, <1>8

LEMMA ClearIn ==
  ASSUME VaultShape, Clear, NEW k \in Memories, StaysIn(k)
  PROVE  StaysIn(k)'
  <1>1. /\ away.notes[k] = None /\ away'.notes[k] = notes[k] /\ records'[k] = None /\ notes'[k] = None
        /\ UNCHANGED <<rows, graves, backup, migrated, work, marks>>
    BY ClearEffect, NoneAsideAt, VaultConstants DEF VaultShape
  <1>2. SUFFICES ASSUME Untouched(k)'
        PROVE  /\ Spared(k)'
               /\ QueuedIsNowhere(k)'
               /\ RecordHasNote(k)'
               /\ RowHasNote(k)'
               /\ DecidedHasNote(k)'
    BY DEF StaysIn
  <1>3. Untouched(k) /\ Spared(k) /\ QueuedIsNowhere(k) /\ RecordHasNote(k) /\ RowHasNote(k) /\ DecidedHasNote(k)
    BY <1>1, <1>2 DEF StaysIn, Untouched
  <1>4. Spared(k)'
    BY <1>1, <1>2, <1>3 DEF Untouched, Spared, Erasing
  <1>5. QueuedIsNowhere(k)'
    BY <1>1, <1>2, <1>3 DEF Untouched, Spared, QueuedIsNowhere, Nowhere, Writing, At
  <1>6. RecordHasNote(k)'
    BY <1>1, <1>2, <1>3 DEF Untouched, Spared, RecordHasNote, SavingNote, At
  <1>7. RowHasNote(k)'
    BY <1>1, <1>2, <1>3 DEF Untouched, Spared, RecordHasNote, RowHasNote, Backed, SavingNote,
         Replacing, At
  <1>8. DecidedHasNote(k)'
    BY <1>1, <1>2, <1>3 DEF Untouched, Spared, RowHasNote, DecidedHasNote, Backed, SavingNote,
         Replacing, Nowhere, Writing, At
  <1> QED
    BY <1>4, <1>5, <1>6, <1>7, <1>8

LEMMA ReturnIn ==
  ASSUME VaultShape, Return, NEW k \in Memories, StaysIn(k)
  PROVE  StaysIn(k)'
  <1>1. /\ notes'[k] = IF notes[k] = None THEN away.notes[k] ELSE notes[k]
        /\ records'[k] = IF records[k] = None THEN away.records[k] ELSE records[k]
        /\ away'.notes[k] = None /\ marks \subseteq marks'
        /\ records'[k] # None /\ notes'[k] = None => <<k, "unwritten">> \in marks'
        /\ UNCHANGED <<rows, graves, backup, migrated, work>>
    <2>1. /\ UNCHANGED <<rows, graves, backup, migrated, work>> /\ away' = NoneAside
          /\ notes'[k] = IF notes[k] = None THEN away.notes[k] ELSE notes[k]
          /\ records'[k] = IF records[k] = None THEN away.records[k] ELSE records[k]
      BY ReturnEffect DEF VaultShape
    <2>2. marks' = marks \cup (IF AnyAt({"bury", "erase", "read"}) THEN Memories \X {"raced"} ELSE {})
                     \cup Halves(records', notes')
      BY ReturnEffect DEF VaultShape
    <2>3. records'[k] # None /\ notes'[k] = None => <<k, "unwritten">> \in Halves(records', notes')
      BY HalvesAt
    <2> QED
      BY <2>1, <2>2, <2>3, NoneAsideAt
  <1>2. SUFFICES ASSUME Untouched(k)'
        PROVE  /\ Spared(k)'
               /\ QueuedIsNowhere(k)'
               /\ RecordHasNote(k)'
               /\ RowHasNote(k)'
               /\ DecidedHasNote(k)'
    BY DEF StaysIn
  <1>3. Untouched(k) /\ Spared(k) /\ QueuedIsNowhere(k) /\ RecordHasNote(k) /\ RowHasNote(k) /\ DecidedHasNote(k)
    BY <1>1, <1>2 DEF StaysIn, Untouched
  <1>4. Spared(k)'
    BY <1>1, <1>2, <1>3 DEF Untouched, Spared, Erasing
  <1>5. QueuedIsNowhere(k)'
    BY <1>1, <1>2, <1>3 DEF Untouched, Spared, QueuedIsNowhere, Nowhere, Writing, At
  <1>6. RecordHasNote(k)'
    BY <1>1, <1>2, <1>3 DEF Untouched, Spared, RecordHasNote, SavingNote, At
  <1>7. RowHasNote(k)'
    BY <1>1, <1>2, <1>3 DEF Untouched, Spared, RecordHasNote, RowHasNote, Backed, SavingNote,
         Replacing, At
  <1>8. DecidedHasNote(k)'
    BY <1>1, <1>2, <1>3 DEF Untouched, Spared, RowHasNote, DecidedHasNote, Backed, SavingNote,
         Replacing, Nowhere, Writing, At
  <1> QED
    BY <1>4, <1>5, <1>6, <1>7, <1>8


-----------------------------------------------------------------------------
(***************************************************************************)
(* An undisturbed reconciliation settles the index                         *)
(***************************************************************************)
\* What it has read is what there is.
Current(p) ==
    /\ work[p].at \in {"rows", "decide"} =>
         \A m \in Memories : work[p].notes[m] = IF Readable(m) THEN notes[m] ELSE None
    /\ work[p].at = "decide" => work[p].rows = rows
\* On its way through the deletions: whoever has a row and no note is queued or
\* being deleted; unless a rebuild follows, the rows are as the notes; and what it
\* deletes has no note that a rebuild could read.
Pending(p) == Deciding(p) /\ ~At(p, "decide") => \A m \in Memories :
    /\ m \in work[p].queue => migrated /\ present /\ ~Readable(m)
    /\ Erasing(p) /\ m = work[p].mem => records[m] = None /\ ~Readable(m)
    /\ migrated /\ present /\ notes[m] = None /\ rows[m] # None =>
         m \in work[p].queue \/ (Erasing(p) /\ m = work[p].mem)
    /\ ~work[p].rebuild /\ Readable(m) => rows[m] = notes[m]
    /\ work[p].rebuild /\ migrated /\ present /\ notes[m] = None /\ records[m] # None =>
         <<m, "stray">> \in marks \/ rows[m] # None
\* On its way through the rebuild: a record without a note is a stray one.
Renewing(p) == work[p].at \in {"graves", "read", "rewrite"} =>
    /\ work[p].rebuild
    /\ \A m \in Memories :
          /\ migrated /\ present /\ notes[m] = None /\ records[m] # None => <<m, "stray">> \in marks
          /\ At(p, "rewrite") => work[p].rows[m] = FromFiles(m)

Reaching(p) == p \in calm /\ work[p].reconciling => Current(p) /\ Pending(p) /\ Renewing(p)
\* The step of a thread that ReconcileSettles is about.
Finishes(p) ==
    work[p].reconciling /\ work'[p].at = "idle" /\ p \in calm' /\ ~(At(p, "decide") /\ Implausible(p))

\* Of a thread that did not move, and to which nothing happened that it looks at.
LEMMA OthersReach ==
  ASSUME VaultShape, NEW s \in Threads, Reaching(s), work'[s] = work[s], marks \subseteq marks',
         s \in calm' => s \in calm /\ UNCHANGED <<rows, records, notes, present, migrated>>
  PROVE  Reaching(s)' /\ ~Finishes(s)
  <1>1. ~Finishes(s)
    BY DEF VaultShape, Posture, Finishes
  <1>2. SUFFICES ASSUME s \in calm', work'[s].reconciling PROVE Current(s)' /\ Pending(s)' /\ Renewing(s)'
    BY <1>1 DEF Reaching
  <1>3. UNCHANGED <<rows, records, notes, present, migrated>> /\ Current(s) /\ Pending(s) /\ Renewing(s)
    BY <1>2 DEF Reaching
  <1>4. Current(s)'
    BY <1>3 DEF Current, Readable
  <1>5. Pending(s)'
    BY <1>3 DEF Pending, Readable, Deciding, Erasing, At
  <1>6. Renewing(s)'
    BY <1>3 DEF Renewing, FromFiles, Readable, At
  <1> QED
    BY <1>1, <1>4, <1>5, <1>6

\* Of a thread that does not reconcile, or gave up.
LEMMA ElseReaches ==
  ASSUME NEW s \in Threads, s \notin calm' \/ (~work[s].reconciling /\ ~work'[s].reconciling)
  PROVE  Reaching(s)' /\ (Finishes(s) => Settled')
  BY DEF Reaching, Finishes

LEMMA SaveBeginReaches ==
  ASSUME VaultShape, NEW p \in Threads, NEW m \in Memories, NEW t \in Texts, SaveBegin(p, m, t), NEW s \in Threads, Reaching(s)
  PROVE  Reaching(s)' /\ (Finishes(s) => Settled')
  <1>1. PICK q : Carries(p, q) /\ Fresh(q)
    BY SaveBeginCarries DEF VaultShape
  <1>2. work'[p] = q /\ \A r \in Threads : r # p => work'[r] = work[r]
    BY <1>1, Moved
  <1>5. CASE s # p
    <2>1. marks \subseteq marks' /\ (s \in calm' => s \in calm /\ UNCHANGED <<rows, records, notes, present, migrated>>)
      BY <1>5, SaveBeginEffect
    <2> QED
      BY <1>2, <1>5, <2>1, OthersReach
  <1>6. CASE s = p
    <2>1. ~work[p].reconciling /\ ~work'[p].reconciling
      BY <1>1, <1>2, SaveBeginEffect DEF VaultShape, Posture, Fresh
    <2> QED
      BY <1>6, <2>1, ElseReaches
  <1> QED
    BY <1>5, <1>6

LEMMA SaveFilesReaches ==
  ASSUME VaultShape, NEW p \in Threads, SaveFiles(p), NEW s \in Threads, Reaching(s)
  PROVE  Reaching(s)' /\ (Finishes(s) => Settled')
  <1>1. PICK q : Carries(p, q) /\ Same(q, work[p])
    BY SaveFilesEffect, ThenCarries DEF VaultShape, Labels
  <1>2. work'[p] = q /\ \A r \in Threads : r # p => work'[r] = work[r]
    BY <1>1, Moved
  <1>5. CASE s # p
    <2>1. marks \subseteq marks' /\ (s \in calm' => s \in calm /\ UNCHANGED <<rows, records, notes, present, migrated>>)
      BY <1>5, SaveFilesEffect
    <2> QED
      BY <1>2, <1>5, <2>1, OthersReach
  <1>6. CASE s = p
    <2>1. ~work[p].reconciling /\ ~work'[p].reconciling
      BY <1>1, <1>2, SaveFilesEffect DEF VaultShape, Posture, Same
    <2> QED
      BY <1>6, <2>1, ElseReaches
  <1> QED
    BY <1>5, <1>6

LEMMA SaveNoteReaches ==
  ASSUME VaultShape, NEW p \in Threads, SaveNote(p), NEW s \in Threads, Reaching(s)
  PROVE  Reaching(s)' /\ (Finishes(s) => Settled')
  <1>1. PICK q : Carries(p, q) /\ Same(q, work[p])
    BY SaveNoteEffect, ThenCarries DEF VaultShape, Labels
  <1>2. work'[p] = q /\ \A r \in Threads : r # p => work'[r] = work[r]
    BY <1>1, Moved
  <1>5. CASE s # p
    <2>1. marks \subseteq marks' /\ (s \in calm' => s \in calm /\ UNCHANGED <<rows, records, notes, present, migrated>>)
      BY <1>5, SaveNoteEffect
    <2> QED
      BY <1>2, <1>5, <2>1, OthersReach
  <1>6. CASE s = p
    <2>1. ~work[p].reconciling /\ ~work'[p].reconciling
      BY <1>1, <1>2, SaveNoteEffect DEF VaultShape, Posture, Same
    <2> QED
      BY <1>6, <2>1, ElseReaches
  <1> QED
    BY <1>5, <1>6

LEMMA SaveCommitReaches ==
  ASSUME VaultShape, NEW p \in Threads, SaveCommit(p), NEW s \in Threads, Reaching(s)
  PROVE  Reaching(s)' /\ (Finishes(s) => Settled')
  <1>1. PICK q : Carries(p, q) /\ q = VaultIdle
    BY SaveCommitEffect, RestCarries DEF VaultShape
  <1>2. work'[p] = q /\ \A r \in Threads : r # p => work'[r] = work[r]
    BY <1>1, Moved
  <1>5. CASE s # p
    <2>1. marks \subseteq marks' /\ (s \in calm' => s \in calm /\ UNCHANGED <<rows, records, notes, present, migrated>>)
      BY <1>5, SaveCommitEffect
    <2> QED
      BY <1>2, <1>5, <2>1, OthersReach
  <1>6. CASE s = p
    <2>1. ~work[p].reconciling /\ ~work'[p].reconciling
      BY <1>1, <1>2, SaveCommitEffect, VaultIdleType DEF VaultShape, Posture
    <2> QED
      BY <1>6, <2>1, ElseReaches
  <1> QED
    BY <1>5, <1>6

LEMMA DeleteBeginReaches ==
  ASSUME VaultShape, NEW p \in Threads, NEW m \in Memories, DeleteBegin(p, m), NEW s \in Threads, Reaching(s)
  PROVE  Reaching(s)' /\ (Finishes(s) => Settled')
  <1>1. PICK q : Carries(p, q) /\ Fresh(q)
    BY DeleteBeginCarries DEF VaultShape
  <1>2. work'[p] = q /\ \A r \in Threads : r # p => work'[r] = work[r]
    BY <1>1, Moved
  <1>5. CASE s # p
    <2>1. marks \subseteq marks' /\ (s \in calm' => s \in calm /\ UNCHANGED <<rows, records, notes, present, migrated>>)
      <3>1. marks' = marks \cup {<<m, "asked">>} \cup (({m} \cap misnamed) \X {"misnamed"}) /\ calm' = calm \cap {p}
        BY DeleteBeginEffect
      <3> QED
        BY <1>5, <3>1
    <2> QED
      BY <1>2, <1>5, <2>1, OthersReach
  <1>6. CASE s = p
    <2>1. ~work[p].reconciling /\ ~work'[p].reconciling
      BY <1>1, <1>2, DeleteBeginEffect DEF VaultShape, Posture, Fresh
    <2> QED
      BY <1>6, <2>1, ElseReaches
  <1> QED
    BY <1>5, <1>6

LEMMA BuryReaches ==
  ASSUME VaultShape, NEW p \in Threads, Bury(p), NEW s \in Threads, Reaching(s)
  PROVE  Reaching(s)' /\ (Finishes(s) => Settled')
  <1>1. PICK q : Carries(p, q) /\ q.at = "erase" /\ Same(q, work[p])
    BY BuryEffect, ThenCarries DEF VaultShape, Labels
  <1>2. work'[p] = q /\ \A r \in Threads : r # p => work'[r] = work[r]
    BY <1>1, Moved
  <1>3. /\ work[p].at = "bury" /\ marks \subseteq marks' /\ calm' = calm \cap {p}
        /\ UNCHANGED <<rows, records, notes, present, migrated>>
    BY BuryEffect
  <1>5. CASE s # p
    <2>1. marks \subseteq marks' /\ (s \in calm' => s \in calm /\ UNCHANGED <<rows, records, notes, present, migrated>>)
      BY <1>3, <1>5
    <2> QED
      BY <1>2, <1>5, <2>1, OthersReach
  <1>6. CASE s = p
    <2>1. SUFFICES ASSUME p \in calm', work[p].reconciling
          PROVE  Reaching(p)' /\ (Finishes(p) => Settled')
      <3>1. ~work[p].reconciling => ~work'[p].reconciling
        BY <1>1, <1>2 DEF Same
      <3> QED
        BY <1>6, <3>1, ElseReaches
    <2>2. p \in calm /\ Current(p) /\ Pending(p) /\ Renewing(p)
      BY <1>3, <1>6, <2>1 DEF Reaching
    <2>3. Current(p)' /\ Renewing(p)' /\ ~Finishes(p)
      BY <1>1, <1>2 DEF Current, Renewing, Finishes
    <2>4. Pending(p)'
      BY <1>1, <1>2, <1>3, <2>1, <2>2 DEF Pending, Readable, Deciding, Erasing, At, Same
    <2> QED
      BY <1>6, <2>3, <2>4 DEF Reaching
  <1> QED
    BY <1>5, <1>6

LEMMA EraseReaches ==
  ASSUME VaultShape, NEW p \in Threads, Erase(p), NEW s \in Threads, Reaching(s)
  PROVE  Reaching(s)' /\ (Finishes(s) => Settled')
  <1>1. PICK q : /\ Carries(p, q)
                 /\ \/ work[p].reconciling = FALSE /\ q = VaultIdle
                    \/ /\ work[p].reconciling = TRUE /\ q.reconciling = TRUE /\ q.at = "remove"
                       /\ q.queue = work[p].queue /\ q.buried = work[p].buried /\ q.rebuild = work[p].rebuild
    BY AfterDeleteAt, EraseEffect
  <1>2. work'[p] = q /\ \A r \in Threads : r # p => work'[r] = work[r]
    BY <1>1, Moved
  <1>3. /\ work[p].at = "erase" /\ calm' = calm \cap {p}
        /\ \A k \in Memories : rows'[k] = IF k = work[p].mem THEN None ELSE rows[k]
        /\ UNCHANGED <<records, notes, present, migrated, marks>>
    BY EraseEffect, EraseAt
  <1>5. CASE s # p
    <2>1. marks \subseteq marks' /\ (s \in calm' => s \in calm /\ UNCHANGED <<rows, records, notes, present, migrated>>)
      BY <1>3, <1>5
    <2> QED
      BY <1>2, <1>5, <2>1, OthersReach
  <1>6. CASE s = p
    <2>1. SUFFICES ASSUME p \in calm', work[p].reconciling
          PROVE  Reaching(p)' /\ (Finishes(p) => Settled')
      <3>1. ~work[p].reconciling => ~work'[p].reconciling
        BY <1>1, <1>2, VaultIdleType
      <3> QED
        BY <1>6, <3>1, ElseReaches
    <2>2. p \in calm /\ Current(p) /\ Pending(p) /\ Renewing(p)
      BY <1>3, <1>6, <2>1 DEF Reaching
    <2>3. Current(p)' /\ Renewing(p)' /\ ~Finishes(p)
      BY <1>1, <1>2, <2>1 DEF Current, Renewing, Finishes
    <2>4. /\ work'[p].at = "remove" /\ work'[p].queue = work[p].queue /\ work'[p].rebuild = work[p].rebuild
          /\ work[p].at = "erase"
      BY <1>1, <1>2, <1>3, <2>1
    <2>5. Pending(p)'
      BY <1>3, <2>1, <2>2, <2>4 DEF Pending, Readable, Deciding, Erasing, At
    <2> QED
      BY <1>6, <2>3, <2>5 DEF Reaching
  <1> QED
    BY <1>5, <1>6

LEMMA AbortReaches ==
  ASSUME VaultShape, NEW p \in Threads, Abort(p), NEW s \in Threads, Reaching(s)
  PROVE  Reaching(s)' /\ (Finishes(s) => Settled')
  <1>1. PICK q : Carries(p, q)
    BY AfterDeleteAt, AbortEffect
  <1>2. work'[p] = q /\ \A r \in Threads : r # p => work'[r] = work[r]
    BY <1>1, Moved
  <1>3. /\ marks \subseteq marks' /\ calm' = calm \ {p}
        /\ UNCHANGED <<rows, records, notes, present, migrated>>
    BY AbortEffect
  <1>5. CASE s # p
    <2>1. marks \subseteq marks' /\ (s \in calm' => s \in calm /\ UNCHANGED <<rows, records, notes, present, migrated>>)
      BY <1>3, <1>5
    <2> QED
      BY <1>2, <1>5, <2>1, OthersReach
  <1>6. CASE s = p
    BY <1>3, <1>6, ElseReaches
  <1> QED
    BY <1>5, <1>6

LEMMA ReconcileNotesReaches ==
  ASSUME VaultShape, NEW p \in Threads, ReconcileNotes(p), NEW s \in Threads, Reaching(s)
  PROVE  Reaching(s)' /\ (Finishes(s) => Settled')
  <1>1. PICK q : Carries(p, q) /\ q.at = "rows" /\ q.notes = Parsed
    BY ReconcileNotesCarries DEF VaultShape
  <1>2. work'[p] = q /\ \A r \in Threads : r # p => work'[r] = work[r]
    BY <1>1, Moved
  <1>3. /\ work[p].at = "idle" /\ marks \subseteq marks' /\ calm' = calm \cup {p}
        /\ UNCHANGED <<rows, records, notes, present, migrated>>
    BY ReconcileNotesEffect
  <1>5. CASE s # p
    <2>1. marks \subseteq marks' /\ (s \in calm' => s \in calm /\ UNCHANGED <<rows, records, notes, present, migrated>>)
      BY <1>3, <1>5
    <2> QED
      BY <1>2, <1>5, <2>1, OthersReach
  <1>6. CASE s = p
    <2>1. ~work[p].reconciling
      BY <1>3 DEF VaultShape, Posture
    <2>2. \A m \in Memories : q.notes[m] = IF Readable(m) THEN notes[m] ELSE None
      BY <1>1, ParsedType DEF VaultShape
    <2>3. Current(p)' /\ Pending(p)' /\ Renewing(p)'
      BY <1>1, <1>2, <1>3, <2>2 DEF Current, Pending, Renewing, Readable, Deciding, At
    <2> QED
      BY <1>6, <2>1, <2>3 DEF Reaching, Finishes
  <1> QED
    BY <1>5, <1>6

LEMMA ReconcileRowsReaches ==
  ASSUME VaultShape, NEW p \in Threads, ReconcileRows(p), NEW s \in Threads, Reaching(s)
  PROVE  Reaching(s)' /\ (Finishes(s) => Settled')
  <1>1. PICK q : Carries(p, q) /\ q.at = "decide" /\ q.rows = rows /\ q.notes = work[p].notes /\ q.reconciling = work[p].reconciling
    BY ReconcileRowsCarries DEF VaultShape
  <1>2. work'[p] = q /\ \A r \in Threads : r # p => work'[r] = work[r]
    BY <1>1, Moved
  <1>3. /\ work[p].at = "rows" /\ marks \subseteq marks' /\ calm' = calm
        /\ UNCHANGED <<rows, records, notes, present, migrated>>
    BY ReconcileRowsEffect
  <1>5. CASE s # p
    <2>1. marks \subseteq marks' /\ (s \in calm' => s \in calm /\ UNCHANGED <<rows, records, notes, present, migrated>>)
      BY <1>3, <1>5
    <2> QED
      BY <1>2, <1>5, <2>1, OthersReach
  <1>6. CASE s = p
    <2>1. SUFFICES ASSUME p \in calm', work[p].reconciling
          PROVE  Reaching(p)' /\ (Finishes(p) => Settled')
      <3>1. ~work[p].reconciling => ~work'[p].reconciling
        BY <1>1, <1>2 
      <3> QED
        BY <1>6, <3>1, ElseReaches
    <2>2. p \in calm /\ Current(p) /\ Pending(p) /\ Renewing(p)
      BY <1>3, <1>6, <2>1 DEF Reaching
    <2>3. Current(p)' /\ Pending(p)' /\ Renewing(p)' /\ ~Finishes(p)
      BY <1>1, <1>2, <1>3, <2>2 DEF Current, Pending, Renewing, Readable, Deciding, At, Finishes
    <2> QED
      BY <1>6, <2>3 DEF Reaching
  <1> QED
    BY <1>5, <1>6

LEMMA ReconcileDecideReaches ==
  ASSUME VaultShape, NEW p \in Threads, ReconcileDecide(p), NEW s \in Threads, Reaching(s)
  PROVE  Reaching(s)' /\ (Finishes(s) => Settled')
  <1>1. PICK q : /\ Carries(p, q) /\ marks \subseteq marks'
                 /\ \/ (Implausible(p) \/ (Missing(p) = {} /\ ~Differs(p))) /\ q = VaultIdle
                    \/ /\ q.at = "remove" /\ q.queue = Missing(p) /\ q.rebuild = Differs(p)
                       /\ \A m \in Memories : records[m] # None /\ notes[m] = None /\ work[p].rows[m] = None
                            => <<m, "stray">> \in marks'
    BY ReconcileDecideCarries DEF VaultShape
  <1>2. work'[p] = q /\ \A r \in Threads : r # p => work'[r] = work[r]
    BY <1>1, Moved
  <1>3. /\ work[p].at = "decide" /\ work[p].reconciling /\ calm' = calm
        /\ UNCHANGED <<rows, records, notes, present, migrated>>
    BY ReconcileDecideEffect DEF VaultShape, Posture
  <1>5. CASE s # p
    <2>1. marks \subseteq marks' /\ (s \in calm' => s \in calm /\ UNCHANGED <<rows, records, notes, present, migrated>>)
      BY <1>1, <1>3, <1>5
    <2> QED
      BY <1>2, <1>5, <2>1, OthersReach
  <1>6. CASE s = p
    <2>1. SUFFICES ASSUME p \in calm' PROVE Reaching(p)' /\ (Finishes(p) => Settled')
      BY <1>6, ElseReaches
    <2>2. /\ \A m \in Memories : work[p].notes[m] = IF Readable(m) THEN notes[m] ELSE None
          /\ work[p].rows = rows
      BY <1>3, <1>6, <2>1 DEF Reaching, Current
    <2>3. ASSUME NEW m \in Memories
          PROVE  /\ m \in Missing(p) => migrated /\ present /\ ~Readable(m)
                 /\ migrated /\ present /\ notes[m] = None /\ rows[m] # None => m \in Missing(p)
                 /\ ~Differs(p) /\ Readable(m) => rows[m] = notes[m]
      <3>1. Readable(m) => notes[m] # None
        BY VaultConstants DEF Readable
      <3>2. m \in Missing(p) => migrated /\ present /\ work[p].notes[m] = None
        BY MissingType DEF VaultShape
      <3>3. migrated /\ present /\ rows[m] # None /\ work[p].notes[m] = None /\ ~Found(m) => m \in Missing(p)
        BY <2>2, MissingType DEF VaultShape
      <3> QED
        BY <2>2, <3>1, <3>2, <3>3 DEF Differs, Found
    <2>4. CASE q = VaultIdle /\ (Implausible(p) \/ (Missing(p) = {} /\ ~Differs(p)))
      <3>1. Reaching(p)'
        BY <1>2, <2>4, VaultIdleType DEF Reaching
      <3>2. ASSUME Missing(p) = {}, ~Differs(p) PROVE Settled'
        BY <1>3, <2>3, <3>2 DEF Settled, Readable
      <3> QED
        BY <1>3, <2>4, <3>1, <3>2 DEF Finishes, At
    <2>5. CASE /\ q.at = "remove" /\ q.queue = Missing(p) /\ q.rebuild = Differs(p)
               /\ \A m \in Memories : records[m] # None /\ notes[m] = None /\ work[p].rows[m] = None
                    => <<m, "stray">> \in marks'
      <3>1. Current(p)' /\ Renewing(p)' /\ ~Finishes(p)
        BY <1>2, <2>5 DEF Current, Renewing, Finishes
      <3>2. Pending(p)'
        BY <1>1, <1>2, <1>3, <2>2, <2>3, <2>5 DEF Pending, Readable, Erasing
      <3> QED
        BY <1>6, <3>1, <3>2 DEF Reaching
    <2> QED
      BY <1>1, <1>6, <2>4, <2>5
  <1> QED
    BY <1>5, <1>6

LEMMA ReconcileRemoveReaches ==
  ASSUME VaultShape, NEW p \in Threads, NEW m \in Memories, ReconcileRemove(p, m), NEW s \in Threads, Reaching(s)
  PROVE  Reaching(s)' /\ (Finishes(s) => Settled')
  <1>1. PICK q : /\ Carries(p, q) /\ q.queue = work[p].queue \ {m} /\ m \in work[p].queue
                 /\ q.reconciling = work[p].reconciling /\ q.rebuild = work[p].rebuild
                 /\ q.rows = work[p].rows /\ q.buried = work[p].buried /\ work[p].at = "remove"
                 /\ \/ /\ rows[m] = None /\ q.at = "remove"
                       /\ UNCHANGED <<files, writer, calm, marks>>
                    \/ /\ rows[m] # None /\ q.at = "bury" /\ q.mem = m
                       /\ writer = None /\ writer' = p /\ Unlinked({m})
                       /\ marks' = marks \cup (({m} \cap misnamed) \X {"misnamed"})
                       /\ calm' = calm \cap {p}
    BY ReconcileRemoveCarries DEF VaultShape
  <1>2. work'[p] = q /\ \A r \in Threads : r # p => work'[r] = work[r]
    BY <1>1, Moved
  <1>3. work[p].reconciling /\ UNCHANGED rows
    BY <1>1, ReconcileRemoveEffect DEF VaultShape, Posture
  <1>4. \/ /\ rows[m] = None /\ q.at = "remove"
           /\ UNCHANGED <<records, notes, present, migrated, calm, marks>>
        \/ /\ q.at = "bury" /\ q.mem = m /\ marks \subseteq marks' /\ calm' = calm \cap {p}
           /\ present' = TRUE /\ migrated' = migrated /\ records'[m] = None /\ notes'[m] \in {notes[m], None}
           /\ \A k \in Memories : k # m => records'[k] = records[k] /\ notes'[k] = notes[k]
    <2>1. CASE q.at = "remove" /\ rows[m] = None /\ UNCHANGED <<files, writer, calm, marks>>
      BY <2>1 DEF files
    <2>2. CASE /\ q.at = "bury" /\ q.mem = m /\ Unlinked({m})
               /\ marks' = marks \cup (({m} \cap misnamed) \X {"misnamed"}) /\ calm' = calm \cap {p}
      <3>1. ASSUME NEW k \in Memories
            PROVE  /\ records'[k] = IF k = m THEN None ELSE records[k]
                   /\ notes'[k] \in {notes[k], None} /\ (k # m => notes'[k] = notes[k])
                   /\ migrated' = migrated /\ present' = TRUE
        BY <2>2, UnlinkedAt
      <3> QED
        BY <2>2, <3>1
    <2> QED
      BY <1>1, <2>1, <2>2
  <1>5. CASE s # p
    <2>1. marks \subseteq marks' /\ (s \in calm' => s \in calm /\ UNCHANGED <<rows, records, notes, present, migrated>>)
      BY <1>3, <1>4, <1>5
    <2> QED
      BY <1>2, <1>5, <2>1, OthersReach
  <1>6. CASE s = p
    <2>1. SUFFICES ASSUME p \in calm' PROVE Reaching(p)' /\ (Finishes(p) => Settled')
      BY <1>6, ElseReaches
    <2>2. p \in calm /\ Pending(p)
      BY <1>3, <1>4, <1>6, <2>1 DEF Reaching
    <2>3. Current(p)' /\ Renewing(p)' /\ ~Finishes(p)
      BY <1>2, <1>4 DEF Current, Renewing, Finishes
    <2>4. \A k \in Memories :
            /\ k \in work[p].queue => migrated /\ present /\ ~Readable(k)
            /\ migrated /\ present /\ notes[k] = None /\ rows[k] # None => k \in work[p].queue
            /\ ~work[p].rebuild /\ Readable(k) => rows[k] = notes[k]
            /\ work[p].rebuild /\ migrated /\ present /\ notes[k] = None /\ records[k] # None =>
                 <<k, "stray">> \in marks \/ rows[k] # None
      BY <1>1, <1>3, <2>2 DEF Pending, Deciding, Erasing, At
    <2>5. Pending(p)'
      <3>1. CASE q.at = "remove" /\ rows[m] = None /\ UNCHANGED <<records, notes, present, migrated, calm, marks>>
        BY <1>1, <1>2, <1>3, <2>4, <3>1 DEF Pending, Readable, Erasing
      <3>2. CASE /\ q.at = "bury" /\ q.mem = m /\ marks \subseteq marks'
                 /\ present' = TRUE /\ migrated' = migrated /\ records'[m] = None /\ notes'[m] \in {notes[m], None}
                 /\ \A k \in Memories : k # m => records'[k] = records[k] /\ notes'[k] = notes[k]
        <4>1. present /\ ~Readable(m)'
          BY <1>1, <2>4, <3>2, VaultConstants DEF Readable
        <4>2. /\ work'[p].queue = work[p].queue \ {m} /\ work'[p].mem = m /\ Erasing(p)'
              /\ work'[p].rebuild = work[p].rebuild /\ rows' = rows /\ m \in work[p].queue
          BY <1>1, <1>2, <1>3, <3>2 DEF Erasing
        <4>3. ASSUME NEW k \in Memories, k # m
              PROVE  /\ records'[k] = records[k] /\ notes'[k] = notes[k] /\ (Readable(k)' <=> Readable(k))
                     /\ migrated' = migrated /\ present' = present /\ marks \subseteq marks'
          BY <3>2, <4>1, <4>3 DEF Readable, VaultShape, VaultTypeOK
        <4>4. ASSUME NEW k \in Memories
              PROVE  /\ k \in work'[p].queue => migrated' /\ present' /\ ~Readable(k)'
                     /\ k = work'[p].mem => records'[k] = None /\ ~Readable(k)'
                     /\ migrated' /\ present' /\ notes'[k] = None /\ rows'[k] # None =>
                          k \in work'[p].queue \/ k = work'[p].mem
                     /\ ~work'[p].rebuild /\ Readable(k)' => rows'[k] = notes'[k]
                     /\ work'[p].rebuild /\ migrated' /\ present' /\ notes'[k] = None /\ records'[k] # None =>
                          <<k, "stray">> \in marks' \/ rows'[k] # None
          <5>1. CASE k = m
            BY <3>2, <4>1, <4>2, <5>1
          <5>2. CASE k # m
            BY <2>4, <4>2, <4>3, <5>2
          <5> QED
            BY <5>1, <5>2
        <4> QED
          BY <4>2, <4>4 DEF Pending
      <3> QED
        BY <1>4, <3>1, <3>2
    <2> QED
      BY <1>6, <2>3, <2>5 DEF Reaching
  <1> QED
    BY <1>5, <1>6

LEMMA ReconcileRestReaches ==
  ASSUME VaultShape, NEW p \in Threads, ReconcileRest(p), NEW s \in Threads, Reaching(s)
  PROVE  Reaching(s)' /\ (Finishes(s) => Settled')
  <1>1. PICK q : Carries(p, q) /\ ((work[p].rebuild = FALSE /\ q = VaultIdle) \/ (work[p].rebuild = TRUE /\ q.at = "graves" /\ Same(q, work[p])))
    BY ReconcileRestCarries DEF VaultShape
  <1>2. work'[p] = q /\ \A r \in Threads : r # p => work'[r] = work[r]
    BY <1>1, Moved
  <1>3. /\ work[p].at = "remove" /\ work[p].reconciling /\ work[p].queue = {} /\ calm' = calm
        /\ UNCHANGED <<rows, records, notes, present, migrated, marks>>
    BY ReconcileRestEffect DEF VaultShape, Posture
  <1>5. CASE s # p
    <2>1. marks \subseteq marks' /\ (s \in calm' => s \in calm /\ UNCHANGED <<rows, records, notes, present, migrated>>)
      BY <1>3, <1>5
    <2> QED
      BY <1>2, <1>5, <2>1, OthersReach
  <1>6. CASE s = p
    <2>1. SUFFICES ASSUME p \in calm' PROVE Reaching(p)' /\ (Finishes(p) => Settled')
      BY <1>6, ElseReaches
    <2>2. \A k \in Memories :
            /\ migrated /\ present /\ notes[k] = None => rows[k] = None
            /\ ~work[p].rebuild /\ Readable(k) => rows[k] = notes[k]
            /\ work[p].rebuild /\ migrated /\ present /\ notes[k] = None /\ records[k] # None =>
                 <<k, "stray">> \in marks \/ rows[k] # None
      BY <1>3, <1>6, <2>1 DEF Reaching, Pending, Deciding, Erasing, At
    <2>3. CASE work[p].rebuild = FALSE /\ q = VaultIdle
      <3>1. Reaching(p)'
        BY <1>2, <2>3, VaultIdleType DEF Reaching
      <3>2. Settled'
        BY <1>3, <2>2, <2>3 DEF Settled, Readable
      <3> QED
        BY <3>1, <3>2
    <2>4. CASE work[p].rebuild = TRUE /\ q.at = "graves" /\ Same(q, work[p])
      <3>1. Current(p)' /\ Pending(p)' /\ Renewing(p)' /\ ~Finishes(p)
        BY <1>2, <1>3, <2>2, <2>4 DEF Current, Pending, Renewing, Deciding, Finishes, At, Same
      <3> QED
        BY <3>1 DEF Reaching
    <2> QED
      BY <1>1, <1>6, <2>3, <2>4
  <1> QED
    BY <1>5, <1>6

LEMMA RebuildBeginReaches ==
  ASSUME VaultShape, NEW p \in Threads, RebuildBegin(p), NEW s \in Threads, Reaching(s)
  PROVE  Reaching(s)' /\ (Finishes(s) => Settled')
  <1>1. PICK q : Carries(p, q) /\ Fresh(q)
    BY RebuildBeginCarries DEF VaultShape
  <1>2. work'[p] = q /\ \A r \in Threads : r # p => work'[r] = work[r]
    BY <1>1, Moved
  <1>5. CASE s # p
    <2>1. marks \subseteq marks' /\ (s \in calm' => s \in calm /\ UNCHANGED <<rows, records, notes, present, migrated>>)
      BY <1>5, RebuildBeginEffect
    <2> QED
      BY <1>2, <1>5, <2>1, OthersReach
  <1>6. CASE s = p
    <2>1. ~work[p].reconciling /\ ~work'[p].reconciling
      BY <1>1, <1>2, RebuildBeginEffect DEF VaultShape, Posture, Fresh
    <2> QED
      BY <1>6, <2>1, ElseReaches
  <1> QED
    BY <1>5, <1>6

LEMMA ApplyGravesReaches ==
  ASSUME VaultShape, NEW p \in Threads, ApplyGraves(p), NEW s \in Threads, Reaching(s)
  PROVE  Reaching(s)' /\ (Finishes(s) => Settled')
  <1>1. PICK q : Carries(p, q) /\ q.at = "read" /\ Same(q, work[p])
    BY ApplyGravesEffect, ThenCarries DEF VaultShape, Labels
  <1>2. work'[p] = q /\ \A r \in Threads : r # p => work'[r] = work[r]
    BY <1>1, Moved
  <1>3. work[p].at = "graves" /\ marks \subseteq marks' /\ calm' = calm \cap {p}
    BY ApplyGravesEffect
  <1>5. CASE s # p
    <2>1. marks \subseteq marks' /\ (s \in calm' => s \in calm /\ UNCHANGED <<rows, records, notes, present, migrated>>)
      BY <1>3, <1>5
    <2> QED
      BY <1>2, <1>5, <2>1, OthersReach
  <1>6. CASE s = p
    <2>1. SUFFICES ASSUME p \in calm', work[p].reconciling
          PROVE  Reaching(p)' /\ (Finishes(p) => Settled')
      <3>1. ~work[p].reconciling => ~work'[p].reconciling
        BY <1>1, <1>2 DEF Same
      <3> QED
        BY <1>6, <3>1, ElseReaches
    <2>2. p \in calm /\ Current(p) /\ Pending(p) /\ Renewing(p)
      BY <1>3, <1>6, <2>1 DEF Reaching
    <2>3. Current(p)' /\ Pending(p)' /\ ~Finishes(p)
      BY <1>1, <1>2 DEF Current, Pending, Finishes, Deciding
    <2>4. ASSUME NEW k \in Memories
          PROVE  /\ migrated' = migrated /\ (records'[k] # None => records[k] # None /\ notes'[k] = notes[k])
                 /\ ~present => records[k] = None
      <3> DEFINE set == {m \in graves : records[m] # None}
      <3>1. Unlinked(set)
        BY ApplyGravesEffect
      <3>2. migrated' = migrated /\ (records'[k] # None => records[k] # None /\ notes'[k] = notes[k])
        <4> HIDE DEF set
        <4> QED
          BY <3>1, UnlinkedAt
      <3> QED
        BY <3>2, VaultConstants DEF VaultShape
    <2>5. Renewing(p)'
      BY <1>1, <1>2, <1>3, <2>2, <2>4 DEF Renewing, At, Same
    <2> QED
      BY <1>6, <2>3, <2>5 DEF Reaching
  <1> QED
    BY <1>5, <1>6

LEMMA ReadVaultReaches ==
  ASSUME VaultShape, NEW p \in Threads, ReadVault(p), NEW s \in Threads, Reaching(s)
  PROVE  Reaching(s)' /\ (Finishes(s) => Settled')
  <1>1. PICK q : /\ Carries(p, q) /\ q.at = "rewrite" /\ \A m \in Memories : q.rows[m] = FromFiles(m)
                 /\ q.queue = work[p].queue /\ q.rebuild = work[p].rebuild
                 /\ q.reconciling = work[p].reconciling /\ q.buried = work[p].buried
    BY ReadVaultCarries DEF VaultShape
  <1>2. work'[p] = q /\ \A r \in Threads : r # p => work'[r] = work[r]
    BY <1>1, Moved
  <1>3. /\ work[p].at = "read" /\ marks \subseteq marks' /\ calm' = calm
        /\ UNCHANGED <<rows, records, notes, present, migrated>>
    BY ReadVaultEffect
  <1>5. CASE s # p
    <2>1. marks \subseteq marks' /\ (s \in calm' => s \in calm /\ UNCHANGED <<rows, records, notes, present, migrated>>)
      BY <1>3, <1>5
    <2> QED
      BY <1>2, <1>5, <2>1, OthersReach
  <1>6. CASE s = p
    <2>1. SUFFICES ASSUME p \in calm', work[p].reconciling
          PROVE  Reaching(p)' /\ (Finishes(p) => Settled')
      <3>1. ~work[p].reconciling => ~work'[p].reconciling
        BY <1>1, <1>2 
      <3> QED
        BY <1>6, <3>1, ElseReaches
    <2>2. p \in calm /\ Current(p) /\ Pending(p) /\ Renewing(p)
      BY <1>3, <1>6, <2>1 DEF Reaching
    <2>3. Current(p)' /\ Pending(p)' /\ ~Finishes(p)
      BY <1>1, <1>2 DEF Current, Pending, Finishes, Deciding
    <2>4. Renewing(p)'
      BY <1>1, <1>2, <1>3, <2>2 DEF Renewing, FromFiles, Readable, At
    <2> QED
      BY <1>6, <2>3, <2>4 DEF Reaching
  <1> QED
    BY <1>5, <1>6

LEMMA RewriteReaches ==
  ASSUME VaultShape, NEW p \in Threads, Rewrite(p), NEW s \in Threads, Reaching(s)
  PROVE  Reaching(s)' /\ (Finishes(s) => Settled')
  <1>1. PICK q : Carries(p, q) /\ q = VaultIdle
    BY RewriteEffect, RestCarries DEF VaultShape
  <1>2. work'[p] = q /\ \A r \in Threads : r # p => work'[r] = work[r]
    BY <1>1, Moved
  <1>3. /\ work[p].at = "rewrite" /\ calm' = calm \cap {p} /\ rows' = work[p].rows
        /\ UNCHANGED <<records, notes, present, migrated, marks>>
    BY RewriteEffect
  <1>5. CASE s # p
    <2>1. marks \subseteq marks' /\ (s \in calm' => s \in calm /\ UNCHANGED <<rows, records, notes, present, migrated>>)
      BY <1>3, <1>5
    <2> QED
      BY <1>2, <1>5, <2>1, OthersReach
  <1>6. CASE s = p
    <2>1. Reaching(p)'
      BY <1>1, <1>2, VaultIdleType DEF Reaching
    <2>2. ASSUME work[p].reconciling, p \in calm' PROVE Settled'
      <3>1. \A m \in Memories :
              /\ migrated /\ present /\ notes[m] = None /\ records[m] # None => <<m, "stray">> \in marks
              /\ rows'[m] = FromFiles(m)
        BY <1>3, <1>6, <2>2 DEF Reaching, Renewing, At
      <3>2. ASSUME NEW m \in Memories
            PROVE  /\ Readable(m)' => rows'[m] = notes'[m]
                   /\ migrated' /\ present' /\ notes'[m] = None => rows'[m] = None \/ <<m, "stray">> \in marks'
        BY <1>3, <3>1, VaultConstants DEF FromFiles, Readable
      <3> QED
        BY <3>2 DEF Settled
    <2> QED
      BY <1>6, <2>1, <2>2 DEF Finishes
  <1> QED
    BY <1>5, <1>6

LEMMA RestoreBeginReaches ==
  ASSUME VaultShape, NEW p \in Threads, RestoreBegin(p), NEW s \in Threads, Reaching(s)
  PROVE  Reaching(s)' /\ (Finishes(s) => Settled')
  <1>1. PICK q : Carries(p, q) /\ q.reconciling = FALSE
    BY RestoreBeginCarries DEF VaultShape
  <1>2. work'[p] = q /\ \A r \in Threads : r # p => work'[r] = work[r]
    BY <1>1, Moved
  <1>5. CASE s # p
    <2>1. marks \subseteq marks' /\ (s \in calm' => s \in calm /\ UNCHANGED <<rows, records, notes, present, migrated>>)
      BY <1>5, RestoreBeginEffect
    <2> QED
      BY <1>2, <1>5, <2>1, OthersReach
  <1>6. CASE s = p
    <2>1. ~work[p].reconciling /\ ~work'[p].reconciling
      BY <1>1, <1>2, RestoreBeginEffect DEF VaultShape, Posture
    <2> QED
      BY <1>6, <2>1, ElseReaches
  <1> QED
    BY <1>5, <1>6

LEMMA RestoreReburyReaches ==
  ASSUME VaultShape, NEW p \in Threads, RestoreRebury(p), NEW s \in Threads, Reaching(s)
  PROVE  Reaching(s)' /\ (Finishes(s) => Settled')
  <1>1. PICK q : Carries(p, q) /\ Same(q, work[p])
    BY RestoreReburyEffect, ThenCarries DEF VaultShape, Labels
  <1>2. work'[p] = q /\ \A r \in Threads : r # p => work'[r] = work[r]
    BY <1>1, Moved
  <1>5. CASE s # p
    <2>1. marks \subseteq marks' /\ (s \in calm' => s \in calm /\ UNCHANGED <<rows, records, notes, present, migrated>>)
      BY <1>5, RestoreReburyEffect
    <2> QED
      BY <1>2, <1>5, <2>1, OthersReach
  <1>6. CASE s = p
    <2>1. ~work[p].reconciling /\ ~work'[p].reconciling
      BY <1>1, <1>2, RestoreReburyEffect DEF VaultShape, Posture, Same
    <2> QED
      BY <1>6, <2>1, ElseReaches
  <1> QED
    BY <1>5, <1>6

LEMMA RestoreSwapReaches ==
  ASSUME VaultShape, NEW p \in Threads, RestoreSwap(p), NEW s \in Threads, Reaching(s)
  PROVE  Reaching(s)' /\ (Finishes(s) => Settled')
  <1>1. PICK q : Carries(p, q) /\ (Same(q, work[p]) \/ q = VaultIdle)
    <2>1. Then(p, "rebury") \/ Goes(p, VaultIdle)
      BY RestoreSwapEffect
    <2> QED
      BY <2>1, RestCarries, ThenCarries DEF VaultShape, Labels
  <1>2. work'[p] = q /\ \A r \in Threads : r # p => work'[r] = work[r]
    BY <1>1, Moved
  <1>5. CASE s # p
    <2>1. marks \subseteq marks' /\ (s \in calm' => s \in calm /\ UNCHANGED <<rows, records, notes, present, migrated>>)
      <3>1. marks \subseteq marks' /\ calm' = calm \cap {p}
        BY RestoreSwapEffect
      <3> QED
        BY <1>5, <3>1
    <2> QED
      BY <1>2, <1>5, <2>1, OthersReach
  <1>6. CASE s = p
    <2>1. ~work[p].reconciling /\ ~work'[p].reconciling
      BY <1>1, <1>2, RestoreSwapEffect, VaultIdleType DEF VaultShape, Posture, Same
    <2> QED
      BY <1>6, <2>1, ElseReaches
  <1> QED
    BY <1>5, <1>6

LEMMA BackupReaches ==
  ASSUME VaultShape, NEW p \in Threads, Backup(p), NEW s \in Threads, Reaching(s)
  PROVE  Reaching(s)' /\ (Finishes(s) => Settled')
  <1>1. /\ work' = work /\ marks \subseteq marks' /\ calm' = calm \cap {p} /\ work[p].at = "idle"
    BY BackupEffect
  <1>2. ~work[p].reconciling
    BY <1>1 DEF VaultShape, Posture
  <1>3. CASE s = p
    BY <1>1, <1>2, <1>3, ElseReaches
  <1>4. CASE s # p
    BY <1>1, <1>4, OthersReach
  <1> QED
    BY <1>3, <1>4


-----------------------------------------------------------------------------
(***************************************************************************)
(* The vault: the invariant and the theorems                               *)
(***************************************************************************)
VaultInv ==
    /\ VaultShape
    /\ \A m \in Memories : StaysOut(m) /\ StaysIn(m)
    /\ \A p \in Threads : Reaching(p)

\* The steps that no thread takes, and those that stop all threads or empty calm.
LEMMA NobodyReaches ==
  ASSUME VaultShape, NEW s \in Threads,
         \/ VaultCrash \/ Start \/ User
         \/ \E p \in Threads : RestoreDies(p) \/ RestoreFails(p) \/ RebuildFails(p)
  PROVE  Reaching(s)' /\ ~Finishes(s)
  <1>1. s \notin calm'
    <2>1. CASE VaultCrash
      BY <2>1, VaultCrashEffect DEF StoppedAs
    <2>2. CASE Start
      BY <2>2, StartEffect DEF VaultShape
    <2>3. CASE User
      BY <2>3 DEF User, Edit, Discard, Create, Clear, Return, Acts
    <2>4. CASE \E p \in Threads : RestoreDies(p) \/ RestoreFails(p) \/ RebuildFails(p)
      BY <2>4, RestoreDiesEffect, RestoreFailsEffect, RebuildFailsEffect DEF StoppedAs
    <2> QED
      BY <2>1, <2>2, <2>3, <2>4
  <1> QED
    BY <1>1 DEF Reaching, Finishes

LEMMA ShapeNext ==
  ASSUME VaultShape, VaultNext
  PROVE  VaultShape'
  <1>1. ASSUME NEW p \in Threads, Save(p) PROVE VaultShape'
    BY <1>1, SaveBeginShape, SaveFilesShape, SaveNoteShape, SaveCommitShape DEF Save
  <1>2. ASSUME NEW p \in Threads, DeleteMemory(p) PROVE VaultShape'
    BY <1>2, DeleteBeginShape, BuryShape, EraseShape DEF DeleteMemory
  <1>3. ASSUME NEW p \in Threads, Reconcile(p) PROVE VaultShape'
    BY <1>3, ReconcileNotesShape, ReconcileRowsShape, ReconcileDecideShape, ReconcileRemoveShape,
         ReconcileRestShape DEF Reconcile
  <1>4. ASSUME NEW p \in Threads, Rebuild(p) PROVE VaultShape'
    BY <1>4, RebuildBeginShape, ApplyGravesShape, ReadVaultShape, RewriteShape, RebuildFailsShape
         DEF Rebuild
  <1>5. ASSUME NEW p \in Threads, Restore(p) PROVE VaultShape'
    BY <1>5, RestoreBeginShape, RestoreSwapShape, RestoreReburyShape, RestoreDiesShape,
         RestoreFailsShape DEF Restore
  <1>6. ASSUME NEW p \in Threads, Backup(p) PROVE VaultShape'
    BY <1>6, BackupShape
  <1>7. ASSUME NEW p \in Threads, Abort(p) PROVE VaultShape'
    BY <1>7, AbortShape
  <1>8. ASSUME VaultCrash \/ Start PROVE VaultShape'
    BY <1>8, VaultCrashShape, StartShape
  <1>9. ASSUME User PROVE VaultShape'
    BY <1>9, EditShape, CreateShape, DiscardShape, ClearShape, ReturnShape DEF User
  <1> QED
    BY <1>1, <1>2, <1>3, <1>4, <1>5, <1>6, <1>7, <1>8, <1>9 DEF VaultNext

LEMMA OutNext ==
  ASSUME VaultShape, NEW k \in Memories, StaysOut(k), VaultNext
  PROVE  StaysOut(k)'
  <1>1. ASSUME NEW p \in Threads, Save(p) PROVE StaysOut(k)'
    BY <1>1, SaveBeginOut, SaveFilesOut, SaveNoteOut, SaveCommitOut DEF Save
  <1>2. ASSUME NEW p \in Threads, DeleteMemory(p) PROVE StaysOut(k)'
    BY <1>2, DeleteBeginOut, BuryOut, EraseOut DEF DeleteMemory
  <1>3. ASSUME NEW p \in Threads, Reconcile(p) PROVE StaysOut(k)'
    BY <1>3, ReconcileNotesOut, ReconcileRowsOut, ReconcileDecideOut, ReconcileRemoveOut,
         ReconcileRestOut DEF Reconcile
  <1>4. ASSUME NEW p \in Threads, Rebuild(p) PROVE StaysOut(k)'
    BY <1>4, RebuildBeginOut, ApplyGravesOut, ReadVaultOut, RewriteOut, RebuildFailsOut
         DEF Rebuild
  <1>5. ASSUME NEW p \in Threads, Restore(p) PROVE StaysOut(k)'
    BY <1>5, RestoreBeginOut, RestoreSwapOut, RestoreReburyOut, RestoreDiesOut,
         RestoreFailsOut DEF Restore
  <1>6. ASSUME NEW p \in Threads, Backup(p) PROVE StaysOut(k)'
    BY <1>6, BackupOut
  <1>7. ASSUME NEW p \in Threads, Abort(p) PROVE StaysOut(k)'
    BY <1>7, AbortOut
  <1>8. ASSUME VaultCrash \/ Start PROVE StaysOut(k)'
    BY <1>8, VaultCrashOut, StartOut
  <1>9. ASSUME User PROVE StaysOut(k)'
    BY <1>9, EditOut, CreateOut, DiscardOut, ClearOut, ReturnOut DEF User
  <1> QED
    BY <1>1, <1>2, <1>3, <1>4, <1>5, <1>6, <1>7, <1>8, <1>9 DEF VaultNext

LEMMA InNext ==
  ASSUME VaultShape, NEW k \in Memories, StaysIn(k), VaultNext
  PROVE  StaysIn(k)'
  <1>1. ASSUME NEW p \in Threads, Save(p) PROVE StaysIn(k)'
    BY <1>1, SaveBeginIn, SaveFilesIn, SaveNoteIn, SaveCommitIn DEF Save
  <1>2. ASSUME NEW p \in Threads, DeleteMemory(p) PROVE StaysIn(k)'
    BY <1>2, DeleteBeginIn, BuryIn, EraseIn DEF DeleteMemory
  <1>3. ASSUME NEW p \in Threads, Reconcile(p) PROVE StaysIn(k)'
    BY <1>3, ReconcileNotesIn, ReconcileRowsIn, ReconcileDecideIn, ReconcileRemoveIn,
         ReconcileRestIn DEF Reconcile
  <1>4. ASSUME NEW p \in Threads, Rebuild(p) PROVE StaysIn(k)'
    BY <1>4, RebuildBeginIn, ApplyGravesIn, ReadVaultIn, RewriteIn, RebuildFailsIn
         DEF Rebuild
  <1>5. ASSUME NEW p \in Threads, Restore(p) PROVE StaysIn(k)'
    BY <1>5, RestoreBeginIn, RestoreSwapIn, RestoreReburyIn, RestoreDiesIn,
         RestoreFailsIn DEF Restore
  <1>6. ASSUME NEW p \in Threads, Backup(p) PROVE StaysIn(k)'
    BY <1>6, BackupIn
  <1>7. ASSUME NEW p \in Threads, Abort(p) PROVE StaysIn(k)'
    BY <1>7, AbortIn
  <1>8. ASSUME VaultCrash \/ Start PROVE StaysIn(k)'
    BY <1>8, VaultCrashIn, StartIn
  <1>9. ASSUME User PROVE StaysIn(k)'
    BY <1>9, EditIn, CreateIn, DiscardIn, ClearIn, ReturnIn DEF User
  <1> QED
    BY <1>1, <1>2, <1>3, <1>4, <1>5, <1>6, <1>7, <1>8, <1>9 DEF VaultNext

LEMMA ReachNext ==
  ASSUME VaultShape, NEW s \in Threads, Reaching(s), VaultNext
  PROVE  Reaching(s)' /\ (Finishes(s) => Settled')
  <1>1. ASSUME NEW p \in Threads, Save(p) PROVE Reaching(s)' /\ (Finishes(s) => Settled')
    BY <1>1, SaveBeginReaches, SaveFilesReaches, SaveNoteReaches, SaveCommitReaches DEF Save
  <1>2. ASSUME NEW p \in Threads, DeleteMemory(p) PROVE Reaching(s)' /\ (Finishes(s) => Settled')
    BY <1>2, DeleteBeginReaches, BuryReaches, EraseReaches DEF DeleteMemory
  <1>3. ASSUME NEW p \in Threads, Reconcile(p) PROVE Reaching(s)' /\ (Finishes(s) => Settled')
    BY <1>3, ReconcileNotesReaches, ReconcileRowsReaches, ReconcileDecideReaches,
         ReconcileRemoveReaches, ReconcileRestReaches DEF Reconcile
  <1>4. ASSUME NEW p \in Threads, Rebuild(p) PROVE Reaching(s)' /\ (Finishes(s) => Settled')
    BY <1>4, RebuildBeginReaches, ApplyGravesReaches, ReadVaultReaches, RewriteReaches,
         NobodyReaches DEF Rebuild
  <1>5. ASSUME NEW p \in Threads, Restore(p) PROVE Reaching(s)' /\ (Finishes(s) => Settled')
    BY <1>5, RestoreBeginReaches, RestoreSwapReaches, RestoreReburyReaches, NobodyReaches DEF
         Restore
  <1>6. ASSUME NEW p \in Threads, Backup(p) PROVE Reaching(s)' /\ (Finishes(s) => Settled')
    BY <1>6, BackupReaches
  <1>7. ASSUME NEW p \in Threads, Abort(p) PROVE Reaching(s)' /\ (Finishes(s) => Settled')
    BY <1>7, AbortReaches
  <1>8. ASSUME VaultCrash \/ Start \/ User PROVE Reaching(s)' /\ (Finishes(s) => Settled')
    BY <1>8, NobodyReaches
  <1> QED
    BY <1>1, <1>2, <1>3, <1>4, <1>5, <1>6, <1>7, <1>8 DEF VaultNext

LEMMA VaultInitInv ==
  ASSUME VaultInit
  PROVE  VaultInv
  <1>1. /\ rows \in [Memories -> Row] /\ records \in [Memories -> Row] /\ notes \in [Memories -> Note]
        /\ migrated \in BOOLEAN /\ bare \in BOOLEAN
    BY VaultConstants DEF VaultInit, Row, Note
  <1>2. NoneAside \in Aside /\ NoCopy \in Copy
    BY VaultConstants DEF NoneAside, Aside, NoCopy, Copy
  <1>3. \A p \in Threads : work[p] = VaultIdle
    BY DEF VaultInit
  <1>4. VaultTypeOK
    <2>1. work \in [Threads -> Tasks]
      BY VaultIdleType DEF VaultInit
    <2>2. /\ tombstoned \subseteq Memories /\ misnamed \subseteq Memories /\ graves \subseteq Memories
          /\ present \in BOOLEAN /\ away \in Aside /\ backup \in Copy /\ writer \in Threads \cup {None}
          /\ up \in BOOLEAN /\ calm \subseteq Threads /\ marks \subseteq Memories \X Reasons
      BY <1>2 DEF VaultInit
    <2>3. calls \in 0 .. MaxCalls /\ edits \in 0 .. MaxEdits /\ faults \in 0 .. MaxFaults
      BY VaultConstants DEF VaultInit
    <2> QED
      BY <1>1, <2>1, <2>2, <2>3 DEF VaultTypeOK
  <1>5. VaultShape
    BY <1>3, <1>4, VaultIdleType DEF VaultInit, VaultShape, Posture, Writing, Erasing, At
  <1>6. ASSUME NEW m \in Memories PROVE StaysOut(m) /\ StaysIn(m)
    <2>1. /\ backup.records[m] = None /\ backup.notes[m] = None /\ backup.graves = {}
          /\ away.notes[m] = None /\ m \notin tombstoned /\ m \notin graves
      BY VaultConstants DEF VaultInit, NoCopy, NoneAside
    <2>2. /\ records[m] # None /\ notes[m] = None => ~migrated /\ rows[m] # None
          /\ migrated /\ rows[m] # None => notes[m] # None
      BY VaultConstants DEF VaultInit
    <2>3. \A p \in Threads : /\ ~Writing(p) /\ ~Erasing(p) /\ work[p].queue = {} /\ work[p].buried = {}
                             /\ \A label \in Labels : label # "idle" => ~At(p, label)
      BY <1>3, VaultIdleType DEF Writing, Erasing, At
    <2>4. StaysOut(m)
      BY <2>1, <2>3 DEF StaysOut, Going, Sunk, Labels
    <2>5. StaysIn(m)
      BY <2>1, <2>2, <2>3 DEF StaysIn, Spared, QueuedIsNowhere, RecordHasNote, RowHasNote,
           DecidedHasNote, Backed, Labels
    <2> QED
      BY <2>4, <2>5
  <1>7. \A p \in Threads : Reaching(p)
    BY DEF VaultInit, Reaching
  <1> QED
    BY <1>5, <1>6, <1>7 DEF VaultInv

LEMMA VaultStutter ==
  ASSUME VaultInv, UNCHANGED vaultVars
  PROVE  VaultInv'
  <1>1. /\ UNCHANGED <<rows, tombstoned, records, notes, misnamed, graves, present, migrated, bare>>
        /\ UNCHANGED <<away, backup, work, writer, up, calm, marks, calls, edits, faults>>
    BY DEF vaultVars, index, files
  <1>2. VaultShape'
    <2>1. VaultTypeOK'
      BY <1>1 DEF VaultInv, VaultShape, VaultTypeOK
    <2>2. \A p \in Threads : Posture(p)'
      BY <1>1 DEF VaultInv, VaultShape, Posture, Writing, Erasing, Deciding, At
    <2> QED
      BY <1>1, <2>1, <2>2 DEF VaultInv, VaultShape
  <1>3. ASSUME NEW m \in Memories PROVE StaysOut(m)' /\ StaysIn(m)'
    <2>1. StaysOut(m) /\ StaysIn(m)
      BY DEF VaultInv
    <2>2. StaysOut(m)'
      BY <1>1, <2>1 DEF StaysOut, Stayed, Going, Sunk, Writing, Erasing, At
    <2>3. StaysIn(m)'
      <3>1. SUFFICES ASSUME Untouched(m)'
            PROVE  Spared(m)' /\ QueuedIsNowhere(m)' /\ RecordHasNote(m)' /\ RowHasNote(m)' /\ DecidedHasNote(m)'
        BY DEF StaysIn
      <3>2. Spared(m) /\ QueuedIsNowhere(m) /\ RecordHasNote(m) /\ RowHasNote(m) /\ DecidedHasNote(m)
        BY <1>1, <2>1, <3>1 DEF StaysIn, Untouched
      <3>3. Spared(m)' /\ QueuedIsNowhere(m)'
        BY <1>1, <3>2 DEF Spared, QueuedIsNowhere, Nowhere, Writing, Erasing, At
      <3>4. RecordHasNote(m)' /\ RowHasNote(m)' /\ DecidedHasNote(m)'
        BY <1>1, <3>2 DEF RecordHasNote, RowHasNote, DecidedHasNote, Backed, SavingNote, Replacing,
             Nowhere, Writing, At
      <3> QED
        BY <3>3, <3>4
    <2> QED
      BY <2>2, <2>3
  <1>4. ASSUME NEW p \in Threads PROVE Reaching(p)'
    BY <1>1, OthersReach DEF VaultInv
  <1> QED
    BY <1>2, <1>3, <1>4 DEF VaultInv

LEMMA VaultInvStep ==
  ASSUME VaultInv, [VaultNext]_vaultVars
  PROVE  VaultInv'
  <1>1. CASE VaultNext
    BY <1>1, ShapeNext, OutNext, InNext, ReachNext DEF VaultInv
  <1>2. CASE UNCHANGED vaultVars
    BY <1>2, VaultStutter
  <1> QED
    BY <1>1, <1>2

\* What holds of the vault in every state: the shape, what keeps a deleted memory
\* out and what keeps the others in, and how far a reconciliation has got.
THEOREM VaultInvariant == VaultSpec => []VaultInv
  BY VaultInitInv, VaultInvStep, PTL DEF VaultSpec

\* The variables of the vault keep their types.
THEOREM VaultTyped == VaultSpec => []VaultTypeOK
  <1>1. VaultInv => VaultTypeOK
    BY DEF VaultInv, VaultShape
  <1> QED
    BY <1>1, VaultInvariant, PTL

\* A deleted memory does not come back into the index, be it by a rebuild, by the
\* restore of a backup that was taken while it was there or with files that were
\* kept back, but for the cases that StayOut lists.
THEOREM DeletedStaysOut == VaultSpec => []StayOut
  <1>1. VaultInv => StayOut
    BY DEF VaultInv, StaysOut, Stayed, StayOut
  <1> QED
    BY <1>1, VaultInvariant, PTL

\* No memory gets a tombstone unless it was deleted, by a request or in the
\* editor, or one of the ways by which a reconciliation is fooled befell it.
THEOREM NothingElseGoes == VaultSpec => []OnlyDeletedGo
  <1>1. VaultInv => OnlyDeletedGo
    BY DEF VaultInv, VaultShape, VaultTypeOK, StaysIn, Spared, Untouched, OnlyDeletedGo, Reasons
  <1> QED
    BY <1>1, VaultInvariant, PTL

\* A reconciliation that nobody disturbed leaves the index as the notes say.
THEOREM ReconcileSettlesIndex == VaultSpec => ReconcileSettles
  <1> DEFINE A == \A p \in Threads :
                    (/\ work[p].reconciling /\ work'[p].at = "idle" /\ p \in calm'
                     /\ ~(At(p, "decide") /\ Implausible(p))) => Settled'
  <1>1. ASSUME VaultInv, VaultNext PROVE A
    BY <1>1, ReachNext DEF VaultInv, Finishes
  <1>2. VaultInv /\ [VaultNext]_vaultVars => [A]_vaultVars
    BY <1>1
  <1> QED
    BY <1>2, VaultInvariant, PTL DEF VaultSpec, ReconcileSettles
=============================================================================
