--------------------------- MODULE CapturePipeline ---------------------------
(***************************************************************************)
(* From a capture to its memories: the rows of captures, memories,         *)
(* capture_processing_state and of the extraction jobs, as the handlers of *)
(* the API (threads) and the workers change them.                          *)
(*                                                                         *)
(* Python's sqlite3 opens a transaction at the first INSERT, UPDATE or     *)
(* DELETE: what a handler reads before that is not protected.  A handler   *)
(* that decides by such a read is two actions, ...Read and ...Write, and   *)
(* the read is kept in "seen".  The queue is abstract here: the lease of a *)
(* worker ends when it has crashed (JobQueue has the rest).                *)
(***************************************************************************)
EXTENDS Integers, FiniteSets

CONSTANTS
    Captures,
    Contents,      \* what a capture may contain; its hash tells them apart
    NoContent,     \* no row
    NoCapture,     \* an idle process
    Artifacts,     \* contents that yield no memory and need no review
    Callers,       \* threads of the API
    Workers,
    MaxAttempts,
    MaxIngests     \* bound of the model: calls that bring content

ASSUME CaptureAssumption ==
    /\ NoContent \notin Contents
    /\ NoCapture \notin Captures
    /\ Artifacts \subseteq Contents
    /\ Callers \cap Workers = {}
    /\ MaxAttempts \in Nat \ {0}
    /\ MaxIngests \in Nat

VARIABLES
    stable,     \* captures with a source account and an external id; fixed
    captures,   \* content and review status of each row
    memories,   \* the memory that each content of a capture yields
    forgotten,  \* sync_tombstones of memories
    deleted,    \* sync_tombstones of captures
    jobs,       \* the extract_capture job of each capture and content
    extraction, \* capture_processing_state.extraction_status
    procs,      \* what each thread and worker holds in memory
    ingests,    \* calls that brought content so far
    raced       \* history: captures that a handler wrote on a stale read

vars == <<stable, captures, memories, forgotten, deleted, jobs, extraction, procs, ingests, raced>>

Procs == Callers \cup Workers
Review == {"pending", "approved", "archived"}
Capture == [content : Contents \cup {NoContent}, review : Review]
NoRow == [content |-> NoContent, review |-> "pending"]

Memory == {"none", "active", "archived"}
Job == [status : {"absent", "queued", "running", "succeeded", "failed"},
        attempts : Nat]
NoJob == [status |-> "absent", attempts |-> 0]

\* What a handler has read before its first write.
Seen == [row : Capture, memories : SUBSET Contents]
NothingSeen == [row |-> NoRow, memories |-> {}]

\* "content" is the content to be saved; "job" names the job of a worker by
\* its content, and "attempts" is what the worker claimed it with.
Proc == [pc : {"idle", "enqueue", "save", "approve", "load", "mark", "extract", "finish", "complete"},
         capture : Captures \cup {NoCapture},
         content : Contents \cup {NoContent},
         job : Contents \cup {NoContent},
         attempts : Nat,
         seen : Seen]

Idle == [pc |-> "idle", capture |-> NoCapture, content |-> NoContent,
         job |-> NoContent, attempts |-> 0, seen |-> NothingSeen]

Exists(c) == captures[c].content # NoContent

\* The memories that a replacement selects: of a stable record those that are not
\* archived, of any other capture all.
Selected(c) == {h \in Contents : memories[c][h] # "none" /\ (c \in stable => memories[c][h] # "archived")}

\* The reads that save_capture, enqueue_capture and approve_capture make.
Snapshot(c) == [row |-> captures[c], memories |-> Selected(c)]

NoteRace(c, stale) == raced' = IF stale THEN raced \cup {c} ELSE raced

-----------------------------------------------------------------------------
Init ==
    /\ stable \in SUBSET Captures
    /\ captures = [c \in Captures |-> NoRow]
    /\ memories = [c \in Captures |-> [h \in Contents |-> "none"]]
    /\ forgotten = {}
    /\ deleted = {}
    /\ jobs = [c \in Captures |-> [h \in Contents |-> NoJob]]
    /\ extraction = [c \in Captures |-> "none"]
    /\ procs = [p \in Procs |-> Idle]
    /\ ingests = 0
    /\ raced = {}

(***************************************************************************)
(* Bringing content: enqueue_capture and save_capture                      *)
(***************************************************************************)

\* The row seen holds other content, so the new content replaces it.
Replaces(seen, h) == seen.row.content \notin {NoContent, h}

\* The row is not what was seen; or the content is replaced, and a memory that
\* should be archived or purged with it was not when the memories were selected.
Stale(c, seen, h) ==
    \/ seen.row # captures[c]
    \/ Replaces(seen, h) /\ ~ (Selected(c) \subseteq seen.memories)

\* Mutant: nothing is done about the derivatives.
DerivativesKept(c, seen, h) == memories[c]

\* The derivatives of the content that is replaced: a stable record keeps its
\* memories as archived, any other capture loses them; those, that is, that were
\* selected before the first write.  One that was archived then and has been saved
\* again since stays active.
Derivatives(c, seen, h) ==
    IF ~ Replaces(seen, h) THEN memories[c]
    ELSE [k \in Contents |->
            IF k \notin seen.memories \/ memories[c][k] = "none" THEN memories[c][k]
            ELSE IF c \in stable THEN "archived" ELSE "none"]

\* The jobs that survive: a replacement deletes those of the capture.
JobsLeft(c, seen, h) ==
    IF Replaces(seen, h) THEN [k \in Contents |-> NoJob] ELSE jobs[c]

\* base is the status that the settings, the policy of the source and
\* auto_approve ask for; a decision made on the same content is kept.
EnqueueReview(c, seen, h, base) ==
    IF seen.row.content = h /\ c \in stable /\ seen.row.review # "archived"
    THEN seen.row.review ELSE base

\* Mutant: the rule of enqueue_capture in save_capture.
SaveReviewAsEnqueued(c, seen, h, base) ==
    IF seen.row.content = h /\ c \in stable /\ seen.row.review # "archived"
    THEN seen.row.review ELSE base

SaveReview(c, seen, h, base) ==
    IF seen.row.content = h /\ seen.row.review # "archived"
    THEN seen.row.review ELSE base

\* A pending machine artifact that yields nothing is archived at once.
AutoArchived(review, h) == IF review = "pending" /\ h \in Artifacts THEN "archived" ELSE review

\* Mutant: no check of the tombstone.
SavedUnchecked(c, h, left) == IF h \in Artifacts THEN left ELSE [left EXCEPT ![h] = "active"]

\* _save_memory: a forgotten memory is not saved again.
Saved(c, h, left) ==
    IF h \in Artifacts \/ <<c, h>> \in forgotten THEN left ELSE [left EXCEPT ![h] = "active"]

\* A thread begins enqueue_capture, or save_capture after a synchronous
\* extraction.
Ingest(p, c, h) ==
    /\ procs[p].pc = "idle"
    /\ ingests < MaxIngests
    /\ \E pc \in {"enqueue", "save"} :
          procs' = [procs EXCEPT ![p] =
              [Idle EXCEPT !.pc = pc, !.capture = c, !.content = h, !.seen = Snapshot(c)]]
    /\ ingests' = ingests + 1
    /\ UNCHANGED <<stable, captures, memories, forgotten, deleted, jobs, extraction, raced>>

\* The transaction of enqueue_capture: INSERT OR IGNORE of the job, the
\* processing state is replaced whatever became of the job.
EnqueueWrite(p) ==
    LET c == procs[p].capture
        h == procs[p].content
        seen == procs[p].seen
        left == JobsLeft(c, seen, h)
    IN  /\ procs[p].pc = "enqueue"
        /\ memories' = [memories EXCEPT ![c] = Derivatives(c, seen, h)]
        /\ \E base \in {"pending", "approved"} :
              captures' = [captures EXCEPT ![c] =
                  [content |-> h, review |-> EnqueueReview(c, seen, h, base)]]
        /\ jobs' = [jobs EXCEPT ![c] =
              IF left[h].status = "absent"
              THEN [left EXCEPT ![h] = [status |-> "queued", attempts |-> 0]]
              ELSE left]
        /\ extraction' = [extraction EXCEPT ![c] = "queued"]
        /\ procs' = [procs EXCEPT ![p] = Idle]
        /\ NoteRace(c, Stale(c, seen, h))
        /\ UNCHANGED <<stable, forgotten, deleted, ingests>>

\* The transaction of save_capture, by a thread or by a worker.
SaveWrite(p) ==
    LET c == procs[p].capture
        h == procs[p].content
        seen == procs[p].seen
    IN  /\ procs[p].pc = "save"
        /\ \E base \in {"pending", "approved"} :
              captures' = [captures EXCEPT ![c] =
                  [content |-> h, review |-> AutoArchived(SaveReview(c, seen, h, base), h)]]
        /\ memories' = [memories EXCEPT ![c] = Saved(c, h, Derivatives(c, seen, h))]
        /\ jobs' = [jobs EXCEPT ![c] = JobsLeft(c, seen, h)]
        /\ extraction' = [extraction EXCEPT ![c] = "succeeded"]
        /\ procs' = [procs EXCEPT ![p] =
              IF p \in Workers THEN [@ EXCEPT !.pc = "finish", !.seen = NothingSeen] ELSE Idle]
        /\ NoteRace(c, Stale(c, seen, h))
        /\ UNCHANGED <<stable, forgotten, deleted, ingests>>

(***************************************************************************)
(* Review and removal                                                      *)
(***************************************************************************)

\* approve_capture (and approve_all_captures) read the status ...
ApproveRead(p, c) ==
    /\ procs[p].pc = "idle"
    /\ Exists(c)
    /\ captures[c].review # "archived"
    /\ procs' = [procs EXCEPT ![p] =
          [Idle EXCEPT !.pc = "approve", !.capture = c, !.seen = Snapshot(c)]]
    /\ UNCHANGED <<stable, captures, memories, forgotten, deleted, jobs, extraction, ingests, raced>>

\* ... and UPDATE the row by its id.
ApproveWrite(p) ==
    LET c == procs[p].capture IN
    /\ procs[p].pc = "approve"
    /\ captures' = IF Exists(c) THEN [captures EXCEPT ![c].review = "approved"] ELSE captures
    /\ procs' = [procs EXCEPT ![p] = Idle]
    /\ NoteRace(c, procs[p].seen.row # captures[c])
    /\ UNCHANGED <<stable, memories, forgotten, deleted, jobs, extraction, ingests>>

\* Mutant: only the capture is archived.
ArchiveRowOnly(c) ==
    /\ Exists(c)
    /\ captures' = [captures EXCEPT ![c].review = "archived"]
    /\ UNCHANGED <<stable, memories, forgotten, deleted, jobs, extraction, procs, ingests, raced>>

\* archive_capture: what it decides by is read after its first UPDATE.  The
\* jobs of the capture stay.
Archive(c) ==
    /\ Exists(c)
    /\ captures' = [captures EXCEPT ![c].review = "archived"]
    /\ memories' = [memories EXCEPT ![c] =
          [h \in Contents |-> IF @[h] = "none" THEN "none" ELSE "archived"]]
    /\ UNCHANGED <<stable, forgotten, deleted, jobs, extraction, procs, ingests, raced>>

\* delete_capture: the foreign keys take along the memories and the
\* processing state.
Delete(c) ==
    /\ Exists(c)
    /\ captures' = [captures EXCEPT ![c] = NoRow]
    /\ memories' = [memories EXCEPT ![c] = [h \in Contents |-> "none"]]
    /\ jobs' = [jobs EXCEPT ![c] = [h \in Contents |-> NoJob]]
    /\ extraction' = [extraction EXCEPT ![c] = "none"]
    /\ deleted' = deleted \cup {c}
    /\ UNCHANGED <<stable, forgotten, procs, ingests, raced>>

\* archive_memory
ArchiveMemory(c, h) ==
    /\ memories[c][h] = "active"
    /\ memories' = [memories EXCEPT ![c][h] = "archived"]
    /\ UNCHANGED <<stable, captures, forgotten, deleted, jobs, extraction, procs, ingests, raced>>

\* delete_memory
ForgetMemory(c, h) ==
    /\ memories[c][h] # "none"
    /\ memories' = [memories EXCEPT ![c][h] = "none"]
    /\ forgotten' = forgotten \cup {<<c, h>>}
    /\ UNCHANGED <<stable, captures, deleted, jobs, extraction, procs, ingests, raced>>

(***************************************************************************)
(* The extraction job                                                      *)
(***************************************************************************)

\* _claim_next_job, and the dispatch of _run_job.
Claim(w, c, h) ==
    /\ procs[w].pc = "idle"
    /\ jobs[c][h].status = "queued"
    /\ jobs' = [jobs EXCEPT ![c][h] = [status |-> "running", attempts |-> @.attempts + 1]]
    /\ procs' = [procs EXCEPT ![w] =
          [Idle EXCEPT !.pc = "load", !.capture = c, !.job = h,
                       !.attempts = jobs[c][h].attempts + 1]]
    /\ UNCHANGED <<stable, captures, memories, forgotten, deleted, extraction, ingests, raced>>

\* _process_extract_capture_job reads the capture: it extracts what the row
\* holds now, whatever content the job was made for.  A job whose capture is
\* gone has nothing to do.
Load(w) ==
    LET c == procs[w].capture IN
    /\ procs[w].pc = "load"
    /\ procs' = [procs EXCEPT ![w] =
          IF Exists(c) THEN [@ EXCEPT !.pc = "mark", !.content = captures[c].content]
                       ELSE [@ EXCEPT !.pc = "complete"]]
    /\ UNCHANGED <<stable, captures, memories, forgotten, deleted, jobs, extraction, ingests, raced>>

\* ... marks the extraction as running, in a transaction of its own ...
Mark(w) ==
    LET c == procs[w].capture IN
    /\ procs[w].pc = "mark"
    /\ extraction' = [extraction EXCEPT ![c] = IF @ = "none" THEN "none" ELSE "running"]
    /\ procs' = [procs EXCEPT ![w].pc = "extract"]
    /\ UNCHANGED <<stable, captures, memories, forgotten, deleted, jobs, ingests, raced>>

\* ... extracts outside of any transaction, and begins save_capture ...
Extract(w) ==
    LET c == procs[w].capture IN
    /\ procs[w].pc = "extract"
    /\ procs' = [procs EXCEPT ![w].pc = "save", ![w].seen = Snapshot(c)]
    /\ UNCHANGED <<stable, captures, memories, forgotten, deleted, jobs, extraction, ingests, raced>>

\* ... and records the outcome, which needs the row of the capture (a foreign
\* key): without it the only way on is Fail.
Finish(w) ==
    LET c == procs[w].capture IN
    /\ procs[w].pc = "finish"
    /\ Exists(c)
    /\ extraction' = [extraction EXCEPT ![c] = "succeeded"]
    /\ procs' = [procs EXCEPT ![w].pc = "complete"]
    /\ UNCHANGED <<stable, captures, memories, forgotten, deleted, jobs, ingests, raced>>

\* The extraction status that _fail_job writes, if there is a row for it.
FailedExtraction(c, verdict) ==
    [extraction EXCEPT ![c] = IF @ = "none" THEN "none" ELSE verdict]

\* final_status of _fail_job.
Verdict(attempts) == IF attempts >= MaxAttempts THEN "failed" ELSE "queued"

\* _complete_job; a job whose row is gone raises, and _fail_job still writes
\* the processing state of the capture before it raises again.
Complete(w) ==
    LET c == procs[w].capture
        h == procs[w].job
    IN  /\ procs[w].pc = "complete"
        /\ IF jobs[c][h].status # "absent"
           THEN /\ jobs' = [jobs EXCEPT ![c][h].status = "succeeded"]
                /\ extraction' = extraction
           ELSE /\ extraction' = FailedExtraction(c, Verdict(procs[w].attempts))
                /\ jobs' = jobs
        /\ procs' = [procs EXCEPT ![w] = Idle]
        /\ UNCHANGED <<stable, captures, memories, forgotten, deleted, ingests, raced>>

\* Any step of the job may raise; _fail_job requeues or fails the row it finds.
Fail(w) ==
    LET c == procs[w].capture
        h == procs[w].job
        verdict == Verdict(procs[w].attempts)
    IN  /\ procs[w].pc \notin {"idle", "complete"}
        /\ jobs' = IF jobs[c][h].status = "absent" THEN jobs
                   ELSE [jobs EXCEPT ![c][h].status = verdict]
        /\ extraction' = FailedExtraction(c, verdict)
        /\ procs' = [procs EXCEPT ![w] = Idle]
        /\ UNCHANGED <<stable, captures, memories, forgotten, deleted, ingests, raced>>

\* The process dies between two transactions.
Crash(p) ==
    /\ procs[p].pc # "idle"
    /\ procs' = [procs EXCEPT ![p] = Idle]
    /\ UNCHANGED <<stable, captures, memories, forgotten, deleted, jobs, extraction, ingests, raced>>

\* _reap_expired_jobs: the lease of a worker that has died runs out.  Only the
\* job is changed.
Reap(c, h) ==
    /\ jobs[c][h].status = "running"
    /\ ~ \E w \in Workers : procs[w].capture = c /\ procs[w].job = h
    /\ jobs' = [jobs EXCEPT ![c][h].status = Verdict(jobs[c][h].attempts)]
    /\ UNCHANGED <<stable, captures, memories, forgotten, deleted, extraction, procs, ingests, raced>>

\* _prune_terminal_jobs: the retention has passed.
Prune(c, h) ==
    /\ jobs[c][h].status \in {"succeeded", "failed"}
    /\ jobs' = [jobs EXCEPT ![c][h] = NoJob]
    /\ UNCHANGED <<stable, captures, memories, forgotten, deleted, extraction, procs, ingests, raced>>

-----------------------------------------------------------------------------
Work(w) == Load(w) \/ Mark(w) \/ Extract(w) \/ SaveWrite(w) \/ Finish(w) \/ Complete(w)

Next ==
    \/ \E p \in Callers, c \in Captures :
          \/ \E h \in Contents : Ingest(p, c, h)
          \/ ApproveRead(p, c)
    \/ \E p \in Callers : EnqueueWrite(p) \/ SaveWrite(p) \/ ApproveWrite(p)
    \/ \E c \in Captures :
          \/ Archive(c)
          \/ Delete(c)
          \/ \E h \in Contents : ArchiveMemory(c, h) \/ ForgetMemory(c, h)
    \/ \E w \in Workers :
          \/ \E c \in Captures, h \in Contents : Claim(w, c, h)
          \/ Work(w)
          \/ Fail(w)
    \/ \E p \in Procs : Crash(p)
    \/ \E c \in Captures, h \in Contents : Reap(c, h) \/ Prune(c, h)

Spec == Init /\ [][Next]_vars

-----------------------------------------------------------------------------
(***************************************************************************)
(* Properties                                                              *)
(***************************************************************************)

\* Types.
TypeOK ==
    /\ stable \subseteq Captures
    /\ captures \in [Captures -> Capture]
    /\ memories \in [Captures -> [Contents -> Memory]]
    /\ forgotten \subseteq Captures \X Contents
    /\ deleted \subseteq Captures
    /\ jobs \in [Captures -> [Contents -> Job]]
    /\ extraction \in [Captures -> {"none", "queued", "running", "succeeded", "failed"}]
    /\ procs \in [Procs -> Proc]
    /\ ingests \in 0..MaxIngests
    /\ raced \subseteq Captures

\* Anti-resurrection of a forgotten memory (_save_memory checks the tombstone
\* in the transaction that writes): no extraction that was under way, and no
\* later one, brings it back.
ForgottenStaysForgotten ==
    \A c \in Captures, h \in Contents : <<c, h>> \in forgotten => memories[c][h] = "none"

\* Whatever worker or thread is in the middle of something, what is derived from
\* a capture does not outlive its row.
DerivedRowsHaveCapture ==
    \A c \in Captures : ~ Exists(c) =>
        /\ extraction[c] = "none"
        /\ \A h \in Contents : memories[c][h] = "none" /\ jobs[c][h] = NoJob

\* Memories speak of the content that the capture holds: the active ones of any
\* capture, and all of them unless the capture is a stable source record, which
\* keeps its history.  Extractions of replaced content do not break it, only
\* handlers that decided on a stale read.
MemoriesMatchContent ==
    \A c \in Captures \ raced, h \in Contents :
        \/ memories[c][h] = "active"
        \/ memories[c][h] = "archived" /\ c \notin stable
        => captures[c].content = h

\* "archived: removed from active memory": as long as the row says archived the
\* capture has no active memory.
ArchivedIsQuiet ==
    \A c \in Captures \ raced, h \in Contents :
        Exists(c) /\ captures[c].review = "archived" => memories[c][h] # "active"

\* "This keeps the async worker re-extraction from reverting an auto-approved (or
\* user-approved) capture back to pending": a worker changes an approval only
\* together with the content.
WorkerKeepsApproval ==
    [][\A w \in Workers :
          LET c == procs[w].capture IN
          /\ SaveWrite(w)
          /\ Exists(c) /\ captures[c].review = "approved"
          /\ captures'[c].content = captures[c].content
          /\ c \notin raced'
          => captures'[c].review = "approved"]_vars

-----------------------------------------------------------------------------
(***************************************************************************)
(* What the documentation says and the code does not keep (see the README) *)
(***************************************************************************)

\* "deleted: permanently removed from the current SQLite index", "a tombstoned
\* id is never re-created": a worker does not bring a deleted capture back.
DeletedStaysDeleted ==
    [][\A w \in Workers :
          LET c == procs[w].capture IN
          SaveWrite(w) /\ ~ Exists(c) => c \notin deleted]_vars

\* "creates queued captures and extraction jobs": what enqueue_capture reports as
\* queued has a job that will extract it.
EnqueuedHasJob ==
    [][\A p \in Callers :
          EnqueueWrite(p) =>
              jobs'[procs[p].capture][procs[p].content].status \in {"queued", "running"}]_vars

=============================================================================
