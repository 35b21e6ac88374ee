# A verification of Cortex in TLA+

Cortex (`src/backend/app`, `src/macos/Sources`) is a local-first personal memory
engine.  What a user captures is stored, turned into memories by background
jobs, reviewed, served to agents as context, and synchronised through a hosted
account between devices.  This directory holds TLA+ models of its core, TLC
configurations that check them on small instances, and proofs checked by TLAPS.

Contents: [parts of the system](#1-the-system) ·
[modules](#2-the-modules-and-the-code) · [runs](#3-the-runs) ·
[fairness](#4-fairness) · [divergences](#5-where-the-code-does-not-keep-what-is-said-of-it) ·
[proofs](#6-what-is-proved) · [not modelled](#7-what-is-not-modelled) · [plan](#8-plan)

## 1. The system

Each store is one SQLite database (WAL, one writer) plus a directory of vault
files.  `CortexStore` (`storage.py`) is the only writer; it is called by API
threads (`main.py`, `standalone_server.py`, `mcp_tools.py`), by worker threads and
processes, and by the Mac app over HTTP.  Two rules of the code shape all models:

* Python's `sqlite3` opens a transaction at the first INSERT, UPDATE or DELETE.
  What a method SELECTs before that is not protected: another thread may write
  between the read and the write.  `_claim_next_job` is the exception (BEGIN
  IMMEDIATE).
* A job, a sync tick and a save are several transactions; a crash, a delete or a
  user's decision can come between any two.

| Component | State | Operations | Interacts with | Hard behaviour | What makes it correct |
|---|---|---|---|---|---|
| **Durable job queue** | rows of `memory_jobs` (status, attempts, lease, run_at); each worker's snapshot | enqueue, revive, claim + reap, complete, fail with backoff, mark a failed sync, prune | pipeline enqueues and deletes rows; workers in two loops | lease running out, crash, late failure, row deleted under a worker | one worker per job, bounded attempts, live leases untouched, success final, every job ends |
| **Capture pipeline** | `captures`, `memories`, `capture_processing_state`, tombstones, jobs | enqueue, save, extract, approve, archive, delete, forget | the queue; review UI; sync ingest uses save | stale reads, deletion and archiving during extraction, replaced content | memories follow content and review, forgotten stays forgotten, approvals survive re-extraction |
| **Synchronisation** | captures and tombstones per store, four cursors per device | push and pull loop, `sync_ingest`, `apply_sync_deletions`, sign-out | two stores per loop; the pipeline's save | lost answers, repeated pages, reused rowids, decisions on several devices | nothing behind a cursor is lost, deletions reach all, review gates hold |
| **Sessions and accounts** | accounts, identities, sessions with their pair of tokens, spent tokens, one-time flows | sign-up, verify, reset, login, OAuth, app login, link, unlink, refresh, logout, revoke, delete | every hosted request | rotation against lost answers, tokens and flows presented twice at once, stale reads of two requests | one live token per family, reuse ends the family, one session per app login, a way in is kept |
| **Source accounts** | the cursor of an account, the captures of its records | connect, schedule, sync, disconnect, resume | queue, pipeline, connectors | page failing half way, record that cannot be saved, capped scan, overlapping syncs | the mark never passes an unsaved record; the sync catches up |
| **Context sessions** | working set of a session, pinned packs, checkpoints | full and delta packs, pin, checkpoint, resume, close | retrieval, MCP | overlapping requests, lost answers, memories superseded or archived between two of them | nothing is sent twice, only what is stale is evicted |
| Context selection | none | budgeted selection, ranking | context sessions | boundaries of the budget | within budget, best first |
| **Shared ledger** | principals, nonces, shared memories, chain of hashes | signed write, echo, supersede, quarantine, approve, reject, revoke | agents over MCP, review | concurrent appends, replays, a call that dies between its transactions | chain verifies, the stronger claim wins, no circle |
| **Consolidation, hot context** | supersession links, corpus revision, cached packs | detect, judge, apply; warm, store, load, invalidate | memories, requests, prefetch | a plan or a pack made over several transactions while memories change | decisions still hold when applied, an answer survives, a hit is current |
| **Vault and backup** | records, notes and tombstones in files, index rows, backups | save, delete, reconcile, rebuild, back up, restore | all writers, the user's editor, drives | no transaction spans files and rows; an absent note may be a deletion or a drive that is away | only what was deleted goes, and it stays out; a reconciliation settles |
| **Sharded stores, metering** | token rows in the shard and in the index, users, billing events | mint, revoke, suspend, delete, bill | hosted front end | two databases per operation, requests that die between them, repeated events | only the current token works, and it works; the plan follows the newest event |
| **Keyring and E2EE** | wrapped keys per version, caches per process, tombstone | mint, rotate, encrypt, decrypt, shred | sync, every encrypted record | several processes over one file, a transaction rolled back after a cache was filled | every blob opens, a shred is final, the nonce budget holds |
| Extraction, embeddings | none | text to records, vectors | pipeline | none (pure) | - |
| Front ends, Mac app, clients | UI and transport | routing | all | none of their own beyond the loops modelled | - |

## 2. The modules and the code

### JobQueue

One row per unique key (`rows`), one snapshot per worker (`workers`).  Each action
is one transaction: `Enqueue` (`_enqueue_job`), `Revive`
(`_enqueue_embed_memory_job`), `ClaimNext`/`ClaimNothing` (`_reap_expired_jobs` +
`_claim_next_job`), `Complete`, `Fail`, `MarkSyncFailed`, `RefreshDone`/`RefreshFails`
(`_run_job` and what it calls), `Prune`, `DeleteRow`/`DeleteAll` (every DELETE on the
table), `Crash`, `Tick`.

Times are kept as what remains (`lease`, `delay`) or has passed (`age`), so the state
space is finite without a bound on a clock.  A lease of a worker that keeps running is
also in its snapshot, which is what tells a *late* worker from a live one.  Two history
variables name the exceptions of the properties: `late` (jobs that a worker kept
running past its lease) and `torn` (jobs whose row was deleted or failed after its
success under a worker).

`_complete_job` and `_fail_job` name the row by id only, without comparing
`locked_by` or `attempts`; the model does the same, which is why it can show what a
late worker does to the run of another.

### CapturePipeline

The rows of one user's captures: content and review status, the memory each content
yields, the tombstones of memories (`forgotten`) and captures (`deleted`), the
extraction job per (capture, content) as in its `unique_key`, and the extraction
status.  API threads (`Callers`) and workers are processes with a program counter and
what they have read (`seen`).  `enqueue_capture`, `save_capture` and `approve_capture` are two
actions each, the read and the transaction; `archive_capture`, `delete_capture`,
`archive_memory`, `delete_memory` decide by nothing they read before their first write
(or re-check it), and are one.  The extraction job is `Claim`, `Load`, `Mark`, `Extract` (which
includes the read of the `save_capture` it calls), `SaveWrite`, `Finish`, `Complete`, with
`Fail` and `Crash` between any two.

`stable` captures (with a source account and an external id) keep the memories of
replaced content as archived ones, others lose them.  `base`, the status that user
settings, the source policy and `auto_approve` ask for, is any of the two.
`Artifacts` are contents that yield nothing and are auto-archived.

The queue is abstract here: a lease ends when its worker has crashed.  What a worker
that outlives its lease does is JobQueue's subject.  `raced` (history) names the
captures that some handler wrote after what it had read had changed, be it the row or the memories that a
replacement selects (`Selected`, `Stale`; one that was archived when they were selected and is saved again before the
write stays active): the properties that the code keeps only without such a race exclude them, and the
exclusion is itself information for a reader: `save_capture` and `approve_capture`
do not re-check.

### SyncFeeds

A store per device and the hosted one: rowid and review status of each capture, the
`seq` of each tombstone.  A device has two loops with two cursors each (`UserDefaults`).  A
loop reads a page (`Fetch`), posts it, the receiving store applies it item by item
(`Check` + `Ingest`, or `ApplyDeletion`) and the answer moves the cursor (`Answer`).
`Timeout`: the loop gives up and the store goes on.  `Drop`: the store fails, or the post
never arrives.  `SignOut` clears the cursors.  `Above` is SQLite's rule for the rowid of a table
without AUTOINCREMENT: largest one plus one, so a deleted newest row gives its
number back.

Abstractions: one user per store; a capture's content is constant (an update keeps the
rowid, so it is not in the feed again); a loop has one request under way; the encrypted
branch of `sync_ingest` follows the same order and is left out.

### HotContext

Memories that claim a value of one field, the revision that triggers advance
(`memory_corpus_revisions`), one row of `hot_context_packs`, and threads.  A consolidation is
`Sleep` (reads the revision), `Detect`, `Judge`, `Apply` or `Abandon` (`run_memory_consolidation`), then the
warming of the request: `Collect` layer by layer (`assemble_context`), `Label` and `Write`
(`_store_hot_context_pack`), and a read-back.  A request or a prefetch is `Ask`, `Load`, `ReadRow`, `CheckPack`,
`Mark` (`_load_hot_context_pack`), and on a miss `Collect` and so on.  Beside them memories are saved again,
archived, forgotten and resolved by hand.  Those in `Varying` also come into sight of a search and out of it
(`hidden`): by the review of their capture or a setting of the user, which have triggers (`Reconsider`), or by
`valid_from`, `valid_to` and the policy of their source account, which have none (`Turn`).

`Reason` is `_answer_current_item`: authority, then time where both can be read and differ, then
wording, then the id.  `Safe` is `_consolidation_resolution_is_safe` for claims of one scope.

Abstractions: one field in one scope, one user, one request; `auto_resolve_safe` is on; an author
class is one principal; authority, time, wording and trust belong to a memory, whatever it says;
judging the conflicts is one step; tasks, settings, the engine version and the session id only make
more misses.  `begun`, `turned` and `seen` are history.

### TokenFamilies, Accounts

`TokenFamilies` is what sessions promise: the tokens of a family follow one another, a token is given up
for one successor, a family that ended gives none.  `Accounts` has the rows of the control store
(`accounts`, `identities`, `sessions`, `spent`, `flows`) and the requests of `authn.py` that write them.
A request is a sequence of transactions with what it has read in `work`; what it finds in the row
when it writes may differ.  A session and its refresh family are one (every login opens a new family),
hashes and secrets are the number of a pair or the name of a flow.  `Chain` says that `Accounts` implements
`TokenFamilies` (`current`, `spentIn` and `ended` from the rows of sessions and the history of spent tokens).
`uses`, `crashes` and the field `closed` of an account (it was disabled by its deletion at some time, also if a
verification set it back since) are history, and name what the properties except.

Abstractions: only attempts with the right password are modelled, a wrong one writes nothing.
The users of one behaviour perform one of the sets of operations in `Instances`, which splits the state space and
leaves every pair of operations of a set to interleave.  Rate limits, the exchange with an OpenID provider,
`claim_account_for_user` and MCP tokens are left out; nothing in the code suspends an account;
`change_password` and `revoke_all` have no HTTP caller and are modelled as the methods they are.

### AgentSession

One session: the row of `session_working_set`, the packs pinned to it, its checkpoints, and the memories'
supersession and status.  A context request is `Load`, `Look`, `Save`, `Pin`, `Answer`
(`_compute_working_memory_delta`, `_save_session_working_set`, `pin_context_pack`); a checkpoint
(`CheckpointRead`, `CheckpointSave`, `CheckpointRecord`) and a resume (`Rehydrate`, `ResumeLoad`, `ResumeSeed`) are
sequences of transactions too.  A resume replays the last `ReplayCap` pinned packs (100 in the code) as if each were a turn, and
seeds the working set with them unless it has a cursor.  A pack with the same bytes is not pinned again, whichever session pinned
it first (the key of `context_packs` has no session).  `told` and `idle` are the histories by which a client
would judge a delta; `idle` counts the turns that were saved, and from a resume on the packs that it replayed.  `raced` notes overlapping requests of the session, for which the code makes no promise that it keeps.

Abstractions: trajectory, centroid and prefetch slots only choose what is warmed.  The statuses active,
paused and blocked are one.  A pin that fails after the working set was saved loses that delta, as in the code;
a resume lists pinned packs only; a checkpoint reopens a closed session.

### SourceSync

The sync of one account with the connector whose scan has the most state (`fetch_raindrop_records`).
The service lists bookmarks newest first; a sync reads pages (`FreshOnPage`, `since`, `pending`), saves each record and then
writes the cursor: resume page, high-water mark, pending mark, and the count of pages held for a record that
cannot be saved.  Workers and HTTP requests may sync the same account together.  `seen` and `given`
(versions ever saved, versions passed over after three pages) are history.

Abstractions: the queue is that a worker starts a sync again and again; a save is one step (CapturePipeline has it
in detail); other connectors have less state and are left out.  `MidScan` says whether the user may delete
bookmarks while a scan is between pages; see section 5 for TRUE.

### Keyring

The key row, the wraps per version and the cache of each process (`UserKeyring`).  A call (`encrypt_blob`, `decrypt_blob`,
`crypto_shred`) reads the row before its first write opens a transaction, so the row may be another when it
writes; the lock of the class is per process, and `deploy/macmini/run-api.sh` starts two.  Cryptography
is a library: a key is a number, a blob is the version in its header and the key that sealed it.  The key-encryption
key is constant; format and associated data of a blob are left out.  After a shred, other processes hold
unwrapped keys until their time to live ends; decryption refuses by the row, which is what the model says.
A rotation is the mint of an encryption that finds the budget used up.

### ControlPlane

One user with one token label over two databases: `shard` (`api_tokens`) and `index` (`scoped_token_index`), the
user's row with status and plan, and the billing events.  Each operation of `sharding.py` and of the routes that call it
(mint by session or token, provision, revoke, suspend, reactivate, delete the data, delete the account, bill) is a sequence of steps with at most one
database each; requests overlap, and may die between two steps.  The provider delivers any event at any time and again,
several at once: nothing in the webhook orders them.  `raced`, `torn`, `crossed` and `overtaken` name the overlaps, the
half-done deletion and the late event that the properties leave out; `applied` and `due` are the history by which the plan is judged.

Abstractions: events are numbered as they occurred, the odd ones give the plan and the even ones take it; scopes, `last_used`, the
lookup-hash backfill and the cache of open stores are left out (a `CortexStore` keeps no connection that eviction could close);
`provision` with `allow_existing` overwrites status and plan, as in the code.

### SharedLedger

`record_shared_memory`, from the check of the principal to the row of the chain: a call looks at the
principal, takes the nonce, saves (or finds an echo of a memory of the user), is weighed against what it contradicts,
is quarantined or supersedes, and appends to the ledger.  The user approves, rejects, resolves and revokes beside it.
A call may die between transactions: its nonce stays spent and its memory has no row (`orphans`).
`met`, `revised`, `judged`, `crossed` are history.

Abstractions: a memory per message, all contents contradict each other; review of new captures is off; the
number of decisions that change a principal's authority is `MinDecisions`; creation of principals, forgetting,
near-duplicates, the audit of refused messages and the window of 400 memories looked at are left out.

### Vault

A memory is a row, a record (JSON), a note (Markdown) and, once deleted, two tombstones (`rows`, `records`, `notes`, `graves`,
`tombstoned`).  `writer` is the thread whose transaction holds the database while it writes files.  `save_memory`,
`delete_memory`, `reconcile_vault`, `rebuild_index`, `create_backup`, `restore_latest_backup` and the migration at start are
sequences of steps; the user edits, adds, moves and deletes notes at any moment, a drive keeps files back (`away`), a
write may fail, the server may crash.  A restore that fails after its swap (`RestoreFails`: a root file, a tombstone) or in its rebuild
(`RebuildFails`) leaves the server up with a vault half restored.  A reconciliation compares what it read with the index and takes a missing note for a
deletion, unless the sweep is implausible (`MassMin`) or the folder is gone.  `marks` says, per memory, what befell it (`Reasons`
explains each); the properties name the marks they except.  A mark is set where the code loses track: `raced` when a tombstone is
written, or kept-back files return, while a rebuild holds what it read; `moving` and `restored` when something is saved, or a vault put back, while a
reconciliation decides on what it read before (`Deciding`); `again` when the user writes the note of a deleted memory once more.
`calm` has the reconciliations that nothing has disturbed.

Abstractions: one note per memory; a changed text is a changed file; a note and its record go in one step; the swap
of folders is one step unless the server dies in it; ids the user makes up (`Handmade`) are not those the program draws; tasks,
entities and events have no notes and are left out, as are patches of a memory's status and encryption.  Nothing in the
code calls a reconciliation by itself (only HTTP does), so no liveness is stated.

## 3. The runs

| Run | Instance | Shows |
|---|---|---|
| `JobQueue` | embedding job + source sync, 2 workers, lease 2, 2 attempts, 2 enqueues | `ExclusiveRun`, `AttemptBudget`, `LiveLeaseUntouched`, `SuccessIsFinal`, `EveryJobSettles` |
| `CapturePipeline` | 1 capture, 2 contents (one an artifact), 1 thread, 1 worker, 2 attempts, 3 ingests | `ForgottenStaysForgotten`, `MemoriesMatchContent`, `ArchivedIsQuiet`, `WorkerKeepsApproval` |
| `HotContext` | 3 memories with 3 values, one that a search may leave out, 2 layers, 1 consolidation thread, 1 thread that serves or warms, 1 change by others that advances the revision, and any number without a trigger before it | `ServedWasLive`, `HotIsFaithful`, `PlanStillHolds`, `AnswerSurvives` |
| `SyncFeeds` | 2 devices (one with a review policy), 1 capture, pages of 1, 1 mishap | `CapturesNotSkipped`, `DeletionsNotSkipped`, `GateHolds`, `DeletionReachesAll`, `CaptureReachesAll` |
| `Accounts` | 1 account, 1 e-mail, 2 subjects, 2 sessions, 2 flows, 2 requests, 3 pairs, 1 crash, two sets of operations | `ReuseOnlyIfRepeated`, `RepeatEndsFamily`, `OneSessionPerAppLogin`, `WayInKept`, `Chain` (refinement) |
| `AgentSession` | 2 memories, 2 requests, time to live 2, cap 1, 2 packs replayed, 3 requests begun, 1 mishap | `NoResend`, `EvictionSound` |
| `SourceSync` | 3 bookmarks (2 at the start), one of which cannot be saved, 1 worker, 1 request, pages of 1, cap 2, 1 fault | `NothingSkipped`, `NewestKept`, `EndsCaughtUp` |
| `Keyring` | 2 processes, budget 2, 3 versions, 4 keys, 3 blobs per version, 1 fault | `Readable`, `ShredFinal`, `BudgetKept` |
| `ControlPlane` | 2 calls, 3 tokens, 2 events, 1 that dies half-way | `OnlyCurrentWorks`, `CurrentWorks`, `PlanFollows` |
| `SharedLedger` | an agent (trust 85), a connector (70), 4 messages, 2 calls, 1 act of the user, 1 fault | `LedgerVerifies`, `ContestedIsOut`, `NoCircle` |
| `Vault` | a saved and a hand-made memory, 2 texts, 2 threads, 4 calls, 1 edit, 1 fault | `OnlyDeletedGo`, `StayOut`, `ReconcileSettles` |
| `SharedEcho` | as `SharedLedger`, without a fault | a divergence: `EchoStrengthens` (section 5) |

Why the bounds are enough:

* *JobQueue*: two jobs of different kinds give priorities, the revivable and deletable
  kind and the one with a second failure transaction; two workers are what a race
  needs; lease 2 lets a worker be at, before and past the end of its lease; two attempts
  have one that requeues and one that ends.  With two enqueues a row is inserted,
  ended and revived or inserted again.
* *CapturePipeline*: handlers of different captures share no row.  Three ingests
  replace content and put it back, or replace it while a job of the former runs.
* *HotContext*: three memories that all contradict each other are the least that can be
  superseded in a circle, and need three values.  Two layers let a change fall between two searches; one change by others (and
  the consolidation's own) is what makes a pack or a plan stale, and a second one only makes it stale
  again.  A memory that comes into or out of sight by time or policy does so before that change, as often as it likes:
  after it, it would be the same race at another revision.  One request has one row, so that more servers would only wait for each other's marks.
  Symmetry in the values, of which only equality is used.
* *SyncFeeds*: hosted, the device where the user works and a second one are the longest way a capture or
  a deletion travels; one mishap is enough for an answer that arrives for a page the loop no longer waits for.  A page is
  one item, so a capture and its reuse of a rowid already need two; several captures in one
  feed are covered for every number by the theorem `NoCaptureSkipped`.
* *Accounts*: three pairs are a login, a rotation and the reuse of what was rotated; two requests are what
  presents one token or one flow twice at once; two subjects are what linking and a second identity need.  The
  two sets of operations split what a session can meet (rotation, logout, expiry, deletion) from
  the ways into an account, OAuth being in both.
* *AgentSession*: two requests overlap, a third shows what the overlap left; cap 1 with two memories
  pushes one out of what the server knows; time to live 2 has a turn that keeps and one that evicts; three packs with two replayed leave one out.
* *SourceSync*: pages of one with cap 2 let a scan of three bookmarks be capped and resume; one bookmark that
  never saves holds the cursor for its three pages.
* *Keyring*: two processes; three versions are a mint and two rotations; one more blob per version than the budget.
* *ControlPlane*: three tokens are one replaced twice; one request dies and is repeated (that a repetition may die as well is in the theorems, which hold for any number of faults); two events are one that
  overtakes the other, delivered by two requests at once.
* *SharedLedger*: one trust is above the threshold of automatic approval and one below, further apart than the margin, so that
  a contradiction is decided both ways;
  `MinDecisions` is 1 where the code has 3, which only shortens the way to a changed authority.
* *Vault*: one memory of the program and one of the user's; `MassMin` 2 makes an implausible sweep
  possible with both.  The properties are theorems for all bounds (section 6).

`CHECK_DEADLOCK` is off in CapturePipeline, SyncFeeds, Accounts, AgentSession, ControlPlane, SharedLedger and Vault: these
systems do nothing unless somebody asks, so that the instance may stop when its bound on requests, edits or faults is used up.
It is on in JobQueue, HotContext, SourceSync and Keyring, where something is always left to do.
`TypeOK` of the modules with proofs is a theorem; of the others it is stated and was checked
beside the properties, and is not part of a run.
Each property of a passing run is paired with a mutant of the code (`PROJECT.json`) that
breaks it under the run's own configuration.

## 4. Fairness

* `JobQueue!FairSpec`: time passes; each worker's claim is taken when it stays possible
  (the loop of `standalone_server.py`, `worker.py`: every tick calls `run_due_jobs`, exceptions are
  caught and the loop goes on); a running handler returns or raises.  Nothing is assumed of
  callers or crashes: a worker may crash for ever, and the reaper bounds that by the attempts.
* `SyncFeeds!FairSpec`: each loop takes a step again and again.  `startPushSync` and
  `startPullSync` tick every five minutes for as long as the user is signed in, and the
  server ends or fails each request.  A loop is always able to take a step (an empty page
  turns it to the other feed), so this is weak fairness written as recurrence.
* `SourceSync!Spec`: weak fairness of `StartJob` for each worker (the scheduler enqueues an account that is due
  again and again, and JobQueue shows that a queued job is run) and of each step of a sync that has begun.  None of
  a requested sync's start, of the user or of faults.

The other modules state safety only.  Their operations run when a user or an agent asks, and
nothing in the code repeats them.

## 5. Where the code does not keep what is said of it

`SharedEcho` is a run with `expect: violation`:

* **An agent that agrees puts the user's memory out of use.**  `_suppress_agent_echo` gives back the user's own
  memory in the place of the agent's; `record_shared_memory` takes it for what it saved, and if the
  message names a memory it may not supersede, `_quarantine_shared_memories` quarantines the user's.  The comment at
  `storage.py:28502` says that a restatement "must STRENGTHEN the original".

The others are no runs.  Those with a named formula can be seen by giving it to the module's
configuration as an `INVARIANT` or `PROPERTY`; the properties of the runs state what does hold, and except exactly these cases.

| Where | What | Formula |
|---|---|---|
| JobQueue | A worker past its lease fails by id the row that another worker holds; a third claim runs the job beside it. | `LiveWorkersExclude` |
| CapturePipeline | The worker's `save_capture` looks at no capture tombstone: a deleted capture comes back. | `DeletedStaysDeleted` |
| CapturePipeline | A replacement archives the memories it selected before its first write (`storage.py:15977`): one that was archived then, and is saved again by a worker before that write, stays active beside the new content. | `MemoriesMatchContent` without `raced` |
| CapturePipeline | Queued without a job: `INSERT OR IGNORE` finds the ended job of the same content. | `EnqueuedHasJob` |
| SyncFeeds | The feed's rowid is reused after a deletion of the newest row, and that capture is never pushed. | `CursorNeverPasses` |
| SyncFeeds | The pull loop undoes a rejection; `save_capture` keeps every earlier decision but that. | `DecisionKept` |
| SyncFeeds | A restore clears the push cursors and keeps the pull cursors (`CortexApp.swift:9627`): what was pulled since the backup is not asked for again. | - |
| HotContext | The revision of a cached pack is read after it was assembled: an edit in between is labelled as seen. | `HitIsCurrent` |
| HotContext | `valid_from` or `valid_to` passes, or the policy of a source account is changed (`storage.py:5848`): no trigger advances the revision, and the cache goes on serving the former pack, with what is hidden now and without what is in sight now. | `HotIsFaithful` without `turned` |
| HotContext | Where a time cannot be read, "newer" and "worded as current" decide different pairs, and three memories are superseded in a circle. | `AnswerSurvives` with a `NoTime` |
| Accounts | Two unlinks that overlap each see the other's identity and take away both ways in (`authn.py:939`). | `AlwaysAWayIn` |
| Accounts | `verify_email` sets an account back to active that was marked deleted meanwhile (`authn.py:470`); a login that rehashes writes the old password over a reset (`authn.py:513`). | - |
| AgentSession | Overlapping requests save the working set of the earlier over that of the later: the "monotonic" cursor of `CMP_PROTOCOL` goes back. | `CursorMonotonic` |
| AgentSession | A request whose delta failed is answered without one and is no turn: what only it cited may be evicted by the next as if nobody had used it (`storage.py:18833`). | - |
| AgentSession | Overlapping checkpoints count the same predecessors, take one index and overwrite (`storage.py:25213`). | - |
| SourceSync | A sync under way writes its account again and with that clears `disconnected_at` (`storage.py:5848`); `CONNECTOR_COVERAGE_READINESS.md:135` says disconnected accounts stay so. | `StaysDisconnected` |
| SourceSync | Bookmarks deleted while a scan is between pages move others to pages already read; the comment of the connector (`raindrop.py:105`) covers additions only. | `NothingSkipped` with `MidScan = TRUE` |
| SourceSync | Of two overlapping syncs the slower writes an older version over the newer. | `NewestKept` without `~raced` |
| Keyring | Two processes that encrypt together count the same predecessor: the nonce budget is exceeded. | `BudgetKept` without `~overlapped` |
| Keyring | A call that had read the row mints after a shred; a mint that is rolled back leaves its key in the cache. | `ShredFinal` without `minting`, `Readable` without `lost` |
| ControlPlane | A billing event is applied in one transaction and recorded in another (`main.py:4243-4244`), and no two events are compared.  When the process dies in between, a newer event comes and the provider repeats the first, the repetition undoes the newer, although `main.py:4224` says that "a replayed delivery is a single effect". | `SingleEffect` |
| ControlPlane | A billing event that comes late for the first time undoes a newer one; one that is delivered twice at once passes the look for duplicates twice. | `PlanFollows` without `overtaken`, `crossed` |
| ControlPlane | A deletion that reached the shard alone leaves tokens in the index that a revocation does not find. | `OnlyCurrentWorks` without `~torn` |
| SharedLedger | `resolve_conflict` looks for no circle: with a superseding call it may close one. | `NoCircle` without `crossed` |
| Vault | A hand-made memory has no record, and tombstones are applied by records: deleted, it returns with the restore of a backup. | `StayOut` without `unrecorded` |
| Vault | A note under a name of the user's is not removed by `delete_memory`, and the next reconciliation adds it again. | `StayOut` without `misnamed` |
| Vault | The user writes the note of a deleted memory again: the reconciliation indexes it, and its tombstone stays. | `StayOut` without `again` |
| Vault | A failed note write is swallowed (`vault.py:743`), and the next reconciliation takes the missing note for a deletion. | `OnlyDeletedGo` without `unwritten` |
| Vault | A restore that fails after the swap of the folders, at a root file (`vault.py:1526`), a tombstone or in the rebuild, is not undone: the server goes on with the folders of the backup, the index of before and not all tombstones. | `StayOut`, `OnlyDeletedGo` without `torn` |
| Vault | A restore or a rebuild that dies half-way, a deletion between its steps, a note being moved, a few notes kept back by a drive: see `Reasons` in the module, one per mark. | the marks |


## 6. What is proved

`QueueAndSessionProofs` proves of the job queue, for every set of jobs and workers and every lease, backoff, retention and
limit that satisfies `JobQueueAssumption`:

| Theorem | Statement |
|---|---|
| `TypeCorrect` | `Spec => []TypeOK` |
| `InvCorrect` | `Spec => []IInv` |
| `Exclusive` | `Spec => []ExclusiveRun` |
| `Budget` | `Spec => []AttemptBudget` |
| `LeaseRespected` | `Spec => LiveLeaseUntouched` |
| `SuccessKept` | `Spec => SuccessIsFinal` |

*The argument.*  None of the safety properties is inductive alone: that two workers never run
a job follows only if every worker's snapshot agrees with the row.  `Agreement` says so: for a job
that is neither late nor torn, a worker that runs it owns a running row, with the
same attempts and the same rest of the lease, and that rest is positive.
The reaper takes only rows with no lease left, so it
never takes the row of such a worker; and a claim finds only queued rows, which no worker runs.
`IInv` is `TypeOK /\ Agreement /\ AttemptBudget`; the proof has one lemma per action, and the
action properties follow from `IInv` and one step.  `LeaseRespected` speaks of the whole row, so that a reap followed by a claim within one
transaction, and a moved `run_at`, would violate it: by `Agreement` the worker that ends a run with a lease is the owner of that
very run, and the late retry time of a sync is the one write of a stranger that is left.

Assumptions: `JobQueueAssumption` only (positive lease, backoff, retention and attempts; the
kinds in `Kinds`), which TLC evaluates on each run.

The module proves of a session, for every finite set of memories, every set of requests, every cap and
time to live (`SessionAssumption`; the two parts share a module and no definition):

| Theorem | Statement |
|---|---|
| `SessionInvCorrect` | `SessionSpec => []SessionInv` |
| `SessionTypeCorrect` | `SessionSpec => []SessionTypeOK` |
| `NothingResent` | `SessionSpec => []NoResend` |
| `EvictionIsSound` | `SessionSpec => []EvictionSound` |

*The argument.*  `SessionInv` is `SessionTypeOK /\ Within /\ InTurn`.  `InTurn` holds while no two requests of the session have
overlapped: one is served at a time, what it read is the row (`Looking`), and what it is about to write is the row a
turn later, with what it cited at that turn and all else as it was or forgotten (`Saving`).  What has been told is still known,
because `told` loses what the row loses; so a delta, which names only what is not known (`Disjoint`), names nothing told.
Evictions are counted by the row's turns and judged by `idle`: `Aged` says that nobody cited a known memory later than
its turn says, which a lost delta does not disturb (it is no turn) and a resume re-establishes for the replayed packs, because each of them
stands at a turn not beyond the last (`Replayed`).  `Within` pays for turns, packs and
checkpoints by the requests that were begun: each pinned pack, and each that is still to be pinned, has a served request, and each
checkpoint a counted one.  Without it the turns of a resumed session would not be bounded, and the index of a
checkpoint not be one of its slots.  A step that leaves the row alone is covered by `AsideStep`, a turn by `TurnStep`.

`CaptureAndVaultProofs` proves of the capture pipeline, for every set of captures, contents, threads and workers and every
budget of attempts that satisfies `CaptureAssumption`:

| Theorem | Statement |
|---|---|
| `TypeCorrect` | `Spec => []TypeOK` |
| `InvCorrect` | `Spec => []IInv` |
| `NoResurrection` | `Spec => []ForgottenStaysForgotten` |
| `NoOrphans` | `Spec => []DerivedRowsHaveCapture` |
| `ContentKept` | `Spec => []MemoriesMatchContent` |
| `Quiet` | `Spec => []ArchivedIsQuiet` |
| `ApprovalKept` | `Spec => WorkerKeepsApproval` |

*The argument.*  `IInv` is `TypeOK /\ Shape /\ Consistent`.  `Shape` says what a process holds in
the middle of a handler: the capture, content and job that its later transactions write by.
`Consistent` ties the tables together, and its parts need one another.  A write on a stale read
marks its capture in `raced`; any other write finds the row that was read and, if it replaces content, has selected every
memory that is to be archived or purged, so that the derivation
of its memories (`Derivatives`) leaves only those of the new content, and those of an archived
capture are archived with it.  The automatic archive of machine artifacts changes only the row, and
archives no memory; that is harmless only because artifacts never yield a memory
(`ArtifactsYieldNothing`), which is why that conjunct is in the invariant.  All of `Consistent` is
a statement per capture (`CaptureByCapture`), and each action changes the rows of one capture; the proof
has a lemma per kind of action at the capture it changes.

Its second part proves of the vault, for every finite set of memories, any of them hand-made, any texts and threads, every `MassMin`
above zero and any number of calls, edits and faults (the specification is `VaultSpec`; the two parts share nothing):

| Theorem | Statement |
|---|---|
| `VaultInvariant` | `VaultSpec => []VaultInv` |
| `VaultTyped` | `VaultSpec => []VaultTypeOK` |
| `DeletedStaysOut` | `VaultSpec => []StayOut` |
| `NothingElseGoes` | `VaultSpec => []OnlyDeletedGo` |
| `ReconcileSettlesIndex` | `VaultSpec => ReconcileSettles` |

*The argument.*  `VaultInv` has four parts, each with one lemma per action.

* `VaultShape` is the types and, for each thread, `Posture`: what it holds at its label.  One thread writes, the row of a
  memory that is being erased is still there, only a reconciliation has a queue, the threads of a stopped server are idle,
  and a folder that is missing has no files.
* `StaysOut` follows a tombstone.  Unless the memory has a mark that `StayOut` excepts: once it is tombstoned it has no row and nobody is
  about to write one.  That survives a rebuild because the tombstone is in the vault or in the hands of the restore that
  is about to put it back (`buried`), and because its note in the live vault or in the backup has a record, by which
  `apply_tombstones` finds it.
* `StaysIn` is the converse, of memories that nobody has asked to delete and that have none of the marks of `OnlyDeletedGo`.  They have no
  tombstone anywhere and are in nobody's deletion (`Spared`).  That alone is not inductive, since a reconciliation deletes what it finds
  missing; so a record has a note (`RecordHasNote`), a row has a note (`RowHasNote`), and so has what a reconciliation has read of the index
  (`DecidedHasNote`), where a note may also be one kept back, or one that is being written.  Whom a reconciliation does mean
  to delete then is a memory that is nowhere at all (`QueuedIsNowhere`), and stays nowhere until its turn, at which
  `delete_memory` finds no row and returns.
* `Reaching` is about a calm reconciliation: what it has read still is what the files and the index say (`Current`), what differs is in its
  queue or will be rebuilt (`Pending`), and the rebuild in progress has what the notes say (`Renewing`).  A step of another thread
  takes it out of `calm` or touches nothing of this (`OthersReach`); from its own last step `Settled'` follows (`Finishes`).

The attempt at `StaysOut` and `StaysIn` showed steps beyond the bounds of the run that the listed exceptions did not cover:
the mark `again` is one, and saving or restoring beside a reconciliation that has already decided, a note under the
user's name that a reconciliation or a rebuild takes for missing, and a sweep of few kept-back notes while others remain are
now marked where they happen.  TLC checked the conjuncts, before they were proved, as invariants of instances with one memory, up to
3 threads, 5 calls, 5 edits and 2 faults, and by simulation of larger ones.

Assumptions: `VaultAssumption` only (finitely many memories; `None` is no text, thread or memory, and `Garbled` no text).

`FeedsAndKeysProofs` proves of the feeds, for every finite set of captures, every set of devices and of gated
stores, and every size of a page (`SyncAssumption`):

| Theorem | Statement |
|---|---|
| `TypeCorrect` | `Spec => []TypeOK` |
| `InvCorrect` | `Spec => []IInv` |
| `NoCaptureSkipped` | `Spec => []CapturesNotSkipped` |
| `NoDeletionSkipped` | `Spec => []DeletionsNotSkipped` |
| `ReviewRespected` | `Spec => []GateHolds` |

*The argument.*  The two feeds are treated as one: `Owed` says what a loop that has come to a
number is answerable for, `Paid` that the other store has it, `Head` that the number is not beyond
the head of the feed.  `Safe` says that a loop owes nothing at its cursor, and at the end of the page
that it has posted nothing but what is left of the page; so the cursor may move when the page is used
up, and a loop that gives up only falls back.  Debts do not grow by themselves (`Grows`): what
enters a feed enters it above its head, by `Above`, or is in `late`; and what has arrived is not taken
back, because a removal leaves a tombstone.  A page is a beginning of the feed (`PageOf`), which
needs that the feed is finite: hence the assumption on `Captures`.  `Gate` adds to `GateHolds` that
the approvals under way were given somewhere; a page carries the review of the time it was read.

`HotContextProofs` proves, for every finite number of memories and layers, every set of threads,
and whatever the authors, authorities, times, language and trust of the memories (`HotAssumption`):

| Theorem | Statement |
|---|---|
| `TypeCorrect` | `Spec => []TypeOK` |
| `InvCorrect` | `Spec => []IInv` |
| `ServedLive` | `Spec => []ServedWasLive` |
| `Faithful` | `Spec => []HotIsFaithful` |
| `PlanHolds` | `Spec => PlanStillHolds` |
| `AnswersSurvive` | `AllTimesRead => (Spec => AnswerSurvives)` |

*The argument.*  What a thread read in earlier transactions is trusted later only by way of the
revision, so `IInv` states, for each stage of a thread (`ThreadOK`), what it may still
believe at the current memories and the current revision.  `InTime`: no label is from the future,
so that a change, which moves the revision beyond all of them, frees every thread from what it
claimed (`ToldOK`, used by all changes).  `Fresh`: the part of a pack that has been searched, if
it was begun at the current revision, is what a search would find but for the memories in `turned` (`Matches`); `HotOK` says it of the cached row.
`Planned`: at the revision it was made at, a plan's pairs still contradict each other and those
judged safe still are.  `SeenAll`: a request has seen all that is live now, in sight or not, and all it cites.
A memory that turns moves no revision; whoever has begun at this revision notes it (`Noted`), and a plan looks
only at live rows and their values, which it does not change.  `HotAssumption` makes ids a finite range of numbers,
which the choice of the last decision needs (`Greatest`).

`AnswersSurvive` rests on an order: what a consolidation may decide by itself has the user before
others, then the newer memory, then the wording (`Beats`), so that a walk along the replacements climbs and repeats no
memory; with as many steps as there are memories it has met an end (the pigeonhole principle).  `Head` is a
recursive function; what is needed of it is said of a least number of steps instead of by
induction (`Least`, `WalkExists`).  `AllTimesRead` is what the run's memories satisfy; without it
there is no such order and the answer can be lost (finding, section 5).

Its second part proves of the keyring, for every set of processes and every budget and bound
(the specification is `KeyringSpec`; the two parts share nothing):

| Theorem | Statement |
|---|---|
| `KeyringTypeCorrect` | `KeyringSpec => []KeyringTypeOK` |
| `KeyringInvCorrect` | `KeyringSpec => []KeyringInv` |
| `BlobsReadable` | `KeyringSpec => []Readable` |
| `ShredHolds` | `KeyringSpec => []ShredFinal` |
| `Budgeted` | `KeyringSpec => []BudgetKept` |

*The argument.*  Locks are per process, so what a call read is trusted only as far as the row cannot have moved.
`Holders` says that what a process has cached or holds in the middle of a call is the wrap of that version or is `lost`
(`Genuine`), `Blobs` the same of what was written, and `HoldsKey` that a call about to write has a key at all.
`Tombstone`: a shredded row is destroyed, and has no wrap and no call about to mint unless one was at the shred.
`InOrder`: as long as no two processes encrypted together, the one that does knows the row and the row counts all
blobs of its version, without which the budget is not inductive.  The proof has a lemma per action.

Assumptions: `KeyringAssumption` only (a positive budget, the bounds natural numbers).

`ControlPlaneProofs` proves, for any number of requests, tokens, events and requests that die (`ControlAssumption`):

| Theorem | Statement |
|---|---|
| `TypeCorrect` | `Spec => []TypeOK` |
| `InvCorrect` | `Spec => []IInv` |
| `OldTokensDead` | `Spec => []OnlyCurrentWorks` |
| `CurrentAccepted` | `Spec => []CurrentWorks` |
| `PlanIsNewest` | `Spec => []PlanFollows` |

*The argument.*  A request writes the shard, then the index, and may die in between, so that the properties
cannot be said of one database.  `Carrying` is what a request holds at its second step.  `Turns`: until two
requests on tokens overlap (`raced`), one is under way at a time.  `Halfway` says what its first step has left in the
shard and is there still when the second begins, `Listed` that the index has the valid token as long as there is one
(it is written last), and `Known` where a token that is not the valid one may be: in the shard alone, from a mint
that did not return (`spare`), and in the index only while a deletion has not come there, or where one stopped before it
(`torn`).  `InOrder` is about billing: as long as no event is delivered twice at once, one delivery of an event is under way and has not been
recorded, so that the step that sets the plan either is of the newest event or marks `overtaken`, and a registered user has the plan that is due.

`AccountsProofs` proves, for any accounts, addresses, subjects, sessions, flows, requests and instances,
and any number of pairs and crashes (`AccountsAssumption`):

| Theorem | Statement |
|---|---|
| `TypeCorrect` | `Spec => []TypeOK` |
| `InvCorrect` | `Spec => []IInv` |
| `ReuseIsRepeated` | `Spec => []ReuseOnlyIfRepeated` |
| `RepeatsEnd` | `Spec => []RepeatEndsFamily` |
| `AppLoginsOnce` | `Spec => []OneSessionPerAppLogin` |
| `WaysInKept` | `Spec => []WayInKept` |
| `SessionsAreFamilies` | `Spec => Chain` |

*The argument.*  A request is a row of `work`, and `Carrying` states what each of its labels may rely on.
For the tokens: `Paired` says that pairs are handed out once, so that those of the sessions differ and none is spent;
`Counted` that a token two requests present, or one that is presented when it is spent, was used more than once;
`Found` that the session a request has found is, or was, that of its token, and that a request on its way to a reuse has the
token of no live session; `Pending` that of a session that still stands, each presentation of its token is under way, and
of a spent one the presentation that will find it out.  `RepeatEndsFamily` follows from `Pending`.  It needs the `closed` mark:
a deletion disables the account before it revokes the sessions, and a verification in between makes the account
active again after a refresh that would have found the repetition was refused.
For the ways in: `Rooted` and `Offered` say where passwords, identities, sessions and flows come from, `MailedOnly` that who
has an e-mail identity and no password has had no way in yet, so that nobody unlinks it, and `Unlinking` that the other way in that an unlink has
found is there still, or another unlink was faster.  `OneWinner`: one poll has consumed an app login, and one session
answers it.  `Chain` needs only what is known of the pairs: each step is an `Open`, an `Exchange` or an `End` of
families, or leaves them as they are.

`SharedLedgerProofs` proves, for any principals of any kind and trust, any contents, messages and calls, and any
`MinDecisions` above zero (`LedgerAssumption`):

| Theorem | Statement |
|---|---|
| `TypeCorrect` | `Spec => []TypeOK` |
| `InvCorrect` | `Spec => []IInv` |
| `LedgerIsVerified` | `Spec => []LedgerVerifies` |
| `ContestedStaysOut` | `Spec => []ContestedIsOut` |
| `SupersedingHasNoCircle` | `Spec => []NoCircle` |

*The argument.*  Three chains of conjuncts, over what a call holds (`Carrying`, `Kept`).  The ledger: `Writing` says that who is
about to append holds the write reservation and knows the last row, from which `Chained`; `Written` sharpens `LedgerVerifies`: not
any call that has the memory owes its row, but one of its author (`Owed`), for a call of another principal that echoes it
writes a row of its own.  What contradicts: `Doubted` says of a pair in use that the older one is not stronger, or that the call that
saved the younger has still to look, or has looked and has still to quarantine.  That the look finds every rival
needs `Owned` (a rival's capture is not the message's own) and that authority is constant where nobody has judged (`Unjudged`,
`Weight`).  Circles: `Alone` says that without an overlap one call supersedes at a time and its memory is superseded by nothing, so
that the link it writes leads to an end.

`SourceSyncProofs` proves, for every finite set of bookmarks, any of them impossible to save, any set of workers and
requests, every page size and every cap of at least a page (`SyncAssumption`; a list is finite, which the page numbers rest on):

| Theorem | Statement |
|---|---|
| `TypeCorrect` | `Spec => []TypeOK` |
| `SkipsNothing` | `~MidScan => (Spec => []NothingSkipped)` |
| `KeepsNewest` | `~MidScan => (Spec => []NewestKept)` |

*The argument.*  The hypothesis `~MidScan` is what the run has (`MidScan = FALSE`): a deletion in the middle of a scan moves
older bookmarks to pages already read, and then the code does skip them (section 5).  Pages are made numbers: the list is ranked, a page
is an interval of ranks (`Nth`), and an addition or edit only moves a bookmark that is not at the top further down
(`Ahead` is never lost, a bookmark moved to the top is newer than every mark).  What a mark is answerable for is said once, for any set
`done` of bookmarks that count as paid: `Owes` of a cursor (all is paid up to the high-water mark; up to the pending mark, what is not
is still ahead of the page to resume at) and `ScanOwes` of a sync that is reading pages with the marks it was given.  Then two sets are put in.
With the bookmarks whose last version was ever saved or passed over, or is a record of that sync that
awaits its save, `SettledInv` is inductive and gives `NothingSkipped`; it holds per sync, so it needs no exclusion of overlaps.
With those whose active capture holds it, `KeptInv` gives `NewestKept`; it needs two more conjuncts for syncs that do not overlap: `InOrder`, that
a version which another sync or the user has overtaken is not one the cursor answers for, and `SnapshotOf`, that a
snapshot that archives what is missing lists every bookmark the cursor answers for.  The order of a lost page, a failed save and
the hold of the cursor is in the cases of `ScanCursor` and `Hold`: the first leaves the mark where it was, the last takes the cursor back
unless it is the third failing page.  The proof has a lemma per action in each of the two inductions.

Model-checked only: liveness (`EveryJobSettles`,
`DeletionReachesAll`, `CaptureReachesAll`, `EndsCaughtUp`), which under fairness is out of the
prover's reach.  `DerivedRowsHaveCapture` is proved and not part of a run:
no change of one definition breaks it without an error of another kind.

## 7. What is not modelled

Per component in `PROJECT.json`, and under each module in section 2.  Within the modelled ones:

* *JobQueue*: contents of results and payloads; the kinds that behave as `rescore_trust`; the per-user
  partition (a worker handles one user's rows).
* *CapturePipeline*: tasks, entities, edges, full-text and vector rows, which are written and deleted
  beside the memories; duplicates of a memory in another capture (occurrence counts), supersession;
  `capture_id_override` from sync (SyncFeeds has it); vault files (Vault has them).
* *HotContext*: the records of runs and decisions, vault patches, metrics; the hit counter; which of the filters
  of a search hides a memory (`hidden` stands for all that can change), and the scopes of a request.
* *SyncFeeds*: memory tombstones, receipts and devices, encryption, a change of account, restore and
  rebuild (they renumber rowids), a nudge tick that survives a sign-out, captures that a
  connector makes again after their deletion.  `Check` and `Ingest` are two transactions and a
  deletion applied between them is undone at that store; no property speaks of it.

Components without a module: *context selection* (scores over natural language, no state between calls), *extraction and
embeddings* (pure), *front ends*, *Mac application*, *clients and site* (routing, wording, user interface; the loops and
handlers whose order matters are in the modules above).  Much of `storage.py`, and almost all of
`source_ingest.py`, `mcp_tools.py`, `retrieval_eval.py` and the benches, is parsing, formatting, queries and ranking
of text, which abstraction would leave nothing of.

## 8. Plan

Done: JobQueue, CapturePipeline, SyncFeeds, HotContext, Keyring, ControlPlane, Accounts (with the refinement of
TokenFamilies), SharedLedger, SourceSync, AgentSession and Vault with runs and proofs.  Every safety property of a passing run
is a theorem.  Next: context selection as pure functions, the budgeted choice of sections against a reference definition.
