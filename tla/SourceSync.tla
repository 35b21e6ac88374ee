----------------------------- MODULE SourceSync -----------------------------
(***************************************************************************)
(* The sync of a connected source account (storage.py), with the one       *)
(* connector whose scan carries the most state: Raindrop                   *)
(* (connectors/raindrop.py).  The service lists its bookmarks newest       *)
(* first, page by page.  A sync reads pages until it meets the watermark   *)
(* (`since`), a short page or its record cap; it saves every record it     *)
(* read and only then writes the account's cursor: the page to resume at,  *)
(* the high-water mark below which nothing is fetched again, and the mark  *)
(* that is pending until the scan completes.  A record that cannot be      *)
(* saved holds the cursor back, three failing pages in a row at most.      *)
(*                                                                         *)
(* Between its page requests and its transactions a sync interleaves with  *)
(* the other syncs of the account (a job whose lease ran out and was taken *)
(* again, two raced enqueues, a sync requested over HTTP), with the user   *)
(* who edits the bookmarks and disconnects the account, and with crashes.  *)
(***************************************************************************)
EXTENDS Integers, FiniteSets, Sequences, SequencesExt

CONSTANTS
    Items,          \* the bookmarks of the account
    Listed,         \* those it has when it is connected
    Workers,        \* workers that run the account's scheduled sync jobs
    Requests,       \* syncs requested over HTTP
    PerPage,        \* bookmarks per page (50 in the code)
    Cap,            \* max_records of a sync
    Poison,         \* bookmarks that can never be saved
    MidScan,        \* whether bookmarks are deleted in the middle of a scan too
    MaxTime,        \* bound: additions, edits and deletions of bookmarks
    MaxFaults,      \* bound: failed page requests, failed saves and crashes
    MaxRequests     \* bound: syncs requested over HTTP

ASSUME SyncAssumption ==
    /\ IsFiniteSet(Items) /\ Workers \cap Requests = {}
    /\ PerPage \in Nat \ {0} /\ Cap \in Nat /\ Cap >= PerPage
    /\ Listed \subseteq Items /\ Poison \subseteq Items /\ MidScan \in BOOLEAN
    /\ MaxTime \in Nat /\ MaxTime >= Cardinality(Listed) /\ MaxFaults \in Nat /\ MaxRequests \in Nat

Syncs == Workers \cup Requests

\* MAX_CONSECUTIVE_FAILING_SYNC_PAGES.
MaxFailingPages == 3

\* A page number, or NoPage (no list is that long) for "no scan to resume".
PageNumber == 0 .. Cardinality(Items)
NoPage == Cardinality(Items) + 1

\* 0 is "no time".
Time == 0 .. MaxTime

VARIABLES
    upd,        \* the service: when a bookmark was last updated, 0 if absent
    clock,      \* the time of the last change
    connected,  \* source_accounts.disconnected_at IS NULL
    cursor,     \* the account's row of sync_cursors
    saved,      \* the version of each bookmark the active capture holds, or 0
    sync,       \* each sync under way
    seen,       \* history: the newest version ever saved
    given,      \* history: the newest version passed over after three pages
    raced,      \* history: whether two syncs were ever under way together
    requested, faults

vars == <<upd, clock, connected, cursor, saved, sync, seen, given, raced,
          requested, faults>>
service == <<upd, clock>>
history == <<seen, given, raced>>
bounds == <<requested, faults>>

Larger(a, b) == IF a > b THEN a ELSE b

\* cursor_value is a page number or a time: the code keeps both as text.
AtPage(p) == [kind |-> "page", at |-> p]
AtTime(t) == [kind |-> "time", at |-> t]

NewCursor == [page |-> NoPage, hwm |-> 0, pending |-> 0, value |-> AtTime(0), fails |-> 0]

\* A sync keeps the arguments of its fetch, the records it read and has not
\* saved, those it failed to save, the identifiers of a complete snapshot, and
\* the cursor it is going to write.
Idle == [phase |-> "idle", since |-> 0, page |-> 0, pending |-> 0,
         recs |-> <<>>, bad |-> {}, snapshot |-> FALSE, ids |-> {}, out |-> NewCursor]

Active(s) == sync[s].phase # "idle"

(***************************************************************************)
(* The service: GET /raindrops?page=k&perpage=n&sort=-lastUpdate.          *)
(***************************************************************************)
Present == {i \in Items : upd[i] > 0}
Newer(t) == {i \in Present : upd[i] > t}
Rank(i)  == Cardinality(Newer(upd[i]))
Nth(n)   == CHOOSE i \in Present : Rank(i) = n

\* What a page lists that is newer than the watermark: the list is newest first,
\* so that these are its first bookmarks.
FreshOnPage(k, since) ==
    LET left == Cardinality(Newer(since)) - k * PerPage
    IN  [n \in 1 .. (IF left > PerPage THEN PerPage ELSE left) |->
            LET i == Nth(k * PerPage + n - 1) IN [item |-> i, at |-> upd[i]]]

Init ==
    /\ clock = Cardinality(Listed)
    /\ upd \in [Items -> 0 .. clock]
    /\ Present = Listed /\ \A i, j \in Listed : i # j => upd[i] # upd[j]
    /\ connected = TRUE
    /\ cursor = NewCursor
    /\ saved = [i \in Items |-> 0]
    /\ sync = [s \in Syncs |-> Idle]
    /\ seen = [i \in Items |-> 0] /\ given = [i \in Items |-> 0]
    /\ raced = FALSE
    /\ requested = 0 /\ faults = 0

\* The user adds a bookmark or edits one: it moves to the top of the list.
Touch(i) ==
    /\ clock < MaxTime
    /\ clock' = clock + 1 /\ upd' = [upd EXCEPT ![i] = clock + 1]
    /\ UNCHANGED <<connected, cursor, saved, sync, history, bounds>>

\* The user deletes a bookmark, and what lies behind it moves up by one.  The
\* page numbers of a scan do not survive that, so that the properties below are
\* about deletions between scans unless MidScan.
Delete(i) ==
    /\ upd[i] > 0
    /\ MidScan \/ (cursor.page = NoPage /\ \A s \in Syncs : ~Active(s))
    /\ clock < MaxTime
    /\ clock' = clock + 1 /\ upd' = [upd EXCEPT ![i] = 0]
    /\ UNCHANGED <<connected, cursor, saved, sync, history, bounds>>

\* disconnect_source_account and resume_source_account.
Disconnect ==
    /\ connected' = FALSE
    /\ UNCHANGED <<service, cursor, saved, sync, history, bounds>>

Resume ==
    /\ connected' = TRUE
    /\ UNCHANGED <<service, cursor, saved, sync, history, bounds>>

Begin(s, since, page, pending, snapshot) ==
    /\ sync[s].phase = "idle" /\ connected
    /\ sync' = [sync EXCEPT ![s] = [Idle EXCEPT !.phase = "fetch", !.since = since,
                    !.page = page, !.pending = pending, !.snapshot = snapshot]]
    /\ raced' = (raced \/ \E t \in Syncs : Active(t))
    /\ UNCHANGED <<service, connected, cursor, saved, seen, given>>

\* _process_source_account_sync_job: a scan that was cut short is resumed at its
\* page without a watermark, any other starts at the top with the watermark.
StartJob(w) ==
    /\ Begin(w, IF cursor.page # NoPage THEN 0
                ELSE IF cursor.hwm # 0 THEN cursor.hwm ELSE cursor.value.at,
             IF cursor.page # NoPage THEN cursor.page ELSE 0,
             cursor.pending, FALSE)
    /\ UNCHANGED bounds

\* Mutant: what an incremental scan returns passes for a complete snapshot.
StartRequestSince(r, snapshot) ==
    /\ requested < MaxRequests /\ requested' = requested + 1
    /\ Begin(r, cursor.hwm, 0, 0, snapshot)
    /\ UNCHANGED faults

\* POST /v1/connectors/raindrop/sync: a scan of everything from the top, perhaps
\* declared a complete snapshot.
StartRequest(r, snapshot) ==
    /\ requested < MaxRequests /\ requested' = requested + 1
    /\ Begin(r, 0, 0, 0, snapshot)
    /\ UNCHANGED faults

(***************************************************************************)
(* fetch_raindrop_records.                                                 *)
(***************************************************************************)
Newest(records) == Max({0} \cup {r.at : r \in records})

\* Mutant: a scan that is cut short promotes the newest time it has met.
ScanCursorEager(p, recs, next, error) ==
    LET newest == Larger(p.pending, Newest(ToSet(recs)))
        promoted == IF newest # 0 THEN newest ELSE p.since
    IN  [page |-> next, hwm |-> promoted, pending |-> 0, fails |-> 0,
         value |-> IF next # NoPage THEN AtPage(next) ELSE AtTime(promoted)]

\* The cursor a scan asks for: a scan cut short keeps its watermark where it
\* started and carries the newest time it has met; a complete one promotes it.
ScanCursor(p, recs, next, error) ==
    LET newest == Larger(p.pending, Newest(ToSet(recs)))
        promoted == IF newest # 0 THEN newest ELSE p.since
    IN  IF next # NoPage \/ error
        THEN [page |-> next, hwm |-> p.since, pending |-> newest, fails |-> 0,
              value |-> IF next # NoPage THEN AtPage(next) ELSE AtTime(p.since)]
        ELSE [page |-> NoPage, hwm |-> promoted, pending |-> 0, fails |-> 0,
              value |-> AtTime(promoted)]

\* _direct_connector_archive_missing_decision.
MayArchive(p, recs, next, error) ==
    p.snapshot /\ ~error /\ next = NoPage /\ Len(recs) < Cap

Fetched(p, recs, next, error) ==
    [Idle EXCEPT !.phase = "connect", !.recs = recs,
        !.snapshot = MayArchive(p, recs, next, error),
        !.ids = IF MayArchive(p, recs, next, error)
                THEN {r.item : r \in ToSet(recs)} ELSE {},
        !.out = ScanCursor(p, recs, next, error)]

\* One page: what is older than the watermark is dropped and ends the scan, and
\* so do a short page and the record cap, which never cuts a page in two.
ReadPage(s) ==
    LET p == sync[s]
        fresh == FreshOnPage(p.page, p.since)
        recs == p.recs \o fresh
        ended == Len(fresh) < PerPage
    IN  /\ p.phase = "fetch"
        /\ sync' = [sync EXCEPT ![s] =
               IF ended THEN Fetched(p, recs, NoPage, FALSE)
               ELSE IF Len(recs) >= Cap THEN Fetched(p, recs, p.page + 1, FALSE)
               ELSE [p EXCEPT !.recs = recs, !.page = @ + 1]]
        /\ UNCHANGED <<service, connected, cursor, saved, history, bounds>>

\* The request of a page fails: the scan ends with what it has.
LosePage(s) ==
    /\ sync[s].phase = "fetch"
    /\ faults < MaxFaults /\ faults' = faults + 1
    /\ sync' = [sync EXCEPT ![s] = Fetched(@, @.recs, NoPage, TRUE)]
    /\ UNCHANGED <<service, connected, cursor, saved, history, requested>>

(***************************************************************************)
(* sync_raindrop_account and sync_source_account_records.                  *)
(***************************************************************************)
\* upsert_source_account: it clears disconnected_at, whatever it was.
Connect(s) ==
    LET p == sync[s]
    IN  /\ p.phase = "connect"
        /\ connected' = TRUE
        /\ sync' = [sync EXCEPT ![s].phase =
               IF p.recs # <<>> THEN "check" ELSE IF p.snapshot THEN "missing" ELSE "write"]
        /\ UNCHANGED <<service, cursor, saved, history, bounds>>

\* The batch is refused if the account has been disconnected once more.
Check(s) ==
    /\ sync[s].phase = "check"
    /\ sync' = [sync EXCEPT ![s] = IF connected THEN [@ EXCEPT !.phase = "save"] ELSE Idle]
    /\ UNCHANGED <<service, connected, cursor, saved, history, bounds>>

\* What follows the last record: a complete snapshot archives what it did not
\* meet, a failing page reads the cursor it is going to keep.
AfterRecords(p) ==
    IF p.snapshot THEN "missing" ELSE IF p.bad # {} THEN "hold" ELSE "write"

Taken(p, failed) ==
    LET q == [p EXCEPT !.recs = Tail(p.recs),
                       !.bad = IF failed THEN @ \cup {Head(p.recs)} ELSE @]
    IN  [q EXCEPT !.phase = IF q.recs = <<>> THEN AfterRecords(q) ELSE "save"]

\* The record's capture is written under its external id, over the version the
\* account had, archived or not; a version that is already there is skipped.
Save(s) ==
    LET p == sync[s]
        r == Head(p.recs)
    IN  /\ p.phase = "save" /\ r.item \notin Poison
        /\ saved' = [saved EXCEPT ![r.item] = r.at]
        /\ seen' = [seen EXCEPT ![r.item] = Larger(@, r.at)]
        /\ sync' = [sync EXCEPT ![s] = Taken(p, FALSE)]
        /\ UNCHANGED <<service, connected, cursor, given, raced, bounds>>

\* A record whose save raises is counted and left behind.
Refuse(s) ==
    /\ sync[s].phase = "save"
    /\ sync' = [sync EXCEPT ![s] = Taken(@, TRUE)]
    /\ UNCHANGED <<service, connected, cursor, saved, history>>

RefusePoison(s) ==
    /\ Refuse(s) /\ Head(sync[s].recs).item \in Poison
    /\ UNCHANGED bounds

FailSave(s) ==
    /\ Refuse(s) /\ Head(sync[s].recs).item \notin Poison
    /\ faults < MaxFaults /\ faults' = faults + 1
    /\ UNCHANGED requested

\* _archive_missing_source_account_records: the captures to archive are read
\* first, then archived one transaction after the other.
FindMissing(s) ==
    LET p == sync[s]
        gone == {i \in Items : saved[i] # 0} \ p.ids
        next == AfterRecords([p EXCEPT !.snapshot = FALSE])
    IN  /\ p.phase = "missing"
        /\ sync' = [sync EXCEPT ![s] = [p EXCEPT !.ids = gone, !.snapshot = FALSE,
                        !.phase = IF gone = {} THEN next ELSE "archive"]]
        /\ UNCHANGED <<service, connected, cursor, saved, history, bounds>>

ArchiveMissing(s, i) ==
    LET p == sync[s]
        left == p.ids \ {i}
    IN  /\ p.phase = "archive" /\ i \in p.ids
        /\ saved' = [saved EXCEPT ![i] = 0]
        /\ sync' = [sync EXCEPT ![s] = [p EXCEPT !.ids = left,
                        !.phase = IF left = {} THEN AfterRecords(p) ELSE "archive"]]
        /\ UNCHANGED <<service, connected, cursor, history, bounds>>

\* The cursor of a page with failures: the one the account has now, page token
\* and pending mark included, until it has failed too often.
Held(prev, out) ==
    IF prev.fails + 1 < MaxFailingPages
    THEN [prev EXCEPT !.fails = @ + 1]
    ELSE out

\* Mutant: a page with failures leaves the cursor as it is, uncounted.
HoldUncounted(s) ==
    /\ sync[s].phase = "hold"
    /\ sync' = [sync EXCEPT ![s] = Idle]
    /\ UNCHANGED <<service, connected, cursor, saved, history, bounds>>

Hold(s) ==
    LET p == sync[s]
        held == Held(cursor, p.out)
    IN  /\ p.phase = "hold"
        /\ sync' = [sync EXCEPT ![s] = [p EXCEPT !.phase = "write", !.out = held,
                        !.bad = IF cursor.fails + 1 < MaxFailingPages THEN {} ELSE @]]
        /\ UNCHANGED <<service, connected, cursor, saved, history, bounds>>

\* upsert_sync_cursor, and the last update of the account, which leaves
\* disconnected_at alone.
WriteCursor(s) ==
    LET p == sync[s]
        passed == [i \in Items |-> Newest({r \in p.bad : r.item = i})]
    IN  /\ p.phase = "write"
        /\ cursor' = p.out
        /\ given' = [i \in Items |-> Larger(given[i], passed[i])]
        /\ sync' = [sync EXCEPT ![s] = Idle]
        /\ UNCHANGED <<service, connected, saved, seen, raced, bounds>>

\* The process dies; the job is claimed again once its lease has run out.
Crash(s) ==
    /\ Active(s)
    /\ faults < MaxFaults /\ faults' = faults + 1
    /\ sync' = [sync EXCEPT ![s] = Idle]
    /\ UNCHANGED <<service, connected, cursor, saved, history, requested>>

\* A step of a sync that meets no fault.
Step(s) ==
    \/ ReadPage(s) \/ Connect(s) \/ Check(s) \/ Save(s) \/ RefusePoison(s)
    \/ FindMissing(s) \/ \E i \in Items : ArchiveMissing(s, i)
    \/ Hold(s) \/ WriteCursor(s)

Fault(s) == LosePage(s) \/ FailSave(s) \/ Crash(s)

Next ==
    \/ \E i \in Items : Touch(i) \/ Delete(i)
    \/ Disconnect \/ Resume
    \/ \E w \in Workers : StartJob(w)
    \/ \E r \in Requests, snapshot \in BOOLEAN : StartRequest(r, snapshot)
    \/ \E s \in Syncs : Step(s) \/ Fault(s)

\* The scheduler enqueues a due account again and again, and a worker that runs
\* a sync goes on with it.
Fairness ==
    /\ \A w \in Workers : WF_vars(StartJob(w))
    /\ \A s \in Syncs : WF_vars(Step(s))

Spec == Init /\ [][Next]_vars /\ Fairness

-----------------------------------------------------------------------------
Record == [item : Items, at : Time]
Cursor ==
    {c \in [page : PageNumber \cup {NoPage}, hwm : Time, pending : Time,
            value : [kind : {"page", "time"}, at : Nat], fails : 0 .. MaxFailingPages - 1] :
        c.value = IF c.page = NoPage THEN AtTime(c.hwm) ELSE AtPage(c.page)}
Phases == {"idle", "fetch", "connect", "check", "save", "missing", "archive", "hold", "write"}
UnderWay == [phase : Phases, since : Time, page : PageNumber, pending : Time,
             recs : Seq(Record), bad : SUBSET Record, snapshot : BOOLEAN,
             ids : SUBSET Items, out : Cursor]

(* The shape of the state.  A page number is the value of a cursor only      *)
(* together with the page to resume at, so that `high_water_mark or          *)
(* cursor_value` is never a page taken for a time (storage.py,               *)
(* _process_source_account_sync_job).                                        *)
TypeOK ==
    /\ upd \in [Items -> Time] /\ clock \in Time
    /\ connected \in BOOLEAN /\ raced \in BOOLEAN
    /\ cursor \in Cursor
    /\ saved \in [Items -> Time] /\ seen \in [Items -> Time] /\ given \in [Items -> Time]
    /\ sync \in [Syncs -> UnderWay]
    /\ requested \in 0 .. MaxRequests /\ faults \in 0 .. MaxFaults

(* The high-water mark of the cursor never passes a bookmark whose last      *)
(* version was not saved, unless it was passed over after three failing      *)
(* pages: not through capped scans, lost pages, failed saves, crashes and    *)
(* overlapping syncs (the data-loss guard of sync_source_account_records and *)
(* the pending mark of fetch_raindrop_records).                              *)
NothingSkipped ==
    \A i \in Present : upd[i] <= cursor.hwm => upd[i] <= Larger(seen[i], given[i])

(* Without overlapping syncs the capture of a bookmark below the mark holds  *)
(* its last version and is not archived.                                     *)
NewestKept ==
    ~raced => \A i \in Present :
        upd[i] <= cursor.hwm => saved[i] = upd[i] \/ upd[i] <= given[i]

(* An account that stays connected ends with every bookmark saved in its     *)
(* last version, or passed over after three failing pages: neither a held    *)
(* cursor nor an interrupted scan stalls it.                                 *)
CaughtUp == \A i \in Present : upd[i] <= Larger(seen[i], given[i])
EndsCaughtUp == <>[]connected => <>[]CaughtUp

(* What the user disconnected stays so until the user resumes it.            *)
StaysDisconnected == [][~connected /\ connected' => Resume]_vars
=============================================================================
