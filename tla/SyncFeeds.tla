------------------------------ MODULE SyncFeeds ------------------------------
(***************************************************************************)
(* Synchronisation of the captures of one account: every device has a      *)
(* store of its own, a push loop (device to hosted store) and a pull loop  *)
(* (hosted store to device).  A loop reads a page of a feed behind its     *)
(* cursor, posts it to the other store and advances the cursor when the    *)
(* post is answered; captures and deletions are two feeds.                 *)
(*                                                                         *)
(* The feed of captures is ordered by the rowid of the table captures, the *)
(* feed of deletions by the seq of sync_tombstones.  The content of a      *)
(* capture never changes here.                                             *)
(***************************************************************************)
EXTENDS Integers, FiniteSets

CONSTANTS
    Captures,
    Devices,
    Hosted,       \* the hosted store
    Homes,        \* the stores where the user works
    Gated,        \* the stores where a policy asks for review
    PageLimit,    \* limit= of a page: 100 captures, 200 deletions in the code
    MaxMishaps    \* bound of the model: lost requests and answers, sign-outs

Stores == Devices \cup {Hosted}

ASSUME SyncAssumption ==
    /\ IsFiniteSet(Captures)
    /\ Hosted \notin Devices
    /\ Homes \subseteq Stores
    /\ Gated \subseteq Stores
    /\ PageLimit \in Nat \ {0}
    /\ MaxMishaps \in Nat

VARIABLES
    rows,      \* captures of each store: rowid and review status
    tombs,     \* sync_tombstones of each store: the seq of each deletion
    cursors,   \* UserDefaults: what each loop has acknowledged
    ticks,     \* what each loop reads next; a tick begins with the captures
    requests,  \* the page that each loop has posted, as far as it is not applied
    born,      \* history: captures made so far
    high,      \* history: the highest rowid given in each store
    late,      \* history: rows that entered a feed below a rowid given before
    approved,  \* history: where the user (or a setting) has approved a capture
    mishaps

vars == <<rows, tombs, cursors, ticks, requests, born, high, late, approved, mishaps>>

Directions == {"push", "pull"}
Feeds == {"captures", "deletions"}
Review == {"pending", "approved", "archived"}

\* seq 0: the store has no such row.
Row == [seq : Nat, review : Review]
NoRow == [seq |-> 0, review |-> "pending"]

Item == [capture : Captures, seq : Nat \ {0}, review : Review]

\* "checked": is_tombstoned has answered no for the next item.
Request == [feed : Feeds \cup {"none"}, items : SUBSET Item, checked : BOOLEAN,
            next : Nat, more : BOOLEAN]
NoRequest == [feed |-> "none", items |-> {}, checked |-> FALSE, next |-> 0, more |-> FALSE]

From(d, dir) == IF dir = "push" THEN d ELSE Hosted
To(d, dir)   == IF dir = "push" THEN Hosted ELSE d

\* MAX(rowid) + 1: what SQLite gives a new row of a table without AUTOINCREMENT.
Above(S) == 1 + (CHOOSE n \in S \cup {0} : \A k \in S : n >= k)

NextRowid(s) == Above({rows[s][c].seq : c \in Captures})
NextTomb(s)  == Above({tombs[s][c] : c \in Captures})

-----------------------------------------------------------------------------
Init ==
    /\ rows = [s \in Stores |-> [c \in Captures |-> NoRow]]
    /\ tombs = [s \in Stores |-> [c \in Captures |-> 0]]
    /\ cursors = [d \in Devices |-> [dir \in Directions |-> [f \in Feeds |-> 0]]]
    /\ ticks = [d \in Devices |-> [dir \in Directions |-> "captures"]]
    /\ requests = [d \in Devices |-> [dir \in Directions |-> NoRequest]]
    /\ born = {}
    /\ high = [s \in Stores |-> 0]
    /\ late = {}
    /\ approved = {}
    /\ mishaps = 0

(***************************************************************************)
(* Rows                                                                    *)
(***************************************************************************)

\* INSERT ... ON CONFLICT(id) DO UPDATE: an update keeps the rowid.
Upsert(s, c, review) ==
    LET old == rows[s][c]
        seq == IF old.seq = 0 THEN NextRowid(s) ELSE old.seq
        enters == old.seq = 0 \/ old.review = "archived"
    IN  /\ rows' = [rows EXCEPT ![s][c] = [seq |-> seq, review |-> review]]
        /\ high' = [high EXCEPT ![s] = IF seq > @ THEN seq ELSE @]
        /\ late' = IF enters /\ seq <= high[s] THEN late \cup {<<s, c>>} ELSE late

\* Mutant: nothing is recorded of a capture that is not there.
RemoveIfHeld(s, c) ==
    /\ rows' = [rows EXCEPT ![s][c] = NoRow]
    /\ tombs' = IF tombs[s][c] = 0 /\ rows[s][c].seq > 0
                THEN [tombs EXCEPT ![s][c] = NextTomb(s)] ELSE tombs
    /\ late' = late \ {<<s, c>>}

\* _delete_capture_in_conn and INSERT OR IGNORE of the tombstone.
Remove(s, c) ==
    /\ rows' = [rows EXCEPT ![s][c] = NoRow]
    /\ tombs' = IF tombs[s][c] = 0 THEN [tombs EXCEPT ![s][c] = NextTomb(s)] ELSE tombs
    /\ late' = late \ {<<s, c>>}

(***************************************************************************)
(* The user                                                                *)
(***************************************************************************)

\* A capture is made on a store; where no policy asks for review it may be
\* approved at once.
Make(s, c) ==
    /\ c \notin born
    /\ born' = born \cup {c}
    /\ \/ Upsert(s, c, "pending") /\ approved' = approved
       \/ /\ s \notin Gated
          /\ Upsert(s, c, "approved")
          /\ approved' = approved \cup {<<s, c>>}
    /\ UNCHANGED <<tombs, cursors, ticks, requests, mishaps>>

\* approve_capture
Approve(s, c) ==
    /\ rows[s][c].seq > 0
    /\ rows[s][c].review = "pending"
    /\ rows' = [rows EXCEPT ![s][c].review = "approved"]
    /\ approved' = approved \cup {<<s, c>>}
    /\ UNCHANGED <<tombs, cursors, ticks, requests, born, high, late, mishaps>>

\* archive_capture
Archive(s, c) ==
    /\ rows[s][c].seq > 0
    /\ rows[s][c].review # "archived"
    /\ rows' = [rows EXCEPT ![s][c].review = "archived"]
    /\ UNCHANGED <<tombs, cursors, ticks, requests, born, high, late, approved, mishaps>>

\* delete_capture
Delete(s, c) ==
    /\ rows[s][c].seq > 0
    /\ Remove(s, c)
    /\ UNCHANGED <<cursors, ticks, requests, born, high, approved, mishaps>>

(***************************************************************************)
(* The loops of a device                                                   *)
(***************************************************************************)

\* Mutant: only what is approved is offered.
EntriesApproved(s, feed) ==
    IF feed = "captures"
    THEN {[capture |-> c, seq |-> rows[s][c].seq, review |-> rows[s][c].review] :
             c \in {k \in Captures : rows[s][k].seq > 0 /\ rows[s][k].review = "approved"}}
    ELSE {[capture |-> c, seq |-> tombs[s][c], review |-> "archived"] :
             c \in {k \in Captures : tombs[s][k] > 0}}

\* capture_change_page and capture_tombstone_page: what a feed holds.
Entries(s, feed) ==
    IF feed = "captures"
    THEN {[capture |-> c, seq |-> rows[s][c].seq, review |-> rows[s][c].review] :
             c \in {k \in Captures : rows[s][k].seq > 0 /\ rows[s][k].review # "archived"}}
    ELSE {[capture |-> c, seq |-> tombs[s][c], review |-> "archived"] :
             c \in {k \in Captures : tombs[s][k] > 0}}

\* The page after a cursor: the entries with the smallest seq.
Page(s, feed, after) ==
    LET rest == {e \in Entries(s, feed) : e.seq > after}
    IN  {e \in rest : Cardinality({x \in rest : x.seq < e.seq}) < PageLimit}

\* A tick reads a page of captures and posts it; after the last page it turns
\* to the deletions.  (A loop posts one request at a time here, and none while
\* one that it has given up is still being applied.)
Fetch(d, dir, feed) ==
    LET s == From(d, dir)
        after == cursors[d][dir][feed]
        page == Page(s, feed, after)
    IN  /\ ticks[d][dir] = feed
        /\ requests[d][dir] = NoRequest
        /\ IF page = {}
           THEN /\ ticks' = [ticks EXCEPT ![d][dir] =
                       IF feed = "captures" THEN "deletions" ELSE "captures"]
                /\ requests' = requests
           ELSE /\ ticks' = [ticks EXCEPT ![d][dir] = "waiting"]
                /\ requests' = [requests EXCEPT ![d][dir] =
                       [feed |-> feed, items |-> page, checked |-> FALSE,
                        next |-> Above({e.seq : e \in page}) - 1,
                        more |-> \E e \in Entries(s, feed) : e.seq > after /\ e \notin page]]
        /\ UNCHANGED <<rows, tombs, cursors, born, high, late, approved, mishaps>>

\* A loop has given up a request (a timeout, a crash of the app); the store goes
\* on with it.
GivenUp(r) == IF r.items = {} THEN NoRequest ELSE [r EXCEPT !.next = 0, !.more = FALSE]

\* Mutant: the cursor moves as soon as the page is posted.
AnswerEarly(d, dir) ==
    LET r == requests[d][dir] IN
    /\ ticks[d][dir] = "waiting"
    /\ cursors' = [cursors EXCEPT ![d][dir][r.feed] = r.next]
    /\ ticks' = [ticks EXCEPT ![d][dir] =
          IF r.more THEN r.feed ELSE IF r.feed = "captures" THEN "deletions" ELSE "captures"]
    /\ requests' = [requests EXCEPT ![d][dir] = GivenUp(r)]
    /\ UNCHANGED <<rows, tombs, born, high, late, approved, mishaps>>

\* The post is answered: only now does the cursor move.
Answer(d, dir) ==
    LET r == requests[d][dir] IN
    /\ ticks[d][dir] = "waiting"
    /\ r.items = {}
    /\ cursors' = [cursors EXCEPT ![d][dir][r.feed] = r.next]
    /\ ticks' = [ticks EXCEPT ![d][dir] =
          IF r.more THEN r.feed ELSE IF r.feed = "captures" THEN "deletions" ELSE "captures"]
    /\ requests' = [requests EXCEPT ![d][dir] = NoRequest]
    /\ UNCHANGED <<rows, tombs, born, high, late, approved, mishaps>>

(***************************************************************************)
(* The store that receives a page                                          *)
(***************************************************************************)

\* The items of a page are applied in their order.
Next1(r) == CHOOSE e \in r.items : \A x \in r.items : e.seq <= x.seq

\* What is left of a request after its next item; the answer to one that the
\* loop no longer waits for is lost.
Rest(d, dir) ==
    LET r == requests[d][dir]
        left == r.items \ {Next1(r)}
    IN  IF left = {} /\ ticks[d][dir] # "waiting" THEN NoRequest
        ELSE [r EXCEPT !.items = left, !.checked = FALSE]

\* sync_ingest asks for the tombstone of an item in a transaction of its own,
\* and then extracts the memories ...
Check(d, dir) ==
    LET r == requests[d][dir] IN
    /\ r.feed = "captures" /\ r.items # {} /\ ~ r.checked
    /\ requests' = [requests EXCEPT ![d][dir] =
          IF tombs[To(d, dir)][Next1(r).capture] > 0 THEN Rest(d, dir)
          ELSE [r EXCEPT !.checked = TRUE]]
    /\ UNCHANGED <<rows, tombs, cursors, ticks, born, high, late, approved, mishaps>>

\* Mutant: the review of the item passes whatever the policy.
IngestedUngated(s, item) ==
    IF rows[s][item.capture].seq > 0 /\ rows[s][item.capture].review # "archived"
    THEN rows[s][item.capture].review
    ELSE item.review

\* The review status that the ingest of an item leaves: the decision of the store
\* unless the capture is new or archived there; an approval of another store
\* passes unless a policy asks for review.
Ingested(s, item) ==
    IF rows[s][item.capture].seq > 0 /\ rows[s][item.capture].review # "archived"
    THEN rows[s][item.capture].review
    ELSE IF item.review = "approved" /\ s \notin Gated THEN "approved" ELSE "pending"

\* ... and saves the capture under the id it has.
Ingest(d, dir) ==
    LET r == requests[d][dir]
        s == To(d, dir)
        item == Next1(r)
    IN  /\ r.checked
        /\ Upsert(s, item.capture, Ingested(s, item))
        /\ requests' = [requests EXCEPT ![d][dir] = Rest(d, dir)]
        /\ UNCHANGED <<tombs, cursors, ticks, born, approved, mishaps>>

\* apply_sync_deletions, one transaction per item.
ApplyDeletion(d, dir) ==
    LET r == requests[d][dir] IN
    /\ r.feed = "deletions" /\ r.items # {}
    /\ Remove(To(d, dir), Next1(r).capture)
    /\ requests' = [requests EXCEPT ![d][dir] = Rest(d, dir)]
    /\ UNCHANGED <<cursors, ticks, born, high, approved, mishaps>>

(***************************************************************************)
(* Mishaps                                                                 *)
(***************************************************************************)

Timeout(d, dir) ==
    /\ mishaps < MaxMishaps
    /\ ticks[d][dir] = "waiting"
    /\ ticks' = [ticks EXCEPT ![d][dir] = "captures"]
    /\ requests' = [requests EXCEPT ![d][dir] = GivenUp(@)]
    /\ mishaps' = mishaps + 1
    /\ UNCHANGED <<rows, tombs, cursors, born, high, late, approved>>

\* The store fails on an item, or the post never arrives: the rest of the page
\* is not applied.
Drop(d, dir) ==
    /\ mishaps < MaxMishaps
    /\ requests[d][dir].items # {}
    /\ requests' = [requests EXCEPT ![d][dir] = NoRequest]
    /\ ticks' = [ticks EXCEPT ![d][dir] = IF @ = "waiting" THEN "captures" ELSE @]
    /\ mishaps' = mishaps + 1
    /\ UNCHANGED <<rows, tombs, cursors, born, high, late, approved>>

\* resetToLocalDefaults: the loops are cancelled and the cursors cleared; the
\* same account signs in again.
SignOut(d) ==
    /\ mishaps < MaxMishaps
    /\ ticks' = [ticks EXCEPT ![d] = [dir \in Directions |-> "captures"]]
    /\ requests' = [requests EXCEPT ![d] = [dir \in Directions |-> GivenUp(@[dir])]]
    /\ cursors' = [cursors EXCEPT ![d] = [dir \in Directions |-> [f \in Feeds |-> 0]]]
    /\ mishaps' = mishaps + 1
    /\ UNCHANGED <<rows, tombs, born, high, late, approved>>

-----------------------------------------------------------------------------
\* One loop of a device, with the store that serves it.
Loop(d, dir) ==
    \/ \E feed \in Feeds : Fetch(d, dir, feed)
    \/ Answer(d, dir)
    \/ Check(d, dir)
    \/ Ingest(d, dir)
    \/ ApplyDeletion(d, dir)

Next ==
    \/ \E s \in Homes, c \in Captures :
          Make(s, c) \/ Approve(s, c) \/ Archive(s, c) \/ Delete(s, c)
    \/ \E d \in Devices :
          \/ \E dir \in Directions : Loop(d, dir) \/ Timeout(d, dir) \/ Drop(d, dir)
          \/ SignOut(d)

\* Every loop ticks again, and a store works off what it was sent; the user
\* owes nothing.  A loop can always take a step, so that weak fairness says that
\* it takes one again and again.
Fairness == \A d \in Devices, dir \in Directions : []<><<Loop(d, dir)>>_vars

Spec == Init /\ [][Next]_vars
FairSpec == Spec /\ Fairness

-----------------------------------------------------------------------------
(***************************************************************************)
(* Properties                                                              *)
(***************************************************************************)

\* Types; a rowid and a seq name one row.
TypeOK ==
    /\ rows \in [Stores -> [Captures -> Row]]
    /\ tombs \in [Stores -> [Captures -> Nat]]
    /\ cursors \in [Devices -> [Directions -> [Feeds -> Nat]]]
    /\ ticks \in [Devices -> [Directions -> Feeds \cup {"waiting"}]]
    /\ requests \in [Devices -> [Directions -> Request]]
    /\ born \subseteq Captures
    /\ high \in [Stores -> Nat]
    /\ late \subseteq Stores \X Captures
    /\ approved \subseteq Stores \X Captures
    /\ mishaps \in 0..MaxMishaps
    /\ \A s \in Stores, c, k \in Captures : c # k =>
          /\ rows[s][c].seq > 0 => rows[s][c].seq # rows[s][k].seq
          /\ tombs[s][c] > 0 => tombs[s][c] # tombs[s][k]

Behind(d, dir, c) == rows[From(d, dir)][c].seq \in 1..cursors[d][dir]["captures"]

Arrived(s, c) == rows[s][c].seq > 0 \/ tombs[s][c] > 0

\* "Advance the cursor ONLY after the batch is acked": whatever is lost, answered
\* late or repeated, a capture behind the cursor is in the other store, or has
\* been deleted there; except rows that entered the feed behind its head.
CapturesNotSkipped ==
    \A d \in Devices, dir \in Directions, c \in Captures :
        /\ Behind(d, dir, c)
        /\ <<From(d, dir), c>> \notin late
        /\ rows[From(d, dir)][c].review # "archived"
        => Arrived(To(d, dir), c)

\* The same for the feed of deletions, without exception: a deletion behind the
\* cursor is recorded in the other store, so it goes on to the other devices.
DeletionsNotSkipped ==
    \A d \in Devices, dir \in Directions, c \in Captures :
        tombs[From(d, dir)][c] \in 1..cursors[d][dir]["deletions"] => tombs[To(d, dir)][c] > 0

\* "The passthrough must never let a connector bypass a per-source review policy":
\* a capture is approved in a store with such a policy only by a decision taken
\* there, and in any other store only by a decision taken somewhere.
GateHolds ==
    \A s \in Stores, c \in Captures :
        rows[s][c].seq > 0 /\ rows[s][c].review = "approved" =>
            \E t \in IF s \in Gated THEN {s} ELSE Stores : <<t, c>> \in approved

\* A forget "reaches every other device".
DeletionReachesAll ==
    \A c \in Captures :
        (\E s \in Stores : tombs[s][c] > 0) ~> (\A s \in Stores : tombs[s][c] > 0)

\* A capture reaches every store, unless it is rejected or deleted somewhere or
\* one of its rows entered the feed behind its head.
CaptureReachesAll ==
    \A c \in Captures :
        c \in born ~>
            \/ \A s \in Stores : Arrived(s, c)
            \/ \E s \in Stores : rows[s][c].review = "archived" \/ <<s, c>> \in late

-----------------------------------------------------------------------------
(***************************************************************************)
(* What the comments say and the code does not keep (see the README)       *)
(***************************************************************************)

\* "rowid is a monotonic integer, so the cursor never ties or resets": no capture
\* gets a rowid that a loop has already passed.
CursorNeverPasses ==
    \A d \in Devices, c \in Captures :
        Behind(d, "push", c) /\ rows[d][c].review # "archived" => Arrived(Hosted, c)

\* "The local store preserves its own review decision for content it already
\* holds": a pulled page does not change the review status of a capture that the
\* device holds.
DecisionKept ==
    [][\A d \in Devices :
          LET c == Next1(requests[d]["pull"]).capture IN
          Ingest(d, "pull") /\ rows[d][c].seq > 0 => rows'[d][c].review = rows[d][c].review]_vars

=============================================================================
