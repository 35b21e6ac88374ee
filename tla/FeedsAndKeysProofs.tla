-------------------------- MODULE FeedsAndKeysProofs --------------------------
(***************************************************************************)
(* The safety of the feeds between a user's devices for every finite set   *)
(* of captures, every set of devices and every size of a page; and that of *)
(* the user's keyring for every set of processes, every nonce budget and   *)
(* every bound.  The two parts share no definition.                        *)
(***************************************************************************)
EXTENDS SyncFeeds, Keyring, FiniteSetTheorems, WellFoundedInduction, TLAPS

-----------------------------------------------------------------------------
(***************************************************************************)
(* Least and greatest numbers                                              *)
(***************************************************************************)
LEMMA Least ==
    ASSUME NEW S \in SUBSET Nat, S # {}
    PROVE  \E n \in S : \A k \in S : n <= k
  <1>1. PICK n \in S : \A k \in S : ~ (<<k, n>> \in OpToRel(<, Nat))
    BY NatLessThanWellFounded, WFMin
  <1>2. \A k \in S : ~ (k < n)
    BY <1>1 DEF OpToRel
  <1>3. QED
    BY <1>2

LEMMA Greatest ==
    ASSUME NEW S \in SUBSET Nat, S # {}, NEW b \in Nat, \A k \in S : k <= b
    PROVE  \E n \in S : \A k \in S : n >= k
  <1> DEFINE T == {n \in Nat : \A k \in S : k <= n}
  <1>1. PICK m \in T : \A k \in T : m <= k
    BY Least
  <1>2. m \in S
    <2> SUFFICES ASSUME m \notin S PROVE FALSE
      OBVIOUS
    <2>1. m \in Nat /\ \A k \in S : k \in Nat /\ k < m
      BY <1>1
    <2>2. m > 0
      <3>1. PICK x \in S : TRUE
        OBVIOUS
      <3>2. QED
        BY <2>1, <3>1
    <2>3. m - 1 \in Nat /\ \A k \in S : k <= m - 1
      <3> HIDE DEF T
      <3>1. m - 1 \in Nat
        BY <2>1, <2>2
      <3>2. ASSUME NEW k \in S PROVE k <= m - 1
        BY <2>1
      <3>3. QED
        BY <3>1, <3>2
    <2>4. m - 1 \in T
      BY <2>3
    <2>5. QED
      BY <1>1, <2>1, <2>4
  <1>3. QED
    BY <1>1, <1>2

LEMMA AboveAll ==
    ASSUME NEW S \in SUBSET Nat, NEW b \in Nat, \A k \in S : k <= b
    PROVE  /\ Above(S) \in Nat \ {0}
           /\ \A k \in S : k < Above(S)
           /\ Above(S) - 1 \in S \cup {0}
  <1> DEFINE m == CHOOSE n \in S \cup {0} : \A k \in S : n >= k
  <1>1. \E n \in S \cup {0} : \A k \in S : n >= k
    BY Greatest
  <1>2. m \in S \cup {0} /\ \A k \in S : m >= k
    BY <1>1
  <1>3. Above(S) = 1 + m
    BY DEF Above
  <1> HIDE DEF m
  <1>4. QED
    BY <1>2, <1>3

\* The next item of a page that is not used up is its first.
LEMMA NextItem ==
    ASSUME NEW r \in Request, r.items # {}
    PROVE  /\ Next1(r) \in r.items
           /\ \A x \in r.items : Next1(r).seq <= x.seq
  <1> DEFINE S == {e.seq : e \in r.items}
  <1>1. r.items \subseteq Item
    BY DEF Request
  <1>2. S \in SUBSET Nat /\ S # {}
    BY <1>1 DEF Item
  <1>3. \E n \in S : \A k \in S : n <= k
    BY <1>2, Least
  <1>4. \E e \in r.items : \A x \in r.items : e.seq <= x.seq
    BY <1>3
  <1>5. QED
    BY <1>4 DEF Next1

-----------------------------------------------------------------------------
(***************************************************************************)
(* The tables of the stores                                                *)
(***************************************************************************)

\* high is the head of the feed of captures; some number is above all seqs of
\* the feed of deletions.
Bounded ==
    \A s \in Stores :
        /\ \A c \in Captures : rows[s][c].seq <= high[s]
        /\ \E n \in Nat : \A c \in Captures : tombs[s][c] <= n

Tables ==
    /\ rows \in [Stores -> [Captures -> Row]]
    /\ tombs \in [Stores -> [Captures -> Nat]]
    /\ high \in [Stores -> Nat]
    /\ late \subseteq Stores \X Captures
    /\ \A s \in Stores, c, k \in Captures : c # k =>
          /\ rows[s][c].seq > 0 => rows[s][c].seq # rows[s][k].seq
          /\ tombs[s][c] > 0 => tombs[s][c] # tombs[s][k]
    /\ Bounded

\* A capture that a loop that has come to n is answerable for.
Due(s, c, n) ==
    /\ rows[s][c].seq \in 1..n
    /\ <<s, c>> \notin late
    /\ rows[s][c].review # "archived"

\* What no step takes back: a capture that has arrived; and what enters a feed
\* enters it at its head, or is late.
Grows ==
    /\ \A s \in Stores : high[s] <= high'[s]
    /\ \A s \in Stores, c \in Captures :
          /\ Arrived(s, c) => Arrived(s, c)'
          /\ \A n \in Nat : n <= high[s] /\ Due(s, c, n)' => Due(s, c, n)
          /\ \/ tombs'[s][c] = tombs[s][c]
             \/ tombs[s][c] = 0 /\ \A k \in Captures : tombs'[s][c] > tombs[s][k]

LEMMA Constants ==
    /\ IsFiniteSet(Captures)
    /\ Homes \subseteq Stores /\ Gated \subseteq Stores
    /\ \A d \in Devices, dir \in Directions : From(d, dir) \in Stores /\ To(d, dir) \in Stores
    /\ PageLimit \in Nat \ {0} /\ MaxMishaps \in Nat
    /\ NoRow \in Row /\ NoRow.seq = 0 /\ NoRow.review = "pending"
  BY SyncAssumption DEF SyncAssumption, Stores, From, To, NoRow, Row, Review

LEMMA HeadOfRows ==
    ASSUME Tables, NEW s \in Stores
    PROVE  /\ NextRowid(s) \in Nat \ {0}
           /\ \A c \in Captures : rows[s][c].seq < NextRowid(s)
  <1> DEFINE S == {rows[s][c].seq : c \in Captures}
  <1>1. S \in SUBSET Nat /\ high[s] \in Nat /\ \A k \in S : k <= high[s]
    BY DEF Tables, Bounded, Row
  <1>2. Above(S) \in Nat \ {0} /\ \A k \in S : k < Above(S)
    <2> HIDE DEF S
    <2>1. QED
      BY <1>1, AboveAll
  <1>3. QED
    BY <1>2 DEF NextRowid

LEMMA HeadOfTombs ==
    ASSUME Tables, NEW s \in Stores
    PROVE  /\ NextTomb(s) \in Nat \ {0}
           /\ \A c \in Captures : tombs[s][c] < NextTomb(s)
  <1> DEFINE S == {tombs[s][c] : c \in Captures}
  <1>1. PICK n \in Nat : \A c \in Captures : tombs[s][c] <= n
    BY DEF Tables, Bounded
  <1>2. S \in SUBSET Nat /\ \A k \in S : k <= n
    BY <1>1 DEF Tables
  <1>3. Above(S) \in Nat \ {0} /\ \A k \in S : k < Above(S)
    <2> HIDE DEF S
    <2>1. QED
      BY <1>2, AboveAll
  <1>4. QED
    BY <1>3 DEF NextTomb

LEMMA TablesUpsert ==
    ASSUME Tables, NEW s \in Stores, NEW c \in Captures, NEW review \in Review \ {"archived"},
           Upsert(s, c, review), tombs' = tombs
    PROVE  Tables' /\ Grows
  <1> DEFINE old == rows[s][c]
             seq == IF old.seq = 0 THEN NextRowid(s) ELSE old.seq
             made == [seq |-> seq, review |-> review]
  <1>1. /\ old \in Row /\ seq \in Nat \ {0} /\ made \in Row
        /\ seq = old.seq \/ \A k \in Captures : rows[s][k].seq < seq
    BY HeadOfRows DEF Tables, Row
  <1>2. /\ rows' = [rows EXCEPT ![s][c] = made]
        /\ high' = [high EXCEPT ![s] = IF seq > @ THEN seq ELSE @]
        /\ late' = IF (old.seq = 0 \/ old.review = "archived") /\ seq <= high[s]
                   THEN late \cup {<<s, c>>} ELSE late
    BY DEF Upsert
  <1> HIDE DEF seq, made
  <1>3. /\ rows'[s][c] = made
        /\ \A t \in Stores, k \in Captures : t # s \/ k # c => rows'[t][k] = rows[t][k]
    BY <1>2 DEF Tables
  <1>4. /\ high' \in [Stores -> Nat]
        /\ \A t \in Stores : high[t] <= high'[t]
        /\ seq <= high'[s]
    BY <1>1, <1>2 DEF Tables
  <1>5. made.seq = seq /\ made.review = review /\ review # "archived"
    BY DEF made
  <1>6. \A t \in Stores, k \in Captures :
           /\ rows[t][k].seq \in Nat /\ tombs[t][k] \in Nat /\ rows[t][k].seq <= high[t]
           /\ t = s /\ k = c => rows'[t][k].seq = seq /\ rows'[t][k].review # "archived"
           /\ t # s \/ k # c => rows'[t][k] = rows[t][k]
    BY <1>3, <1>5 DEF Tables, Bounded, Row
  <1>7. Tables'
    <2>1. rows' \in [Stores -> [Captures -> Row]] /\ late' \subseteq Stores \X Captures
      BY <1>1, <1>2 DEF Tables
    <2>2. ASSUME NEW t \in Stores, NEW k \in Captures, NEW l \in Captures, k # l, rows'[t][k].seq > 0
          PROVE  rows'[t][k].seq # rows'[t][l].seq
      <3>1. rows[t][k].seq > 0 => rows[t][k].seq # rows[t][l].seq
        BY <2>2 DEF Tables
      <3>2. rows[t][l].seq > 0 => rows[t][k].seq # rows[t][l].seq
        BY <2>2 DEF Tables
      <3>3. CASE t = s /\ k = c
        BY <1>1, <1>6, <2>2, <3>1, <3>3
      <3>4. CASE t = s /\ l = c
        BY <1>1, <1>6, <2>2, <3>2, <3>4
      <3>5. CASE ~ (t = s /\ k = c) /\ ~ (t = s /\ l = c)
        BY <1>6, <2>2, <3>1, <3>5
      <3>6. QED
        BY <3>3, <3>4, <3>5
    <2>3. ASSUME NEW t \in Stores, NEW k \in Captures PROVE rows'[t][k].seq <= high'[t]
      <3>1. high[t] \in Nat /\ high'[t] \in Nat /\ high[t] <= high'[t]
        BY <1>4 DEF Tables
      <3>2. QED
        BY <1>1, <1>4, <1>6, <3>1
    <2>4. QED
      BY <1>4, <2>1, <2>2, <2>3 DEF Tables, Bounded
  <1>8. Grows
    <2> SUFFICES ASSUME NEW t \in Stores, NEW k \in Captures
                 PROVE  /\ Arrived(t, k) => Arrived(t, k)'
                        /\ \A n \in Nat : n <= high[t] /\ Due(t, k, n)' => Due(t, k, n)
      BY <1>4 DEF Grows
    <2>1. Arrived(t, k) => Arrived(t, k)'
      BY <1>1, <1>6 DEF Arrived
    <2>2. ASSUME NEW n \in Nat, n <= high[t], Due(t, k, n)' PROVE Due(t, k, n)
      <3>1. CASE t = s /\ k = c
        <4>1. high[s] \in Nat /\ seq <= n /\ <<s, c>> \notin late'
          BY <1>1, <1>6, <2>2, <3>1 DEF Due, Tables
        <4>2. old.seq # 0 /\ old.review # "archived" /\ late' = late
          BY <1>1, <1>2, <2>2, <3>1, <4>1
        <4>3. seq = old.seq
          BY <4>2 DEF seq
        <4>4. QED
          BY <1>1, <2>2, <3>1, <4>1, <4>2, <4>3 DEF Due
      <3>2. CASE ~ (t = s /\ k = c)
        BY <1>2, <1>6, <2>2, <3>2 DEF Due
      <3>3. QED
        BY <3>1, <3>2
    <2>3. QED
      BY <2>1, <2>2
  <1>9. QED
    BY <1>7, <1>8

LEMMA TablesRemove ==
    ASSUME Tables, NEW s \in Stores, NEW c \in Captures, Remove(s, c), high' = high
    PROVE  Tables' /\ Grows /\ tombs'[s][c] > 0
  <1> DEFINE n == NextTomb(s)
  <1>1. n \in Nat \ {0} /\ \A k \in Captures : tombs[s][k] < n
    BY HeadOfTombs
  <1>2. /\ rows' = [rows EXCEPT ![s][c] = NoRow]
        /\ tombs' = IF tombs[s][c] = 0 THEN [tombs EXCEPT ![s][c] = n] ELSE tombs
        /\ late' = late \ {<<s, c>>}
    BY DEF Remove
  <1> HIDE DEF n
  <1>3. \A t \in Stores, k \in Captures :
           /\ rows[t][k].seq \in Nat /\ tombs[t][k] \in Nat /\ rows[t][k].seq <= high[t]
           /\ high[t] \in Nat
           /\ t = s /\ k = c => rows'[t][k].seq = 0
           /\ t # s \/ k # c => rows'[t][k] = rows[t][k] /\ tombs'[t][k] = tombs[t][k]
    BY <1>2, Constants DEF Tables, Bounded, Row
  <1>4. \/ tombs[s][c] = 0 /\ tombs'[s][c] = n
        \/ tombs[s][c] > 0 /\ tombs'[s][c] = tombs[s][c]
    BY <1>1, <1>2, <1>3 DEF Tables
  <1>5. /\ rows' \in [Stores -> [Captures -> Row]]
        /\ tombs' \in [Stores -> [Captures -> Nat]]
        /\ late' \subseteq Stores \X Captures
    BY <1>1, <1>2, Constants DEF Tables
  <1>6. ASSUME NEW t \in Stores, NEW k \in Captures, NEW l \in Captures, k # l
        PROVE  /\ rows'[t][k].seq > 0 => rows'[t][k].seq # rows'[t][l].seq
               /\ tombs'[t][k] > 0 => tombs'[t][k] # tombs'[t][l]
    <2>1. /\ rows[t][k].seq > 0 => rows[t][k].seq # rows[t][l].seq
          /\ tombs[t][k] > 0 => tombs[t][k] # tombs[t][l]
          /\ tombs[t][l] > 0 => tombs[t][k] # tombs[t][l]
      BY <1>6 DEF Tables
    <2>2. CASE t = s /\ k = c
      BY <1>1, <1>3, <1>4, <1>6, <2>1, <2>2
    <2>3. CASE t = s /\ l = c
      BY <1>1, <1>3, <1>4, <1>6, <2>1, <2>3
    <2>4. CASE ~ (t = s /\ k = c) /\ ~ (t = s /\ l = c)
      BY <1>3, <1>6, <2>1, <2>4
    <2>5. QED
      BY <2>2, <2>3, <2>4
  <1>7. Bounded'
    <2>1. \A t \in Stores, k \in Captures : rows'[t][k].seq <= high'[t]
      BY <1>3
    <2>2. ASSUME NEW t \in Stores PROVE \E m \in Nat : \A k \in Captures : tombs'[t][k] <= m
      <3>1. PICK m \in Nat : \A k \in Captures : tombs[t][k] <= m
        BY DEF Tables, Bounded
      <3>2. CASE t = s
        BY <1>1, <1>3, <1>4, <3>2
      <3>3. CASE t # s
        BY <1>3, <3>1, <3>3
      <3>4. QED
        BY <3>2, <3>3
    <2>3. QED
      BY <2>1, <2>2 DEF Bounded
  <1>8. Tables'
    BY <1>5, <1>6, <1>7 DEF Tables
  <1>9. Grows
    <2>1. ASSUME NEW t \in Stores, NEW k \in Captures
          PROVE  /\ Arrived(t, k) => Arrived(t, k)'
                 /\ \A m \in Nat : Due(t, k, m)' => Due(t, k, m)
                 /\ \/ tombs'[t][k] = tombs[t][k]
                    \/ tombs[t][k] = 0 /\ \A l \in Captures : tombs'[t][k] > tombs[t][l]
      <3>1. CASE t = s /\ k = c
        BY <1>1, <1>3, <1>4, <3>1 DEF Arrived, Due
      <3>2. CASE ~ (t = s /\ k = c)
        BY <1>2, <1>3, <3>2 DEF Arrived, Due
      <3>3. QED
        BY <3>1, <3>2
    <2>2. \A t \in Stores : high[t] <= high'[t]
      BY <1>3
    <2>3. QED
      BY <2>1, <2>2 DEF Grows
  <1>10. QED
    BY <1>1, <1>3, <1>4, <1>8, <1>9

\* A decision of the user: the row keeps its place.
LEMMA TablesReview ==
    ASSUME Tables, NEW s \in Stores, NEW c \in Captures, NEW review \in Review,
           rows[s][c].review # "archived",
           rows' = [rows EXCEPT ![s][c].review = review],
           UNCHANGED <<tombs, high, late>>
    PROVE  Tables' /\ Grows
  <1>1. rows[s][c] \in Row
    BY DEF Tables
  <1>2. rows' \in [Stores -> [Captures -> Row]]
    BY <1>1 DEF Tables, Row
  <1>3. \A t \in Stores, k \in Captures :
           /\ rows'[t][k].seq = rows[t][k].seq /\ rows[t][k].seq \in Nat
           /\ t # s \/ k # c => rows'[t][k] = rows[t][k]
    BY <1>1 DEF Tables, Row
  <1>4. Tables'
    BY <1>2, <1>3 DEF Tables, Bounded
  <1>5. Grows
    BY <1>3 DEF Grows, Arrived, Due, Tables
  <1>6. QED
    BY <1>4, <1>5

LEMMA TablesSame ==
    ASSUME Tables, UNCHANGED <<rows, tombs, high, late>>
    PROVE  Tables' /\ Grows
  <1>1. Tables'
    BY DEF Tables, Bounded
  <1>2. Grows
    BY DEF Grows, Arrived, Due, Tables
  <1>3. QED
    BY <1>1, <1>2

-----------------------------------------------------------------------------
(***************************************************************************)
(* The loops                                                               *)
(***************************************************************************)

\* Only a page of captures waits between the question for a tombstone and the
\* ingest; nothing follows on no page.
WellFormed(r) ==
    /\ r.checked => r.feed = "captures" /\ r.items # {}
    /\ r.feed = "none" => ~ r.more

Loops ==
    /\ cursors \in [Devices -> [Directions -> [Feeds -> Nat]]]
    /\ ticks \in [Devices -> [Directions -> Feeds \cup {"waiting"}]]
    /\ requests \in [Devices -> [Directions -> Request]]
    /\ \A d \in Devices, dir \in Directions : WellFormed(requests[d][dir])

\* n is not beyond the head of a feed.
Head(s, feed, n) ==
    IF feed = "captures" THEN n <= high[s] ELSE n = 0 \/ \E c \in Captures : n <= tombs[s][c]

\* What a loop that has come to n owes the other store ...
Owed(s, feed, c, n) ==
    IF feed = "captures" THEN Due(s, c, n) ELSE tombs[s][c] \in 1..n

\* ... and that it is paid.
Paid(s, feed, c) ==
    IF feed = "captures" THEN Arrived(s, c) ELSE tombs[s][c] > 0

LEMMA EntriesFinite ==
    ASSUME Tables, NEW s \in Stores, NEW feed \in Feeds
    PROVE  IsFiniteSet(Entries(s, feed))
  <1> DEFINE K == IF feed = "captures"
                  THEN {k \in Captures : rows[s][k].seq > 0 /\ rows[s][k].review # "archived"}
                  ELSE {k \in Captures : tombs[s][k] > 0}
             entry == [c \in K |->
                          IF feed = "captures"
                          THEN [capture |-> c, seq |-> rows[s][c].seq, review |-> rows[s][c].review]
                          ELSE [capture |-> c, seq |-> tombs[s][c], review |-> "archived"]]
  <1>1. K \in SUBSET Captures
    OBVIOUS
  <1>2. IsFiniteSet(K)
    <2> HIDE DEF K
    <2>1. QED
      BY <1>1, Constants, FS_Subset
  <1>3. entry \in Surjection(K, Entries(s, feed))
    BY DEF Surjection, Entries
  <1>4. QED
    <2> HIDE DEF K, entry
    <2>1. QED
      BY <1>2, <1>3, FS_Surjection

LEMMA EntryOf ==
    ASSUME Tables, NEW s \in Stores, NEW feed \in Feeds
    PROVE  /\ Entries(s, feed) \subseteq Item
           /\ \E n \in Nat : \A e \in Entries(s, feed) : e.seq <= n
           /\ \A e \in Entries(s, feed) : Head(s, feed, e.seq)
           /\ \A c \in Captures, n, m \in Nat :
                 Owed(s, feed, c, m) /\ ~ Owed(s, feed, c, n) =>
                     \E e \in Entries(s, feed) : e.capture = c /\ e.seq > n /\ e.seq <= m
  <1>1. \A c \in Captures : rows[s][c] \in Row /\ rows[s][c].seq <= high[s] /\ tombs[s][c] \in Nat
    BY DEF Tables, Bounded
  <1>2. PICK b \in Nat : \A c \in Captures : tombs[s][c] <= b
    BY DEF Tables, Bounded
  <1>3. high[s] \in Nat
    BY DEF Tables
  <1>4. CASE feed = "captures"
    <2>1. Entries(s, feed) = {[capture |-> c, seq |-> rows[s][c].seq, review |-> rows[s][c].review] :
             c \in {k \in Captures : rows[s][k].seq > 0 /\ rows[s][k].review # "archived"}}
      BY <1>4 DEF Entries
    <2>2. Entries(s, feed) \subseteq Item
      BY <1>1, <2>1 DEF Item, Row
    <2>3. \A e \in Entries(s, feed) : e.seq <= high[s]
      BY <1>1, <2>1
    <2>4. ASSUME NEW c \in Captures, NEW n \in Nat, NEW m \in Nat, Due(s, c, m), ~ Due(s, c, n)
          PROVE  \E e \in Entries(s, feed) : e.capture = c /\ e.seq > n /\ e.seq <= m
      <3>1. rows[s][c].seq \in Nat \ {0} /\ rows[s][c].seq > n /\ rows[s][c].seq <= m
            /\ rows[s][c].review # "archived"
        BY <1>1, <2>4 DEF Due, Row
      <3>2. [capture |-> c, seq |-> rows[s][c].seq, review |-> rows[s][c].review] \in Entries(s, feed)
        BY <2>1, <3>1
      <3>3. QED
        BY <3>1, <3>2
    <2>5. QED
      BY <1>3, <1>4, <2>2, <2>3, <2>4 DEF Head, Owed
  <1>5. CASE feed = "deletions"
    <2>1. Entries(s, feed) = {[capture |-> c, seq |-> tombs[s][c], review |-> "archived"] :
             c \in {k \in Captures : tombs[s][k] > 0}}
      BY <1>5 DEF Entries
    <2>2. Entries(s, feed) \subseteq Item
      BY <1>1, <2>1 DEF Item, Review
    <2>3. \A e \in Entries(s, feed) : e.seq <= b /\ \E c \in Captures : e.seq <= tombs[s][c]
      BY <1>1, <1>2, <2>1
    <2>4. ASSUME NEW c \in Captures, NEW n \in Nat, NEW m \in Nat,
                 tombs[s][c] \in 1..m, tombs[s][c] \notin 1..n
          PROVE  \E e \in Entries(s, feed) : e.capture = c /\ e.seq > n /\ e.seq <= m
      <3>1. [capture |-> c, seq |-> tombs[s][c], review |-> "archived"] \in Entries(s, feed)
        BY <1>1, <2>1, <2>4
      <3>2. QED
        BY <1>1, <2>4, <3>1
    <2>5. QED
      BY <1>5, <2>2, <2>3, <2>4 DEF Head, Owed
  <1>6. QED
    BY <1>4, <1>5 DEF Feeds

\* A page is a beginning of what is left of its feed: with what was owed before
\* it holds all that is owed at its end.
LEMMA PageOf ==
    ASSUME Tables, NEW s \in Stores, NEW feed \in Feeds, NEW after \in Nat,
           NEW page, page = Page(s, feed, after), page # {},
           NEW next, next = Above({e.seq : e \in page}) - 1
    PROVE  /\ page \subseteq Item
           /\ next \in Nat /\ Head(s, feed, next)
           /\ \A c \in Captures :
                 Owed(s, feed, c, next) => Owed(s, feed, c, after) \/ \E e \in page : e.capture = c
  <1> DEFINE rest == {e \in Entries(s, feed) : e.seq > after}
             before(x) == {y \in rest : y.seq < x.seq}
             S == {e.seq : e \in page}
  <1>1. rest \in SUBSET Entries(s, feed) /\ page = {e \in rest : Cardinality(before(e)) < PageLimit}
    BY DEF Page
  <1>2. /\ Entries(s, feed) \subseteq Item /\ page \subseteq Item
        /\ \A e \in page : Head(s, feed, e.seq)
    BY <1>1, EntryOf
  <1>3. PICK b \in Nat : \A e \in page : e.seq <= b
    BY <1>1, EntryOf
  <1>4. \E e \in page : next = e.seq
    <2>1. S \in SUBSET Nat /\ \A k \in S : k <= b /\ k > 0
      BY <1>2, <1>3 DEF Item
    <2>2. \A k \in S : k < Above(S)
          /\ Above(S) \in Nat \ {0} /\ Above(S) - 1 \in S \cup {0}
      <3> HIDE DEF S
      <3>1. QED
        BY <2>1, AboveAll
    <2>3. Above(S) - 1 # 0
      <3>1. PICK k \in S : TRUE
        OBVIOUS
      <3> HIDE DEF S
      <3>2. QED
        BY <2>1, <2>2, <3>1
    <2>4. QED
      BY <2>2, <2>3
  <1>5. ASSUME NEW e \in page, NEW x \in rest, x.seq <= e.seq
        PROVE  x \in page
    <2>1. IsFiniteSet(before(e)) /\ before(x) \in SUBSET before(e)
      <3>1. before(e) \in SUBSET Entries(s, feed)
        BY <1>1
      <3>2. before(x) \in SUBSET before(e)
        <4>1. \A y \in rest : y.seq \in Nat
          BY <1>1, <1>2 DEF Item
        <4>2. e.seq \in Nat /\ x.seq \in Nat
          BY <1>1, <1>5, <4>1
        <4>3. QED
          BY <1>5, <4>1, <4>2
      <3> HIDE DEF before
      <3>3. QED
        BY <3>1, <3>2, EntriesFinite, FS_Subset
    <2>2. Cardinality(before(x)) <= Cardinality(before(e))
          /\ Cardinality(before(x)) \in Nat /\ Cardinality(before(e)) \in Nat
      <3> HIDE DEF before
      <3>1. QED
        BY <2>1, FS_Subset, FS_CardinalityType
    <2>3. Cardinality(before(e)) < PageLimit
      BY <1>1
    <2>4. QED
      <3> HIDE DEF before
      <3>1. QED
        BY <1>1, <1>5, <2>2, <2>3, Constants
  <1>6. ASSUME NEW c \in Captures, Owed(s, feed, c, next), ~ Owed(s, feed, c, after)
        PROVE  \E e \in page : e.capture = c
    <2>1. next \in Nat
      BY <1>2, <1>4 DEF Item
    <2>2. PICK x \in Entries(s, feed) : x.capture = c /\ x.seq > after /\ x.seq <= next
      BY <1>6, <2>1, EntryOf
    <2>3. QED
      BY <1>4, <1>5, <2>2
  <1>7. QED
    BY <1>2, <1>4, <1>6 DEF Item

\* What a step does to a loop: nothing; ...
Untouched(d, dir) ==
    requests'[d][dir] = requests[d][dir] /\ cursors'[d][dir] = cursors[d][dir]

\* ... the answer to the question for a tombstone is no; ...
Asked(d, dir) ==
    /\ requests[d][dir].feed = "captures" /\ requests[d][dir].items # {}
    /\ requests'[d][dir] = [requests[d][dir] EXCEPT !.checked = TRUE]
    /\ cursors'[d][dir] = cursors[d][dir]

\* ... its request ends or is given up, after it may have lost its cursors; ...
Abandoned(d, dir) ==
    /\ \/ requests'[d][dir] = NoRequest
       \/ requests'[d][dir] = GivenUp(requests[d][dir])
    /\ \/ cursors'[d][dir] = cursors[d][dir]
       \/ cursors'[d][dir] = [f \in Feeds |-> 0]

\* ... the other store is done with an item; ...
Worked(d, dir) ==
    LET r == requests[d][dir] IN
    /\ r.items # {}
    /\ \E feed \in Feeds, c \in Captures :
          r.feed = feed /\ Next1(r).capture = c /\ Paid(To(d, dir), feed, c)'
    /\ requests'[d][dir] = [r EXCEPT !.items = r.items \ {Next1(r)}, !.checked = FALSE]
    /\ cursors'[d][dir] = cursors[d][dir]

\* ... a page is posted; ...
Posted(d, dir, feed) ==
    LET s == From(d, dir)
        after == cursors[d][dir][feed]
        page == Page(s, feed, after)
    IN  /\ page # {}
        /\ \E more \in BOOLEAN : requests'[d][dir] =
               [feed |-> feed, items |-> page, checked |-> FALSE,
                next |-> Above({e.seq : e \in page}) - 1, more |-> more]
        /\ cursors'[d][dir] = cursors[d][dir]
        /\ UNCHANGED <<rows, tombs, high, late>>

\* ... or it is answered.
Answered(d, dir) ==
    LET r == requests[d][dir] IN
    /\ r.items = {}
    /\ requests'[d][dir] = NoRequest
    /\ cursors'[d][dir] = [cursors[d][dir] EXCEPT ![r.feed] = r.next]

LoopStep(d, dir) ==
    \/ Untouched(d, dir) \/ Asked(d, dir) \/ Abandoned(d, dir) \/ Worked(d, dir)
    \/ \E feed \in Feeds : Posted(d, dir, feed)
    \/ Answered(d, dir)

LEMMA NoRequestType ==
    /\ NoRequest \in Request /\ NoRequest.feed = "none" /\ NoRequest.items = {}
    /\ NoRequest.next = 0 /\ WellFormed(NoRequest)
  BY DEF NoRequest, Request, WellFormed

LEMMA GivenUpType ==
    ASSUME NEW r \in Request, WellFormed(r)
    PROVE  /\ GivenUp(r) \in Request /\ WellFormed(GivenUp(r))
           /\ GivenUp(r) = NoRequest \/ GivenUp(r) = [r EXCEPT !.next = 0, !.more = FALSE]
  BY NoRequestType DEF GivenUp, Request, WellFormed

\* The types of the loops after what a step does to each of them.
LEMMA LoopTypes ==
    ASSUME Tables, Loops,
           NEW d \in Devices, NEW dir \in Directions, LoopStep(d, dir)
    PROVE  /\ requests'[d][dir] \in Request /\ WellFormed(requests'[d][dir])
           /\ cursors'[d][dir] \in [Feeds -> Nat]
  <1> DEFINE r == requests[d][dir]
  <1>1. /\ r \in Request /\ cursors[d][dir] \in [Feeds -> Nat]
        /\ WellFormed(r)
    BY DEF Loops
  <1> HIDE DEF r
  <1>2. CASE Untouched(d, dir)
    BY <1>1, <1>2 DEF Untouched, r
  <1>3. CASE Asked(d, dir)
    BY <1>1, <1>3 DEF Asked, r, Request, WellFormed
  <1>4. CASE Abandoned(d, dir)
    <2>1. cursors'[d][dir] \in [Feeds -> Nat]
      BY <1>1, <1>4 DEF Abandoned
    <2>2. requests'[d][dir] = NoRequest \/ requests'[d][dir] = GivenUp(r)
      BY <1>4 DEF Abandoned, r
    <2>3. QED
      BY <1>1, <2>1, <2>2, NoRequestType, GivenUpType
  <1>5. CASE Worked(d, dir)
    <2>1. requests'[d][dir] = [r EXCEPT !.items = r.items \ {Next1(r)}, !.checked = FALSE]
      BY <1>5 DEF Worked, r
    <2>2. QED
      BY <1>1, <1>5, <2>1 DEF Worked, Request, WellFormed
  <1>6. ASSUME NEW feed \in Feeds, Posted(d, dir, feed)
        PROVE  /\ requests'[d][dir] \in Request /\ WellFormed(requests'[d][dir])
               /\ cursors'[d][dir] \in [Feeds -> Nat]
    <2> DEFINE page == Page(From(d, dir), feed, cursors[d][dir][feed])
               next == Above({e.seq : e \in page}) - 1
    <2>1. page \subseteq Item /\ next \in Nat
      BY <1>1, <1>6, Constants, PageOf DEF Posted
    <2>2. PICK more \in BOOLEAN : requests'[d][dir] =
             [feed |-> feed, items |-> page, checked |-> FALSE, next |-> next, more |-> more]
      BY <1>6 DEF Posted
    <2>3. cursors'[d][dir] \in [Feeds -> Nat]
      BY <1>1, <1>6 DEF Posted
    <2> HIDE DEF page, next
    <2>4. page \in SUBSET Item
      BY <2>1
    <2>5. requests'[d][dir] \in Request /\ WellFormed(requests'[d][dir])
      BY <2>1, <2>2, <2>4 DEF Request, WellFormed, Feeds
    <2>6. QED
      BY <2>3, <2>5
  <1>7. CASE Answered(d, dir)
    BY <1>1, <1>7, NoRequestType DEF Answered, r, Request
  <1>8. QED
    BY <1>2, <1>3, <1>4, <1>5, <1>6, <1>7 DEF LoopStep

-----------------------------------------------------------------------------
(***************************************************************************)
(* Every step: what it does to the tables and to the loops                 *)
(***************************************************************************)
Shaped ==
    /\ requests' = [d \in Devices |-> [dir \in Directions |-> requests'[d][dir]]]
    /\ cursors' = [d \in Devices |-> [dir \in Directions |-> cursors'[d][dir]]]
    /\ ticks' \in [Devices -> [Directions -> Feeds \cup {"waiting"}]]

Steps ==
    /\ Tables' /\ Grows
    /\ \A d \in Devices, dir \in Directions : LoopStep(d, dir)
    /\ Shaped

LEMMA SetOne ==
    ASSUME NEW S, NEW f \in [Devices -> [Directions -> S]],
           NEW d \in Devices, NEW dir \in Directions, NEW q,
           NEW g, g = [f EXCEPT ![d][dir] = q]
    PROVE  /\ g = [e \in Devices |-> [x \in Directions |-> g[e][x]]]
           /\ g[d][dir] = q
           /\ \A e \in Devices, x \in Directions : e # d \/ x # dir => g[e][x] = f[e][x]
           /\ q \in S => g \in [Devices -> [Directions -> S]]
  OBVIOUS

\* A step of one loop.
LEMMA OneLoop ==
    ASSUME Loops, NEW d \in Devices, NEW dir \in Directions,
           NEW q, requests' = [requests EXCEPT ![d][dir] = q],
           NEW t \in Feeds \cup {"waiting"}, ticks' = ticks \/ ticks' = [ticks EXCEPT ![d][dir] = t],
           cursors' = cursors
    PROVE  /\ Shaped
           /\ requests'[d][dir] = q /\ cursors'[d][dir] = cursors[d][dir]
           /\ LoopStep(d, dir) => \A e \in Devices, x \in Directions : LoopStep(e, x)
  <1>1. /\ requests \in [Devices -> [Directions -> Request]]
        /\ cursors \in [Devices -> [Directions -> [Feeds -> Nat]]]
        /\ ticks \in [Devices -> [Directions -> Feeds \cup {"waiting"}]]
    BY DEF Loops
  <1>2. /\ requests' = [e \in Devices |-> [x \in Directions |-> requests'[e][x]]]
        /\ requests'[d][dir] = q
        /\ \A e \in Devices, x \in Directions : e # d \/ x # dir => requests'[e][x] = requests[e][x]
    BY <1>1
  <1>3. ticks' \in [Devices -> [Directions -> Feeds \cup {"waiting"}]]
    <2>1. CASE ticks' = ticks
      BY <1>1, <2>1
    <2>2. CASE ticks' = [ticks EXCEPT ![d][dir] = t]
      BY <1>1, <2>2, SetOne
    <2>3. QED
      BY <2>1, <2>2
  <1>4. cursors' = [e \in Devices |-> [x \in Directions |-> cursors'[e][x]]]
    BY <1>1
  <1>5. \A e \in Devices, x \in Directions : e # d \/ x # dir => LoopStep(e, x)
    BY <1>2 DEF LoopStep, Untouched
  <1>6. QED
    BY <1>2, <1>3, <1>4, <1>5 DEF Shaped

LEMMA NoLoop ==
    ASSUME Loops, UNCHANGED <<requests, cursors, ticks>>
    PROVE  Shaped /\ \A d \in Devices, dir \in Directions : LoopStep(d, dir)
  BY DEF Loops, Shaped, LoopStep, Untouched

LEMMA UserSteps ==
    ASSUME Tables, Loops, NEW s \in Homes, NEW c \in Captures,
           Make(s, c) \/ Approve(s, c) \/ Archive(s, c) \/ Delete(s, c)
    PROVE  Steps
  <1>1. s \in Stores
    BY Constants
  <1>2. UNCHANGED <<requests, cursors, ticks>>
    BY DEF Make, Approve, Archive, Delete
  <1>3. ASSUME Make(s, c) PROVE Tables' /\ Grows
    <2>1. PICK review \in {"pending", "approved"} : Upsert(s, c, review) /\ tombs' = tombs
      BY <1>3 DEF Make
    <2>2. review \in Review \ {"archived"}
      BY DEF Review
    <2>3. QED
      BY <1>1, <2>1, <2>2, TablesUpsert
  <1>4. ASSUME Approve(s, c) \/ Archive(s, c) PROVE Tables' /\ Grows
    <2>1. PICK review \in Review : rows' = [rows EXCEPT ![s][c].review = review]
      BY <1>4 DEF Approve, Archive, Review
    <2>2. rows[s][c].review # "archived" /\ UNCHANGED <<tombs, high, late>>
      BY <1>4 DEF Approve, Archive
    <2>3. QED
      BY <1>1, <2>1, <2>2, TablesReview
  <1>5. ASSUME Delete(s, c) PROVE Tables' /\ Grows
    BY <1>1, <1>5, TablesRemove DEF Delete
  <1>6. Tables' /\ Grows
    BY <1>3, <1>4, <1>5
  <1>7. QED
    BY <1>2, <1>6, NoLoop DEF Steps

LEMMA FetchSteps ==
    ASSUME Tables, Loops, NEW d \in Devices, NEW dir \in Directions, NEW feed \in Feeds,
           Fetch(d, dir, feed)
    PROVE  Steps
  <1> DEFINE page == Page(From(d, dir), feed, cursors[d][dir][feed])
             more == \E e \in Entries(From(d, dir), feed) :
                        e.seq > cursors[d][dir][feed] /\ e \notin page
             q == [feed |-> feed, items |-> page, checked |-> FALSE,
                   next |-> Above({e.seq : e \in page}) - 1, more |-> more]
  <1>1. Tables' /\ Grows /\ cursors' = cursors /\ UNCHANGED <<rows, tombs, high, late>>
    BY TablesSame DEF Fetch
  <1>2. CASE page = {}
    <2>1. PICK t \in Feeds \cup {"waiting"} : ticks' = [ticks EXCEPT ![d][dir] = t]
      BY <1>2 DEF Fetch, Feeds
    <2>2. requests' = requests
      BY <1>2 DEF Fetch
    <2>3. Shaped
      BY <1>1, <2>1, <2>2, SetOne DEF Shaped, Loops
    <2>4. \A e \in Devices, x \in Directions : LoopStep(e, x)
      BY <1>1, <2>2 DEF LoopStep, Untouched
    <2>5. QED
      BY <1>1, <2>3, <2>4 DEF Steps
  <1>3. CASE page # {}
    <2>1. requests' = [requests EXCEPT ![d][dir] = q] /\ ticks' = [ticks EXCEPT ![d][dir] = "waiting"]
      BY <1>3 DEF Fetch
    <2>2. more \in BOOLEAN
      OBVIOUS
    <2>3. /\ Shaped
          /\ requests'[d][dir] = q /\ cursors'[d][dir] = cursors[d][dir]
          /\ LoopStep(d, dir) => \A e \in Devices, x \in Directions : LoopStep(e, x)
      <3> HIDE DEF q
      <3>1. QED
        BY <1>1, <2>1, OneLoop
    <2>4. Posted(d, dir, feed)
      <3> HIDE DEF more
      <3>1. QED
        BY <1>1, <1>3, <2>2, <2>3 DEF Posted
    <2>5. QED
      BY <1>1, <2>3, <2>4 DEF Steps, LoopStep
  <1>4. QED
    BY <1>2, <1>3

LEMMA AnswerSteps ==
    ASSUME Tables, Loops, NEW d \in Devices, NEW dir \in Directions, Answer(d, dir)
    PROVE  Steps
  <1> DEFINE r == requests[d][dir]
  <1>1. Tables' /\ Grows
    BY TablesSame DEF Answer
  <1>2. /\ requests \in [Devices -> [Directions -> Request]] /\ r.feed \in Feeds \cup {"none"}
        /\ cursors \in [Devices -> [Directions -> [Feeds -> Nat]]]
        /\ ticks \in [Devices -> [Directions -> Feeds \cup {"waiting"}]]
    BY DEF Loops, Request
  <1>3. /\ requests' = [requests EXCEPT ![d][dir] = NoRequest]
        /\ cursors' = [cursors EXCEPT ![d][dir][r.feed] = r.next]
        /\ r.items = {}
    BY DEF Answer
  <1>4. PICK t \in Feeds : ticks' = [ticks EXCEPT ![d][dir] = t]
    <2>1. WellFormed(r) /\ r.more \in BOOLEAN
      BY DEF Loops, Request
    <2>2. PICK t : t = IF r.more THEN r.feed
                       ELSE IF r.feed = "captures" THEN "deletions" ELSE "captures"
      OBVIOUS
    <2>3. t \in Feeds
      BY <1>2, <2>1, <2>2 DEF WellFormed, Feeds
    <2>4. ticks' = [ticks EXCEPT ![d][dir] = t]
      BY <2>2 DEF Answer
    <2>5. QED
      BY <2>3, <2>4
  <1> HIDE DEF r
  <1>5. /\ cursors' = [e \in Devices |-> [x \in Directions |-> cursors'[e][x]]]
        /\ cursors'[d][dir] = [cursors[d][dir] EXCEPT ![r.feed] = r.next]
        /\ \A e \in Devices, x \in Directions : e # d \/ x # dir => cursors'[e][x] = cursors[e][x]
    BY <1>2, <1>3
  <1>6. /\ requests' = [e \in Devices |-> [x \in Directions |-> requests'[e][x]]]
        /\ requests'[d][dir] = NoRequest
        /\ \A e \in Devices, x \in Directions : e # d \/ x # dir => requests'[e][x] = requests[e][x]
    BY <1>2, <1>3
  <1>7. ticks' \in [Devices -> [Directions -> Feeds \cup {"waiting"}]]
    BY <1>2, <1>4
  <1>8. Answered(d, dir)
    BY <1>3, <1>5, <1>6 DEF Answered, r
  <1>9. \A e \in Devices, x \in Directions : e # d \/ x # dir => Untouched(e, x)
    BY <1>5, <1>6 DEF Untouched
  <1>10. QED
    BY <1>1, <1>5, <1>6, <1>7, <1>8, <1>9 DEF Steps, Shaped, LoopStep

\* The next item of a request is done with.
LEMMA RestStep ==
    ASSUME Loops, NEW d \in Devices, NEW dir \in Directions,
           NEW feed \in Feeds, requests[d][dir].feed = feed, requests[d][dir].items # {},
           NEW c, c = Next1(requests[d][dir]).capture, Paid(To(d, dir), feed, c)',
           requests' = [requests EXCEPT ![d][dir] = Rest(d, dir)],
           UNCHANGED <<cursors, ticks>>
    PROVE  Shaped /\ \A e \in Devices, x \in Directions : LoopStep(e, x)
  <1> DEFINE r == requests[d][dir]
  <1>1. r \in Request
    BY DEF Loops
  <1>2. c \in Captures
    BY <1>1, NextItem DEF Request, Item
  <1>3. /\ Shaped
        /\ requests'[d][dir] = Rest(d, dir) /\ cursors'[d][dir] = cursors[d][dir]
        /\ LoopStep(d, dir) => \A e \in Devices, x \in Directions : LoopStep(e, x)
    BY OneLoop DEF Feeds
  <1>4. CASE Rest(d, dir) = NoRequest
    BY <1>3, <1>4 DEF LoopStep, Abandoned
  <1>5. CASE Rest(d, dir) = [r EXCEPT !.items = r.items \ {Next1(r)}, !.checked = FALSE]
    <2>1. Worked(d, dir)
      BY <1>2, <1>3, <1>5 DEF Worked
    <2>2. QED
      BY <1>3, <2>1 DEF LoopStep
  <1>6. QED
    BY <1>4, <1>5 DEF Rest

LEMMA CheckSteps ==
    ASSUME Tables, Loops, NEW d \in Devices, NEW dir \in Directions, Check(d, dir)
    PROVE  Steps
  <1>1. Tables' /\ Grows
    BY TablesSame DEF Check
  <1>2. PICK c : c = Next1(requests[d][dir]).capture
    OBVIOUS
  <1>3. requests[d][dir].feed = "captures" /\ requests[d][dir].items # {}
        /\ UNCHANGED <<rows, tombs, cursors, ticks>>
    BY DEF Check
  <1>4. CASE tombs[To(d, dir)][c] > 0
    <2>1. requests' = [requests EXCEPT ![d][dir] = Rest(d, dir)]
      BY <1>2, <1>4 DEF Check
    <2>2. Paid(To(d, dir), "captures", c)'
      BY <1>3, <1>4 DEF Paid, Arrived
    <2>3. QED
      BY <1>1, <1>2, <1>3, <2>1, <2>2, RestStep DEF Steps, Feeds
  <1>5. CASE ~ (tombs[To(d, dir)][c] > 0)
    <2> DEFINE q == [requests[d][dir] EXCEPT !.checked = TRUE]
    <2>1. requests' = [requests EXCEPT ![d][dir] = q]
      BY <1>2, <1>5 DEF Check
    <2>2. /\ Shaped
          /\ requests'[d][dir] = q /\ cursors'[d][dir] = cursors[d][dir]
          /\ LoopStep(d, dir) => \A e \in Devices, x \in Directions : LoopStep(e, x)
      <3> HIDE DEF q
      <3>1. QED
        BY <1>3, <2>1, OneLoop DEF Feeds
    <2>3. Asked(d, dir)
      BY <1>3, <2>2 DEF Asked
    <2>4. QED
      BY <1>1, <2>2, <2>3 DEF Steps, LoopStep
  <1>6. QED
    BY <1>4, <1>5

LEMMA IngestSteps ==
    ASSUME Tables, Loops, NEW d \in Devices, NEW dir \in Directions, Ingest(d, dir)
    PROVE  Steps
  <1> DEFINE r == requests[d][dir]
             s == To(d, dir)
  <1>1. r \in Request /\ r.feed = "captures" /\ r.items # {}
    BY DEF Loops, WellFormed, Ingest
  <1>2. PICK item : item = Next1(r)
    OBVIOUS
  <1>3. s \in Stores /\ item \in Item /\ item.capture \in Captures /\ item.review \in Review
    BY <1>1, <1>2, NextItem, Constants DEF Request, Item
  <1>4. PICK review : review = Ingested(s, item)
    OBVIOUS
  <1>5. review \in Review \ {"archived"}
    BY <1>3, <1>4 DEF Ingested, Tables, Row, Review
  <1>6. /\ Upsert(s, item.capture, review)
        /\ requests' = [requests EXCEPT ![d][dir] = Rest(d, dir)]
        /\ UNCHANGED <<tombs, cursors, ticks>>
    BY <1>2, <1>4 DEF Ingest
  <1>7. Tables' /\ Grows
    BY <1>3, <1>5, <1>6, TablesUpsert
  <1>8. Paid(s, "captures", item.capture)'
    <2>1. (IF rows[s][item.capture].seq = 0 THEN NextRowid(s) ELSE rows[s][item.capture].seq) > 0
      BY <1>3, HeadOfRows DEF Tables, Row
    <2>2. rows'[s][item.capture].seq > 0
      BY <1>3, <1>6, <2>1 DEF Upsert, Tables
    <2>3. QED
      BY <2>2 DEF Paid, Arrived
  <1>9. QED
    BY <1>1, <1>2, <1>6, <1>7, <1>8, RestStep DEF Steps, Feeds

LEMMA ApplySteps ==
    ASSUME Tables, Loops, NEW d \in Devices, NEW dir \in Directions, ApplyDeletion(d, dir)
    PROVE  Steps
  <1>1. requests[d][dir] \in Request /\ requests[d][dir].feed = "deletions"
        /\ requests[d][dir].items # {}
    BY DEF Loops, ApplyDeletion
  <1>2. PICK c : c = Next1(requests[d][dir]).capture
    OBVIOUS
  <1>3. c \in Captures /\ To(d, dir) \in Stores
    BY <1>1, <1>2, NextItem, Constants DEF Request, Item
  <1>4. /\ Remove(To(d, dir), c) /\ high' = high
        /\ requests' = [requests EXCEPT ![d][dir] = Rest(d, dir)]
        /\ UNCHANGED <<cursors, ticks>>
    BY <1>2 DEF ApplyDeletion
  <1>5. Tables' /\ Grows /\ tombs'[To(d, dir)][c] > 0
    BY <1>3, <1>4, TablesRemove
  <1>6. Paid(To(d, dir), "deletions", c)'
    BY <1>5 DEF Paid
  <1>7. QED
    BY <1>1, <1>2, <1>4, <1>5, <1>6, RestStep DEF Steps, Feeds

LEMMA MishapSteps ==
    ASSUME Tables, Loops, NEW d \in Devices, NEW dir \in Directions,
           Timeout(d, dir) \/ Drop(d, dir)
    PROVE  Steps
  <1>1. Tables' /\ Grows /\ cursors' = cursors
    BY TablesSame DEF Timeout, Drop
  <1>2. PICK q \in {NoRequest, GivenUp(requests[d][dir])} :
           requests' = [requests EXCEPT ![d][dir] = q]
    BY DEF Timeout, Drop
  <1>3. ticks' = ticks \/ ticks' = [ticks EXCEPT ![d][dir] = "captures"]
    BY DEF Timeout, Drop, Loops
  <1>4. /\ Shaped
        /\ requests'[d][dir] = q /\ cursors'[d][dir] = cursors[d][dir]
        /\ LoopStep(d, dir) => \A e \in Devices, x \in Directions : LoopStep(e, x)
    BY <1>1, <1>2, <1>3, OneLoop DEF Feeds
  <1>5. Abandoned(d, dir)
    BY <1>4 DEF Abandoned
  <1>6. QED
    BY <1>1, <1>4, <1>5 DEF Steps, LoopStep

LEMMA SignOutSteps ==
    ASSUME Tables, Loops, NEW d \in Devices, SignOut(d)
    PROVE  Steps
  <1>1. Tables' /\ Grows
    BY TablesSame DEF SignOut
  <1>2. /\ requests \in [Devices -> [Directions -> Request]]
        /\ cursors \in [Devices -> [Directions -> [Feeds -> Nat]]]
        /\ ticks \in [Devices -> [Directions -> Feeds \cup {"waiting"}]]
    BY DEF Loops
  <1>3. /\ requests' = [requests EXCEPT ![d] = [dir \in Directions |-> GivenUp(requests[d][dir])]]
        /\ cursors' = [cursors EXCEPT ![d] = [dir \in Directions |-> [f \in Feeds |-> 0]]]
        /\ ticks' = [ticks EXCEPT ![d] = [dir \in Directions |-> "captures"]]
    BY <1>2 DEF SignOut
  <1>4. ASSUME NEW e \in Devices, NEW x \in Directions PROVE LoopStep(e, x)
    <2>1. CASE e = d
      BY <1>2, <1>3, <2>1 DEF LoopStep, Abandoned
    <2>2. CASE e # d
      BY <1>2, <1>3, <2>2 DEF LoopStep, Untouched
    <2>3. QED
      BY <2>1, <2>2
  <1>5. Shaped
    BY <1>2, <1>3 DEF Shaped, Feeds
  <1>6. QED
    BY <1>1, <1>4, <1>5 DEF Steps

LEMMA NextSteps ==
    ASSUME Tables, Loops, Next
    PROVE  Steps
  <1>1. CASE \E s \in Homes, c \in Captures :
                Make(s, c) \/ Approve(s, c) \/ Archive(s, c) \/ Delete(s, c)
    BY <1>1, UserSteps
  <1>2. CASE \E d \in Devices, dir \in Directions : Loop(d, dir)
    BY <1>2, FetchSteps, AnswerSteps, CheckSteps, IngestSteps, ApplySteps DEF Loop
  <1>3. CASE \E d \in Devices, dir \in Directions : Timeout(d, dir) \/ Drop(d, dir)
    BY <1>3, MishapSteps
  <1>4. CASE \E d \in Devices : SignOut(d)
    BY <1>4, SignOutSteps
  <1>5. QED
    BY <1>1, <1>2, <1>3, <1>4 DEF Next

LEMMA LoopsNext ==
    ASSUME Tables, Loops, Steps
    PROVE  Loops'
  <1>1. \A d \in Devices, dir \in Directions :
           /\ requests'[d][dir] \in Request /\ WellFormed(requests'[d][dir])
           /\ cursors'[d][dir] \in [Feeds -> Nat]
    BY LoopTypes DEF Steps
  <1>2. requests' \in [Devices -> [Directions -> Request]]
        /\ cursors' \in [Devices -> [Directions -> [Feeds -> Nat]]]
        /\ ticks' \in [Devices -> [Directions -> Feeds \cup {"waiting"}]]
    BY <1>1 DEF Steps, Shaped
  <1>3. QED
    BY <1>1, <1>2 DEF Loops, WellFormed

-----------------------------------------------------------------------------
(***************************************************************************)
(* What a loop owes                                                        *)
(***************************************************************************)

\* A loop that has come to n owes nothing, and to the end of the page r that it
\* has posted it owes what is left of the page.
SafeWith(d, dir, feed, n, r) ==
    /\ Head(From(d, dir), feed, n)
    /\ \A c \in Captures : Owed(From(d, dir), feed, c, n) => Paid(To(d, dir), feed, c)
    /\ r.feed = feed =>
          /\ Head(From(d, dir), feed, r.next)
          /\ \A c \in Captures :
                Owed(From(d, dir), feed, c, r.next) =>
                    Paid(To(d, dir), feed, c) \/ \E e \in r.items : e.capture = c

Safe ==
    \A d \in Devices, dir \in Directions, feed \in Feeds :
        SafeWith(d, dir, feed, cursors[d][dir][feed], requests[d][dir])

LEMMA GrowsOn ==
    ASSUME Tables, Grows, Tables',
           NEW s \in Stores, NEW feed \in Feeds, NEW n \in Nat, Head(s, feed, n)
    PROVE  /\ Head(s, feed, n)'
           /\ \A c \in Captures : Owed(s, feed, c, n)' => Owed(s, feed, c, n)
  <1>1. CASE feed = "captures"
    <2>1. high[s] \in Nat /\ high'[s] \in Nat
      BY DEF Tables
    <2>2. n <= high[s]
      BY <1>1 DEF Head
    <2>3. ASSUME NEW c \in Captures
          PROVE  Due(s, c, n)' => Due(s, c, n)
      BY <2>2 DEF Grows
    <2>4. \A c \in Captures : Owed(s, feed, c, n)' => Owed(s, feed, c, n)
      BY <1>1, <2>3 DEF Owed
    <2>5. high[s] <= high'[s]
      BY DEF Grows
    <2>6. Head(s, feed, n)'
      BY <1>1, <2>1, <2>2, <2>5 DEF Head
    <2>7. QED
      BY <2>4, <2>6
  <1>2. CASE feed = "deletions"
    <2>1. \A c \in Captures :
             /\ tombs[s][c] \in Nat /\ tombs'[s][c] \in Nat
             /\ \/ tombs'[s][c] = tombs[s][c]
                \/ tombs[s][c] = 0 /\ \A k \in Captures : tombs'[s][c] > tombs[s][k]
      BY DEF Tables, Grows
    <2>2. n = 0 \/ \E c \in Captures : n <= tombs[s][c]
      BY <1>2 DEF Head
    <2>3. n = 0 \/ \E c \in Captures : n <= tombs'[s][c]
      BY <2>1, <2>2
    <2>4. ASSUME NEW c \in Captures, tombs'[s][c] \in 1..n PROVE tombs[s][c] \in 1..n
      BY <2>1, <2>2, <2>4
    <2>5. QED
      BY <1>2, <2>3, <2>4 DEF Head, Owed
  <1>3. QED
    BY <1>1, <1>2 DEF Feeds

LEMMA PaidOn ==
    ASSUME Tables, Grows, NEW s \in Stores, NEW feed \in Feeds, NEW c \in Captures, Paid(s, feed, c)
    PROVE  Paid(s, feed, c)'
  <1>1. CASE feed = "captures"
    BY <1>1 DEF Paid, Grows
  <1>2. CASE feed = "deletions"
    BY <1>2 DEF Paid, Grows, Tables
  <1>3. QED
    BY <1>1, <1>2 DEF Feeds

\* What a loop owes does not grow by itself.
LEMMA SafeKept ==
    ASSUME Tables, Grows, Tables',
           NEW d \in Devices, NEW dir \in Directions, NEW feed \in Feeds,
           NEW n \in Nat, NEW r \in Request, SafeWith(d, dir, feed, n, r)
    PROVE  SafeWith(d, dir, feed, n, r)'
  <1> DEFINE s == From(d, dir)
             t == To(d, dir)
  <1>1. s \in Stores /\ t \in Stores /\ r.next \in Nat
    BY Constants DEF Request
  <1>2. /\ Head(s, feed, n)'
        /\ \A c \in Captures : Owed(s, feed, c, n)' => Paid(t, feed, c)'
    BY <1>1, GrowsOn, PaidOn DEF SafeWith
  <1>3. ASSUME r.feed = feed
        PROVE  /\ Head(s, feed, r.next)'
               /\ \A c \in Captures :
                     Owed(s, feed, c, r.next)' =>
                         Paid(t, feed, c)' \/ \E e \in r.items : e.capture = c
    BY <1>1, <1>3, GrowsOn, PaidOn DEF SafeWith
  <1>4. QED
    BY <1>2, <1>3 DEF SafeWith

\* A loop that begins anew owes nothing.
LEMMA NothingOwed ==
    ASSUME Tables, NEW s \in Stores, NEW feed \in Feeds
    PROVE  /\ Head(s, feed, 0)
           /\ \A c \in Captures : ~ Owed(s, feed, c, 0)
  BY DEF Head, Owed, Due, Tables

LEMMA SafeNext ==
    ASSUME Tables, Loops, Steps, Safe,
           NEW d \in Devices, NEW dir \in Directions, NEW feed \in Feeds
    PROVE  SafeWith(d, dir, feed, cursors[d][dir][feed], requests[d][dir])'
  <1>1. Tables' /\ Grows /\ LoopStep(d, dir)
    BY DEF Steps
  <1>2. PICK n \in Nat, r \in Request :
           n = cursors[d][dir][feed] /\ r = requests[d][dir]
    BY DEF Loops
  <1>3. PICK m \in Nat, q \in Request :
           m = cursors'[d][dir][feed] /\ q = requests'[d][dir]
    BY <1>1, LoopTypes
  <1>4. SafeWith(d, dir, feed, n, r) /\ SafeWith(d, dir, feed, n, r)'
    BY <1>1, <1>2, SafeKept DEF Safe
  <1>5. From(d, dir) \in Stores /\ To(d, dir) \in Stores
    BY Constants
  <1>6. /\ Head(From(d, dir), feed, 0)'
        /\ \A c \in Captures : ~ Owed(From(d, dir), feed, c, 0)'
    BY <1>1, <1>5 DEF Head, Owed, Due, Tables
  <1>7. SafeWith(d, dir, feed, m, q)'
    <2>1. CASE Untouched(d, dir)
      BY <1>2, <1>3, <1>4, <2>1 DEF Untouched
    <2>2. CASE Asked(d, dir)
      <3>1. m = n /\ q.feed = r.feed /\ q.next = r.next /\ q.items = r.items
        BY <1>2, <1>3, <2>2 DEF Asked, Request
      <3>2. QED
        BY <1>4, <3>1 DEF SafeWith
    <2>3. CASE Abandoned(d, dir)
      <3>1. m = n \/ m = 0
        BY <1>2, <1>3, <2>3 DEF Abandoned
      <3>2. q.next = 0
        BY <1>2, <1>3, <2>3, NoRequestType DEF Abandoned, GivenUp, Request
      <3>3. QED
        BY <1>4, <1>6, <3>1, <3>2 DEF SafeWith
    <2>4. CASE Worked(d, dir)
      <3>1. m = n /\ q = [r EXCEPT !.items = r.items \ {Next1(r)}, !.checked = FALSE]
        BY <1>2, <1>3, <2>4 DEF Worked
      <3>2. q.feed = r.feed /\ q.next = r.next /\ q.items = r.items \ {Next1(r)}
        BY <3>1 DEF Request
      <3>3. r.feed = feed => Paid(To(d, dir), feed, Next1(r).capture)'
        BY <1>2, <2>4 DEF Worked
      <3>4. QED
        BY <1>4, <3>1, <3>2, <3>3 DEF SafeWith
    <2>5. ASSUME NEW g \in Feeds, Posted(d, dir, g) PROVE SafeWith(d, dir, feed, m, q)'
      <3> DEFINE page == Page(From(d, dir), g, cursors[d][dir][g])
                 next == Above({e.seq : e \in page}) - 1
      <3>1. m = n /\ q.feed = g /\ q.items = page /\ q.next = next
        BY <1>2, <1>3, <2>5 DEF Posted
      <3>2. CASE g = feed
        <4>1. /\ next \in Nat /\ Head(From(d, dir), feed, next)
              /\ \A c \in Captures :
                    Owed(From(d, dir), feed, c, next) =>
                        Owed(From(d, dir), feed, c, n) \/ \E e \in page : e.capture = c
          BY <1>2, <1>5, <2>5, <3>2, PageOf DEF Posted
        <4> HIDE DEF page, next
        <4>2. SafeWith(d, dir, feed, n, q)
          BY <1>4, <3>1, <4>1 DEF SafeWith
        <4>3. QED
          BY <1>1, <3>1, <4>2, SafeKept
      <3>3. CASE g # feed
        BY <1>4, <3>1, <3>3 DEF SafeWith
      <3>4. QED
        BY <3>2, <3>3
    <2>6. CASE Answered(d, dir)
      <3>1. q.feed # feed
        BY <1>3, <2>6, NoRequestType DEF Answered, Feeds
      <3>2. CASE r.feed = feed
        <4>1. m = r.next /\ r.items = {}
          BY <1>2, <1>3, <2>6, <3>2 DEF Answered, Loops
        <4>2. QED
          BY <1>4, <3>1, <3>2, <4>1 DEF SafeWith
      <3>3. CASE r.feed # feed
        <4>1. m = n
          BY <1>2, <1>3, <2>6, <3>3 DEF Answered, Loops
        <4>2. QED
          BY <1>4, <3>1, <4>1 DEF SafeWith
      <3>4. QED
        BY <3>2, <3>3
    <2>7. QED
      BY <1>1, <2>1, <2>2, <2>3, <2>4, <2>5, <2>6 DEF LoopStep
  <1>8. QED
    BY <1>3, <1>7 DEF SafeWith, Head, Owed, Paid, Due, Arrived

-----------------------------------------------------------------------------
(***************************************************************************)
(* What needs a review                                                     *)
(***************************************************************************)

\* An approval that is under way was given somewhere.
GateInFlight ==
    \A d \in Devices, dir \in Directions : \A e \in requests[d][dir].items :
        e.review = "approved" => \E t \in Stores : <<t, e.capture>> \in approved

Gate == GateHolds /\ GateInFlight

\* approved only grows, and what is approved anew is in it.
Decides ==
    /\ approved \subseteq approved'
    /\ \A s \in Stores, c \in Captures :
          rows'[s][c].seq > 0 /\ rows'[s][c].review = "approved" =>
              \/ rows[s][c].seq > 0 /\ rows[s][c].review = "approved"
              \/ <<s, c>> \in approved'
              \/ /\ s \notin Gated
                 /\ \E t \in Stores : <<t, c>> \in approved

LEMMA GateTables ==
    ASSUME GateHolds, Decides
    PROVE  GateHolds'
  BY Constants DEF GateHolds, Decides

LEMMA GateUser ==
    ASSUME Tables, NEW s \in Homes, NEW c \in Captures,
           Make(s, c) \/ Approve(s, c) \/ Archive(s, c) \/ Delete(s, c)
    PROVE  Decides
  <1>1. s \in Stores /\ rows \in [Stores -> [Captures -> Row]] /\ NoRow.seq = 0
    BY Constants DEF Tables
  <1>2. PICK made :
                   /\ rows' = [rows EXCEPT ![s][c] = made]
                   /\ approved \subseteq approved'
                   /\ made.review = "approved" => made.seq = 0 \/ <<s, c>> \in approved'
    <2>1. CASE Make(s, c)
      <3>1. PICK review \in {"pending", "approved"} :
               /\ Upsert(s, c, review)
               /\ approved \subseteq approved'
               /\ review = "approved" => <<s, c>> \in approved'
        BY <2>1 DEF Make
      <3>2. PICK seq : rows' = [rows EXCEPT ![s][c] = [seq |-> seq, review |-> review]]
        BY <3>1 DEF Upsert
      <3>3. [seq |-> seq, review |-> review].review = review
        OBVIOUS
      <3>4. QED
        BY <3>1, <3>2, <3>3
    <2>2. CASE Approve(s, c)
      <3>1. rows' = [rows EXCEPT ![s][c] = [@ EXCEPT !.review = "approved"]]
        BY <2>2 DEF Approve
      <3>2. QED
        BY <2>2, <3>1 DEF Approve
    <2>3. CASE Archive(s, c)
      <3>1. rows' = [rows EXCEPT ![s][c] = [@ EXCEPT !.review = "archived"]]
        BY <2>3 DEF Archive
      <3>2. rows[s][c] \in Row
        BY <1>1
      <3>3. [rows[s][c] EXCEPT !.review = "archived"].review = "archived"
        BY <3>2 DEF Row
      <3>4. QED
        BY <2>3, <3>1, <3>3 DEF Archive
    <2>4. CASE Delete(s, c)
      BY <1>1, <2>4 DEF Delete, Remove
    <2>5. QED
      BY <2>1, <2>2, <2>3, <2>4
  <1>3. ASSUME NEW t \in Stores, NEW k \in Captures,
               rows'[t][k].seq > 0, rows'[t][k].review = "approved"
        PROVE  \/ rows[t][k].seq > 0 /\ rows[t][k].review = "approved"
               \/ <<t, k>> \in approved'
    <2>1. CASE t = s /\ k = c
      <3>1. rows'[t][k] = made
        BY <1>1, <1>2, <2>1
      <3>2. QED
        BY <1>2, <1>3, <2>1, <3>1
    <2>2. CASE ~ (t = s /\ k = c)
      <3>1. rows'[t][k] = rows[t][k]
        BY <1>1, <1>2, <2>2
      <3>2. QED
        BY <1>3, <3>1
    <2>3. QED
      BY <2>1, <2>2
  <1>4. QED
    BY <1>2, <1>3 DEF Decides

LEMMA GateIngest ==
    ASSUME Tables, Loops, Gate, NEW d \in Devices, NEW dir \in Directions, Ingest(d, dir)
    PROVE  Decides
  <1> DEFINE s == To(d, dir)
  <1>1. requests[d][dir] \in Request /\ requests[d][dir].items # {}
    BY DEF Loops, WellFormed, Ingest
  <1>2. PICK item : item = Next1(requests[d][dir])
    OBVIOUS
  <1>3. /\ s \in Stores /\ item \in requests[d][dir].items
        /\ item.capture \in Captures
    BY <1>1, <1>2, NextItem, Constants DEF Request, Item
  <1>4. item.review = "approved" => \E t \in Stores : <<t, item.capture>> \in approved
    BY <1>3 DEF Gate, GateInFlight
  <1>5. PICK review : review = Ingested(s, item)
    OBVIOUS
  <1>6. review = "approved" =>
           \/ rows[s][item.capture].seq > 0 /\ rows[s][item.capture].review = "approved"
           \/ s \notin Gated /\ item.review = "approved"
    BY <1>5 DEF Ingested
  <1>7. /\ Upsert(s, item.capture, review) /\ approved' = approved
        /\ rows \in [Stores -> [Captures -> Row]]
    BY <1>2, <1>5 DEF Ingest, Tables
  <1>8. /\ rows'[s][item.capture].review = review
        /\ \A t \in Stores, k \in Captures : t # s \/ k # item.capture => rows'[t][k] = rows[t][k]
    BY <1>3, <1>7 DEF Upsert
  <1>9. QED
    BY <1>4, <1>6, <1>7, <1>8 DEF Decides

LEMMA GateNext ==
    ASSUME Tables, Loops, Gate, Next
    PROVE  Decides
  <1>1. CASE \E s \in Homes, c \in Captures :
                Make(s, c) \/ Approve(s, c) \/ Archive(s, c) \/ Delete(s, c)
    BY <1>1, GateUser
  <1>2. CASE \E d \in Devices, dir \in Directions : Ingest(d, dir)
    BY <1>2, GateIngest
  <1>3. CASE \E d \in Devices, dir \in Directions : ApplyDeletion(d, dir)
    <2>1. PICK d \in Devices, dir \in Directions : ApplyDeletion(d, dir)
      BY <1>3
    <2>2. PICK c : c = Next1(requests[d][dir]).capture
      OBVIOUS
    <2>3. rows' = [rows EXCEPT ![To(d, dir)][c] = NoRow] /\ approved' = approved
      BY <2>1, <2>2 DEF ApplyDeletion, Remove
    <2>4. QED
      BY <2>3, Constants DEF Decides, Tables, Row
  <1>4. CASE \E d \in Devices :
                \/ SignOut(d)
                \/ \E dir \in Directions :
                      \/ \E feed \in Feeds : Fetch(d, dir, feed)
                      \/ Answer(d, dir) \/ Check(d, dir) \/ Timeout(d, dir) \/ Drop(d, dir)
    <2>1. rows' = rows /\ approved' = approved
      <3>1. PICK d \in Devices :
               \/ SignOut(d)
               \/ \E dir \in Directions :
                     \/ \E feed \in Feeds : Fetch(d, dir, feed)
                     \/ Answer(d, dir) \/ Check(d, dir) \/ Timeout(d, dir) \/ Drop(d, dir)
        BY <1>4
      <3>2. ASSUME NEW dir \in Directions, NEW feed \in Feeds, Fetch(d, dir, feed)
            PROVE  rows' = rows /\ approved' = approved
        BY <3>2 DEF Fetch
      <3>3. ASSUME NEW dir \in Directions,
                   Answer(d, dir) \/ Check(d, dir) \/ Timeout(d, dir) \/ Drop(d, dir)
            PROVE  rows' = rows /\ approved' = approved
        BY <3>3 DEF Answer, Check, Timeout, Drop
      <3>4. QED
        BY <3>1, <3>2, <3>3 DEF SignOut
    <2>2. QED
      BY <2>1 DEF Decides
  <1>5. QED
    BY <1>1, <1>2, <1>3, <1>4 DEF Next, Loop

LEMMA GateInFlightNext ==
    ASSUME Tables, Loops, Gate, Steps, Decides
    PROVE  GateInFlight'
  <1> SUFFICES ASSUME NEW d \in Devices, NEW dir \in Directions, NEW e \in requests'[d][dir].items,
                      e.review = "approved"
               PROVE  \E t \in Stores : <<t, e.capture>> \in approved
    BY DEF GateInFlight, Decides
  <1>1. requests[d][dir] \in Request /\ LoopStep(d, dir)
    BY DEF Loops, Steps
  <1>2. CASE e \in requests[d][dir].items
    BY <1>2 DEF Gate, GateInFlight
  <1>3. ASSUME NEW feed \in Feeds, Posted(d, dir, feed)
        PROVE  \E t \in Stores : <<t, e.capture>> \in approved
    <2> DEFINE s == From(d, dir)
    <2>1. e \in Entries(s, feed) /\ s \in Stores
      BY <1>3, Constants DEF Posted, Page
    <2>2. /\ e.capture \in Captures /\ feed = "captures"
          /\ rows[s][e.capture].seq > 0 /\ rows[s][e.capture].review = "approved"
      BY <2>1 DEF Entries
    <2>3. QED
      BY <2>1, <2>2, Constants DEF Gate, GateHolds
  <1>4. CASE e \notin requests[d][dir].items /\ ~ \E feed \in Feeds : Posted(d, dir, feed)
    <2>1. CASE Untouched(d, dir) \/ Asked(d, dir) \/ Worked(d, dir)
      BY <1>1, <1>4, <2>1 DEF Untouched, Asked, Worked, Request
    <2>2. CASE Abandoned(d, dir)
      BY <1>1, <1>4, <2>2, NoRequestType DEF Abandoned, GivenUp, Request
    <2>3. CASE Answered(d, dir)
      BY <2>3, NoRequestType DEF Answered
    <2>4. QED
      BY <1>1, <1>4, <2>1, <2>2, <2>3 DEF LoopStep
  <1>5. QED
    BY <1>2, <1>3, <1>4

-----------------------------------------------------------------------------
(***************************************************************************)
(* The theorems                                                            *)
(***************************************************************************)
Counted ==
    /\ born \subseteq Captures
    /\ approved \subseteq Stores \X Captures
    /\ mishaps \in 0..MaxMishaps

LEMMA CountedNext ==
    ASSUME Counted, Next
    PROVE  Counted'
  <1>1. ASSUME NEW s \in Homes, NEW c \in Captures,
               Make(s, c) \/ Approve(s, c) \/ Archive(s, c) \/ Delete(s, c)
        PROVE  Counted'
    <2>1. s \in Stores
      BY Constants
    <2>2. QED
      BY <1>1, <2>1 DEF Counted, Make, Approve, Archive, Delete
  <1>2. ASSUME NEW d \in Devices, NEW dir \in Directions, Loop(d, dir)
        PROVE  Counted'
    BY <1>2 DEF Counted, Loop, Fetch, Answer, Check, Ingest, ApplyDeletion
  <1>3. ASSUME NEW d \in Devices,
               SignOut(d) \/ \E dir \in Directions : Timeout(d, dir) \/ Drop(d, dir)
        PROVE  Counted'
    BY <1>3, Constants DEF Counted, Timeout, Drop, SignOut
  <1>4. QED
    BY <1>1, <1>2, <1>3 DEF Next

IInv == Tables /\ Loops /\ Counted /\ Safe /\ Gate

\* The inductive invariant: the tables, the loops, what a loop owes to the other
\* store, and where an approval under way was given.
THEOREM InvCorrect == Spec => []IInv
  <1>1. Init => IInv
    <2> SUFFICES ASSUME Init PROVE IInv
      OBVIOUS
    <2>1. Tables
      <3>1. \A s \in Stores, c \in Captures : rows[s][c].seq = 0 /\ tombs[s][c] = 0 /\ high[s] = 0
        BY Constants DEF Init
      <3>2. Bounded
        BY <3>1 DEF Bounded
      <3>3. QED
        BY <3>1, <3>2, Constants DEF Init, Tables
    <2>2. Loops
      BY NoRequestType DEF Init, Loops, Feeds
    <2>3. Counted
      BY Constants DEF Init, Counted
    <2>4. Safe
      BY <2>1, NoRequestType, NothingOwed, Constants DEF Init, Safe, SafeWith, Feeds
    <2>5. Gate
      BY NoRequestType, Constants DEF Init, Gate, GateHolds, GateInFlight
    <2>6. QED
      BY <2>1, <2>2, <2>3, <2>4, <2>5 DEF IInv
  <1>2. IInv /\ [Next]_vars => IInv'
    <2> SUFFICES ASSUME IInv, [Next]_vars PROVE IInv'
      OBVIOUS
    <2>1. CASE Next
      <3>1. Steps
        BY <2>1, NextSteps DEF IInv
      <3>2. Tables' /\ Loops'
        BY <3>1, LoopsNext DEF IInv, Steps
      <3>3. Safe'
        BY <3>1, SafeNext DEF IInv, Safe
      <3>4. Decides
        BY <2>1, GateNext DEF IInv
      <3>5. Gate'
        BY <3>1, <3>4, GateTables, GateInFlightNext DEF IInv, Gate
      <3>6. Counted'
        BY <2>1, CountedNext DEF IInv
      <3>7. QED
        BY <3>2, <3>3, <3>5, <3>6 DEF IInv
    <2>2. CASE UNCHANGED vars
      <3>1. Tables' /\ Loops' /\ Counted'
        BY <2>2 DEF vars, IInv, Tables, Bounded, Loops, Counted
      <3>2. Safe'
        BY <2>2 DEF vars, IInv, Safe, SafeWith, Head, Owed, Due, Paid, Arrived
      <3>3. Gate'
        BY <2>2 DEF vars, IInv, Gate, GateHolds, GateInFlight
      <3>4. QED
        BY <3>1, <3>2, <3>3 DEF IInv
    <2>3. QED
      BY <2>1, <2>2
  <1>3. QED
    BY <1>1, <1>2, PTL DEF Spec

\* Types, and one row for a rowid and for a seq.
THEOREM TypeCorrect == Spec => []TypeOK
  <1>1. IInv => TypeOK
    BY DEF IInv, Tables, Loops, Counted, TypeOK
  <1>2. QED
    BY <1>1, InvCorrect, PTL

\* A capture behind the cursor of a loop is in the other store, or has been
\* deleted there, unless it entered the feed behind its head.
THEOREM NoCaptureSkipped == Spec => []CapturesNotSkipped
  <1>1. IInv => CapturesNotSkipped
    BY DEF IInv, Safe, SafeWith, Owed, Due, Paid, CapturesNotSkipped, Behind, Feeds
  <1>2. QED
    BY <1>1, InvCorrect, PTL

\* A deletion behind the cursor of a loop is recorded in the other store.
THEOREM NoDeletionSkipped == Spec => []DeletionsNotSkipped
  <1>1. IInv => DeletionsNotSkipped
    BY DEF IInv, Safe, SafeWith, Owed, Paid, DeletionsNotSkipped, Feeds
  <1>2. QED
    BY <1>1, InvCorrect, PTL

\* No connector bypasses a review policy: a capture is approved in a store with
\* such a policy only by a decision taken there, and elsewhere by one taken
\* somewhere.
THEOREM ReviewRespected == Spec => []GateHolds
  <1>1. IInv => GateHolds
    BY DEF IInv, Gate
  <1>2. QED
    BY <1>1, InvCorrect, PTL

-----------------------------------------------------------------------------
(***************************************************************************)
(* The keyring                                                             *)
(***************************************************************************)
\* A call that is going to count a write has a key.
HoldsKey == \A p \in Procs : work[p].phase = "count" => work[p].key # NoKey

\* What a process may take for the key of version v as long as the user's keys
\* are not destroyed.
Genuine(w, l, v, k) == k = NoKey \/ k = w[v] \/ k \in l

Holders ==
    ~row.destroyed => \A p \in Procs :
        /\ \A v \in Version : Genuine(wraps, lost, v, cache[p][v])
        /\ work[p].phase = "count" => Genuine(wraps, lost, work[p].version, work[p].key)

Blobs == ~row.destroyed => \A blob \in sealed : Genuine(wraps, lost, blob[1], blob[2])

\* Nobody can mint under a tombstone but who was about to when it was made.
Tombstone ==
    /\ shredded => row.destroyed
    /\ row.destroyed /\ ~minting =>
          /\ \A v \in Version : wraps[v] = NoKey
          /\ \A p \in Procs : work[p].phase # "mint"

\* As long as nobody overlaps, the one that encrypts knows the row, and the row
\* counts all that was written under its version.
Alone == \A p, q \in Procs : Encrypting(p) /\ Encrypting(q) => p = q
Knows(p) ==
    /\ work[p].phase = "mint" => work[p].version = row.version + 1
    /\ work[p].phase \in {"key", "count"} =>
          work[p].version = row.version /\ work[p].count = row.count /\ row.count < Budget
WritesCounted ==
    /\ row.count <= Budget
    /\ \A v \in Version : /\ written[v] <= Budget
                          /\ v = row.version => written[v] <= row.count
                          /\ v > row.version => written[v] = 0
InOrder == ~overlapped => Alone /\ WritesCounted /\ \A p \in Procs : Knows(p)

KeyringInv == KeyringTypeOK /\ HoldsKey /\ Holders /\ Blobs /\ Tombstone /\ InOrder

-----------------------------------------------------------------------------
Call == [phase : {"idle", "mint", "key", "count", "open"}, version : 0 .. MaxVersion,
         count : Nat, key : Key \cup {NoKey}, fresh : BOOLEAN]

LEMMA IdleCall == Idle \in Call
  BY KeyringAssumption DEF Idle, Call, Key, NoKey

LEMMA InitType == KeyringInit => KeyringTypeOK
  <1> SUFFICES ASSUME KeyringInit PROVE KeyringTypeOK
    OBVIOUS
  <1>1. Idle \in Call
    BY IdleCall
  <1>2. work \in [Procs -> Call] /\ \A p \in Procs : work[p].phase = "idle"
    BY <1>1 DEF KeyringInit, Idle
  <1>3. row \in [exists : BOOLEAN, version : 0 .. MaxVersion, count : Nat, destroyed : BOOLEAN]
    BY KeyringAssumption DEF KeyringInit, NoUser
  <1>4. wraps \in [Version -> Key \cup {NoKey}] /\ cache \in [Procs -> [Version -> Key \cup {NoKey}]]
    BY DEF KeyringInit
  <1>5. sealed \subseteq Version \X Key /\ written \in [Version -> Nat] /\ lost \subseteq 1 .. drawn
    BY DEF KeyringInit
  <1>6. drawn \in 0 .. MaxKeys /\ faults \in 0 .. MaxFaults
    BY KeyringAssumption DEF KeyringInit
  <1> QED
    BY <1>2, <1>3, <1>4, <1>5, <1>6 DEF KeyringInit, KeyringTypeOK, Call

LEMMA InitInv == KeyringInit => KeyringInv
  <1> SUFFICES ASSUME KeyringInit PROVE KeyringInv
    OBVIOUS
  <1>1. KeyringTypeOK
    BY InitType
  <1>2. HoldsKey /\ Holders /\ Blobs /\ Tombstone
    BY DEF KeyringInit, HoldsKey, Holders, Blobs, Tombstone, Genuine, NoUser, Idle
  <1>3. InOrder
    BY KeyringAssumption DEF KeyringInit, InOrder, Alone, WritesCounted, Knows, Encrypting, NoUser, Idle, Version
  <1> QED
    BY <1>1, <1>2, <1>3 DEF KeyringInv

-----------------------------------------------------------------------------
(***************************************************************************)
(* Types                                                                   *)
(***************************************************************************)
\* The call that has ended, in any state of the others.
LEMMA EndType ==
  ASSUME KeyringTypeOK, NEW p \in Procs, End(p)
  PROVE  /\ work' \in [Procs -> Call]
         /\ \A q \in Procs : work'[q].phase # "idle" => work'[q].version \in Version
  BY IdleCall DEF KeyringTypeOK, End, Idle, Call

LEMMA CachedType ==
  ASSUME KeyringTypeOK, NEW p \in Procs, NEW v \in Version, NEW k \in Key \cup {NoKey}, Cached(p, v, k)
  PROVE  cache' \in [Procs -> [Version -> Key \cup {NoKey}]]
  BY DEF KeyringTypeOK, Cached

LEMMA FetchedType ==
  ASSUME KeyringTypeOK, NEW p \in Procs, NEW v \in Version
  PROVE  Fetched(p, v) \in Key \cup {NoKey}
  BY DEF KeyringTypeOK, Fetched

LEMMA SealType ==
  ASSUME KeyringTypeOK, NEW v \in Version, NEW k \in Key, Seal(v, k)
  PROVE  sealed' \subseteq Version \X Key /\ written' \in [Version -> Nat]
  BY DEF KeyringTypeOK, Seal

LEMMA TypeStep ==
  ASSUME KeyringTypeOK, HoldsKey, [KeyringNext]_keyringVars
  PROVE  KeyringTypeOK'
  <1> USE KeyringAssumption
  <1>1. ASSUME NEW p \in Procs, EncryptRead(p)
        PROVE  KeyringTypeOK'
    <2> DEFINE mints == ~row.exists \/ Exhausted(row.count)
               version == IF mints THEN row.version + 1 ELSE row.version
               call == [phase |-> IF mints THEN "mint" ELSE "key", version |-> version,
                        count |-> IF mints THEN 0 ELSE row.count, key |-> NoKey,
                        fresh |-> ~row.exists]
    <2>1. version \in Version /\ work' = [work EXCEPT ![p] = call]
      BY <1>1 DEF EncryptRead, Begin
    <2>2. call \in Call
      BY <2>1 DEF KeyringTypeOK, Call, Version
    <2>3. /\ work' \in [Procs -> Call]
          /\ \A q \in Procs : work'[q].phase # "idle" => work'[q].version \in Version
      BY <2>1, <2>2 DEF KeyringTypeOK, Call
    <2> HIDE DEF mints, version, call
    <2> QED
      BY <1>1, <2>3 DEF EncryptRead, KeyringTypeOK, Call, database, blobs
  <1>2. ASSUME NEW p \in Procs, Mint(p)
        PROVE  KeyringTypeOK'
    <2> DEFINE v == work[p].version
               k == drawn + 1
    <2>1. v \in Version /\ k \in Key /\ drawn \in Nat
      BY <1>2 DEF Mint, KeyringTypeOK, Key
    <2>2. cache' \in [Procs -> [Version -> Key \cup {NoKey}]]
      BY <1>2, <2>1, CachedType DEF Mint
    <2>3. sealed' \subseteq Version \X Key /\ written' \in [Version -> Nat]
      BY <1>2, <2>1, SealType DEF Mint
    <2>4. /\ work' \in [Procs -> Call]
          /\ \A q \in Procs : work'[q].phase # "idle" => work'[q].version \in Version
      BY <1>2, EndType DEF Mint
    <2>5. row' \in [exists : BOOLEAN, version : 0 .. MaxVersion, count : Nat, destroyed : BOOLEAN]
      BY <1>2, <2>1 DEF Mint, KeyringTypeOK, Version
    <2>6. wraps' \in [Version -> Key \cup {NoKey}] /\ drawn' \in 0 .. MaxKeys
      BY <1>2, <2>1 DEF Mint, KeyringTypeOK, Key
    <2>7. lost' \subseteq 1 .. drawn'
      BY <1>2, <2>1 DEF Mint, KeyringTypeOK, past
    <2> QED
      BY <1>2, <2>2, <2>3, <2>4, <2>5, <2>6, <2>7 DEF Mint, KeyringTypeOK, Call, past
  <1>3. ASSUME NEW p \in Procs, MintConflict(p)
        PROVE  KeyringTypeOK'
    BY <1>3, EndType DEF MintConflict, KeyringTypeOK, Call, database, blobs, past
  <1>4. ASSUME NEW p \in Procs, MintRolledBack(p)
        PROVE  KeyringTypeOK'
    <2> DEFINE v == work[p].version
               k == drawn + 1
    <2>1. v \in Version /\ k \in Key /\ drawn \in Nat
      BY <1>4 DEF MintRolledBack, KeyringTypeOK, Key
    <2>2. cache' \in [Procs -> [Version -> Key \cup {NoKey}]]
      BY <1>4, <2>1, CachedType DEF MintRolledBack
    <2>3. /\ work' \in [Procs -> Call]
          /\ \A q \in Procs : work'[q].phase # "idle" => work'[q].version \in Version
      BY <1>4, EndType DEF MintRolledBack
    <2>4. drawn' \in 0 .. MaxKeys /\ lost' \subseteq 1 .. drawn'
      BY <1>4, <2>1 DEF MintRolledBack, KeyringTypeOK, Key
    <2>5. faults' \in 0 .. MaxFaults
      BY <1>4 DEF MintRolledBack, KeyringTypeOK
    <2> QED
      BY <1>4, <2>2, <2>3, <2>4, <2>5 DEF MintRolledBack, KeyringTypeOK, Call, database, blobs
  <1>5. ASSUME NEW p \in Procs, EncryptKey(p)
        PROVE  KeyringTypeOK'
    <2> DEFINE v == work[p].version
               k == Fetched(p, v)
    <2>1. v \in Version
      BY <1>5 DEF EncryptKey, KeyringTypeOK
    <2>2. k \in Key \cup {NoKey}
      BY <2>1, FetchedType
    <2>3. cache' \in [Procs -> [Version -> Key \cup {NoKey}]]
      BY <1>5, <2>1, <2>2, CachedType DEF EncryptKey
    <2>4. /\ work' \in [Procs -> Call]
          /\ \A q \in Procs : work'[q].phase # "idle" => work'[q].version \in Version
      <3>1. CASE k = NoKey
        BY <1>5, <3>1, EndType DEF EncryptKey
      <3>2. CASE k # NoKey
        <4> DEFINE call == [work[p] EXCEPT !.phase = "count", !.key = k]
        <4>1. work' = [work EXCEPT ![p] = call]
          BY <1>5, <3>2 DEF EncryptKey, KeyringTypeOK
        <4>2. call.version = work[p].version
          BY DEF KeyringTypeOK
        <4>3. call \in Call
          BY <2>2 DEF KeyringTypeOK, Call
        <4> HIDE DEF call
        <4> QED
          BY <4>1, <4>2, <4>3, <2>1 DEF KeyringTypeOK, Call
      <3> QED
        BY <3>1, <3>2
    <2> QED
      BY <1>5, <2>3, <2>4 DEF EncryptKey, KeyringTypeOK, Call, database, blobs, past
  <1>6. ASSUME NEW p \in Procs, EncryptCount(p)
        PROVE  KeyringTypeOK'
    <2>1. work[p].version \in Version /\ work[p].key \in Key
      BY <1>6 DEF EncryptCount, KeyringTypeOK, HoldsKey
    <2>2. sealed' \subseteq Version \X Key /\ written' \in [Version -> Nat]
      BY <1>6, <2>1, SealType DEF EncryptCount
    <2>3. /\ work' \in [Procs -> Call]
          /\ \A q \in Procs : work'[q].phase # "idle" => work'[q].version \in Version
      BY <1>6, EndType DEF EncryptCount
    <2>4. row' \in [exists : BOOLEAN, version : 0 .. MaxVersion, count : Nat, destroyed : BOOLEAN]
      BY <1>6 DEF EncryptCount, KeyringTypeOK
    <2> QED
      BY <1>6, <2>2, <2>3, <2>4 DEF EncryptCount, KeyringTypeOK, Call, past
  <1>7. ASSUME NEW p \in Procs, NEW v \in Version, DecryptRead(p, v)
        PROVE  KeyringTypeOK'
    <2> DEFINE call == [phase |-> "open", version |-> v, count |-> 0, key |-> NoKey,
                        fresh |-> FALSE]
    <2>1. v \in 0 .. MaxVersion
      BY DEF Version
    <2>2. call \in Call /\ call.version = v
      BY <2>1 DEF Call
    <2>3. work' = [work EXCEPT ![p] = call]
      BY <1>7 DEF DecryptRead, Begin
    <2> HIDE DEF call
    <2>4. /\ work' \in [Procs -> Call]
          /\ \A q \in Procs : work'[q].phase # "idle" => work'[q].version \in Version
      BY <2>2, <2>3 DEF KeyringTypeOK, Call
    <2> QED
      BY <1>7, <2>4 DEF DecryptRead, KeyringTypeOK, Call, database, blobs, past
  <1>8. ASSUME NEW p \in Procs, DecryptKey(p)
        PROVE  KeyringTypeOK'
    <2>1. work[p].version \in Version
      BY <1>8 DEF DecryptKey, KeyringTypeOK
    <2>2. cache' \in [Procs -> [Version -> Key \cup {NoKey}]]
      BY <1>8, <2>1, FetchedType, CachedType DEF DecryptKey
    <2> QED
      BY <1>8, <2>2, EndType DEF DecryptKey, KeyringTypeOK, Call, database, blobs, past
  <1>9. ASSUME NEW p \in Procs, Shred(p)
        PROVE  KeyringTypeOK'
    BY <1>9 DEF Shred, KeyringTypeOK, blobs
  <1>10. ASSUME NEW p \in Procs, NEW v \in Version, Evict(p, v)
         PROVE  KeyringTypeOK'
    BY <1>10, CachedType DEF Evict, KeyringTypeOK, database, blobs, past
  <1>11. ASSUME NEW p \in Procs, Abort(p)
         PROVE  KeyringTypeOK'
    BY <1>11, EndType DEF Abort, KeyringTypeOK, Call, database, blobs, past
  <1>12. ASSUME NEW p \in Procs, Restart(p)
         PROVE  KeyringTypeOK'
    BY <1>12, EndType DEF Restart, KeyringTypeOK, Call, database, blobs, past
  <1>13. ASSUME UNCHANGED keyringVars
         PROVE  KeyringTypeOK'
    BY <1>13 DEF keyringVars, KeyringTypeOK
  <1> QED
    BY <1>1, <1>2, <1>3, <1>4, <1>5, <1>6, <1>7, <1>8, <1>9, <1>10, <1>11, <1>12, <1>13
    DEF KeyringNext, HoldsKey

-----------------------------------------------------------------------------
(***************************************************************************)
(* What a process holds is the key of its version                          *)
(***************************************************************************)
LEMMA HoldsKeyStep ==
  ASSUME KeyringTypeOK, HoldsKey, [KeyringNext]_keyringVars
  PROVE  HoldsKey'
  <1>1. ASSUME NEW p \in Procs, End(p)
        PROVE  HoldsKey'
    BY <1>1 DEF End, Idle, HoldsKey, KeyringTypeOK
  <1>2. ASSUME NEW p \in Procs, NEW call, work' = [work EXCEPT ![p] = call], call.phase # "count"
        PROVE  HoldsKey'
    BY <1>2 DEF HoldsKey, KeyringTypeOK
  <1>3. ASSUME NEW p \in Procs, EncryptRead(p)
        PROVE  HoldsKey'
    <2> DEFINE mints == ~row.exists \/ Exhausted(row.count)
               call == [phase |-> IF mints THEN "mint" ELSE "key",
                        version |-> IF mints THEN row.version + 1 ELSE row.version,
                        count |-> IF mints THEN 0 ELSE row.count, key |-> NoKey,
                        fresh |-> ~row.exists]
    <2>1. work' = [work EXCEPT ![p] = call]
      BY <1>3 DEF EncryptRead, Begin
    <2>2. call.phase # "count"
      OBVIOUS
    <2> HIDE DEF call
    <2> QED
      BY <2>1, <2>2, <1>2
  <1>4. ASSUME NEW p \in Procs, EncryptKey(p)
        PROVE  HoldsKey'
    <2> DEFINE k == Fetched(p, work[p].version)
    <2>1. CASE k = NoKey
      BY <1>1, <1>4, <2>1 DEF EncryptKey
    <2>2. CASE k # NoKey
      <3>1. work' = [work EXCEPT ![p].phase = "count", ![p].key = k]
        BY <1>4, <2>2 DEF EncryptKey
      <3> HIDE DEF k
      <3> QED
        BY <3>1, <2>2 DEF HoldsKey, KeyringTypeOK
    <2> QED
      BY <2>1, <2>2
  <1>5. ASSUME NEW p \in Procs, NEW v \in Version, DecryptRead(p, v)
        PROVE  HoldsKey'
    BY <1>5 DEF DecryptRead, Begin, Idle, HoldsKey, KeyringTypeOK
  <1>6. ASSUME NEW p \in Procs, Shred(p) \/ \E v \in Version : Evict(p, v)
        PROVE  HoldsKey'
    BY <1>6 DEF Shred, Evict, HoldsKey
  <1>7. ASSUME UNCHANGED keyringVars
        PROVE  HoldsKey'
    BY <1>7 DEF keyringVars, HoldsKey
  <1> QED
    BY <1>1, <1>3, <1>4, <1>5, <1>6, <1>7
    DEF KeyringNext, Mint, MintConflict, MintRolledBack, EncryptCount, DecryptKey, Abort, Restart

\* As long as the user's keys are not destroyed, a wrap stays what it is.
LEMMA WrapsStay ==
  ASSUME KeyringTypeOK, [KeyringNext]_keyringVars, ~row.destroyed'
  PROVE  /\ ~row.destroyed /\ lost \subseteq lost'
         /\ \A v \in Version : wraps[v] # NoKey => wraps'[v] = wraps[v]
  <1>1. ASSUME NEW p \in Procs, Mint(p)
        PROVE  /\ ~row.destroyed /\ lost \subseteq lost'
               /\ \A v \in Version : wraps[v] # NoKey => wraps'[v] = wraps[v]
    <2> DEFINE u == work[p].version
    <2>1. wraps[u] = NoKey /\ wraps' = [wraps EXCEPT ![u] = drawn + 1] /\ lost' = lost
      BY <1>1 DEF Mint, Fits, past
    <2>2. row'.destroyed = row.destroyed
      BY <1>1 DEF Mint, KeyringTypeOK
    <2> HIDE DEF u
    <2> QED
      BY <2>1, <2>2 DEF KeyringTypeOK
  <1>2. ASSUME NEW p \in Procs, MintRolledBack(p)
        PROVE  row' = row /\ lost \subseteq lost' /\ wraps' = wraps
    BY <1>2 DEF MintRolledBack, database
  <1>3. ASSUME NEW p \in Procs, EncryptCount(p)
        PROVE  row'.destroyed = row.destroyed /\ lost' = lost /\ wraps' = wraps
    BY <1>3 DEF EncryptCount, past, KeyringTypeOK
  <1>4. ASSUME NEW p \in Procs, Shred(p)
        PROVE  row'.destroyed
    BY <1>4 DEF Shred, KeyringTypeOK
  <1>5. ASSUME NEW p \in Procs, NEW v \in Version, DecryptRead(p, v) \/ Evict(p, v)
        PROVE  row' = row /\ lost' = lost /\ wraps' = wraps
    BY <1>5 DEF DecryptRead, Evict, database, past
  <1>6. ASSUME NEW p \in Procs, EncryptRead(p) \/ MintConflict(p) \/ EncryptKey(p)
               \/ DecryptKey(p) \/ Abort(p) \/ Restart(p)
        PROVE  row' = row /\ lost' = lost /\ wraps' = wraps
    BY <1>6 DEF EncryptRead, MintConflict, EncryptKey, DecryptKey, Abort, Restart, database, past
  <1>7. ASSUME UNCHANGED keyringVars
        PROVE  row' = row /\ lost' = lost /\ wraps' = wraps
    BY <1>7 DEF keyringVars
  <1> QED
    BY <1>1, <1>2, <1>3, <1>4, <1>5, <1>6, <1>7 DEF KeyringNext

LEMMA GenuineStays ==
  ASSUME NEW v \in Version, NEW k, NEW w, NEW ww, NEW l, NEW ll,
         l \subseteq ll, \A u \in Version : w[u] # NoKey => ww[u] = w[u], Genuine(w, l, v, k)
  PROVE  Genuine(ww, ll, v, k)
  BY DEF Genuine

\* What one call puts in its cache, or in its hand, must be genuine; the rest was.
LEMMA CachedHolds ==
  ASSUME KeyringTypeOK, NEW ww, NEW ll, NEW p \in Procs, NEW v \in Version, NEW k,
         \A q \in Procs, u \in Version : Genuine(ww, ll, u, cache[q][u]),
         Cached(p, v, k), Genuine(ww, ll, v, k)
  PROVE  \A q \in Procs, u \in Version : Genuine(ww, ll, u, cache'[q][u])
  <1> SUFFICES ASSUME NEW q \in Procs, NEW u \in Version
               PROVE  Genuine(ww, ll, u, cache'[q][u])
    OBVIOUS
  <1>1. cache'[q][u] = IF q = p /\ u = v THEN k ELSE cache[q][u]
    BY DEF Cached, KeyringTypeOK
  <1> QED
    BY <1>1

LEMMA PurgedHolds ==
  ASSUME KeyringTypeOK, NEW ww, NEW ll, NEW p \in Procs,
         \A q \in Procs, u \in Version : Genuine(ww, ll, u, cache[q][u]),
         cache' = [cache EXCEPT ![p] = [v \in Version |-> NoKey]]
  PROVE  \A q \in Procs, u \in Version : Genuine(ww, ll, u, cache'[q][u])
  BY DEF KeyringTypeOK, Genuine

LEMMA CallHolds ==
  ASSUME KeyringTypeOK, NEW ww, NEW ll, NEW p \in Procs, NEW call,
         \A q \in Procs : work[q].phase = "count" =>
                              Genuine(ww, ll, work[q].version, work[q].key),
         work' = [work EXCEPT ![p] = call],
         call.phase = "count" => Genuine(ww, ll, call.version, call.key)
  PROVE  \A q \in Procs : work'[q].phase = "count" =>
                              Genuine(ww, ll, work'[q].version, work'[q].key)
  BY DEF KeyringTypeOK

LEMMA HoldersStep ==
  ASSUME KeyringTypeOK, Holders, [KeyringNext]_keyringVars
  PROVE  Holders'
  <1> DEFINE Caches(c) == \A q \in Procs, u \in Version : Genuine(wraps', lost', u, c[q][u])
             Hands(w) == \A q \in Procs : w[q].phase = "count" =>
                            Genuine(wraps', lost', w[q].version, w[q].key)
  <1> SUFFICES ASSUME ~row.destroyed' PROVE Caches(cache') /\ Hands(work')
    BY DEF Holders
  <1>1. /\ ~row.destroyed /\ lost \subseteq lost'
        /\ \A v \in Version : wraps[v] # NoKey => wraps'[v] = wraps[v]
    BY WrapsStay
  <1>2. Caches(cache)
    <2> SUFFICES ASSUME NEW q \in Procs, NEW u \in Version
                 PROVE  Genuine(wraps', lost', u, cache[q][u])
      OBVIOUS
    <2>1. Genuine(wraps, lost, u, cache[q][u])
      BY <1>1 DEF Holders
    <2> QED
      BY <1>1, <2>1, GenuineStays
  <1>3. Hands(work)
    <2> SUFFICES ASSUME NEW q \in Procs, work[q].phase = "count"
                 PROVE  Genuine(wraps', lost', work[q].version, work[q].key)
      OBVIOUS
    <2>1. Genuine(wraps, lost, work[q].version, work[q].key) /\ work[q].version \in Version
      BY <1>1 DEF Holders, KeyringTypeOK
    <2> QED
      BY <1>1, <2>1, GenuineStays
  <1> HIDE DEF Caches, Hands
  <1>4. ASSUME NEW p \in Procs, End(p)
        PROVE  Hands(work')
    <2>1. work' = [work EXCEPT ![p] = Idle] /\ Idle.phase # "count"
      BY <1>4 DEF End, Idle
    <2> QED
      BY <1>3, <2>1, CallHolds DEF Hands
  <1>5. ASSUME NEW p \in Procs, NEW v \in Version, NEW k, Cached(p, v, k),
               Genuine(wraps', lost', v, k)
        PROVE  Caches(cache')
    BY <1>2, <1>5, CachedHolds DEF Caches
  <1>6. ASSUME NEW p \in Procs, NEW v \in Version
        PROVE  Genuine(wraps', lost', v, Fetched(p, v))
    <2>1. Genuine(wraps, lost, v, Fetched(p, v))
      BY <1>1 DEF Fetched, Holders, Genuine
    <2> QED
      BY <1>1, <2>1, GenuineStays
  <1>7. ASSUME NEW p \in Procs, EncryptRead(p)
        PROVE  Caches(cache') /\ Hands(work')
    <2> DEFINE mints == ~row.exists \/ Exhausted(row.count)
               call == [phase |-> IF mints THEN "mint" ELSE "key",
                        version |-> IF mints THEN row.version + 1 ELSE row.version,
                        count |-> IF mints THEN 0 ELSE row.count, key |-> NoKey,
                        fresh |-> ~row.exists]
    <2>1. work' = [work EXCEPT ![p] = call] /\ cache' = cache
      BY <1>7 DEF EncryptRead, Begin
    <2>2. call.phase # "count"
      OBVIOUS
    <2> HIDE DEF call
    <2>3. Hands(work')
      BY <1>3, <2>1, <2>2, CallHolds DEF Hands
    <2> QED
      BY <1>2, <2>1, <2>3
  <1>8. ASSUME NEW p \in Procs, Mint(p)
        PROVE  Caches(cache') /\ Hands(work')
    <2> DEFINE v == work[p].version
               k == drawn + 1
    <2>1. v \in Version /\ wraps' = [wraps EXCEPT ![v] = k] /\ Cached(p, v, k) /\ End(p)
      BY <1>8 DEF Mint, KeyringTypeOK
    <2> HIDE DEF v, k
    <2>2. Genuine(wraps', lost', v, k)
      BY <2>1 DEF Genuine, KeyringTypeOK
    <2> QED
      BY <2>1, <2>2, <1>4, <1>5
  <1>9. ASSUME NEW p \in Procs, MintRolledBack(p)
        PROVE  Caches(cache') /\ Hands(work')
    <2> DEFINE v == work[p].version
               k == drawn + 1
    <2>1. v \in Version /\ k \in lost' /\ Cached(p, v, k) /\ End(p)
      BY <1>9 DEF MintRolledBack, KeyringTypeOK
    <2> HIDE DEF v, k
    <2>2. Genuine(wraps', lost', v, k)
      BY <2>1 DEF Genuine
    <2> QED
      BY <2>1, <2>2, <1>4, <1>5
  <1>10. ASSUME NEW p \in Procs, EncryptKey(p)
         PROVE  Caches(cache') /\ Hands(work')
    <2> DEFINE v == work[p].version
               k == Fetched(p, v)
    <2>1. v \in Version /\ Cached(p, v, k)
      BY <1>10 DEF EncryptKey, KeyringTypeOK
    <2>2. Genuine(wraps', lost', v, k)
      BY <2>1, <1>6
    <2>3. Hands(work')
      <3>1. CASE k = NoKey
        BY <1>4, <1>10, <3>1 DEF EncryptKey
      <3>2. CASE k # NoKey
        <4> DEFINE call == [work[p] EXCEPT !.phase = "count", !.key = k]
        <4>1. work' = [work EXCEPT ![p] = call]
          BY <1>10, <3>2 DEF EncryptKey, KeyringTypeOK
        <4>2. call.version = v /\ call.key = k
          BY DEF KeyringTypeOK
        <4> HIDE DEF call, v, k
        <4> QED
          BY <4>1, <4>2, <2>2, <1>3, CallHolds DEF Hands
      <3> QED
        BY <3>1, <3>2
    <2> HIDE DEF v, k
    <2> QED
      BY <2>1, <2>2, <2>3, <1>5
  <1>11. ASSUME NEW p \in Procs, NEW v \in Version, DecryptRead(p, v)
         PROVE  Caches(cache') /\ Hands(work')
    <2> DEFINE call == [phase |-> "open", version |-> v, count |-> 0, key |-> NoKey,
                        fresh |-> FALSE]
    <2>1. work' = [work EXCEPT ![p] = call] /\ cache' = cache /\ call.phase # "count"
      BY <1>11 DEF DecryptRead, Begin
    <2> HIDE DEF call
    <2>2. Hands(work')
      BY <1>3, <2>1, CallHolds DEF Hands
    <2> QED
      BY <1>2, <2>1, <2>2
  <1>12. ASSUME NEW p \in Procs, DecryptKey(p)
         PROVE  Caches(cache') /\ Hands(work')
    <2> DEFINE v == work[p].version
    <2>1. v \in Version /\ Cached(p, v, Fetched(p, v)) /\ End(p)
      BY <1>12 DEF DecryptKey, KeyringTypeOK
    <2> HIDE DEF v
    <2> QED
      BY <2>1, <1>4, <1>5, <1>6
  <1>13. ASSUME NEW p \in Procs, NEW v \in Version, Evict(p, v)
         PROVE  Caches(cache') /\ Hands(work')
    <2>1. Cached(p, v, NoKey) /\ work' = work /\ Genuine(wraps', lost', v, NoKey)
      BY <1>13 DEF Evict, Genuine
    <2> QED
      BY <2>1, <1>3, <1>5
  <1>14. ASSUME NEW p \in Procs, Shred(p)
         PROVE  Caches(cache') /\ Hands(work')
    <2>1. row'.destroyed
      BY <1>14 DEF Shred, KeyringTypeOK
    <2> QED
      BY <2>1
  <1>15. ASSUME NEW p \in Procs, MintConflict(p) \/ EncryptCount(p) \/ Abort(p)
         PROVE  Caches(cache') /\ Hands(work')
    <2>1. cache' = cache /\ End(p)
      BY <1>15 DEF MintConflict, EncryptCount, Abort
    <2> QED
      BY <1>2, <1>4, <2>1
  <1>16. ASSUME NEW p \in Procs, Restart(p)
         PROVE  Caches(cache') /\ Hands(work')
    BY <1>2, <1>4, <1>16, PurgedHolds DEF Restart, Caches
  <1>17. ASSUME UNCHANGED keyringVars
         PROVE  Caches(cache') /\ Hands(work')
    BY <1>2, <1>3, <1>17 DEF keyringVars
  <1> QED
    BY <1>7, <1>8, <1>9, <1>10, <1>11, <1>12, <1>13, <1>14, <1>15, <1>16, <1>17 DEF KeyringNext

LEMMA BlobsStep ==
  ASSUME KeyringTypeOK, Holders, Blobs, [KeyringNext]_keyringVars
  PROVE  Blobs'
  <1> SUFFICES ASSUME ~row.destroyed', NEW blob \in sealed'
               PROVE  Genuine(wraps', lost', blob[1], blob[2])
    BY DEF Blobs
  <1>1. /\ ~row.destroyed /\ lost \subseteq lost'
        /\ \A v \in Version : wraps[v] # NoKey => wraps'[v] = wraps[v]
    BY WrapsStay
  <1>2. CASE blob \in sealed
    <2>1. Genuine(wraps, lost, blob[1], blob[2]) /\ blob[1] \in Version
      BY <1>1, <1>2 DEF Blobs, KeyringTypeOK
    <2> QED
      BY <1>1, <2>1, GenuineStays
  <1>3. ASSUME NEW p \in Procs, Mint(p), blob \notin sealed
        PROVE  Genuine(wraps', lost', blob[1], blob[2])
    <2> DEFINE v == work[p].version
               k == drawn + 1
    <2>1. v \in Version /\ wraps' = [wraps EXCEPT ![v] = k] /\ blob = <<v, k>>
      BY <1>3 DEF Mint, Seal, KeyringTypeOK
    <2> HIDE DEF v, k
    <2> QED
      BY <2>1 DEF Genuine, KeyringTypeOK
  <1>4. ASSUME NEW p \in Procs, EncryptCount(p), blob \notin sealed
        PROVE  Genuine(wraps', lost', blob[1], blob[2])
    <2>1. /\ blob = <<work[p].version, work[p].key>> /\ work[p].phase = "count"
          /\ work[p].version \in Version
      BY <1>4 DEF EncryptCount, Seal, KeyringTypeOK
    <2>2. Genuine(wraps, lost, work[p].version, work[p].key)
      BY <1>1, <2>1 DEF Holders
    <2> QED
      BY <1>1, <2>1, <2>2, GenuineStays
  <1>5. ASSUME blob \notin sealed
        PROVE  \E p \in Procs : Mint(p) \/ EncryptCount(p)
    BY <1>5 DEF KeyringNext, keyringVars, EncryptRead, MintConflict, MintRolledBack, EncryptKey, DecryptRead,
                DecryptKey, Shred, Evict, Abort, Restart, blobs
  <1> QED
    BY <1>2, <1>3, <1>4, <1>5

-----------------------------------------------------------------------------
(***************************************************************************)
(* The tombstone                                                           *)
(***************************************************************************)
LEMMA TombstoneStep ==
  ASSUME KeyringTypeOK, Tombstone, [KeyringNext]_keyringVars
  PROVE  Tombstone'
  <1>1. ASSUME NEW p \in Procs, End(p)
        PROVE  \A q \in Procs : work'[q].phase = "mint" => work[q].phase = "mint"
    BY <1>1 DEF End, Idle, KeyringTypeOK
  <1>2. ASSUME NEW p \in Procs, EncryptRead(p)
        PROVE  Tombstone'
    BY <1>2 DEF EncryptRead, Tombstone, database
  <1>3. ASSUME NEW p \in Procs, Mint(p)
        PROVE  Tombstone'
    <2>1. work[p].phase = "mint" /\ shredded' = shredded /\ minting' = minting
      BY <1>3 DEF Mint, past
    <2>2. row'.destroyed = row.destroyed
      BY <1>3 DEF Mint, KeyringTypeOK
    <2> QED
      BY <2>1, <2>2 DEF Tombstone
  <1>4. ASSUME NEW p \in Procs, EncryptKey(p)
        PROVE  Tombstone'
    <2>1. \A q \in Procs : work'[q].phase = "mint" => work[q].phase = "mint"
      <3>1. CASE Fetched(p, work[p].version) = NoKey
        BY <1>1, <1>4, <3>1 DEF EncryptKey
      <3>2. CASE Fetched(p, work[p].version) # NoKey
        <4> DEFINE call == [work[p] EXCEPT !.phase = "count",
                                           !.key = Fetched(p, work[p].version)]
        <4>1. work' = [work EXCEPT ![p] = call] /\ call.phase = "count"
          BY <1>4, <3>2 DEF EncryptKey, KeyringTypeOK
        <4> HIDE DEF call
        <4> QED
          BY <4>1 DEF KeyringTypeOK
      <3> QED
        BY <3>1, <3>2
    <2> QED
      BY <1>4, <2>1 DEF EncryptKey, Tombstone, database, past
  <1>5. ASSUME NEW p \in Procs, EncryptCount(p)
        PROVE  Tombstone'
    <2>1. row'.destroyed = row.destroyed /\ wraps' = wraps
      BY <1>5 DEF EncryptCount, KeyringTypeOK
    <2> QED
      BY <1>1, <1>5, <2>1 DEF EncryptCount, Tombstone, past
  <1>6. ASSUME NEW p \in Procs, NEW v \in Version, DecryptRead(p, v)
        PROVE  Tombstone'
    BY <1>6 DEF DecryptRead, Tombstone, database, past
  <1>7. ASSUME NEW p \in Procs, Shred(p)
        PROVE  Tombstone'
    BY <1>7 DEF Shred, Tombstone, KeyringTypeOK
  <1>8. ASSUME NEW p \in Procs, NEW v \in Version, Evict(p, v)
        PROVE  Tombstone'
    BY <1>8 DEF Evict, Tombstone, database, past
  <1>9. ASSUME NEW p \in Procs, MintConflict(p) \/ MintRolledBack(p) \/ DecryptKey(p)
                                 \/ Abort(p) \/ Restart(p)
        PROVE  Tombstone'
    <2>1. End(p) /\ UNCHANGED <<row, wraps, shredded, minting>>
      BY <1>9 DEF MintConflict, MintRolledBack, DecryptKey, Abort, Restart, database, past
    <2> QED
      BY <1>1, <2>1 DEF Tombstone
  <1>10. ASSUME UNCHANGED keyringVars
         PROVE  Tombstone'
    BY <1>10 DEF keyringVars, Tombstone
  <1> QED
    BY <1>2, <1>3, <1>4, <1>5, <1>6, <1>7, <1>8, <1>9, <1>10 DEF KeyringNext

-----------------------------------------------------------------------------
(***************************************************************************)
(* The budget                                                              *)
(***************************************************************************)
\* A call that has ended leaves the others alone.
LEMMA EndOrder ==
  ASSUME KeyringTypeOK, Alone, \A q \in Procs : Knows(q), NEW p \in Procs, End(p),
         (row'.version = row.version /\ row'.count = row.count) \/ Encrypting(p)
  PROVE  Alone' /\ \A q \in Procs : Knows(q)'
  <1>1. \A q \in Procs : work'[q] = IF q = p THEN Idle ELSE work[q]
    BY DEF End, KeyringTypeOK
  <1>2. \A q \in Procs : Encrypting(q)' => Encrypting(q) /\ q # p
    BY <1>1 DEF Encrypting, Idle
  <1>3. ASSUME NEW q \in Procs
        PROVE  Knows(q)'
    <2>1. CASE Encrypting(q)'
      <3>1. row'.version = row.version /\ row'.count = row.count
        BY <1>2, <2>1 DEF Alone
      <3> QED
        BY <1>1, <1>2, <2>1, <3>1 DEF Knows
    <2>2. CASE ~Encrypting(q)'
      BY <2>2 DEF Knows, Encrypting
    <2> QED
      BY <2>1, <2>2
  <1> QED
    BY <1>2, <1>3 DEF Alone

LEMMA OrderStays ==
  ASSUME Alone /\ WritesCounted /\ \A q \in Procs : Knows(q),
         work' = work, written' = written,
         row'.version = row.version, row'.count = row.count
  PROVE  Alone' /\ WritesCounted' /\ \A q \in Procs : Knows(q)'
  <1>1. \A q \in Procs : Encrypting(q)' <=> Encrypting(q)
    BY DEF Encrypting
  <1> QED
    BY <1>1 DEF Alone, WritesCounted, Knows

LEMMA InOrderStep ==
  ASSUME KeyringTypeOK, InOrder, [KeyringNext]_keyringVars
  PROVE  InOrder'
  <1> USE KeyringAssumption
  <1> SUFFICES ASSUME ~overlapped'
               PROVE  Alone' /\ WritesCounted' /\ \A q \in Procs : Knows(q)'
    BY DEF InOrder
  <1>0. ~overlapped
    BY DEF KeyringNext, keyringVars, past, EncryptRead, Mint, MintConflict, MintRolledBack, EncryptKey,
           EncryptCount, DecryptRead, DecryptKey, Shred, Evict, Abort, Restart
  <1>1. Alone /\ WritesCounted /\ \A q \in Procs : Knows(q)
    BY <1>0 DEF InOrder
  <1>2. ASSUME NEW p \in Procs, EncryptRead(p)
        PROVE  Alone' /\ WritesCounted' /\ \A q \in Procs : Knows(q)'
    <2> DEFINE mints == ~row.exists \/ Exhausted(row.count)
               call == [phase |-> IF mints THEN "mint" ELSE "key",
                        version |-> IF mints THEN row.version + 1 ELSE row.version,
                        count |-> IF mints THEN 0 ELSE row.count, key |-> NoKey,
                        fresh |-> ~row.exists]
    <2>1. work' = [work EXCEPT ![p] = call] /\ row' = row /\ written' = written
      BY <1>2 DEF EncryptRead, Begin, database, blobs
    <2>2. \A q \in Procs \ {p} : ~Encrypting(q)
      BY <1>2 DEF EncryptRead
    <2>3. \A q \in Procs : work'[q] = IF q = p THEN call ELSE work[q]
      BY <2>1 DEF KeyringTypeOK
    <2>4. /\ call.phase = "mint" => call.version = row.version + 1
          /\ call.phase = "key" => /\ call.version = row.version
                                   /\ call.count = row.count /\ row.count < Budget
          /\ call.phase # "count"
      BY DEF Exhausted, KeyringTypeOK
    <2> HIDE DEF call
    <2>5. \A q \in Procs \ {p} : ~Encrypting(q)'
      BY <2>2, <2>3 DEF Encrypting
    <2>6. \A q \in Procs : Knows(q)'
      BY <2>1, <2>3, <2>4, <2>5 DEF Knows, Encrypting
    <2> QED
      BY <1>1, <2>1, <2>5, <2>6 DEF Alone, WritesCounted
  <1>3. ASSUME NEW p \in Procs, Mint(p)
        PROVE  Alone' /\ WritesCounted' /\ \A q \in Procs : Knows(q)'
    <2> DEFINE v == work[p].version
    <2>1. v = row.version + 1 /\ v \in Version /\ Encrypting(p)
      BY <1>1, <1>3 DEF Mint, Knows, Encrypting, KeyringTypeOK
    <2>2. row'.version = v /\ row'.count = 1
      BY <1>3 DEF Mint, KeyringTypeOK
    <2>3. written' = [written EXCEPT ![v] = written[v] + 1]
      BY <1>3, <2>1 DEF Mint, Seal, KeyringTypeOK
    <2>4. End(p)
      BY <1>3 DEF Mint
    <2> HIDE DEF v
    <2>5. written[v] = 0 /\ row.version \in Nat
      BY <1>1, <2>1 DEF WritesCounted, Version, KeyringTypeOK
    <2>6. WritesCounted'
      <3> SUFFICES ASSUME NEW u \in Version
                   PROVE  /\ written'[u] <= Budget
                          /\ u = v => written'[u] <= 1
                          /\ u > v => written'[u] = 0
        BY <2>2 DEF WritesCounted
      <3>1. written'[u] = IF u = v THEN 1 ELSE written[u]
        BY <2>1, <2>3, <2>5 DEF KeyringTypeOK
      <3>2. u > v => written[u] = 0
        BY <1>1, <2>1, <2>5 DEF WritesCounted, Version
      <3>3. written[u] <= Budget
        BY <1>1 DEF WritesCounted
      <3> QED
        BY <3>1, <3>2, <3>3, <2>1 DEF Version
    <2>7. Alone' /\ \A q \in Procs : Knows(q)'
      BY <1>1, <2>1, <2>4, EndOrder
    <2> QED
      BY <2>6, <2>7
  <1>4. ASSUME NEW p \in Procs, EncryptKey(p)
        PROVE  Alone' /\ WritesCounted' /\ \A q \in Procs : Knows(q)'
    <2>1. row' = row /\ written' = written
      BY <1>4 DEF EncryptKey, database, blobs
    <2>2. CASE Fetched(p, work[p].version) = NoKey
      BY <1>1, <1>4, <2>1, <2>2, EndOrder DEF EncryptKey, WritesCounted
    <2>3. CASE Fetched(p, work[p].version) # NoKey
      <3> DEFINE call == [work[p] EXCEPT !.phase = "count",
                                         !.key = Fetched(p, work[p].version)]
      <3>1. work' = [work EXCEPT ![p] = call] /\ work[p].phase = "key"
        BY <1>4, <2>3 DEF EncryptKey, KeyringTypeOK
      <3>2. /\ call.phase = "count" /\ call.version = work[p].version
            /\ call.count = work[p].count
        BY DEF KeyringTypeOK
      <3> HIDE DEF call
      <3>3. \A q \in Procs : work'[q] = IF q = p THEN call ELSE work[q]
        BY <3>1 DEF KeyringTypeOK
      <3>4. \A q \in Procs : Encrypting(q)' <=> Encrypting(q)
        BY <3>1, <3>2, <3>3 DEF Encrypting
      <3>5. \A q \in Procs : Knows(q)'
        BY <1>1, <2>1, <3>1, <3>2, <3>3 DEF Knows
      <3> QED
        BY <1>1, <2>1, <3>4, <3>5 DEF Alone, WritesCounted
    <2> QED
      BY <2>2, <2>3
  <1>5. ASSUME NEW p \in Procs, EncryptCount(p)
        PROVE  Alone' /\ WritesCounted' /\ \A q \in Procs : Knows(q)'
    <2> DEFINE v == work[p].version
    <2>1. /\ v = row.version /\ v \in Version /\ Encrypting(p)
          /\ work[p].count = row.count /\ row.count < Budget
      BY <1>1, <1>5 DEF EncryptCount, Knows, Encrypting, KeyringTypeOK
    <2>2. row'.version = row.version /\ row'.count = row.count + 1
      BY <1>5, <2>1 DEF EncryptCount, KeyringTypeOK
    <2>3. written' = [written EXCEPT ![v] = written[v] + 1]
      BY <1>5, <2>1 DEF EncryptCount, Seal, KeyringTypeOK
    <2>4. End(p)
      BY <1>5 DEF EncryptCount
    <2> HIDE DEF v
    <2>5. WritesCounted'
      <3> SUFFICES ASSUME NEW u \in Version
                   PROVE  /\ row.count + 1 <= Budget
                          /\ written'[u] <= Budget
                          /\ u = v => written'[u] <= row.count + 1
                          /\ u > v => written'[u] = 0
        BY <2>1, <2>2 DEF WritesCounted
      <3>1. written'[u] = IF u = v THEN written[u] + 1 ELSE written[u]
        BY <2>1, <2>3 DEF KeyringTypeOK
      <3>2. /\ u > v => written[u] = 0
            /\ u = v => written[u] <= row.count
            /\ written[u] <= Budget /\ written[u] \in Nat /\ row.count \in Nat
        BY <1>1, <2>1 DEF WritesCounted, KeyringTypeOK
      <3> QED
        BY <3>1, <3>2, <2>1 DEF Version
    <2>6. Alone' /\ \A q \in Procs : Knows(q)'
      BY <1>1, <2>1, <2>4, EndOrder
    <2> QED
      BY <2>5, <2>6
  <1>6. ASSUME NEW p \in Procs, NEW v \in Version, DecryptRead(p, v)
        PROVE  Alone' /\ WritesCounted' /\ \A q \in Procs : Knows(q)'
    <2> DEFINE call == [phase |-> "open", version |-> v, count |-> 0, key |-> NoKey,
                        fresh |-> FALSE]
    <2>1. /\ work' = [work EXCEPT ![p] = call] /\ row' = row /\ written' = written
          /\ call.phase = "open" /\ work[p].phase = "idle"
      BY <1>6 DEF DecryptRead, Begin, database, blobs
    <2> HIDE DEF call
    <2>2. \A q \in Procs : work'[q] = IF q = p THEN call ELSE work[q]
      BY <2>1 DEF KeyringTypeOK
    <2>3. \A q \in Procs : Encrypting(q)' <=> Encrypting(q)
      BY <2>1, <2>2 DEF Encrypting
    <2>4. \A q \in Procs : Knows(q)'
      BY <1>1, <2>1, <2>2 DEF Knows
    <2> QED
      BY <1>1, <2>1, <2>3, <2>4 DEF Alone, WritesCounted
  <1>7. ASSUME NEW p \in Procs, MintConflict(p) \/ MintRolledBack(p) \/ DecryptKey(p)
                                 \/ Abort(p) \/ Restart(p)
        PROVE  Alone' /\ WritesCounted' /\ \A q \in Procs : Knows(q)'
    <2>1. End(p) /\ row' = row /\ written' = written
      BY <1>7 DEF MintConflict, MintRolledBack, DecryptKey, Abort, Restart, database, blobs
    <2> QED
      BY <1>1, <2>1, EndOrder DEF WritesCounted
  <1>8. ASSUME NEW p \in Procs, Shred(p) \/ \E v \in Version : Evict(p, v)
        PROVE  Alone' /\ WritesCounted' /\ \A q \in Procs : Knows(q)'
    <2>1. /\ work' = work /\ written' = written
          /\ row'.version = row.version /\ row'.count = row.count
      BY <1>8 DEF Shred, Evict, database, blobs, KeyringTypeOK
    <2> QED
      BY <1>1, <2>1, OrderStays
  <1>9. ASSUME UNCHANGED keyringVars
        PROVE  Alone' /\ WritesCounted' /\ \A q \in Procs : Knows(q)'
    BY <1>1, <1>9, OrderStays DEF keyringVars
  <1> QED
    BY <1>2, <1>3, <1>4, <1>5, <1>6, <1>7, <1>8, <1>9 DEF KeyringNext

-----------------------------------------------------------------------------
(***************************************************************************)
(* The results                                                             *)
(***************************************************************************)
\* The strengthening of the three properties below is an invariant of every
\* behaviour of the keyring.
THEOREM KeyringInvCorrect == KeyringSpec => []KeyringInv
  <1>1. KeyringInit => KeyringInv
    BY InitInv
  <1>2. KeyringInv /\ [KeyringNext]_keyringVars => KeyringInv'
    BY TypeStep, HoldsKeyStep, HoldersStep, BlobsStep, TombstoneStep, InOrderStep DEF KeyringInv
  <1> QED
    BY <1>1, <1>2, PTL DEF KeyringSpec

\* The rows, caches and calls stay what the types of keyring.py say.
THEOREM KeyringTypeCorrect == KeyringSpec => []KeyringTypeOK
  <1>1. KeyringInv => KeyringTypeOK
    BY DEF KeyringInv
  <1> QED
    BY <1>1, KeyringInvCorrect, PTL

\* However the processes interleave, whatever is evicted or dies: a blob opens
\* in every process until the keys are shredded (encrypt_blob, decrypt_blob).
THEOREM BlobsReadable == KeyringSpec => []Readable
  <1>1. KeyringInv => Readable
    <2> SUFFICES ASSUME KeyringInv, ~row.destroyed, NEW blob \in sealed, blob[2] \notin lost
                 PROVE  /\ wraps[blob[1]] = blob[2]
                        /\ \A p \in Procs : cache[p][blob[1]] \in {NoKey, blob[2]} \cup lost
      BY DEF Readable
    <2>1. blob[1] \in Version /\ blob[2] # NoKey
      BY KeyringAssumption DEF KeyringInv, KeyringTypeOK, Key, NoKey
    <2>2. wraps[blob[1]] = blob[2]
      BY <2>1 DEF KeyringInv, Blobs, Genuine
    <2>3. ASSUME NEW p \in Procs
          PROVE  cache[p][blob[1]] \in {NoKey, blob[2]} \cup lost
      <3>1. Genuine(wraps, lost, blob[1], cache[p][blob[1]])
        BY <2>1 DEF KeyringInv, Holders
      <3> QED
        BY <2>2, <3>1 DEF Genuine
    <2> QED
      BY <2>2, <2>3
  <1> QED
    BY <1>1, KeyringInvCorrect, PTL

\* After crypto_shred no key of the user exists or comes to exist, whoever
\* encrypts, unless a call was already past the check of the tombstone.
THEOREM ShredHolds == KeyringSpec => []ShredFinal
  <1>1. KeyringInv => ShredFinal
    BY DEF KeyringInv, Tombstone, ShredFinal
  <1> QED
    BY <1>1, KeyringInvCorrect, PTL

\* Processes that take turns never exceed the nonce budget of a key, through
\* rotations, failures and restarts.
THEOREM Budgeted == KeyringSpec => []BudgetKept
  <1>1. KeyringInv => BudgetKept
    BY DEF KeyringInv, InOrder, WritesCounted, BudgetKept
  <1> QED
    BY <1>1, KeyringInvCorrect, PTL
=============================================================================
