-------------------------- MODULE SourceSyncProofs --------------------------
(***************************************************************************)
(* The safety of the sync of a source account for every finite set of      *)
(* bookmarks, every set of workers and requests and every size of a page   *)
(* and cap of a sync.                                                      *)
(***************************************************************************)
EXTENDS SourceSync, FiniteSetTheorems, SequenceTheorems, WellFoundedInduction, TLAPS

-----------------------------------------------------------------------------
(***************************************************************************)
(* Least and greatest numbers                                              *)
(***************************************************************************)
LEMMA Least ==
    ASSUME NEW S \in SUBSET Nat, S # {}
    PROVE  \E n \in S : \A k \in S : n <= k
  <1>1. PICK n \in S : \A k \in S : ~ (<<k, n>> \in OpToRel(<, Nat))
    BY NatLessThanWellFounded, WFMin
  <1>2. \A k \in S : ~ (k < n)
    BY <1>1 DEF OpToRel
  <1>3. QED
    BY <1>2

LEMMA Greatest ==
    ASSUME NEW S \in SUBSET Nat, S # {}, NEW b \in Nat, \A k \in S : k <= b
    PROVE  \E n \in S : \A k \in S : n >= k
  <1> DEFINE T == {n \in Nat : \A k \in S : k <= n}
  <1>1. PICK m \in T : \A k \in T : m <= k
    BY Least
  <1>2. m \in S
    <2> SUFFICES ASSUME m \notin S PROVE FALSE
      OBVIOUS
    <2>1. m \in Nat /\ \A k \in S : k \in Nat /\ k < m
      BY <1>1
    <2>2. m > 0
      <3>1. PICK x \in S : TRUE
        OBVIOUS
      <3>2. QED
        BY <2>1, <3>1
    <2>3. m - 1 \in Nat /\ \A k \in S : k <= m - 1
      <3> HIDE DEF T
      <3>1. m - 1 \in Nat
        BY <2>1, <2>2
      <3>2. ASSUME NEW k \in S PROVE k <= m - 1
        BY <2>1
      <3>3. QED
        BY <3>1, <3>2
    <2>4. m - 1 \in T
      BY <2>3
    <2>5. QED
      BY <1>1, <2>1, <2>4
  <1>3. QED
    BY <1>1, <1>2

-----------------------------------------------------------------------------
(***************************************************************************)
(* The list of the service                                                 *)
(***************************************************************************)
\* Newer and Rank of a listing that need not be the one of now.
NewerIn(u, t) == {i \in Items : u[i] > 0 /\ u[i] > t}
RankIn(u, i)  == Cardinality(NewerIn(u, u[i]))
OneAtATime(u) == \A i, j \in Items : u[i] > 0 /\ u[i] = u[j] => i = j

LEMMA SyncConstants ==
  /\ PerPage \in Nat /\ PerPage # 0 /\ Cap \in Nat
  /\ MaxTime \in Nat /\ MaxFaults \in Nat /\ MaxRequests \in Nat
  /\ IsFiniteSet(Items) /\ Cardinality(Items) \in Nat
  /\ MidScan \in BOOLEAN /\ Listed \subseteq Items
  BY SyncAssumption, FS_CardinalityType

LEMMA NewerFinite ==
  ASSUME NEW u, NEW t
  PROVE  /\ IsFiniteSet(NewerIn(u, t))
         /\ Cardinality(NewerIn(u, t)) \in Nat
         /\ Cardinality(NewerIn(u, t)) <= Cardinality(Items)
  <1>1. NewerIn(u, t) \in SUBSET Items
    BY DEF NewerIn
  <1> QED
    BY <1>1, SyncConstants, FS_Subset, FS_CardinalityType

\* What is newer has the smaller rank.
LEMMA RankOrder ==
  ASSUME NEW u \in [Items -> Nat], NEW i \in Items, NEW j \in Items, u[i] > 0, u[j] > 0
  PROVE  /\ RankIn(u, i) \in Nat
         /\ u[i] <= u[j] => RankIn(u, j) <= RankIn(u, i)
         /\ u[i] < u[j] => RankIn(u, j) < RankIn(u, i)
  <1>1. RankIn(u, i) \in Nat
    BY NewerFinite DEF RankIn
  <1>2. ASSUME u[i] <= u[j]
        PROVE  NewerIn(u, u[j]) \in SUBSET NewerIn(u, u[i])
    <2>1. u[i] \in Nat /\ u[j] \in Nat /\ \A k \in Items : u[k] \in Nat
      OBVIOUS
    <2> QED
      BY <1>2, <2>1 DEF NewerIn
  <1>3. ASSUME u[i] <= u[j]
        PROVE  RankIn(u, j) <= RankIn(u, i)
    BY <1>2, <1>3, NewerFinite, FS_Subset DEF RankIn
  <1>4. ASSUME u[i] < u[j]
        PROVE  RankIn(u, j) < RankIn(u, i)
    <2>1. u[i] \in Nat /\ u[j] \in Nat
      OBVIOUS
    <2>2. u[i] <= u[j]
      BY <1>4, <2>1
    <2>3. j \in NewerIn(u, u[i]) /\ j \notin NewerIn(u, u[j])
      BY <1>4, <2>1 DEF NewerIn
    <2>4. RankIn(u, j) # RankIn(u, i)
      BY <1>2, <2>2, <2>3, NewerFinite, FS_Subset DEF RankIn
    <2>5. RankIn(u, j) <= RankIn(u, i) /\ RankIn(u, j) \in Nat /\ RankIn(u, i) \in Nat
      BY <1>3, <2>2, NewerFinite DEF RankIn
    <2> QED
      BY <2>4, <2>5
  <1> QED
    BY <1>1, <1>3, <1>4

LEMMA RankIsOne ==
  ASSUME NEW u \in [Items -> Nat], OneAtATime(u),
         NEW i \in Items, NEW j \in Items, u[i] > 0, u[j] > 0, RankIn(u, i) = RankIn(u, j)
  PROVE  i = j
  <1>1. u[i] \in Nat /\ u[j] \in Nat /\ RankIn(u, i) \in Nat /\ RankIn(u, j) \in Nat
    BY RankOrder
  <1>2. ~ (u[i] < u[j])
    BY <1>1, RankOrder
  <1>3. ~ (u[j] < u[i])
    BY <1>1, RankOrder
  <1>4. u[i] = u[j]
    BY <1>1, <1>2, <1>3
  <1> QED
    BY <1>4 DEF OneAtATime

LEMMA RankBelow ==
  ASSUME NEW u \in [Items -> Nat], NEW t \in Nat, NEW i \in NewerIn(u, t)
  PROVE  RankIn(u, i) < Cardinality(NewerIn(u, t))
  <1>1. i \in Items /\ u[i] \in Nat /\ u[i] > t /\ u[i] > 0
    BY DEF NewerIn
  <1>2. NewerIn(u, u[i]) \in SUBSET NewerIn(u, t)
    BY <1>1 DEF NewerIn
  <1>3. i \notin NewerIn(u, u[i])
    BY <1>1 DEF NewerIn
  <1>4. /\ Cardinality(NewerIn(u, u[i])) <= Cardinality(NewerIn(u, t))
        /\ Cardinality(NewerIn(u, u[i])) # Cardinality(NewerIn(u, t))
    BY <1>2, <1>3, NewerFinite, FS_Subset
  <1> QED
    BY <1>4, NewerFinite DEF RankIn

\* The oldest of those newer than t has all the others before it.
LEMMA OldestOf ==
  ASSUME NEW u \in [Items -> Nat], OneAtATime(u), NEW t \in Nat, NewerIn(u, t) # {}
  PROVE  \E y \in NewerIn(u, t) : RankIn(u, y) = Cardinality(NewerIn(u, t)) - 1
  <1> DEFINE T == {u[k] : k \in NewerIn(u, t)}
  <1>1. T \in SUBSET Nat /\ T # {}
    BY DEF NewerIn
  <1>2. PICK n \in T : \A k \in T : n <= k
    BY <1>1, Least
  <1>3. PICK y \in NewerIn(u, t) : u[y] = n
    BY <1>2
  <1>4. \A k \in NewerIn(u, t) : u[y] <= u[k]
    BY <1>2, <1>3
  <1>5. y \in Items /\ u[y] \in Nat /\ u[y] > t /\ u[y] > 0 /\ \A k \in Items : u[k] \in Nat
    BY DEF NewerIn
  <1>6. NewerIn(u, u[y]) = NewerIn(u, t) \ {y}
    <2>1. ASSUME NEW k \in NewerIn(u, u[y])
          PROVE  k \in NewerIn(u, t) \ {y}
      BY <1>5 DEF NewerIn
    <2>2. ASSUME NEW k \in NewerIn(u, t) \ {y}
          PROVE  k \in NewerIn(u, u[y])
      <3>1. k \in Items /\ u[k] \in Nat /\ u[k] > 0 /\ u[y] <= u[k]
        BY <1>4, <1>5 DEF NewerIn
      <3>2. u[k] # u[y]
        BY <1>5, <3>1 DEF OneAtATime
      <3> QED
        BY <1>5, <3>1, <3>2 DEF NewerIn
    <2> QED
      BY <2>1, <2>2
  <1>7. Cardinality(NewerIn(u, u[y])) = Cardinality(NewerIn(u, t)) - 1
    BY <1>6, NewerFinite, FS_RemoveElement
  <1> QED
    BY <1>7 DEF RankIn

\* There is a bookmark at every position of the list.
LEMMA NthExists ==
  ASSUME NEW u \in [Items -> Nat], OneAtATime(u), NEW t \in Nat,
         NEW n \in Nat, n < Cardinality(NewerIn(u, t))
  PROVE  \E i \in NewerIn(u, t) : RankIn(u, i) = n
  <1> DEFINE T == {RankIn(u, k) : k \in {j \in NewerIn(u, t) : RankIn(u, j) >= n}}
  <1>1. T \in SUBSET Nat
    BY NewerFinite DEF RankIn
  <1>2. T # {}
    <2>1. NewerIn(u, t) # {}
      BY FS_EmptySet
    <2>2. PICK y \in NewerIn(u, t) : RankIn(u, y) = Cardinality(NewerIn(u, t)) - 1
      BY <2>1, OldestOf
    <2>3. RankIn(u, y) >= n
      BY <2>2, NewerFinite
    <2> QED
      BY <2>3
  <1>3. PICK m \in T : \A k \in T : m <= k
    BY <1>1, <1>2, Least
  <1>4. PICK x \in NewerIn(u, t) : RankIn(u, x) = m /\ m >= n
    BY <1>3
  <1>5. m \in Nat
    BY <1>1, <1>3
  <1>6. x \in Items /\ u[x] \in Nat /\ u[x] > t /\ u[x] > 0
    BY DEF NewerIn
  <1>7. SUFFICES ASSUME m # n PROVE FALSE
    BY <1>4
  <1>8. NewerIn(u, u[x]) # {}
    BY <1>4, <1>5, <1>7, FS_EmptySet DEF RankIn
  <1>9. PICK y \in NewerIn(u, u[x]) : RankIn(u, y) = Cardinality(NewerIn(u, u[x])) - 1
    BY <1>6, <1>8, OldestOf
  <1>10. y \in NewerIn(u, t)
    <2>1. y \in Items /\ u[y] \in Nat /\ u[y] > u[x] /\ u[y] > 0
      BY DEF NewerIn
    <2> QED
      BY <1>6, <2>1 DEF NewerIn
  <1>11. RankIn(u, y) = m - 1
    BY <1>4, <1>9 DEF RankIn
  <1>12. RankIn(u, y) >= n
    BY <1>4, <1>5, <1>7, <1>11
  <1>13. m <= m - 1
    <2>1. RankIn(u, y) \in T
      BY <1>10, <1>12
    <2> HIDE DEF T
    <2> QED
      BY <1>3, <1>11, <2>1
  <1> QED
    BY <1>5, <1>13

\* A bookmark that is touched moves to the top and nothing moves up.
LEMMA TouchMoves ==
  ASSUME NEW u \in [Items -> Nat], NEW x \in Items, NEW t \in Nat, \A i \in Items : u[i] < t,
         OneAtATime(u)
  PROVE  LET v == [u EXCEPT ![x] = t] IN
         /\ OneAtATime(v)
         /\ \A j \in Items \ {x} : u[j] > 0 => v[j] = u[j] /\ RankIn(v, j) >= RankIn(u, j)
  <1> DEFINE v == [u EXCEPT ![x] = t]
  <1>1. v[x] = t /\ \A j \in Items \ {x} : v[j] = u[j] /\ v[j] < t /\ u[j] \in Nat
    OBVIOUS
  <1>2. \A j \in Items : v[j] \in Nat /\ u[j] \in Nat /\ u[j] <= v[j]
    BY <1>1
  <1> HIDE DEF v
  <1>3. OneAtATime(v)
    BY <1>1 DEF OneAtATime
  <1>4. ASSUME NEW j \in Items \ {x}, u[j] > 0
        PROVE  v[j] = u[j] /\ RankIn(v, j) >= RankIn(u, j)
    <2>1. v[j] = u[j]
      BY <1>1
    <2>2. NewerIn(u, u[j]) \in SUBSET NewerIn(v, v[j])
      BY <1>2, <2>1 DEF NewerIn
    <2> QED
      BY <2>1, <2>2, NewerFinite, FS_Subset DEF RankIn
  <1> QED
    BY <1>3, <1>4 DEF v

-----------------------------------------------------------------------------
(***************************************************************************)
(* What a sync under way still owes                                        *)
(***************************************************************************)
\* The bookmark as it is listed now.
Current(i)  == [item |-> i, at |-> upd[i]]
Ahead(i, k) == Rank(i) >= k * PerPage

\* No two bookmarks were updated at the same time, and none later than now.
Listing ==
    /\ OneAtATime(upd)
    /\ \A i \in Items : upd[i] <= clock

\* A sync p under way: the newest time it has met and has carried along, what
\* it has read and not saved or has failed to save, and whether it has all it
\* is going to fetch.
Latest(p)    == Larger(p.pending, Newest(ToSet(p.recs)))
Awaits(p, i) == Current(i) \in ToSet(p.recs) \cup p.bad
Fetching(p)  == p.phase = "fetch"
Returned(p)  == p.phase \notin {"idle", "fetch"}

LEMMA ListNow ==
  /\ \A t : Newer(t) = NewerIn(upd, t)
  /\ \A i : Rank(i) = RankIn(upd, i)
  <1>1. \A t : Newer(t) = NewerIn(upd, t)
    BY DEF Newer, NewerIn, Present
  <1> QED
    BY <1>1 DEF Rank, RankIn

LEMMA RankType ==
  ASSUME NEW i
  PROVE  Rank(i) \in Nat
  BY ListNow, NewerFinite DEF RankIn

LEMMA PageTimes ==
  ASSUME NEW k \in Nat
  PROVE  /\ k * PerPage \in Nat
         /\ (k + 1) * PerPage = k * PerPage + PerPage
         /\ k <= k * PerPage
         /\ 0 * PerPage = 0
  <1>1. PerPage \in Nat /\ PerPage >= 1
    BY SyncConstants
  <1> QED
    BY <1>1

LEMMA NewestIs ==
  ASSUME NEW T \in SUBSET Record
  PROVE  /\ Newest(T) \in Time
         /\ \A r \in T : r.at <= Newest(T)
         /\ Newest(T) = 0 \/ \E r \in T : Newest(T) = r.at
  <1> DEFINE S == {0} \cup {r.at : r \in T}
  <1>1. S \in SUBSET Nat /\ S # {} /\ \A k \in S : k \in Time /\ k <= MaxTime
    BY SyncConstants DEF Record, Time
  <1>2. \E n \in S : \A k \in S : n >= k
    BY <1>1, SyncConstants, Greatest
  <1>3. Newest(T) \in S /\ \A k \in S : Newest(T) >= k
    BY <1>2 DEF Newest, Max
  <1>4. \A r \in T : r.at \in S
    OBVIOUS
  <1>5. \A r \in T : r.at \in Nat
    BY <1>1, <1>4
  <1> QED
    BY <1>1, <1>3, <1>4, <1>5

LEMMA LargerIs ==
  ASSUME NEW a \in Nat, NEW b \in Nat
  PROVE  /\ Larger(a, b) \in Nat
         /\ Larger(a, b) >= a /\ Larger(a, b) >= b
         /\ Larger(a, b) = a \/ Larger(a, b) = b
         /\ a \in Time /\ b \in Time => Larger(a, b) \in Time
  BY DEF Larger

LEMMA InConcat ==
  ASSUME NEW a \in Seq(Record), NEW b \in Seq(Record)
  PROVE  /\ a \o b \in Seq(Record)
         /\ ToSet(a \o b) = ToSet(a) \cup ToSet(b)
  <1>1. /\ a \o b \in Seq(Record)
        /\ Len(a \o b) = Len(a) + Len(b)
        /\ \A i \in 1 .. Len(a) + Len(b) :
              (a \o b)[i] = IF i <= Len(a) THEN a[i] ELSE b[i - Len(a)]
    BY ConcatProperties
  <1>2. Len(a) \in Nat /\ Len(b) \in Nat
    OBVIOUS
  <1>3. DOMAIN a = 1 .. Len(a) /\ DOMAIN b = 1 .. Len(b) /\ DOMAIN (a \o b) = 1 .. Len(a) + Len(b)
    BY <1>1
  <1>4. ASSUME NEW r \in ToSet(a \o b)
        PROVE  r \in ToSet(a) \cup ToSet(b)
    <2>1. PICK i \in 1 .. Len(a) + Len(b) : r = (a \o b)[i]
      BY <1>3 DEF ToSet
    <2>2. CASE i <= Len(a)
      BY <1>1, <1>2, <1>3, <2>1, <2>2 DEF ToSet
    <2>3. CASE ~ (i <= Len(a))
      <3>1. i - Len(a) \in 1 .. Len(b) /\ r = b[i - Len(a)]
        BY <1>1, <1>2, <2>1, <2>3
      <3> QED
        BY <1>3, <3>1 DEF ToSet
    <2> QED
      BY <2>2, <2>3
  <1>5. ASSUME NEW r \in ToSet(a)
        PROVE  r \in ToSet(a \o b)
    <2>1. PICK i \in 1 .. Len(a) : r = a[i]
      BY <1>3 DEF ToSet
    <2>2. i \in 1 .. Len(a) + Len(b) /\ (a \o b)[i] = r
      BY <1>1, <1>2, <2>1
    <2> QED
      BY <1>3, <2>2 DEF ToSet
  <1>6. ASSUME NEW r \in ToSet(b)
        PROVE  r \in ToSet(a \o b)
    <2>1. PICK i \in 1 .. Len(b) : r = b[i]
      BY <1>3 DEF ToSet
    <2>2. Len(a) + i \in 1 .. Len(a) + Len(b) /\ ~ (Len(a) + i <= Len(a)) /\ (Len(a) + i) - Len(a) = i
      BY <1>2, <2>1
    <2>3. (a \o b)[Len(a) + i] = r
      BY <1>1, <2>1, <2>2
    <2> QED
      BY <1>3, <2>2, <2>3 DEF ToSet
  <1> QED
    BY <1>1, <1>4, <1>5, <1>6

LEMMA HeadAndTail ==
  ASSUME NEW a \in Seq(Record), a # <<>>
  PROVE  /\ Head(a) \in Record /\ Tail(a) \in Seq(Record)
         /\ Head(a) \in ToSet(a) /\ Head(a) = a[1] /\ 1 \in DOMAIN a
         /\ \A n \in DOMAIN Tail(a) : n + 1 \in DOMAIN a /\ Tail(a)[n] = a[n + 1] /\ n \in Nat
         /\ ToSet(Tail(a)) \subseteq ToSet(a)
         /\ ToSet(a) = {Head(a)} \cup ToSet(Tail(a))
  <1>1. /\ Head(a) \in Record /\ Tail(a) \in Seq(Record)
        /\ Len(Tail(a)) = Len(a) - 1
        /\ \A i \in 1 .. Len(Tail(a)) : Tail(a)[i] = a[i + 1]
    BY HeadTailProperties
  <1>2. Len(a) \in Nat /\ Len(a) # 0 /\ Head(a) = a[1]
    OBVIOUS
  <1>3. DOMAIN a = 1 .. Len(a) /\ DOMAIN Tail(a) = 1 .. Len(a) - 1
    BY <1>1
  <1>4. 1 \in DOMAIN a /\ \A n \in DOMAIN Tail(a) : n + 1 \in DOMAIN a /\ Tail(a)[n] = a[n + 1] /\ n \in Nat
    BY <1>1, <1>2, <1>3
  <1>5. ToSet(Tail(a)) \subseteq ToSet(a) /\ Head(a) \in ToSet(a)
    BY <1>2, <1>4 DEF ToSet
  <1>6. ASSUME NEW r \in ToSet(a), r # Head(a)
        PROVE  r \in ToSet(Tail(a))
    <2>1. PICK i \in 1 .. Len(a) : r = a[i]
      BY <1>3 DEF ToSet
    <2>2. i # 1
      BY <1>2, <1>6, <2>1
    <2>3. i - 1 \in DOMAIN Tail(a) /\ (i - 1) + 1 = i
      BY <1>2, <1>3, <2>1, <2>2
    <2> QED
      BY <1>4, <2>1, <2>3 DEF ToSet
  <1> QED
    BY <1>1, <1>2, <1>4, <1>5, <1>6

LEMMA SetOfRecords ==
  ASSUME NEW a \in Seq(Record)
  PROVE  ToSet(a) \in SUBSET Record /\ ToSet(<<>>) = {}
  BY DEF ToSet

\* What reading a page brings, and what it tells of the rest of the list.
LEMMA FreshIs ==
  ASSUME TypeOK, Listing, NEW k \in Nat, NEW since \in Nat
  PROVE  LET f == FreshOnPage(k, since) IN
         /\ f \in Seq(Record)
         /\ \A r \in ToSet(f) :
               r.item \in Present /\ r = Current(r.item) /\ upd[r.item] > since /\ Ahead(r.item, k)
         /\ \A i \in Newer(since) :
               Ahead(i, k) => Current(i) \in ToSet(f) \/ (~ (Len(f) < PerPage) /\ Ahead(i, k + 1))
         /\ ~ (Len(f) < PerPage) => k + 1 \in PageNumber
  <1> DEFINE left == Cardinality(Newer(since)) - k * PerPage
             count == IF left > PerPage THEN PerPage ELSE left
             K == k * PerPage
             f == [n \in 1 .. count |-> [item |-> Nth(K + n - 1), at |-> upd[Nth(K + n - 1)]]]
  <1>1. FreshOnPage(k, since) = f
    BY DEF FreshOnPage
  <1>2. /\ K \in Nat /\ PerPage \in Nat /\ PerPage # 0 /\ (k + 1) * PerPage = K + PerPage
        /\ Cardinality(Newer(since)) \in Nat /\ Cardinality(Newer(since)) <= Cardinality(Items)
        /\ Cardinality(Items) \in Nat /\ k + 1 <= (k + 1) * PerPage
    BY SyncConstants, PageTimes, ListNow, NewerFinite
  <1>3. upd \in [Items -> Nat] /\ OneAtATime(upd) /\ upd \in [Items -> Time]
    BY DEF TypeOK, Time, Listing
  <1>4. count \in Int /\ left \in Int /\ count <= left /\ count <= PerPage
    BY <1>2
  <1>5. ASSUME NEW n \in 1 .. count
        PROVE  /\ Nth(K + n - 1) \in Present /\ Nth(K + n - 1) \in Items
               /\ upd[Nth(K + n - 1)] > since /\ Rank(Nth(K + n - 1)) = K + n - 1
               /\ K + n - 1 >= K
    <2>1. K + n - 1 \in Nat /\ K + n - 1 < Cardinality(NewerIn(upd, since)) /\ K + n - 1 >= K
      <3>1. n \in Int /\ 1 <= n /\ n <= left
        BY <1>4
      <3> QED
        BY <1>2, <3>1, ListNow
    <2>2. PICK i \in NewerIn(upd, since) : RankIn(upd, i) = K + n - 1
      BY <1>3, <2>1, NthExists
    <2>3. i \in Present /\ Rank(i) = K + n - 1 /\ upd[i] > since
      BY <2>2, ListNow DEF NewerIn, Present
    <2>4. Nth(K + n - 1) \in Present /\ Rank(Nth(K + n - 1)) = K + n - 1
      BY <2>3 DEF Nth
    <2>5. Nth(K + n - 1) = i
      BY <1>3, <2>3, <2>4, ListNow, RankIsOne DEF Present
    <2> QED
      BY <2>1, <2>3, <2>4, <2>5 DEF Present
  <1>6. f \in Seq(Record)
    <2>1. \A n \in 1 .. count : f[n] \in Record
      BY <1>3, <1>5 DEF Record
    <2>2. CASE count \in Nat
      <3>1. f \in [1 .. count -> Record]
        BY <2>1
      <3> HIDE DEF f
      <3> QED
        BY <2>2, <3>1, SeqDef
    <2>3. CASE count \notin Nat
      <3>1. 1 .. count = {} /\ 1 .. 0 = {}
        BY <1>4, <2>3
      <3>2. f \in [1 .. 0 -> Record]
        BY <2>1, <3>1
      <3> HIDE DEF f
      <3> QED
        BY <3>2, SeqDef
    <2> QED
      BY <2>2, <2>3
  <1>7. Len(f) \in Nat /\ DOMAIN f = 1 .. Len(f) /\ DOMAIN f = 1 .. count
    <2>1. DOMAIN f = 1 .. count
      OBVIOUS
    <2> HIDE DEF f
    <2> QED
      BY <1>6, <2>1
  <1>8. Len(f) < PerPage <=> count < PerPage
    <2> HIDE DEF f, count
    <2>1. \A n \in Int : n \in 1 .. count <=> n \in 1 .. Len(f)
      BY <1>7
    <2>2. count \in 1 .. count <=> count \in 1 .. Len(f)
      BY <1>4, <2>1
    <2>3. Len(f) \in 1 .. count <=> Len(f) \in 1 .. Len(f)
      BY <1>7, <2>1
    <2>4. count >= 1 => count <= Len(f)
      BY <1>4, <1>7, <2>2
    <2>5. Len(f) >= 1 => Len(f) <= count
      BY <1>4, <1>7, <2>3
    <2> QED
      BY <1>2, <1>4, <1>7, <2>4, <2>5
  <1>9. ASSUME NEW r \in ToSet(f)
        PROVE  r.item \in Present /\ r = Current(r.item) /\ upd[r.item] > since /\ Ahead(r.item, k)
    <2>1. PICK n \in 1 .. count : r = f[n]
      BY <1>7, <1>9 DEF ToSet
    <2>2. r = [item |-> Nth(K + n - 1), at |-> upd[Nth(K + n - 1)]]
      BY <2>1
    <2>3. r.item = Nth(K + n - 1) /\ r.at = upd[Nth(K + n - 1)]
      BY <2>2
    <2> QED
      BY <1>5, <2>2, <2>3 DEF Current, Ahead
  <1>10. ASSUME NEW i \in Newer(since), Ahead(i, k), ~ (~ (Len(f) < PerPage) /\ Ahead(i, k + 1))
         PROVE  Current(i) \in ToSet(f)
    <2>1. i \in Present /\ i \in Items /\ i \in NewerIn(upd, since)
      BY ListNow DEF Newer, Present
    <2>2. Rank(i) \in Nat /\ Rank(i) < Cardinality(Newer(since)) /\ Rank(i) >= K
      BY <1>3, <1>10, <2>1, ListNow, RankBelow, RankType DEF Ahead
    <2> DEFINE n == Rank(i) - K + 1
    <2>3. Rank(i) < K + PerPage \/ count < PerPage
      BY <1>2, <1>8, <1>10, <2>2 DEF Ahead
    <2>4. n \in 1 .. count /\ K + n - 1 = Rank(i)
      <3>1. n \in Nat /\ n >= 1 /\ n <= left
        BY <1>2, <2>2
      <3>2. n <= PerPage \/ count < PerPage
        BY <1>2, <2>2, <2>3
      <3>3. count < PerPage => count = left
        BY <1>2
      <3>4. count = PerPage \/ count = left
        OBVIOUS
      <3> HIDE DEF n, count
      <3>5. n <= count
        BY <1>2, <1>4, <3>1, <3>2, <3>3, <3>4
      <3>6. K + n - 1 = Rank(i)
        BY <1>2, <2>2 DEF n
      <3> QED
        BY <1>4, <3>1, <3>5, <3>6
    <2>5. Nth(K + n - 1) = i
      <3>1. Nth(Rank(i)) \in Present /\ Rank(Nth(Rank(i))) = Rank(i)
        BY <2>1 DEF Nth
      <3>2. Nth(Rank(i)) = i
        BY <1>3, <2>1, <3>1, ListNow, RankIsOne DEF Present
      <3> QED
        BY <2>4, <3>2
    <2>6. f[n] = Current(i) /\ n \in DOMAIN f
      BY <1>7, <2>4, <2>5 DEF Current
    <2> QED
      BY <2>6 DEF ToSet
  <1>11. ASSUME ~ (Len(f) < PerPage)
         PROVE  k + 1 \in PageNumber
    <2>1. left >= PerPage
      <3> HIDE DEF f, count, left
      <3> QED
        BY <1>2, <1>4, <1>8, <1>11
    <2>2. (k + 1) * PerPage <= Cardinality(Items)
      BY <1>2, <2>1
    <2> QED
      BY <1>2, <2>2 DEF PageNumber
  <1> HIDE DEF f
  <1> QED
    BY <1>1, <1>6, <1>9, <1>10, <1>11

-----------------------------------------------------------------------------
(***************************************************************************)
(* The steps                                                               *)
(***************************************************************************)
Stages(p) ==
    /\ p.phase \in {"missing", "archive", "hold", "write"} => p.recs = <<>>
    /\ p.phase \in {"check", "save"} => p.recs # <<>>
    /\ p.phase = "missing" => p.snapshot
    /\ p.phase \in {"archive", "hold", "write"} => ~p.snapshot
    /\ p.phase \in {"fetch", "connect", "check"} => p.bad = {}
    /\ p.snapshot /\ Fetching(p) => p.since = 0 /\ p.pending = 0
    /\ (p.snapshot /\ Returned(p)) \/ p.phase = "archive" => p.out.page = NoPage

\* No mark is from the future.
InPast(c) == c.hwm <= clock /\ c.pending <= clock
Past(p) ==
    /\ p.since <= clock /\ p.pending <= clock /\ InPast(p.out)
    /\ \A r \in ToSet(p.recs) \cup p.bad : r.at <= clock

SourceInv ==
    /\ TypeOK /\ Listing /\ InPast(cursor)
    /\ \A s \in Syncs : Stages(sync[s]) /\ Past(sync[s])

Moves(s, q) == sync' = [sync EXCEPT ![s] = q] /\ UNCHANGED <<upd, clock>>

LEMMA MovesOne ==
  ASSUME TypeOK, NEW s \in Syncs, NEW q, Moves(s, q)
  PROVE  sync'[s] = q /\ \A t \in Syncs \ {s} : sync'[t] = sync[t]
  BY DEF Moves, TypeOK

LEMMA NoPageIsNone ==
  /\ NoPage \notin PageNumber /\ 0 \in PageNumber /\ 0 \in Time
  /\ NewCursor \in Cursor /\ Idle \in UnderWay
  /\ \A n \in PageNumber : n \in Nat
  /\ \A t \in Time : t \in Nat
  <1>1. NoPage \notin PageNumber /\ 0 \in PageNumber /\ 0 \in Time
        /\ (\A n \in PageNumber : n \in Nat) /\ (\A t \in Time : t \in Nat)
    BY SyncConstants DEF NoPage, PageNumber, Time
  <1>2. NewCursor \in Cursor
    BY <1>1 DEF NewCursor, Cursor, AtTime, MaxFailingPages
  <1>3. <<>> \in Seq(Record)
    OBVIOUS
  <1> QED
    BY <1>1, <1>2, <1>3 DEF Idle, UnderWay, Phases

LEMMA InvOfMove ==
  ASSUME SourceInv, NEW s \in Syncs, NEW q \in UnderWay, Moves(s, q), Stages(q), Past(q),
         connected' \in BOOLEAN, raced' \in BOOLEAN, cursor' \in Cursor, InPast(cursor'),
         saved' \in [Items -> Time], seen' \in [Items -> Time], given' \in [Items -> Time],
         requested' \in 0 .. MaxRequests, faults' \in 0 .. MaxFaults
  PROVE  SourceInv'
  <1>1. sync' \in [Syncs -> UnderWay]
    BY DEF Moves, SourceInv, TypeOK
  <1>2. TypeOK'
    BY <1>1 DEF TypeOK, SourceInv, Moves
  <1>3. UNCHANGED <<upd, clock>>
    BY DEF Moves
  <1>4. Listing' /\ InPast(cursor)'
    BY <1>3 DEF Listing, SourceInv, InPast
  <1>5. ASSUME NEW t \in Syncs
        PROVE  Stages(sync[t])' /\ Past(sync[t])'
    <2>1. sync'[t] = q \/ sync'[t] = sync[t]
      BY MovesOne DEF SourceInv
    <2>2. PICK x : x = sync'[t]
      OBVIOUS
    <2>3. Stages(x) /\ Past(x)
      BY <2>1, <2>2 DEF SourceInv
    <2>4. Stages(x)' /\ Past(x)'
      BY <1>3, <2>3 DEF Stages, Past, InPast, Fetching, Returned
    <2> QED
      BY <2>2, <2>4 DEF Stages, Past, InPast, Fetching, Returned
  <1> QED
    BY <1>2, <1>4, <1>5 DEF SourceInv

LEMMA UnderWayIs ==
  ASSUME TypeOK, NEW s \in Syncs
  PROVE  /\ sync[s] \in UnderWay
         /\ sync[s].phase \in Phases /\ sync[s].since \in Time /\ sync[s].page \in PageNumber
         /\ sync[s].pending \in Time /\ sync[s].recs \in Seq(Record)
         /\ sync[s].bad \in SUBSET Record /\ sync[s].snapshot \in BOOLEAN
         /\ sync[s].ids \in SUBSET Items /\ sync[s].out \in Cursor
  BY DEF TypeOK, UnderWay

LEMMA CursorIs ==
  ASSUME NEW c \in Cursor
  PROVE  /\ c.hwm \in Time /\ c.pending \in Time /\ c.page \in PageNumber \cup {NoPage}
         /\ c.fails \in 0 .. MaxFailingPages - 1
         /\ c.page = NoPage => c.value.at = c.hwm
  BY DEF Cursor, AtTime

LEMMA BeginSteps ==
  ASSUME SourceInv, NEW s \in Syncs, NEW since \in Time, NEW page \in PageNumber,
         NEW pending \in Time, NEW snapshot \in BOOLEAN, since <= clock, pending <= clock,
         snapshot => since = 0 /\ pending = 0,
         Begin(s, since, page, pending, snapshot),
         requested' \in 0 .. MaxRequests, faults' \in 0 .. MaxFaults
  PROVE  /\ SourceInv'
         /\ UNCHANGED <<upd, clock, cursor, saved, seen, given>>
         /\ sync[s].phase = "idle"
         /\ raced' = (raced \/ \E t \in Syncs : Active(t))
         /\ \E q \in UnderWay :
               /\ Moves(s, q) /\ q.phase = "fetch" /\ q.since = since /\ q.page = page
               /\ q.pending = pending /\ q.snapshot = snapshot /\ q.recs = <<>> /\ q.bad = {}
  <1> PICK q : q = [Idle EXCEPT !.phase = "fetch", !.since = since, !.page = page,
                        !.pending = pending, !.snapshot = snapshot]
    OBVIOUS
  <1>1. q \in UnderWay
    BY NoPageIsNone DEF UnderWay, Phases
  <1>2. Moves(s, q)
    BY DEF Begin, Moves, service
  <1>3. /\ q.phase = "fetch" /\ q.since = since /\ q.page = page
        /\ q.pending = pending /\ q.snapshot = snapshot /\ q.recs = <<>> /\ q.bad = {}
        /\ q.out = NewCursor
    BY DEF Idle
  <1>4. Stages(q)
    BY <1>3 DEF Stages, Fetching, Returned
  <1>5. clock \in Nat
    BY NoPageIsNone DEF SourceInv, TypeOK
  <1>6. Past(q)
    <2>1. NewCursor.hwm = 0 /\ NewCursor.pending = 0
      BY DEF NewCursor
    <2>2. ToSet(q.recs) \cup q.bad = {}
      BY <1>3 DEF ToSet
    <2> QED
      BY <1>3, <1>5, <2>1, <2>2 DEF Past, InPast
  <1>7. /\ UNCHANGED <<upd, clock, connected, cursor, saved, seen, given>>
        /\ raced' = (raced \/ \E t \in Syncs : Active(t))
        /\ sync[s].phase = "idle"
    BY DEF Begin, service
  <1>8. SourceInv'
    <2>1. connected' \in BOOLEAN /\ raced' \in BOOLEAN
      BY <1>7 DEF SourceInv, TypeOK
    <2>2. /\ cursor' \in Cursor /\ InPast(cursor') /\ saved' \in [Items -> Time]
          /\ seen' \in [Items -> Time] /\ given' \in [Items -> Time]
      BY <1>7 DEF SourceInv, TypeOK
    <2> QED
      BY <1>1, <1>2, <1>4, <1>6, <2>1, <2>2, InvOfMove
  <1> QED
    BY <1>1, <1>2, <1>3, <1>7, <1>8

\* What a sync that begins has done.
Begins(s, since, page, pending, snapshot) ==
  /\ SourceInv'
  /\ UNCHANGED <<upd, clock, cursor, saved, seen, given>>
  /\ raced' = (raced \/ \E t \in Syncs : Active(t))
  /\ \E q \in UnderWay :
        /\ Moves(s, q) /\ q.phase = "fetch" /\ q.since = since /\ q.page = page
        /\ q.pending = pending /\ q.snapshot = snapshot /\ q.recs = <<>> /\ q.bad = {}

LEMMA BeginsWhere ==
  ASSUME SourceInv, NEW s \in Syncs, NEW since \in Time, NEW page \in PageNumber,
         NEW pending \in Time, since <= clock, pending <= clock,
         Begin(s, since, page, pending, FALSE),
         requested' \in 0 .. MaxRequests, faults' \in 0 .. MaxFaults
  PROVE  Begins(s, since, page, pending, FALSE)
  <1> PICK snapshot : snapshot = FALSE
    OBVIOUS
  <1>1. snapshot \in BOOLEAN /\ (snapshot => since = 0 /\ pending = 0)
    OBVIOUS
  <1>2. Begin(s, since, page, pending, snapshot)
    OBVIOUS
  <1>3. Begins(s, since, page, pending, snapshot)
    BY <1>1, <1>2, BeginSteps DEF Begins
  <1> QED
    BY <1>3

\* A scheduled sync begins at the cursor, a requested one at the top.
LEMMA JobSteps ==
  ASSUME SourceInv, NEW w \in Workers, StartJob(w)
  PROVE  /\ SourceInv'
         /\ UNCHANGED <<upd, clock, cursor, saved, seen, given>>
         /\ raced' = (raced \/ \E t \in Syncs : Active(t))
         /\ \E q \in UnderWay :
               /\ Moves(w, q) /\ q.phase = "fetch" /\ q.recs = <<>> /\ q.bad = {}
               /\ q.pending = cursor.pending /\ q.snapshot = FALSE
               /\ \/ cursor.page # NoPage /\ q.since = 0 /\ q.page = cursor.page
                  \/ cursor.page = NoPage /\ q.since = cursor.hwm /\ q.page = 0
  <1>1. cursor \in Cursor /\ InPast(cursor) /\ clock \in Nat /\ w \in Syncs
    BY NoPageIsNone DEF SourceInv, TypeOK, Syncs
  <1>2. /\ cursor.hwm \in Time /\ cursor.pending \in Time /\ cursor.page \in PageNumber \cup {NoPage}
        /\ cursor.page = NoPage => cursor.value.at = cursor.hwm
    BY <1>1, CursorIs
  <1> PICK since : since = IF cursor.page # NoPage THEN 0
                           ELSE IF cursor.hwm # 0 THEN cursor.hwm ELSE cursor.value.at
    OBVIOUS
  <1> PICK page : page = IF cursor.page # NoPage THEN cursor.page ELSE 0
    OBVIOUS
  <1>3. /\ since \in Time /\ page \in PageNumber /\ since <= clock /\ cursor.pending <= clock
        /\ \/ cursor.page # NoPage /\ since = 0 /\ page = cursor.page
           \/ cursor.page = NoPage /\ since = cursor.hwm /\ page = 0
    BY <1>1, <1>2, NoPageIsNone DEF InPast
  <1> PICK pending \in Time : pending = cursor.pending
    BY <1>2
  <1>4. Begin(w, since, page, pending, FALSE)
    BY DEF StartJob
  <1>5. requested' \in 0 .. MaxRequests /\ faults' \in 0 .. MaxFaults
    BY DEF StartJob, bounds, SourceInv, TypeOK
  <1>6. since \in Time /\ page \in PageNumber /\ since <= clock /\ pending <= clock /\ w \in Syncs
    BY <1>1, <1>3
  <1>7. Begins(w, since, page, pending, FALSE)
    BY ONLY SourceInv, <1>4, <1>5, <1>6, pending \in Time, BeginsWhere
  <1>8. /\ SourceInv'
        /\ UNCHANGED <<upd, clock, cursor, saved, seen, given>>
        /\ raced' = (raced \/ \E t \in Syncs : Active(t))
        /\ \E q \in UnderWay :
              /\ Moves(w, q) /\ q.phase = "fetch" /\ q.since = since /\ q.page = page
              /\ q.pending = pending /\ q.snapshot = FALSE /\ q.recs = <<>> /\ q.bad = {}
    BY <1>7 DEF Begins
  <1> QED
    BY ONLY <1>3, <1>8, pending = cursor.pending

LEMMA RequestSteps ==
  ASSUME SourceInv, NEW r \in Requests, NEW snapshot \in BOOLEAN, StartRequest(r, snapshot)
  PROVE  /\ SourceInv'
         /\ UNCHANGED <<upd, clock, cursor, saved, seen, given>>
         /\ raced' = (raced \/ \E t \in Syncs : Active(t))
         /\ \E q \in UnderWay :
               /\ Moves(r, q) /\ q.phase = "fetch" /\ q.recs = <<>> /\ q.bad = {}
               /\ q.pending = 0 /\ q.since = 0 /\ q.page = 0
  <1>1. clock \in Nat /\ r \in Syncs
    BY NoPageIsNone DEF SourceInv, TypeOK, Syncs
  <1>2. requested' \in 0 .. MaxRequests /\ faults' \in 0 .. MaxFaults
    BY SyncConstants DEF StartRequest, SourceInv, TypeOK
  <1>3. Begin(r, 0, 0, 0, snapshot)
    BY DEF StartRequest
  <1> PICK none : none = 0
    OBVIOUS
  <1>4. /\ none \in Time /\ none \in PageNumber /\ none <= clock
        /\ snapshot => none = 0 /\ none = 0
    BY <1>1, NoPageIsNone
  <1>5. Begin(r, none, none, none, snapshot)
    BY <1>3
  <1>6. Begins(r, none, none, none, snapshot)
    BY ONLY SourceInv, snapshot \in BOOLEAN, <1>1, <1>2, <1>4, <1>5, BeginSteps DEF Begins
  <1> QED
    BY <1>6 DEF Begins

\* What a scan asks for when it ends: at `next` or by an error, or complete.
LEMMA FetchedIs ==
  ASSUME NEW p \in UnderWay, NEW recs \in Seq(Record), NEW next \in PageNumber \cup {NoPage},
         NEW error \in BOOLEAN, clock \in Time, p.since <= clock, p.pending <= clock,
         \A r \in ToSet(recs) : r.at <= clock
  PROVE  LET q == Fetched(p, recs, next, error)
             newest == Larger(p.pending, Newest(ToSet(recs))) IN
         /\ q \in UnderWay /\ Stages(q) /\ Past(q)
         /\ q.phase = "connect" /\ q.recs = recs /\ q.bad = {}
         /\ q.snapshot <=> MayArchive(p, recs, next, error)
         /\ q.snapshot => q.ids = {r.item : r \in ToSet(recs)}
         /\ q.out.page = next
         /\ next # NoPage \/ error => q.out.hwm = p.since /\ q.out.pending = newest
         /\ next = NoPage /\ ~error =>
               q.out.hwm = (IF newest # 0 THEN newest ELSE p.since) /\ q.out.pending = 0
  <1> PICK newest : newest = Larger(p.pending, Newest(ToSet(recs)))
    OBVIOUS
  <1> PICK out : out = ScanCursor(p, recs, next, error)
    OBVIOUS
  <1> PICK may \in BOOLEAN : may <=> MayArchive(p, recs, next, error)
    OBVIOUS
  <1> PICK ids : ids = IF MayArchive(p, recs, next, error) THEN {r.item : r \in ToSet(recs)} ELSE {}
    OBVIOUS
  <1> PICK q : q = Fetched(p, recs, next, error)
    OBVIOUS
  <1>1. p.since \in Time /\ p.pending \in Time /\ p.since \in Nat /\ p.pending \in Nat /\ clock \in Nat
    BY NoPageIsNone DEF UnderWay
  <1>2. ToSet(recs) \in SUBSET Record
    BY SetOfRecords
  <1>3. newest \in Time /\ newest \in Nat /\ newest <= clock
    <2>1. Newest(ToSet(recs)) \in Time /\ Newest(ToSet(recs)) \in Nat /\ Newest(ToSet(recs)) <= clock
      <3>1. /\ Newest(ToSet(recs)) \in Time
            /\ Newest(ToSet(recs)) = 0 \/ \E r \in ToSet(recs) : Newest(ToSet(recs)) = r.at
        BY <1>2, NewestIs
      <3> PICK m : m = Newest(ToSet(recs))
        OBVIOUS
      <3>2. m \in Nat /\ m <= clock /\ m \in Time
        BY ONLY <1>1, <3>1, m = Newest(ToSet(recs)), NoPageIsNone,
                \A r \in ToSet(recs) : r.at <= clock
      <3> QED
        BY <3>2
    <2> QED
      BY <1>1, <2>1, LargerIs
  <1>4. /\ out.page = next
        /\ next # NoPage \/ error => out.hwm = p.since /\ out.pending = newest
        /\ next = NoPage /\ ~error =>
              out.hwm = (IF newest # 0 THEN newest ELSE p.since) /\ out.pending = 0
        /\ out.fails = 0
        /\ out.value = IF next = NoPage THEN AtTime(out.hwm) ELSE AtPage(next)
        /\ out = [page |-> out.page, hwm |-> out.hwm, pending |-> out.pending,
                  value |-> out.value, fails |-> out.fails]
    BY DEF ScanCursor
  <1>5. out \in Cursor /\ InPast(out)
    <2>1. out.hwm \in Time /\ out.pending \in Time /\ out.hwm <= clock /\ out.pending <= clock
      BY <1>1, <1>3, <1>4, NoPageIsNone
    <2>2. out.value \in [kind : {"page", "time"}, at : Nat]
      <3>1. out.hwm \in Nat
        BY <2>1, NoPageIsNone
      <3>2. CASE next = NoPage
        BY <1>4, <3>1, <3>2 DEF AtTime
      <3>3. CASE next # NoPage
        <4>1. next \in Nat
          BY <3>3, NoPageIsNone
        <4> QED
          BY <1>4, <3>3, <4>1 DEF AtPage
      <3> QED
        BY <3>2, <3>3
    <2> QED
      BY <1>4, <2>1, <2>2 DEF Cursor, MaxFailingPages, InPast
  <1>6. may => next = NoPage
    BY DEF MayArchive
  <1>7. ids \in SUBSET Items
    BY <1>2 DEF Record
  <1>8. q = [Idle EXCEPT !.phase = "connect", !.recs = recs, !.snapshot = may, !.ids = ids, !.out = out]
    <2>1. may = MayArchive(p, recs, next, error)
      BY DEF MayArchive
    <2> QED
      BY <2>1 DEF Fetched
  <1>9. /\ q \in UnderWay /\ q.phase = "connect" /\ q.recs = recs /\ q.bad = {} /\ q.since = 0
        /\ q.pending = 0 /\ q.snapshot = may /\ q.ids = ids /\ q.out = out
    BY <1>5, <1>7, <1>8, NoPageIsNone DEF UnderWay, Phases, Idle
  <1>10. Stages(q)
    BY <1>4, <1>6, <1>9 DEF Stages, Fetching, Returned
  <1>11. Past(q)
    BY <1>1, <1>5, <1>9 DEF Past
  <1> QED
    BY <1>4, <1>9, <1>10, <1>11

LEMMA InvParts ==
  ASSUME SourceInv
  PROVE  /\ TypeOK /\ Listing /\ InPast(cursor) /\ cursor \in Cursor
         /\ clock \in Time /\ clock \in Nat /\ connected \in BOOLEAN /\ raced \in BOOLEAN
         /\ saved \in [Items -> Time] /\ seen \in [Items -> Time] /\ given \in [Items -> Time]
         /\ upd \in [Items -> Time] /\ upd \in [Items -> Nat]
         /\ requested \in 0 .. MaxRequests /\ faults \in 0 .. MaxFaults
         /\ requested \in Nat /\ faults \in Nat
         /\ \A s \in Syncs : Stages(sync[s]) /\ Past(sync[s])
  BY NoPageIsNone, SyncConstants DEF SourceInv, TypeOK, Time

LEMMA ReadSteps ==
  ASSUME SourceInv, NEW s \in Syncs, ReadPage(s)
  PROVE  /\ SourceInv'
         /\ UNCHANGED <<upd, clock, cursor, saved, seen, given, raced>>
         /\ sync[s].phase = "fetch"
         /\ LET p == sync[s]
                fresh == FreshOnPage(p.page, p.since)
                recs == p.recs \o fresh
            IN  \E q \in UnderWay :
                  /\ Moves(s, q) /\ recs \in Seq(Record) /\ ToSet(recs) = ToSet(p.recs) \cup ToSet(fresh)
                  /\ \/ /\ q = [p EXCEPT !.recs = recs, !.page = @ + 1]
                        /\ ~ (Len(fresh) < PerPage)
                     \/ /\ q = Fetched(p, recs, p.page + 1, FALSE)
                        /\ ~ (Len(fresh) < PerPage) /\ p.page + 1 \in PageNumber
                     \/ /\ q = Fetched(p, recs, NoPage, FALSE)
                        /\ Len(fresh) < PerPage
  <1> DEFINE p == sync[s]
             f == FreshOnPage(p.page, p.since)
             r == p.recs \o f
  <1>1. /\ p \in UnderWay /\ p.since \in Nat /\ p.page \in Nat /\ p.recs \in Seq(Record)
        /\ p.since \in Time /\ p.pending \in Time /\ p.page \in PageNumber
        /\ p.bad \in SUBSET Record /\ p.snapshot \in BOOLEAN /\ p.ids \in SUBSET Items /\ p.out \in Cursor
    BY InvParts, UnderWayIs, NoPageIsNone
  <1>2. /\ f \in Seq(Record)
        /\ \A x \in ToSet(f) : x.item \in Present /\ x = Current(x.item)
        /\ ~ (Len(f) < PerPage) => p.page + 1 \in PageNumber
    BY <1>1, InvParts, FreshIs
  <1>3. r \in Seq(Record) /\ ToSet(r) = ToSet(p.recs) \cup ToSet(f)
    BY <1>1, <1>2, InConcat
  <1>4. \A x \in ToSet(f) : x.at <= clock
    BY <1>2, InvParts DEF Current, Listing, Present
  <1>5. Past(p) /\ Stages(p) /\ p.phase = "fetch"
    BY InvParts DEF ReadPage
  <1>6. (\A x \in ToSet(r) : x.at <= clock) /\ p.since <= clock /\ p.pending <= clock
    BY <1>3, <1>4, <1>5 DEF Past
  <1>7. UNCHANGED <<upd, clock, cursor, connected, saved, seen, given, raced, requested, faults>>
    BY DEF ReadPage, service, history, bounds
  <1>8. PICK q : /\ Moves(s, q)
                 /\ \/ q = [p EXCEPT !.recs = r, !.page = @ + 1] /\ ~ (Len(f) < PerPage)
                    \/ q = Fetched(p, r, p.page + 1, FALSE) /\ ~ (Len(f) < PerPage)
                    \/ q = Fetched(p, r, NoPage, FALSE) /\ Len(f) < PerPage
    <2> DEFINE q == IF Len(f) < PerPage THEN Fetched(p, r, NoPage, FALSE)
                    ELSE IF Len(r) >= Cap THEN Fetched(p, r, p.page + 1, FALSE)
                    ELSE [p EXCEPT !.recs = r, !.page = @ + 1]
    <2>1. sync' = [sync EXCEPT ![s] = q]
      BY DEF ReadPage
    <2>2. Moves(s, q)
      BY <1>7, <2>1 DEF Moves
    <2> HIDE DEF f, r
    <2> QED
      BY <2>2
  <1> HIDE DEF p, f, r
  <1>9. q \in UnderWay /\ Stages(q) /\ Past(q)
    <2>1. CASE q = [p EXCEPT !.recs = r, !.page = @ + 1] /\ ~ (Len(f) < PerPage)
      <3>1. /\ q.phase = p.phase /\ q.since = p.since /\ q.page = p.page + 1 /\ q.pending = p.pending
            /\ q.recs = r /\ q.bad = p.bad /\ q.snapshot = p.snapshot /\ q.ids = p.ids /\ q.out = p.out
        BY <1>1, <2>1 DEF UnderWay
      <3>2. q \in UnderWay
        BY <1>1, <1>2, <1>3, <1>5, <2>1, <3>1 DEF UnderWay, Phases
      <3>3. Stages(q)
        BY <1>5, <3>1 DEF Stages, Fetching, Returned
      <3>4. Past(q)
        BY <1>5, <1>6, <3>1 DEF Past
      <3> QED
        BY <3>2, <3>3, <3>4
    <2>2. CASE q = Fetched(p, r, p.page + 1, FALSE) /\ ~ (Len(f) < PerPage)
      <3>1. p.page + 1 \in PageNumber \cup {NoPage} /\ FALSE \in BOOLEAN
        BY <1>2, <2>2
      <3> QED
        BY <1>1, <1>3, <1>6, <2>2, <3>1, InvParts, FetchedIs
    <2>3. CASE q = Fetched(p, r, NoPage, FALSE)
      BY <1>1, <1>3, <1>6, <2>3, InvParts, FetchedIs
    <2> QED
      BY <1>8, <2>1, <2>2, <2>3
  <1>10. SourceInv'
    <2>1. /\ connected' \in BOOLEAN /\ raced' \in BOOLEAN /\ cursor' \in Cursor /\ InPast(cursor')
          /\ saved' \in [Items -> Time] /\ seen' \in [Items -> Time] /\ given' \in [Items -> Time]
          /\ requested' \in 0 .. MaxRequests /\ faults' \in 0 .. MaxFaults
      BY <1>7, InvParts
    <2> QED
      BY <1>8, <1>9, <2>1, InvOfMove
  <1> QED
    BY <1>2, <1>3, <1>5, <1>7, <1>8, <1>9, <1>10 DEF p, f, r

LEMMA LoseSteps ==
  ASSUME SourceInv, NEW s \in Syncs, LosePage(s)
  PROVE  /\ SourceInv'
         /\ UNCHANGED <<upd, clock, cursor, saved, seen, given, raced>>
         /\ sync[s].phase = "fetch"
         /\ \E q \in UnderWay : Moves(s, q) /\ q = Fetched(sync[s], sync[s].recs, NoPage, TRUE)
  <1> PICK p : p = sync[s]
    OBVIOUS
  <1> PICK q : q = Fetched(p, p.recs, NoPage, TRUE)
    OBVIOUS
  <1>1. p \in UnderWay /\ p.recs \in Seq(Record) /\ Past(p)
    BY InvParts, UnderWayIs
  <1>2. q \in UnderWay /\ Stages(q) /\ Past(q)
    <2>1. p.since <= clock /\ p.pending <= clock /\ \A x \in ToSet(p.recs) : x.at <= clock
      BY <1>1 DEF Past
    <2> QED
      BY <1>1, <2>1, InvParts, FetchedIs
  <1>3. UNCHANGED <<upd, clock, cursor, connected, saved, seen, given, raced, requested>>
    BY DEF LosePage, service, history
  <1>4. Moves(s, q) /\ sync[s].phase = "fetch"
    BY <1>3 DEF LosePage, Moves
  <1>5. /\ connected' \in BOOLEAN /\ raced' \in BOOLEAN /\ cursor' \in Cursor /\ InPast(cursor')
        /\ saved' \in [Items -> Time] /\ seen' \in [Items -> Time] /\ given' \in [Items -> Time]
        /\ requested' \in 0 .. MaxRequests /\ faults' \in 0 .. MaxFaults
    BY <1>3, InvParts, SyncConstants DEF LosePage
  <1>6. SourceInv'
    BY <1>2, <1>4, <1>5, InvOfMove
  <1> QED
    BY <1>2, <1>3, <1>4, <1>6

\* A step of s that leaves the list, the cursor and the limits alone.
LEMMA InvOfStep ==
  ASSUME SourceInv, NEW s \in Syncs, NEW q \in UnderWay, Moves(s, q), Stages(q), Past(q),
         UNCHANGED <<cursor, raced, requested>>, connected' \in BOOLEAN,
         saved' \in [Items -> Time], seen' \in [Items -> Time],
         given' = given, faults' \in 0 .. MaxFaults
  PROVE  SourceInv'
  <1>1. /\ raced' \in BOOLEAN /\ cursor' \in Cursor /\ InPast(cursor')
        /\ given' \in [Items -> Time] /\ requested' \in 0 .. MaxRequests
    BY InvParts
  <1> QED
    BY <1>1, InvOfMove

\* The steps that take no record.
LEMMA ConnectSteps ==
  ASSUME SourceInv, NEW s \in Syncs, Connect(s) \/ (Check(s) /\ connected)
  PROVE  /\ SourceInv'
         /\ UNCHANGED <<upd, clock, cursor, saved, seen, given, raced>>
         /\ Returned(sync[s])
         /\ \E q \in UnderWay :
               /\ Moves(s, q) /\ Returned(q) /\ q.phase # "archive"
               /\ q.recs = sync[s].recs /\ q.bad = sync[s].bad /\ q.out = sync[s].out
               /\ q.snapshot = sync[s].snapshot /\ q.ids = sync[s].ids
  <1> PICK p : p = sync[s]
    OBVIOUS
  <1>1. p \in UnderWay /\ Stages(p) /\ Past(p)
    BY InvParts, UnderWayIs
  <1>2. UNCHANGED <<upd, clock, cursor, saved, seen, given, raced, requested, faults>>
        /\ connected' \in BOOLEAN
    BY InvParts DEF Connect, Check, service, history, bounds
  <1>3. PICK ph : /\ sync' = [sync EXCEPT ![s] = [p EXCEPT !.phase = ph]]
                  /\ p.phase \in {"connect", "check"}
                  /\ \/ p.phase = "connect" /\ ph = IF p.recs # <<>> THEN "check"
                                                    ELSE IF p.snapshot THEN "missing" ELSE "write"
                     \/ p.phase = "check" /\ ph = "save" /\ p.recs # <<>>
    <2>1. CASE Connect(s)
      BY <2>1 DEF Connect
    <2>2. CASE Check(s) /\ connected
      <3>1. p.phase = "check" /\ sync' = [sync EXCEPT ![s] = [p EXCEPT !.phase = "save"]]
        BY <2>2 DEF Check
      <3>2. p.recs # <<>>
        BY <1>1, <3>1 DEF Stages
      <3> QED
        BY <3>1, <3>2
    <2> QED
      BY <2>1, <2>2
  <1> PICK q : q = [p EXCEPT !.phase = ph]
    OBVIOUS
  <1>4. Moves(s, q)
    BY <1>2, <1>3 DEF Moves
  <1>5. /\ q.phase = ph /\ q.since = p.since /\ q.page = p.page /\ q.pending = p.pending
        /\ q.recs = p.recs /\ q.bad = p.bad /\ q.snapshot = p.snapshot /\ q.ids = p.ids /\ q.out = p.out
    BY <1>1 DEF UnderWay
  <1>6. ph \in {"check", "missing", "write", "save"}
    BY <1>3
  <1>7. q \in UnderWay
    BY <1>1, <1>6 DEF UnderWay, Phases
  <1>8. Stages(q) /\ Past(q)
    BY <1>1, <1>3, <1>5, <1>6 DEF Stages, Past, Fetching, Returned
  <1>9. SourceInv'
    BY <1>2, <1>4, <1>7, <1>8, InvOfStep, InvParts
  <1> QED
    BY <1>2, <1>3, <1>4, <1>5, <1>6, <1>7, <1>9 DEF Returned

LEMMA FindSteps ==
  ASSUME SourceInv, NEW s \in Syncs, FindMissing(s)
  PROVE  /\ SourceInv'
         /\ UNCHANGED <<upd, clock, cursor, saved, seen, given, raced>>
         /\ Returned(sync[s]) /\ sync[s].snapshot /\ sync[s].recs = <<>>
         /\ \E q \in UnderWay :
               /\ Moves(s, q) /\ Returned(q) /\ ~q.snapshot
               /\ q.recs = sync[s].recs /\ q.bad = sync[s].bad /\ q.out = sync[s].out
               /\ q.ids = {i \in Items : saved[i] # 0} \ sync[s].ids
  <1> PICK p : p = sync[s]
    OBVIOUS
  <1>1. p \in UnderWay /\ Stages(p) /\ Past(p)
    BY InvParts, UnderWayIs
  <1>2. UNCHANGED <<upd, clock, cursor, connected, saved, seen, given, raced, requested, faults>>
    BY DEF FindMissing, service, history, bounds
  <1> PICK gone : gone = {i \in Items : saved[i] # 0} \ p.ids
    OBVIOUS
  <1> PICK ph : ph = IF gone = {} THEN AfterRecords([p EXCEPT !.snapshot = FALSE]) ELSE "archive"
    OBVIOUS
  <1> PICK q : q = [p EXCEPT !.ids = gone, !.snapshot = FALSE, !.phase = ph]
    OBVIOUS
  <1>3. p.phase = "missing" /\ Moves(s, q)
    BY <1>2 DEF FindMissing, Moves
  <1>4. ph \in {"hold", "write", "archive"}
    <2>1. ~ [p EXCEPT !.snapshot = FALSE].snapshot
      BY <1>1 DEF UnderWay
    <2> QED
      BY <2>1 DEF AfterRecords
  <1>5. /\ q.phase = ph /\ q.since = p.since /\ q.page = p.page /\ q.pending = p.pending
        /\ q.recs = p.recs /\ q.bad = p.bad /\ q.snapshot = FALSE /\ q.ids = gone /\ q.out = p.out
    BY <1>1 DEF UnderWay
  <1>6. q \in UnderWay
    BY <1>1, <1>4 DEF UnderWay, Phases
  <1>7. p.snapshot /\ p.recs = <<>> /\ Returned(p)
    BY <1>1, <1>3 DEF Stages, Returned
  <1>8. Stages(q) /\ Past(q)
    BY <1>1, <1>3, <1>4, <1>5, <1>7 DEF Stages, Past, Fetching, Returned
  <1>9. SourceInv'
    BY <1>2, <1>3, <1>6, <1>8, InvOfStep, InvParts
  <1> QED
    BY <1>2, <1>3, <1>4, <1>5, <1>6, <1>7, <1>9 DEF Returned

LEMMA ArchiveSteps ==
  ASSUME SourceInv, NEW s \in Syncs, NEW i \in Items, ArchiveMissing(s, i)
  PROVE  /\ SourceInv'
         /\ UNCHANGED <<upd, clock, cursor, seen, given, raced>>
         /\ sync[s].phase = "archive" /\ sync[s].recs = <<>> /\ i \in sync[s].ids
         /\ saved' = [saved EXCEPT ![i] = 0]
         /\ \E q \in UnderWay :
               /\ Moves(s, q) /\ Returned(q)
               /\ q.recs = sync[s].recs /\ q.bad = sync[s].bad /\ q.out = sync[s].out
               /\ q.snapshot = sync[s].snapshot /\ q.ids = sync[s].ids \ {i}
  <1> PICK p : p = sync[s]
    OBVIOUS
  <1>1. p \in UnderWay /\ Stages(p) /\ Past(p)
    BY InvParts, UnderWayIs
  <1>2. UNCHANGED <<upd, clock, cursor, connected, seen, given, raced, requested, faults>>
        /\ saved' = [saved EXCEPT ![i] = 0] /\ saved' \in [Items -> Time]
    BY InvParts, NoPageIsNone DEF ArchiveMissing, service, history, bounds
  <1> PICK left : left = p.ids \ {i}
    OBVIOUS
  <1> PICK ph : ph = IF left = {} THEN AfterRecords(p) ELSE "archive"
    OBVIOUS
  <1> PICK q : q = [p EXCEPT !.ids = left, !.phase = ph]
    OBVIOUS
  <1>3. p.phase = "archive" /\ Moves(s, q) /\ i \in p.ids
    BY <1>2 DEF ArchiveMissing, Moves
  <1>4. ph \in {"hold", "write", "archive", "missing"} /\ (ph = "missing" => p.snapshot)
    BY DEF AfterRecords
  <1>5. /\ q.phase = ph /\ q.since = p.since /\ q.page = p.page /\ q.pending = p.pending
        /\ q.recs = p.recs /\ q.bad = p.bad /\ q.snapshot = p.snapshot /\ q.ids = left /\ q.out = p.out
    BY <1>1 DEF UnderWay
  <1>6. q \in UnderWay
    BY <1>1, <1>4 DEF UnderWay, Phases
  <1>7. p.recs = <<>>
    BY <1>1, <1>3 DEF Stages
  <1>8. Stages(q) /\ Past(q)
    BY <1>1, <1>3, <1>4, <1>5, <1>7 DEF Stages, Past, Fetching, Returned
  <1>9. SourceInv'
    BY <1>2, <1>3, <1>6, <1>8, InvOfStep, InvParts
  <1> QED
    BY <1>2, <1>3, <1>4, <1>5, <1>6, <1>7, <1>9 DEF Returned

LEMMA IdleIs ==
  ASSUME SourceInv
  PROVE  Stages(Idle) /\ Past(Idle) /\ Idle \in UnderWay
  <1>1. /\ Idle.phase = "idle" /\ Idle.since = 0 /\ Idle.pending = 0 /\ Idle.recs = <<>>
        /\ Idle.bad = {} /\ Idle.snapshot = FALSE /\ Idle.out = NewCursor
    BY DEF Idle
  <1>2. NewCursor.hwm = 0 /\ NewCursor.pending = 0 /\ clock \in Nat
    BY InvParts DEF NewCursor
  <1>3. ToSet(Idle.recs) \cup Idle.bad = {}
    BY <1>1 DEF ToSet
  <1> QED
    BY <1>1, <1>2, <1>3, NoPageIsNone DEF Stages, Past, InPast, Fetching, Returned

\* The sync ends without its cursor.
LEMMA DropSteps ==
  ASSUME SourceInv, NEW s \in Syncs, Crash(s) \/ (Check(s) /\ ~connected)
  PROVE  /\ SourceInv'
         /\ UNCHANGED <<upd, clock, cursor, saved, seen, given, raced>>
         /\ Moves(s, Idle)
  <1>1. UNCHANGED <<upd, clock, cursor, connected, saved, seen, given, raced, requested>>
        /\ faults' \in 0 .. MaxFaults
    BY InvParts, SyncConstants DEF Crash, Check, service, history, bounds
  <1>2. Moves(s, Idle)
    BY <1>1 DEF Crash, Check, Moves
  <1>3. Stages(Idle) /\ Past(Idle) /\ Idle \in UnderWay
    BY IdleIs
  <1>4. SourceInv'
    BY <1>1, <1>2, <1>3, InvOfStep, InvParts
  <1> QED
    BY <1>1, <1>2, <1>4

LEMMA TakenIs ==
  ASSUME NEW p \in UnderWay, p.phase = "save", Stages(p), Past(p), NEW failed \in BOOLEAN
  PROVE  LET q == Taken(p, failed) IN
         /\ q \in UnderWay /\ Stages(q) /\ Past(q) /\ Returned(q) /\ q.phase # "archive"
         /\ q.recs = Tail(p.recs) /\ q.out = p.out /\ q.snapshot = p.snapshot /\ q.ids = p.ids
         /\ q.bad = IF failed THEN p.bad \cup {Head(p.recs)} ELSE p.bad
  <1>1. p.recs \in Seq(Record) /\ p.recs # <<>> /\ p.bad \in SUBSET Record
    BY DEF Stages, UnderWay
  <1>2. /\ Head(p.recs) \in Record /\ Tail(p.recs) \in Seq(Record)
        /\ Head(p.recs) \in ToSet(p.recs) /\ ToSet(Tail(p.recs)) \subseteq ToSet(p.recs)
    BY <1>1, HeadAndTail
  <1> PICK recs : recs = Tail(p.recs)
    OBVIOUS
  <1> PICK bad : bad = IF failed THEN p.bad \cup {Head(p.recs)} ELSE p.bad
    OBVIOUS
  <1> PICK m : m = [p EXCEPT !.recs = recs, !.bad = bad]
    OBVIOUS
  <1> PICK ph : ph = IF m.recs = <<>> THEN AfterRecords(m) ELSE "save"
    OBVIOUS
  <1> PICK q : q = [m EXCEPT !.phase = ph]
    OBVIOUS
  <1>3. q = Taken(p, failed)
    BY DEF Taken
  <1>4. bad \in SUBSET Record /\ bad \subseteq p.bad \cup ToSet(p.recs)
    BY <1>1, <1>2
  <1>5. m \in UnderWay /\ m.recs = recs /\ m.bad = bad /\ m.phase = p.phase /\ m.since = p.since
        /\ m.page = p.page /\ m.pending = p.pending /\ m.snapshot = p.snapshot /\ m.ids = p.ids
        /\ m.out = p.out
    BY <1>2, <1>4 DEF UnderWay
  <1>6. ph \in {"missing", "hold", "write", "save"} /\ (ph = "missing" <=> p.snapshot /\ recs = <<>>)
        /\ (ph = "save" <=> recs # <<>>)
    BY <1>5 DEF AfterRecords
  <1>11. /\ q.recs = m.recs /\ q.bad = m.bad /\ q.phase = ph /\ q.since = m.since
         /\ q.page = m.page /\ q.pending = m.pending /\ q.snapshot = m.snapshot /\ q.ids = m.ids
         /\ q.out = m.out
    BY <1>5 DEF UnderWay
  <1>12. q \in UnderWay
    <2>1. m \in UnderWay /\ ph \in Phases
      BY <1>5, <1>6 DEF Phases
    <2> QED
      BY <2>1 DEF UnderWay
  <1>7. q \in UnderWay /\ q.recs = recs /\ q.bad = bad /\ q.phase = ph /\ q.since = p.since
        /\ q.page = p.page /\ q.pending = p.pending /\ q.snapshot = p.snapshot /\ q.ids = p.ids
        /\ q.out = p.out
    BY <1>5, <1>11, <1>12
  <1>8. Stages(q) /\ Returned(q)
    <2>1. Returned(p)
      BY DEF Returned
    <2> QED
      BY <1>6, <1>7, <2>1 DEF Stages, Fetching, Returned
  <1>9. ToSet(q.recs) \cup q.bad \subseteq ToSet(p.recs) \cup p.bad
    BY <1>2, <1>4, <1>7
  <1>10. Past(q)
    BY <1>7, <1>9 DEF Past
  <1> QED
    BY <1>3, <1>6, <1>7, <1>8, <1>10

LEMMA SaveSteps ==
  ASSUME SourceInv, NEW s \in Syncs, Save(s)
  PROVE  LET p == sync[s]
             r == Head(p.recs)
         IN  /\ SourceInv'
             /\ UNCHANGED <<upd, clock, cursor, given, raced>>
             /\ p.phase = "save" /\ p.recs # <<>> /\ r \in Record
             /\ saved' = [saved EXCEPT ![r.item] = r.at]
             /\ seen' = [seen EXCEPT ![r.item] = Larger(seen[r.item], r.at)]
             /\ \E q \in UnderWay :
                   /\ Moves(s, q) /\ Returned(q) /\ q.phase # "archive"
                   /\ q.recs = Tail(p.recs) /\ q.bad = p.bad /\ q.out = p.out
                   /\ q.snapshot = p.snapshot /\ q.ids = p.ids
  <1> PICK p : p = sync[s]
    OBVIOUS
  <1> PICK r : r = Head(p.recs)
    OBVIOUS
  <1> PICK q : q = Taken(p, FALSE)
    OBVIOUS
  <1>1. p \in UnderWay /\ Stages(p) /\ Past(p) /\ p.phase = "save" /\ p.recs \in Seq(Record)
    BY InvParts, UnderWayIs DEF Save
  <1>2. p.recs # <<>> /\ r \in Record
    <2>1. p.recs # <<>>
      BY <1>1 DEF Stages
    <2> QED
      BY <1>1, <2>1, HeadAndTail
  <1>3. r.item \in Items /\ r.at \in Time /\ r.at \in Nat /\ seen[r.item] \in Time /\ seen[r.item] \in Nat
    BY <1>2, InvParts, NoPageIsNone DEF Record
  <1>4. UNCHANGED <<upd, clock, cursor, connected, given, raced, requested, faults>>
    BY DEF Save, service, bounds
  <1>5. /\ saved' = [saved EXCEPT ![r.item] = r.at]
        /\ seen' = [seen EXCEPT ![r.item] = Larger(seen[r.item], r.at)]
        /\ Moves(s, q)
    BY <1>4 DEF Save, Moves
  <1>6. saved' \in [Items -> Time] /\ seen' \in [Items -> Time]
    BY <1>3, <1>5, InvParts, LargerIs
  <1>7. /\ q \in UnderWay /\ Stages(q) /\ Past(q) /\ Returned(q) /\ q.phase # "archive"
        /\ q.recs = Tail(p.recs) /\ q.bad = p.bad /\ q.out = p.out
        /\ q.snapshot = p.snapshot /\ q.ids = p.ids
    BY <1>1, TakenIs
  <1>8. SourceInv'
    BY <1>4, <1>5, <1>6, <1>7, InvOfStep, InvParts
  <1> QED
    BY <1>1, <1>2, <1>4, <1>5, <1>7, <1>8

LEMMA RefuseSteps ==
  ASSUME SourceInv, NEW s \in Syncs, RefusePoison(s) \/ FailSave(s)
  PROVE  LET p == sync[s]
             r == Head(p.recs)
         IN  /\ SourceInv'
             /\ UNCHANGED <<upd, clock, cursor, saved, seen, given, raced>>
             /\ p.phase = "save" /\ p.recs # <<>> /\ r \in Record
             /\ \E q \in UnderWay :
                   /\ Moves(s, q) /\ Returned(q) /\ q.phase # "archive"
                   /\ q.recs = Tail(p.recs) /\ q.bad = p.bad \cup {r} /\ q.out = p.out
                   /\ q.snapshot = p.snapshot /\ q.ids = p.ids
  <1> PICK p : p = sync[s]
    OBVIOUS
  <1> PICK r : r = Head(p.recs)
    OBVIOUS
  <1> PICK q : q = Taken(p, TRUE)
    OBVIOUS
  <1>1. p \in UnderWay /\ Stages(p) /\ Past(p) /\ p.phase = "save" /\ p.recs \in Seq(Record)
    BY InvParts, UnderWayIs DEF RefusePoison, FailSave, Refuse
  <1>2. p.recs # <<>> /\ r \in Record
    <2>1. p.recs # <<>>
      BY <1>1 DEF Stages
    <2> QED
      BY <1>1, <2>1, HeadAndTail
  <1>3. UNCHANGED <<upd, clock, cursor, connected, saved, seen, given, raced, requested>>
        /\ faults' \in 0 .. MaxFaults
    <2>1. UNCHANGED <<upd, clock, cursor, connected, saved, seen, given, raced>>
      BY DEF RefusePoison, FailSave, Refuse, service, history
    <2>2. CASE RefusePoison(s)
      BY <2>1, <2>2, InvParts DEF RefusePoison, bounds
    <2>3. CASE FailSave(s)
      BY <2>1, <2>3, InvParts, SyncConstants DEF FailSave
    <2> QED
      BY <2>2, <2>3
  <1>4. Moves(s, q)
    BY <1>3 DEF RefusePoison, FailSave, Refuse, Moves
  <1>5. /\ q \in UnderWay /\ Stages(q) /\ Past(q) /\ Returned(q) /\ q.phase # "archive"
        /\ q.recs = Tail(p.recs) /\ q.bad = p.bad \cup {r} /\ q.out = p.out
        /\ q.snapshot = p.snapshot /\ q.ids = p.ids
    BY <1>1, TakenIs
  <1>6. SourceInv'
    BY <1>3, <1>4, <1>5, InvOfStep, InvParts
  <1> QED
    BY <1>1, <1>2, <1>3, <1>4, <1>5, <1>6

\* A page with failures keeps the account's cursor, or goes on after the third.
LEMMA HoldSteps ==
  ASSUME SourceInv, NEW s \in Syncs, Hold(s)
  PROVE  LET p == sync[s] IN
         /\ SourceInv'
         /\ UNCHANGED <<upd, clock, cursor, saved, seen, given, raced>>
         /\ Returned(p) /\ p.recs = <<>>
         /\ \E q \in UnderWay :
               /\ Moves(s, q) /\ q.phase = "write" /\ q.recs = <<>> /\ ~q.snapshot
               /\ \/ q.bad = p.bad /\ q.out = p.out
                  \/ /\ q.out.page = cursor.page /\ q.out.hwm = cursor.hwm
                     /\ q.out.pending = cursor.pending
  <1> PICK p : p = sync[s]
    OBVIOUS
  <1> PICK out : out = Held(cursor, p.out)
    OBVIOUS
  <1> PICK bad : bad = IF cursor.fails + 1 < MaxFailingPages THEN {} ELSE p.bad
    OBVIOUS
  <1> PICK q : q = [p EXCEPT !.phase = "write", !.out = out, !.bad = bad]
    OBVIOUS
  <1>1. /\ p \in UnderWay /\ Stages(p) /\ Past(p) /\ p.phase = "hold"
        /\ p.out \in Cursor /\ p.bad \in SUBSET Record
    BY InvParts, UnderWayIs DEF Hold
  <1>2. UNCHANGED <<upd, clock, cursor, connected, saved, seen, given, raced, requested, faults>>
    BY DEF Hold, service, history, bounds
  <1>3. Moves(s, q)
    BY <1>2 DEF Hold, Moves
  <1>4. \/ bad = p.bad /\ out = p.out
        \/ bad = {} /\ out = [cursor EXCEPT !.fails = cursor.fails + 1]
              /\ cursor.fails + 1 < MaxFailingPages
    BY DEF Held
  <1>5. /\ out \in Cursor /\ InPast(out) /\ bad \in SUBSET Record /\ bad \subseteq p.bad
        /\ \/ bad = p.bad /\ out = p.out
           \/ out.page = cursor.page /\ out.hwm = cursor.hwm /\ out.pending = cursor.pending
    <2>1. CASE bad = p.bad /\ out = p.out
      BY <1>1, <2>1 DEF Past
    <2>2. CASE bad = {} /\ out = [cursor EXCEPT !.fails = cursor.fails + 1]
               /\ cursor.fails + 1 < MaxFailingPages
      <3>1. cursor \in Cursor /\ InPast(cursor) /\ cursor.fails \in 0 .. MaxFailingPages - 1
        BY InvParts, CursorIs
      <3>2. /\ out.page = cursor.page /\ out.hwm = cursor.hwm /\ out.pending = cursor.pending
            /\ out.value = cursor.value /\ out.fails = cursor.fails + 1
        BY <2>2, <3>1 DEF Cursor
      <3>3. out.fails \in 0 .. MaxFailingPages - 1
        BY <2>2, <3>1, <3>2 DEF MaxFailingPages
      <3>4. out \in Cursor
        BY <2>2, <3>1, <3>2, <3>3 DEF Cursor
      <3> QED
        BY <2>2, <3>1, <3>2, <3>4 DEF InPast
    <2> QED
      BY <1>4, <2>1, <2>2
  <1>6. /\ q.phase = "write" /\ q.since = p.since /\ q.page = p.page /\ q.pending = p.pending
        /\ q.recs = p.recs /\ q.bad = bad /\ q.snapshot = p.snapshot /\ q.ids = p.ids /\ q.out = out
    BY <1>1 DEF UnderWay
  <1>7. q \in UnderWay
    BY <1>1, <1>5 DEF UnderWay, Phases
  <1>8. p.recs = <<>> /\ ~p.snapshot /\ Returned(p)
    BY <1>1 DEF Stages, Returned
  <1>9. Stages(q)
    BY <1>6, <1>8 DEF Stages, Fetching, Returned
  <1>10. Past(q)
    BY <1>1, <1>5, <1>6 DEF Past
  <1>11. SourceInv'
    BY <1>2, <1>3, <1>7, <1>9, <1>10, InvOfStep, InvParts
  <1> QED
    BY <1>2, <1>3, <1>5, <1>6, <1>7, <1>8, <1>11

\* The cursor is written, and what could not be saved is given up.
LEMMA WriteSteps ==
  ASSUME SourceInv, NEW s \in Syncs, WriteCursor(s)
  PROVE  LET p == sync[s] IN
         /\ SourceInv'
         /\ UNCHANGED <<upd, clock, saved, seen, raced>>
         /\ p.phase = "write" /\ p.recs = <<>> /\ cursor' = p.out
         /\ \A i \in Items : given'[i] >= given[i] /\ \A r \in p.bad : r.item = i => given'[i] >= r.at
         /\ Moves(s, Idle)
  <1> PICK p : p = sync[s]
    OBVIOUS
  <1>1. /\ p \in UnderWay /\ Stages(p) /\ Past(p) /\ p.phase = "write"
        /\ p.out \in Cursor /\ p.bad \in SUBSET Record
    BY InvParts, UnderWayIs DEF WriteCursor
  <1>2. UNCHANGED <<upd, clock, connected, saved, seen, raced, requested, faults>>
        /\ cursor' = p.out /\ Moves(s, Idle)
    BY DEF WriteCursor, service, bounds, Moves
  <1> PICK of : of = [i \in Items |-> {r \in p.bad : r.item = i}]
    OBVIOUS
  <1>3. given' = [i \in Items |-> Larger(given[i], Newest(of[i]))]
    BY DEF WriteCursor
  <1>4. ASSUME NEW i \in Items
        PROVE  /\ given'[i] \in Time /\ given'[i] >= given[i]
               /\ \A r \in p.bad : r.item = i => given'[i] >= r.at
    <2>1. of[i] = {r \in p.bad : r.item = i}
      OBVIOUS
    <2>2. of[i] \in SUBSET Record
      BY <1>1, <2>1
    <2> PICK m : m = Newest(of[i])
      OBVIOUS
    <2>3. m \in Time /\ \A r \in of[i] : r.at <= m
      BY <2>2, NewestIs
    <2>4. given[i] \in Time /\ given[i] \in Nat /\ m \in Nat
      BY <2>3, InvParts, NoPageIsNone
    <2>5. given'[i] = Larger(given[i], m)
      BY <1>3
    <2> PICK g : g = given'[i]
      OBVIOUS
    <2>6. g \in Time /\ g \in Nat /\ g >= given[i] /\ g >= m
      BY <2>3, <2>4, <2>5, LargerIs
    <2>7. \A r \in p.bad : r.at \in Nat
      BY <1>1, NoPageIsNone DEF Record
    <2>8. ASSUME NEW r \in p.bad, r.item = i
          PROVE  g >= r.at
      <3>1. r \in of[i]
        BY <2>1, <2>8
      <3> QED
        BY <2>3, <2>4, <2>6, <2>7, <3>1
    <2> QED
      BY <2>6, <2>8
  <1>5. given' \in [Items -> Time]
    <2>1. DOMAIN given' = Items /\ given' = [i \in Items |-> given'[i]]
      BY <1>3
    <2> QED
      BY <1>4, <2>1
  <1>6. Stages(Idle) /\ Past(Idle) /\ Idle \in UnderWay
    BY IdleIs
  <1>7. InPast(cursor')
    <2>1. InPast(p.out)
      BY <1>1 DEF Past
    <2> QED
      BY <1>2, <2>1 DEF InPast
  <1>8. SourceInv'
    BY <1>1, <1>2, <1>5, <1>6, <1>7, InvOfMove, InvParts
  <1>9. p.recs = <<>>
    BY <1>1 DEF Stages
  <1> QED
    BY <1>1, <1>2, <1>4, <1>8, <1>9

\* What the user does.
LEMMA TouchSteps ==
  ASSUME SourceInv, NEW x \in Items, Touch(x)
  PROVE  /\ SourceInv'
         /\ UNCHANGED <<cursor, saved, sync, seen, given, raced>>
         /\ upd'[x] = clock + 1
         /\ \A i \in Items \ {x} : upd'[i] = upd[i] /\ (i \in Present => Rank(i)' >= Rank(i))
  <1>1. /\ clock' = clock + 1 /\ upd' = [upd EXCEPT ![x] = clock + 1] /\ clock < MaxTime
        /\ UNCHANGED <<connected, cursor, saved, sync, seen, given, raced, requested, faults>>
    BY DEF Touch, history, bounds
  <1>2. clock \in Nat /\ clock + 1 \in Time /\ upd \in [Items -> Nat] /\ upd' \in [Items -> Time]
    BY <1>1, InvParts, SyncConstants DEF Time
  <1>3. OneAtATime(upd) /\ \A i \in Items : upd[i] < clock + 1
    BY <1>2, InvParts DEF Listing
  <1> PICK t \in Nat : t = clock + 1
    BY <1>2
  <1> PICK v : v = [upd EXCEPT ![x] = t]
    OBVIOUS
  <1>4. /\ OneAtATime(v)
        /\ \A j \in Items \ {x} : upd[j] > 0 => v[j] = upd[j] /\ RankIn(v, j) >= RankIn(upd, j)
    <2>1. \A i \in Items : upd[i] < t
      BY <1>3
    <2> QED
      BY <1>2, <1>3, <2>1, TouchMoves
  <1>5. v = upd' /\ v[x] = clock + 1 /\ \A j \in Items \ {x} : v[j] = upd[j]
    BY <1>1, <1>2
  <1>6. ASSUME NEW i \in Items \ {x}
        PROVE  upd'[i] = upd[i] /\ (i \in Present => Rank(i)' >= Rank(i))
    <2>1. Rank(i)' = RankIn(v, i) /\ Rank(i) = RankIn(upd, i)
      BY <1>5, ListNow DEF Rank, RankIn, Newer, NewerIn, Present
    <2> QED
      BY <1>4, <1>5, <2>1 DEF Present
  <1>7. TypeOK'
    BY <1>1, <1>2 DEF TypeOK, SourceInv
  <1>8. Listing'
    <2>1. OneAtATime(upd')
      BY <1>4, <1>5
    <2>2. \A i \in Items : upd'[i] <= clock'
      BY <1>1, <1>2, <1>3
    <2> QED
      BY <2>1, <2>2 DEF Listing, OneAtATime
  <1>9. ASSUME NEW c \in Cursor, InPast(c)
        PROVE  InPast(c)'
    <2>1. c.hwm \in Nat /\ c.pending \in Nat
      BY CursorIs, NoPageIsNone
    <2> QED
      BY <1>1, <1>2, <1>9, <2>1 DEF InPast
  <1>10. InPast(cursor)'
    <2> PICK c \in Cursor : c = cursor
      BY InvParts
    <2> QED
      BY <1>1, <1>9, InvParts DEF InPast
  <1>11. ASSUME NEW s \in Syncs
         PROVE  Stages(sync[s])' /\ Past(sync[s])'
    <2> PICK p : p = sync[s]
      OBVIOUS
    <2>1. /\ p \in UnderWay /\ p.since \in Nat /\ p.pending \in Nat /\ p.out \in Cursor
          /\ Stages(p) /\ Past(p)
      BY InvParts, UnderWayIs, NoPageIsNone
    <2>2. InPast(p.out)'
      BY <1>9, <2>1 DEF Past
    <2>3. \A r \in ToSet(p.recs) \cup p.bad : r.at \in Nat
      <3>1. ToSet(p.recs) \in SUBSET Record /\ p.bad \in SUBSET Record
        BY <2>1, SetOfRecords DEF UnderWay
      <3> QED
        BY <3>1, NoPageIsNone DEF Record
    <2>4. Past(p)'
      BY <1>1, <1>2, <2>1, <2>2, <2>3 DEF Past
    <2>5. Stages(p)'
      BY <2>1 DEF Stages, Fetching, Returned
    <2>6. sync'[s] = p
      BY <1>1
    <2> QED
      BY <2>4, <2>5, <2>6 DEF Past, Stages, Fetching, Returned, InPast
  <1> QED
    BY <1>1, <1>5, <1>6, <1>7, <1>8, <1>10, <1>11 DEF SourceInv

LEMMA DeleteSteps ==
  ASSUME SourceInv, NEW x \in Items, Delete(x)
  PROVE  /\ SourceInv'
         /\ UNCHANGED <<cursor, saved, sync, seen, given, raced>>
         /\ Present' \subseteq Present /\ \A i \in Present' : upd'[i] = upd[i]
         /\ MidScan \/ (cursor.page = NoPage /\ \A s \in Syncs : ~Active(s))
  <1>1. /\ clock' = clock + 1 /\ upd' = [upd EXCEPT ![x] = 0] /\ clock < MaxTime
        /\ UNCHANGED <<connected, cursor, saved, sync, seen, given, raced, requested, faults>>
        /\ MidScan \/ (cursor.page = NoPage /\ \A s \in Syncs : ~Active(s))
    BY DEF Delete, history, bounds
  <1>2. clock \in Nat /\ clock + 1 \in Time /\ upd \in [Items -> Nat] /\ upd' \in [Items -> Time]
    BY <1>1, InvParts, SyncConstants DEF Time
  <1>3. upd'[x] = 0 /\ \A i \in Items \ {x} : upd'[i] = upd[i]
    BY <1>1, <1>2
  <1>4. Present' \subseteq Present /\ \A i \in Present' : upd'[i] = upd[i]
    BY <1>2, <1>3 DEF Present
  <1>7. TypeOK'
    BY <1>1, <1>2 DEF TypeOK, SourceInv
  <1>8. Listing'
    <2>1. OneAtATime(upd')
      BY <1>3, InvParts DEF Listing, OneAtATime
    <2>2. \A i \in Items : upd'[i] <= clock'
      BY <1>1, <1>2, <1>3, InvParts DEF Listing
    <2> QED
      BY <2>1, <2>2 DEF Listing, OneAtATime
  <1>9. ASSUME NEW c \in Cursor, InPast(c)
        PROVE  InPast(c)'
    <2>1. c.hwm \in Nat /\ c.pending \in Nat
      BY CursorIs, NoPageIsNone
    <2> QED
      BY <1>1, <1>2, <1>9, <2>1 DEF InPast
  <1>10. InPast(cursor)'
    <2> PICK c \in Cursor : c = cursor
      BY InvParts
    <2> QED
      BY <1>1, <1>9, InvParts DEF InPast
  <1>11. ASSUME NEW s \in Syncs
         PROVE  Stages(sync[s])' /\ Past(sync[s])'
    <2> PICK p : p = sync[s]
      OBVIOUS
    <2>1. /\ p \in UnderWay /\ p.since \in Nat /\ p.pending \in Nat /\ p.out \in Cursor
          /\ Stages(p) /\ Past(p)
      BY InvParts, UnderWayIs, NoPageIsNone
    <2>2. InPast(p.out)'
      BY <1>9, <2>1 DEF Past
    <2>3. \A r \in ToSet(p.recs) \cup p.bad : r.at \in Nat
      <3>1. ToSet(p.recs) \in SUBSET Record /\ p.bad \in SUBSET Record
        BY <2>1, SetOfRecords DEF UnderWay
      <3> QED
        BY <3>1, NoPageIsNone DEF Record
    <2>4. Past(p)'
      BY <1>1, <1>2, <2>1, <2>2, <2>3 DEF Past
    <2>5. Stages(p)'
      BY <2>1 DEF Stages, Fetching, Returned
    <2>6. sync'[s] = p
      BY <1>1
    <2> QED
      BY <2>4, <2>5, <2>6 DEF Past, Stages, Fetching, Returned, InPast
  <1> QED
    BY <1>1, <1>4, <1>7, <1>8, <1>10, <1>11 DEF SourceInv

-----------------------------------------------------------------------------
(***************************************************************************)
(* What marks and scans owe, for any notion of a bookmark that is paid     *)
(***************************************************************************)
\* Below the mark everything is paid; below the pending mark, what is not is
\* still ahead of the page to resume at.
Owes(c, done) ==
    /\ \A i \in Present : upd[i] <= c.hwm => i \in done
    /\ c.page # NoPage => \A i \in Present : upd[i] <= c.pending => i \in done \/ Ahead(i, c.page)

ScanOwes(p, done) ==
    /\ \A i \in Present : upd[i] <= p.since => i \in done
    /\ \A i \in Present : upd[i] <= Latest(p) => i \in done \/ Ahead(i, p.page)

Scans(p, done) ==
    /\ Fetching(p) => ScanOwes(p, done)
    /\ Returned(p) => Owes(p.out, done)

LEMMA LatestType ==
  ASSUME NEW p \in UnderWay
  PROVE  /\ Latest(p) \in Time /\ Latest(p) \in Nat /\ p.since \in Nat /\ p.pending \in Nat
         /\ Newest(ToSet(p.recs)) \in Nat /\ Latest(p) >= p.pending
         /\ Latest(p) >= Newest(ToSet(p.recs))
         /\ Latest(p) = p.pending \/ \E r \in ToSet(p.recs) : Latest(p) = r.at
         /\ ToSet(p.recs) \in SUBSET Record
  <1> PICK T : T = ToSet(p.recs)
    OBVIOUS
  <1>1. p.pending \in Time /\ p.since \in Time /\ p.recs \in Seq(Record)
    BY DEF UnderWay
  <1>2. T \in SUBSET Record
    BY <1>1, SetOfRecords
  <1> PICK m : m = Newest(T)
    OBVIOUS
  <1>3. m \in Time /\ (m = 0 \/ \E r \in T : m = r.at)
    BY <1>2, NewestIs
  <1>4. Latest(p) = Larger(p.pending, m)
    BY DEF Latest
  <1>5. p.pending \in Nat /\ m \in Nat /\ p.since \in Nat
    BY <1>1, <1>3, NoPageIsNone
  <1>6. /\ Larger(p.pending, m) \in Time /\ Larger(p.pending, m) >= p.pending /\ Larger(p.pending, m) >= m
        /\ Larger(p.pending, m) = p.pending \/ Larger(p.pending, m) = m
    BY <1>1, <1>3, <1>5, LargerIs
  <1>7. Latest(p) = p.pending \/ \E r \in T : Latest(p) = r.at
    BY <1>3, <1>4, <1>5, <1>6
  <1> QED
    BY <1>2, <1>4, <1>5, <1>6, <1>7, NoPageIsNone

LEMMA LatestInPast ==
  ASSUME NEW p \in UnderWay, Past(p)
  PROVE  Latest(p) <= clock
  BY LatestType DEF Past

LEMMA OwesMore ==
  ASSUME NEW done, NEW more, done \subseteq more, NEW p
  PROVE  /\ \A c : Owes(c, done) => Owes(c, more)
         /\ ScanOwes(p, done) => ScanOwes(p, more)
         /\ Scans(p, done) => Scans(p, more)
  BY DEF Scans, Owes, ScanOwes

LEMMA OwesSame ==
  ASSUME UNCHANGED upd, NEW done
  PROVE  /\ \A c : Owes(c, done) => Owes(c, done)'
         /\ \A p : Scans(p, done) => Scans(p, done)'
  BY DEF Scans, Owes, ScanOwes, Latest, Ahead, Present, Rank, Newer, Fetching, Returned

LEMMA OwesTouch ==
  ASSUME SourceInv, NEW x \in Items, Touch(x), NEW done, NEW more, done \ {x} \subseteq more
  PROVE  /\ \A c \in Cursor : InPast(c) /\ Owes(c, done) => Owes(c, more)'
         /\ \A p \in UnderWay : Past(p) /\ Scans(p, done) => Scans(p, more)'
  <1>1. /\ upd'[x] = clock + 1 /\ clock \in Nat /\ upd \in [Items -> Nat]
        /\ \A i \in Items \ {x} : upd'[i] = upd[i] /\ (i \in Present => Rank(i)' >= Rank(i))
    BY TouchSteps, InvParts
  <1>2. ASSUME NEW t \in Nat, t <= clock, NEW i \in Present', upd'[i] <= t
        PROVE  i \in Present /\ i # x /\ upd[i] <= t /\ (i \in done => i \in more)
               /\ \A k \in Nat : Ahead(i, k) => Ahead(i, k)'
    <2>1. i \in Items /\ i # x
      BY <1>1, <1>2 DEF Present
    <2>2. i \in Present /\ upd[i] <= t
      BY <1>1, <1>2, <2>1 DEF Present
    <2>3. Rank(i)' >= Rank(i)
      BY <1>1, <2>1, <2>2
    <2> PICK a : a = Rank(i)
      OBVIOUS
    <2> PICK b : b = Rank(i)'
      OBVIOUS
    <2>4. a \in Nat /\ b \in Nat
      <3>1. b = RankIn(upd', i)
        BY ListNow DEF Rank, RankIn, Newer, NewerIn, Present
      <3> QED
        BY <3>1, RankType, NewerFinite DEF RankIn
    <2>5. ASSUME NEW k \in Nat, Ahead(i, k)
          PROVE  Ahead(i, k)'
      <3>1. a >= k * PerPage /\ k * PerPage \in Nat /\ b >= a
        BY <2>3, <2>5, PageTimes DEF Ahead
      <3>2. b >= k * PerPage
        BY <2>4, <3>1
      <3> QED
        BY <3>2 DEF Ahead
    <2> QED
      BY <2>1, <2>2, <2>5
  <1>3. ASSUME NEW c \in Cursor, InPast(c), Owes(c, done)
        PROVE  Owes(c, more)'
    <2>1. c.hwm \in Nat /\ c.pending \in Nat /\ c.hwm <= clock /\ c.pending <= clock
          /\ (c.page # NoPage => c.page \in Nat)
      BY <1>3, CursorIs, NoPageIsNone DEF InPast
    <2>2. ASSUME NEW i \in Present', upd'[i] <= c.hwm
          PROVE  i \in more
      BY <1>2, <1>3, <2>1, <2>2 DEF Owes
    <2>3. ASSUME c.page # NoPage, NEW i \in Present', upd'[i] <= c.pending
          PROVE  i \in more \/ Ahead(i, c.page)'
      BY <1>2, <1>3, <2>1, <2>3 DEF Owes
    <2>4. NoPage' = NoPage
      BY DEF NoPage
    <2> QED
      BY <2>2, <2>3, <2>4 DEF Owes
  <1>4. ASSUME NEW p \in UnderWay, Past(p), Scans(p, done)
        PROVE  Scans(p, more)'
    <2>1. p.out \in Cursor /\ InPast(p.out) /\ p.page \in Nat /\ p.since <= clock /\ p.since \in Nat
      BY <1>4, NoPageIsNone DEF UnderWay, Past
    <2>2. Latest(p) \in Nat /\ Latest(p) <= clock
      BY <1>4, LatestType, LatestInPast
    <2>3. ASSUME Fetching(p)
          PROVE  ScanOwes(p, more)'
      <3>1. ScanOwes(p, done)
        BY <1>4, <2>3 DEF Scans
      <3>2. ASSUME NEW i \in Present', upd'[i] <= p.since
            PROVE  i \in more
        BY <1>2, <2>1, <3>1, <3>2 DEF ScanOwes
      <3>3. ASSUME NEW i \in Present', upd'[i] <= Latest(p)
            PROVE  i \in more \/ Ahead(i, p.page)'
        BY <1>2, <2>1, <2>2, <3>1, <3>3 DEF ScanOwes
      <3> QED
        BY <3>2, <3>3 DEF ScanOwes, Latest
    <2>4. ASSUME Returned(p)
          PROVE  Owes(p.out, more)'
      BY <1>3, <1>4, <2>1, <2>4 DEF Scans
    <2> QED
      BY <2>3, <2>4 DEF Scans, Fetching, Returned
  <1> QED
    BY <1>3, <1>4

\* A deletion between scans: nothing was resting on the order of the list.
LEMMA OwesDelete ==
  ASSUME SourceInv, NEW x \in Items, Delete(x), ~MidScan, NEW done, Owes(cursor, done)
  PROVE  Owes(cursor, done)' /\ \A s \in Syncs : \A more : Scans(sync[s], more)'
  <1>1. /\ UNCHANGED <<cursor, sync>> /\ Present' \subseteq Present /\ \A i \in Present' : upd'[i] = upd[i]
        /\ cursor.page = NoPage /\ \A s \in Syncs : sync[s].phase = "idle"
    BY DeleteSteps DEF Active
  <1>2. Owes(cursor, done)'
    BY <1>1 DEF Owes, NoPage
  <1>3. ASSUME NEW s \in Syncs, NEW more
        PROVE  Scans(sync[s], more)'
    BY <1>1 DEF Scans, Fetching, Returned
  <1> QED
    BY <1>2, <1>3

\* A sync that begins at the cursor owes what the cursor owes.
LEMMA OwesBegin ==
  ASSUME SourceInv, NEW done, Owes(cursor, done), NEW q \in UnderWay,
         q.phase = "fetch", q.recs = <<>>,
         \/ /\ q.pending = cursor.pending
            /\ \/ cursor.page # NoPage /\ q.since = 0 /\ q.page = cursor.page
               \/ cursor.page = NoPage /\ q.since = cursor.hwm /\ q.page = 0
         \/ q.pending = 0 /\ q.since = 0 /\ q.page = 0
  PROVE  Scans(q, done)
  <1>1. Latest(q) = q.pending
    <2>1. ToSet(q.recs) = {}
      BY DEF ToSet
    <2>2. \A r \in ToSet(q.recs) : FALSE
      BY <2>1
    <2> QED
      BY <2>2, LatestType
  <1>2. \A i \in Present : Ahead(i, 0) /\ upd[i] > 0 /\ upd[i] \in Nat
    BY RankType, PageTimes, InvParts DEF Ahead, Present
  <1>3. ScanOwes(q, done)
    BY <1>1, <1>2 DEF ScanOwes, Owes
  <1> QED
    BY <1>3 DEF Scans, Fetching, Returned

\* What a page adds: whatever is older than something on it is on it or behind it.
LEMMA PageOwes ==
  ASSUME SourceInv, NEW p \in UnderWay, NEW f, f = FreshOnPage(p.page, p.since),
         NEW done, ScanOwes(p, done), NEW more, done \subseteq more,
         \A i \in Items : Current(i) \in ToSet(f) => i \in more,
         NEW n \in Nat, n = Latest(p) \/ \E r \in ToSet(f) : n = r.at
  PROVE  \A i \in Present : upd[i] <= n \/ upd[i] <= p.since =>
            i \in more \/ (~ (Len(f) < PerPage) /\ Ahead(i, p.page + 1))
  <1>1. p.page \in Nat /\ p.since \in Nat /\ p.page * PerPage \in Nat
    BY NoPageIsNone, PageTimes DEF UnderWay
  <1>2. /\ \A r \in ToSet(f) : r.item \in Present /\ r = Current(r.item) /\ Ahead(r.item, p.page)
        /\ \A i \in Newer(p.since) :
              Ahead(i, p.page) =>
                 Current(i) \in ToSet(f) \/ (~ (Len(f) < PerPage) /\ Ahead(i, p.page + 1))
    BY <1>1, InvParts, FreshIs
  <1>3. \A i \in Present : i \in Items /\ upd[i] \in Nat /\ upd[i] > 0
    BY InvParts DEF Present
  <1> SUFFICES ASSUME NEW i \in Present, upd[i] <= n \/ upd[i] <= p.since, i \notin more
               PROVE  ~ (Len(f) < PerPage) /\ Ahead(i, p.page + 1)
    OBVIOUS
  <1>4. i \notin done /\ ~ (upd[i] <= p.since)
    BY DEF ScanOwes
  <1>5. Ahead(i, p.page)
    <2>1. CASE n = Latest(p)
      BY <1>4, <2>1 DEF ScanOwes
    <2>2. ASSUME NEW r \in ToSet(f), n = r.at
          PROVE  Ahead(i, p.page)
      <3> PICK x : x = r.item
        OBVIOUS
      <3>1. x \in Present /\ upd[x] = n /\ Ahead(x, p.page)
        BY <1>2, <2>2 DEF Current
      <3>2. upd[i] <= upd[x]
        BY <1>4, <3>1
      <3>3. RankIn(upd, x) <= RankIn(upd, i) /\ RankIn(upd, x) \in Nat /\ RankIn(upd, i) \in Nat
        BY <1>3, <3>1, <3>2, InvParts, RankOrder
      <3>4. Rank(x) = RankIn(upd, x) /\ Rank(i) = RankIn(upd, i) /\ Rank(x) >= p.page * PerPage
        BY <3>1, ListNow DEF Ahead
      <3>5. RankIn(upd, i) >= p.page * PerPage
        BY <1>1, <3>3, <3>4
      <3> QED
        BY <3>4, <3>5 DEF Ahead
    <2> QED
      BY <2>1, <2>2
  <1>6. i \in Newer(p.since)
    BY <1>1, <1>3, <1>4 DEF Newer
  <1> QED
    BY <1>2, <1>3, <1>5, <1>6

Met(p, f, n) == n = Latest(p) \/ \E r \in ToSet(f) : n = r.at

LEMMA NewestOfBoth ==
  ASSUME NEW p \in UnderWay, NEW f \in Seq(Record), NEW T, T = ToSet(p.recs) \cup ToSet(f),
         NEW n, n = Larger(p.pending, Newest(T))
  PROVE  n \in Nat /\ Met(p, f, n)
  <1> PICK A : A = ToSet(p.recs)
    OBVIOUS
  <1> PICK a : a = Newest(A)
    OBVIOUS
  <1> PICK b : b = Newest(T)
    OBVIOUS
  <1> PICK c : c = p.pending
    OBVIOUS
  <1>1. A \in SUBSET Record /\ T \in SUBSET Record /\ c \in Time
    BY SetOfRecords DEF UnderWay
  <1>2. /\ a \in Time /\ (\A r \in A : r.at <= a) /\ (a = 0 \/ \E r \in A : a = r.at)
        /\ b \in Time /\ (\A r \in T : r.at <= b) /\ (b = 0 \/ \E r \in T : b = r.at)
    BY <1>1, NewestIs
  <1>3. a \in Nat /\ b \in Nat /\ c \in Nat
    BY <1>1, <1>2, NoPageIsNone
  <1>4. Latest(p) = Larger(c, a)
    BY DEF Latest
  <1>5. a <= b
    <2>1. CASE a = 0
      BY <1>3, <2>1
    <2>2. ASSUME NEW r \in A, a = r.at
          PROVE  a <= b
      <3>1. r \in T
        OBVIOUS
      <3> QED
        BY <1>2, <2>2, <3>1
    <2> QED
      BY <1>2, <2>1, <2>2
  <1>6. b = a \/ \E r \in ToSet(f) : b = r.at
    <2>1. CASE b = 0
      BY <1>3, <1>5, <2>1
    <2>2. ASSUME NEW r \in T, b = r.at
          PROVE  b = a \/ \E x \in ToSet(f) : b = x.at
      <3>1. CASE r \in A
        BY <1>2, <1>3, <1>5, <2>2, <3>1
      <3>2. CASE r \in ToSet(f)
        BY <2>2, <3>2
      <3> QED
        BY <3>1, <3>2
    <2> QED
      BY <1>2, <2>1, <2>2
  <1>7. Larger(c, b) \in Nat /\ (Larger(c, b) = Larger(c, a) \/ Larger(c, b) = b)
    BY <1>3, <1>5 DEF Larger
  <1> QED
    BY <1>4, <1>6, <1>7 DEF Met

\* The cursor that a scan asks for which a page ended without an error.
AsksFor(q, p, recs, next) ==
    /\ q.phase = "connect" /\ q.recs = recs /\ q.bad = {} /\ q.out.page = next
    /\ next # NoPage => q.out.hwm = p.since /\ q.out.pending = Larger(p.pending, Newest(ToSet(recs)))
    /\ next = NoPage => q.out.hwm = IF Larger(p.pending, Newest(ToSet(recs))) # 0
                                     THEN Larger(p.pending, Newest(ToSet(recs))) ELSE p.since
    /\ q.snapshot => p.snapshot /\ next = NoPage /\ q.ids = {r.item : r \in ToSet(recs)}

LEMMA FetchedOut ==
  ASSUME NEW p, NEW recs, NEW next
  PROVE  AsksFor(Fetched(p, recs, next, FALSE), p, recs, next)
  <1> PICK out : out = ScanCursor(p, recs, next, FALSE)
    OBVIOUS
  <1> PICK may : may = MayArchive(p, recs, next, FALSE)
    OBVIOUS
  <1> PICK ids : ids = IF MayArchive(p, recs, next, FALSE) THEN {r.item : r \in ToSet(recs)} ELSE {}
    OBVIOUS
  <1> PICK n : n = Larger(p.pending, Newest(ToSet(recs)))
    OBVIOUS
  <1> PICK q : q = Fetched(p, recs, next, FALSE)
    OBVIOUS
  <1>1. /\ out.page = next
        /\ next # NoPage => out.hwm = p.since /\ out.pending = n
        /\ next = NoPage => out.hwm = IF n # 0 THEN n ELSE p.since
    BY DEF ScanCursor
  <1>2. q = [Idle EXCEPT !.phase = "connect", !.recs = recs, !.snapshot = may, !.ids = ids, !.out = out]
    BY DEF Fetched
  <1>3. q.phase = "connect" /\ q.recs = recs /\ q.bad = {} /\ q.out = out /\ q.snapshot = may
        /\ q.ids = ids
    BY <1>2 DEF Idle
  <1>4. may => p.snapshot /\ next = NoPage /\ ids = {r.item : r \in ToSet(recs)}
    BY DEF MayArchive
  <1> QED
    BY <1>1, <1>3, <1>4 DEF AsksFor

LEMMA LostOut ==
  ASSUME NEW p, NEW recs
  PROVE  LET q == Fetched(p, recs, NoPage, TRUE) IN
         /\ q.phase = "connect" /\ q.recs = recs /\ q.bad = {} /\ q.out.page = NoPage
         /\ q.out.hwm = p.since /\ ~q.snapshot
  <1> PICK out : out = ScanCursor(p, recs, NoPage, TRUE)
    OBVIOUS
  <1> PICK ids : ids = IF MayArchive(p, recs, NoPage, TRUE) THEN {r.item : r \in ToSet(recs)} ELSE {}
    OBVIOUS
  <1> PICK q : q = Fetched(p, recs, NoPage, TRUE)
    OBVIOUS
  <1>1. out.page = NoPage /\ out.hwm = p.since
    BY DEF ScanCursor
  <1>2. q = [Idle EXCEPT !.phase = "connect", !.recs = recs,
                !.snapshot = MayArchive(p, recs, NoPage, TRUE), !.ids = ids, !.out = out]
    BY DEF Fetched
  <1>3. ~MayArchive(p, recs, NoPage, TRUE)
    BY DEF MayArchive
  <1>4. q.phase = "connect" /\ q.recs = recs /\ q.bad = {} /\ q.out = out /\ ~q.snapshot
    BY <1>2, <1>3 DEF Idle
  <1> QED
    BY <1>1, <1>4

\* A page read, for the scan that goes on and for the one that ends with it.
LEMMA ReadOwes ==
  ASSUME SourceInv, NEW p \in UnderWay, Fetching(p), Past(p), NEW f, f = FreshOnPage(p.page, p.since),
         NEW recs \in Seq(Record), ToSet(recs) = ToSet(p.recs) \cup ToSet(f),
         NEW done, Scans(p, done), NEW more, done \subseteq more,
         \A i \in Items : Current(i) \in ToSet(f) => i \in more,
         NEW q \in UnderWay,
         \/ q = [p EXCEPT !.recs = recs, !.page = @ + 1] /\ ~ (Len(f) < PerPage)
         \/ q = Fetched(p, recs, p.page + 1, FALSE) /\ ~ (Len(f) < PerPage) /\ p.page + 1 \in PageNumber
         \/ q = Fetched(p, recs, NoPage, FALSE) /\ Len(f) < PerPage
  PROVE  Scans(q, more)
  <1> PICK n : n = Larger(p.pending, Newest(ToSet(recs)))
    OBVIOUS
  <1>1. p.page \in Nat /\ p.since \in Nat /\ p.since \in Time /\ p.pending \in Time
    BY NoPageIsNone DEF UnderWay
  <1>2. f \in Seq(Record) /\ \A r \in ToSet(f) : r.item \in Present /\ r = Current(r.item)
    BY <1>1, InvParts, FreshIs
  <1>3. n \in Nat /\ (n = Latest(p) \/ \E r \in ToSet(f) : n = r.at)
    <2> PICK T : T = ToSet(recs)
      OBVIOUS
    <2>1. T = ToSet(p.recs) \cup ToSet(f)
      OBVIOUS
    <2>2. n = Larger(p.pending, Newest(T))
      OBVIOUS
    <2>5. f \in Seq(Record)
      BY <1>2
    <2>6. p \in UnderWay
      OBVIOUS
    <2>3. n \in Nat
      BY ONLY <2>1, <2>2, <2>5, <2>6, NewestOfBoth
    <2>4. Met(p, f, n)
      BY ONLY <2>1, <2>2, <2>5, <2>6, NewestOfBoth
    <2> QED
      BY <2>3, <2>4 DEF Met
  <1>4. ScanOwes(p, done)
    BY DEF Scans
  <1>5. \A i \in Present : upd[i] <= n \/ upd[i] <= p.since =>
            i \in more \/ (~ (Len(f) < PerPage) /\ Ahead(i, p.page + 1))
    BY <1>3, <1>4, PageOwes
  <1>6. \A i \in Present : upd[i] <= p.since => i \in more
    BY <1>4 DEF ScanOwes
  <1>7. \A r \in ToSet(recs) : r.at <= clock
    BY <1>2, InvParts DEF Past, Current, Present, Listing
  <1>8. p.since <= clock /\ p.pending <= clock /\ clock \in Time
    BY InvParts DEF Past
  <1>9. CASE q = [p EXCEPT !.recs = recs, !.page = @ + 1] /\ ~ (Len(f) < PerPage)
    <2>1. q.recs = recs /\ q.page = p.page + 1 /\ q.since = p.since /\ q.pending = p.pending
          /\ q.phase = p.phase
      BY <1>9 DEF UnderWay
    <2>2. Latest(q) = n
      BY <2>1 DEF Latest
    <2>3. ScanOwes(q, more)
      BY <1>5, <1>6, <2>1, <2>2 DEF ScanOwes
    <2> QED
      BY <2>1, <2>3 DEF Scans, Fetching, Returned
  <1>10. CASE q = Fetched(p, recs, p.page + 1, FALSE) /\ ~ (Len(f) < PerPage) /\ p.page + 1 \in PageNumber
    <2>1. p.page + 1 \in PageNumber \cup {NoPage} /\ p.page + 1 # NoPage /\ FALSE \in BOOLEAN
      BY <1>10, NoPageIsNone
    <2>2. q.phase = "connect" /\ q.out.page = p.page + 1 /\ q.out.hwm = p.since /\ q.out.pending = n
      <3>1. AsksFor(q, p, recs, p.page + 1)
        BY <1>10, FetchedOut
      <3> QED
        BY <2>1, <3>1 DEF AsksFor
    <2>3. Owes(q.out, more)
      BY <1>5, <1>6, <2>2 DEF Owes
    <2> QED
      BY <2>2, <2>3 DEF Scans, Fetching, Returned
  <1>11. CASE q = Fetched(p, recs, NoPage, FALSE) /\ Len(f) < PerPage
    <2>1. NoPage \in PageNumber \cup {NoPage} /\ FALSE \in BOOLEAN
      OBVIOUS
    <2>2. q.phase = "connect" /\ q.out.page = NoPage /\ q.out.hwm = (IF n # 0 THEN n ELSE p.since)
      <3>1. AsksFor(q, p, recs, NoPage)
        BY <1>11, FetchedOut
      <3> QED
        BY <3>1 DEF AsksFor
    <2>3. Owes(q.out, more)
      BY <1>5, <1>11, <2>2 DEF Owes
    <2> QED
      BY <2>2, <2>3 DEF Scans, Fetching, Returned
  <1> QED
    BY <1>9, <1>10, <1>11

LEMMA LoseOwes ==
  ASSUME SourceInv, NEW p \in UnderWay, Fetching(p), Past(p), NEW done, Scans(p, done),
         NEW q, q = Fetched(p, p.recs, NoPage, TRUE)
  PROVE  Scans(q, done) /\ q.recs = p.recs /\ q.bad = {} /\ ~q.snapshot /\ Returned(q)
         /\ q.phase # "archive"
  <1>1. p.recs \in Seq(Record) /\ NoPage \in PageNumber \cup {NoPage} /\ TRUE \in BOOLEAN
    BY DEF UnderWay
  <1>2. p.since <= clock /\ p.pending <= clock /\ clock \in Time /\ \A r \in ToSet(p.recs) : r.at <= clock
    BY InvParts DEF Past
  <1>3. /\ q.phase = "connect" /\ q.out.page = NoPage /\ q.out.hwm = p.since
        /\ q.recs = p.recs /\ q.bad = {} /\ ~q.snapshot
    <2> PICK r : r = p.recs
      OBVIOUS
    <2>1. q = Fetched(p, r, NoPage, TRUE)
      OBVIOUS
    <2>2. q.phase = "connect" /\ q.out.page = NoPage /\ q.out.hwm = p.since
      BY ONLY <2>1, LostOut
    <2>3. q.recs = r /\ q.bad = {} /\ ~q.snapshot
      BY ONLY <2>1, LostOut
    <2> QED
      BY <2>2, <2>3
  <1>4. Owes(q.out, done)
    BY <1>3 DEF Scans, ScanOwes, Owes
  <1> QED
    BY <1>3, <1>4 DEF Scans, Fetching, Returned

-----------------------------------------------------------------------------
(***************************************************************************)
(* The shape of the state                                                  *)
(***************************************************************************)
LEMMA InvOfInit ==
  Init => SourceInv
  <1> SUFFICES ASSUME Init PROVE SourceInv
    OBVIOUS
  <1>1. clock = Cardinality(Listed) /\ IsFiniteSet(Listed) /\ clock \in Nat /\ clock \in Time
    BY SyncConstants, SyncAssumption, FS_Subset, FS_CardinalityType DEF Init, Time
  <1>2. upd \in [Items -> 0 .. clock] /\ upd \in [Items -> Time]
    BY <1>1, SyncConstants DEF Init, Time
  <1>3. TypeOK
    <2>1. /\ saved = [i \in Items |-> 0] /\ seen = [i \in Items |-> 0] /\ given = [i \in Items |-> 0]
          /\ connected = TRUE /\ raced = FALSE /\ requested = 0 /\ faults = 0
          /\ cursor = NewCursor /\ sync = [s \in Syncs |-> Idle]
      BY DEF Init
    <2>2. saved \in [Items -> Time] /\ seen \in [Items -> Time] /\ given \in [Items -> Time]
      BY <2>1, NoPageIsNone
    <2>3. cursor \in Cursor /\ sync \in [Syncs -> UnderWay]
      BY <2>1, NoPageIsNone
    <2>4. requested \in 0 .. MaxRequests /\ faults \in 0 .. MaxFaults
      BY <2>1, SyncConstants
    <2> QED
      BY <1>1, <1>2, <2>1, <2>2, <2>3, <2>4 DEF TypeOK
  <1>4. Listing
    <2>1. \A i \in Items : upd[i] \in Nat /\ upd[i] <= clock
      BY <1>1, <1>2
    <2>2. ASSUME NEW i \in Items, NEW j \in Items, upd[i] > 0, upd[i] = upd[j]
          PROVE  i = j
      <3>1. i \in Present /\ j \in Present
        BY <2>2 DEF Present
      <3>2. i \in Listed /\ j \in Listed
        BY <3>1 DEF Init
      <3> QED
        BY <2>2, <3>2 DEF Init
    <2> QED
      BY <2>1, <2>2 DEF Listing, OneAtATime
  <1>5. InPast(cursor)
    <2>1. cursor.hwm = 0 /\ cursor.pending = 0
      BY DEF Init, NewCursor
    <2> QED
      BY <1>1, <2>1 DEF InPast
  <1>6. ASSUME NEW s \in Syncs
        PROVE  Stages(sync[s]) /\ Past(sync[s])
    <2>1. sync[s] = Idle
      BY DEF Init
    <2>2. /\ Idle.phase = "idle" /\ Idle.since = 0 /\ Idle.pending = 0 /\ Idle.recs = <<>>
          /\ Idle.bad = {} /\ Idle.snapshot = FALSE /\ Idle.out.hwm = 0 /\ Idle.out.pending = 0
      BY DEF Idle, NewCursor
    <2>3. ToSet(Idle.recs) \cup Idle.bad = {}
      BY <2>2 DEF ToSet
    <2>4. Stages(Idle) /\ Past(Idle)
      BY <1>1, <2>2, <2>3 DEF Stages, Past, InPast, Fetching, Returned
    <2> QED
      BY <2>1, <2>4
  <1> QED
    BY <1>3, <1>4, <1>5, <1>6 DEF SourceInv

\* The steps that touch neither the list nor a mark nor a sync.
LEMMA FrameSteps ==
  ASSUME SourceInv, Disconnect \/ Resume \/ UNCHANGED vars
  PROVE  SourceInv' /\ UNCHANGED <<upd, clock, cursor, saved, sync, seen, given, raced>>
  <1>1. UNCHANGED <<upd, clock, cursor, saved, sync, seen, given, raced, requested, faults>>
        /\ connected' \in BOOLEAN
    BY InvParts DEF Disconnect, Resume, vars, service, history, bounds
  <1>2. TypeOK'
    BY <1>1, InvParts DEF TypeOK
  <1>3. Listing' /\ InPast(cursor)'
    BY <1>1, InvParts DEF Listing, OneAtATime, InPast
  <1>4. ASSUME NEW s \in Syncs
        PROVE  Stages(sync[s])' /\ Past(sync[s])'
    BY <1>1, InvParts DEF Stages, Past, InPast, Fetching, Returned
  <1> QED
    BY <1>1, <1>2, <1>3, <1>4 DEF SourceInv

LEMMA InvNext ==
  SourceInv /\ [Next]_vars => SourceInv'
  <1> SUFFICES ASSUME SourceInv, [Next]_vars PROVE SourceInv'
    OBVIOUS
  <1>1. CASE \E i \in Items : Touch(i) \/ Delete(i)
    BY <1>1, TouchSteps, DeleteSteps
  <1>2. CASE Disconnect \/ Resume \/ UNCHANGED vars
    BY <1>2, FrameSteps
  <1>3. CASE \E w \in Workers : StartJob(w)
    BY <1>3, JobSteps
  <1>4. CASE \E r \in Requests, snapshot \in BOOLEAN : StartRequest(r, snapshot)
    BY <1>4, RequestSteps
  <1>5. ASSUME NEW s \in Syncs, Step(s) \/ Fault(s)
        PROVE  SourceInv'
    <2>1. CASE ReadPage(s)
      BY <2>1, ReadSteps
    <2>2. CASE Connect(s) \/ Check(s)
      BY <2>2, ConnectSteps, DropSteps
    <2>3. CASE Save(s)
      BY <2>3, SaveSteps
    <2>4. CASE RefusePoison(s) \/ FailSave(s)
      BY <2>4, RefuseSteps
    <2>5. CASE FindMissing(s)
      BY <2>5, FindSteps
    <2>6. CASE \E i \in Items : ArchiveMissing(s, i)
      BY <2>6, ArchiveSteps
    <2>7. CASE Hold(s)
      BY <2>7, HoldSteps
    <2>8. CASE WriteCursor(s)
      BY <2>8, WriteSteps
    <2>9. CASE LosePage(s)
      BY <2>9, LoseSteps
    <2>10. CASE Crash(s)
      BY <2>10, DropSteps
    <2> QED
      BY <1>5, <2>1, <2>2, <2>3, <2>4, <2>5, <2>6, <2>7, <2>8, <2>9, <2>10 DEF Step, Fault
  <1> QED
    BY <1>1, <1>2, <1>3, <1>4, <1>5 DEF Next

(* The shape of the state: among it that a cursor's value is a page number    *)
(* only together with the page to resume at, so that                          *)
(* _process_source_account_sync_job never takes a page for a watermark.       *)
THEOREM TypeCorrect == Spec => []TypeOK
  <1>1. SourceInv => TypeOK
    BY DEF SourceInv
  <1> QED
    BY <1>1, InvOfInit, InvNext, PTL DEF Spec

-----------------------------------------------------------------------------
(***************************************************************************)
(* Nothing is skipped                                                      *)
(***************************************************************************)
\* The last version of the bookmark was saved, or passed over.
Settled(i) == upd[i] <= Larger(seen[i], given[i])
SettledBy(p, i) == Settled(i) \/ Awaits(p, i)

SettledInv ==
    /\ Owes(cursor, {i \in Items : Settled(i)})
    /\ \A s \in Syncs : Scans(sync[s], {i \in Items : SettledBy(sync[s], i)})

LEMMA IdleOwes ==
  ASSUME NEW done
  PROVE  Scans(Idle, done)
  BY DEF Scans, Idle, Fetching, Returned

LEMMA SettledGrows ==
  ASSUME SourceInv, SourceInv', NEW i \in Items, upd'[i] = upd[i],
         seen'[i] >= seen[i], given'[i] >= given[i], Settled(i)
  PROVE  Settled(i)'
  <1>1. /\ seen[i] \in Nat /\ given[i] \in Nat /\ seen'[i] \in Nat /\ given'[i] \in Nat
        /\ upd[i] \in Nat
    BY InvParts, NoPageIsNone DEF SourceInv, TypeOK
  <1> QED
    BY <1>1 DEF Settled, Larger

\* What is enough for a step of one sync.
LEMMA SettledStep ==
  ASSUME SourceInv, SourceInv', SettledInv, NEW s \in Syncs, NEW q \in UnderWay, Moves(s, q),
         \A i \in Items : seen'[i] >= seen[i] /\ given'[i] >= given[i],
         NEW now, now = {i \in Items : Settled(i)'}, Owes(cursor', now),
         NEW paid, paid = {i \in Items : Settled(i)' \/ Awaits(q, i)}, Scans(q, paid)
  PROVE  SettledInv'
  <1>1. UNCHANGED upd /\ sync'[s] = q /\ \A t \in Syncs \ {s} : sync'[t] = sync[t]
    BY MovesOne, InvParts DEF Moves
  <1>2. \A i \in Items : Settled(i) => Settled(i)'
    BY <1>1, SettledGrows
  <1>3. Owes(cursor, {i \in Items : Settled(i)})'
    <2> PICK c : c = cursor'
      OBVIOUS
    <2>1. Owes(c, now)'
      BY <1>1, OwesSame
    <2> QED
      BY <2>1 DEF Owes
  <1>4. ASSUME NEW t \in Syncs
        PROVE  Scans(sync[t], {i \in Items : SettledBy(sync[t], i)})'
    <2> PICK p : p = sync'[t]
      OBVIOUS
    <2> PICK more : more = {i \in Items : Settled(i)' \/ Awaits(p, i)}
      OBVIOUS
    <2>1. Scans(p, more)
      <3>1. CASE t = s
        BY <1>1, <3>1
      <3>2. CASE t # s
        <4> PICK done : done = {i \in Items : SettledBy(p, i)}
          OBVIOUS
        <4>1. Scans(p, done) /\ done \subseteq more
          BY <1>1, <1>2, <3>2 DEF SettledInv, SettledBy
        <4> QED
          BY <4>1, OwesMore
      <3> QED
        BY <3>1, <3>2
    <2>2. Scans(p, more)'
      BY <1>1, <2>1, OwesSame
    <2>3. more = {i \in Items : SettledBy(sync[t], i)}'
      BY <1>1 DEF SettledBy, Awaits, Current
    <2> QED
      BY <2>2, <2>3 DEF Scans, Owes, ScanOwes, Latest, Fetching, Returned
  <1> QED
    BY <1>3, <1>4 DEF SettledInv

LEMMA SettledOfInit ==
  Init => SettledInv
  <1> SUFFICES ASSUME Init PROVE SettledInv
    OBVIOUS
  <1>1. Owes(cursor, {i \in Items : Settled(i)})
    <2>1. cursor.hwm = 0 /\ cursor.page = NoPage
      BY DEF Init, NewCursor
    <2>2. \A i \in Present : upd[i] > 0 /\ upd[i] \in Nat
      BY InvOfInit, InvParts DEF Present
    <2> QED
      BY <2>1, <2>2 DEF Owes
  <1>2. ASSUME NEW s \in Syncs
        PROVE  Scans(sync[s], {i \in Items : SettledBy(sync[s], i)})
    BY IdleOwes DEF Init
  <1> QED
    BY <1>1, <1>2 DEF SettledInv

\* The marks are where they were, and s owes no less of what it owed.
LEMMA SettledKeeps ==
  ASSUME SourceInv, SourceInv', SettledInv, NEW s \in Syncs, NEW q \in UnderWay, Moves(s, q),
         UNCHANGED <<cursor, seen, given>>,
         NEW paid, paid = {i \in Items : Settled(i) \/ Awaits(q, i)}, Scans(q, paid)
  PROVE  SettledInv'
  <1>1. \A i \in Items : seen'[i] >= seen[i] /\ given'[i] >= given[i]
    BY InvParts, NoPageIsNone
  <1>2. \A i \in Items : Settled(i)' <=> Settled(i)
    BY DEF Settled, Moves
  <1> PICK now : now = {i \in Items : Settled(i)'}
    OBVIOUS
  <1>3. Owes(cursor', now) /\ paid = {i \in Items : Settled(i)' \/ Awaits(q, i)}
    BY <1>2 DEF SettledInv
  <1> QED
    BY <1>1, <1>3, SettledStep

LEMMA SettledTouch ==
  ASSUME SourceInv, SettledInv, NEW x \in Items, Touch(x)
  PROVE  SettledInv'
  <1>1. /\ UNCHANGED <<cursor, saved, sync, seen, given, raced>>
        /\ \A i \in Items \ {x} : upd'[i] = upd[i]
    BY TouchSteps
  <1>2. \A i \in Items \ {x} : Settled(i) => Settled(i)'
    BY <1>1 DEF Settled
  <1>3. Owes(cursor, {i \in Items : Settled(i)})'
    <2> PICK c : c = cursor
      OBVIOUS
    <2> PICK done : done = {i \in Items : Settled(i)}
      OBVIOUS
    <2> PICK more : more = {i \in Items : Settled(i)}'
      OBVIOUS
    <2>1. done \ {x} \subseteq more /\ c \in Cursor /\ InPast(c) /\ Owes(c, done)
      BY <1>2, InvParts DEF SettledInv
    <2>2. Owes(c, more)'
      BY <2>1, OwesTouch
    <2> QED
      BY <1>1, <2>2 DEF Owes
  <1>4. ASSUME NEW s \in Syncs
        PROVE  Scans(sync[s], {i \in Items : SettledBy(sync[s], i)})'
    <2> PICK p : p = sync[s]
      OBVIOUS
    <2> PICK done : done = {i \in Items : SettledBy(p, i)}
      OBVIOUS
    <2> PICK more : more = {i \in Items : SettledBy(p, i)}'
      OBVIOUS
    <2>1. \A i \in Items \ {x} : SettledBy(p, i) => SettledBy(p, i)'
      BY <1>1, <1>2 DEF SettledBy, Awaits, Current
    <2>2. done \ {x} \subseteq more /\ p \in UnderWay /\ Past(p) /\ Scans(p, done)
      BY <2>1, InvParts, UnderWayIs DEF SettledInv
    <2>3. Scans(p, more)'
      BY <2>2, OwesTouch
    <2> QED
      BY <1>1, <2>3 DEF Scans, Owes, ScanOwes, Latest, Fetching, Returned, SettledBy, Awaits
  <1> QED
    BY <1>3, <1>4 DEF SettledInv

LEMMA SettledDelete ==
  ASSUME SourceInv, SettledInv, ~MidScan, NEW x \in Items, Delete(x)
  PROVE  SettledInv'
  <1>1. /\ UNCHANGED <<cursor, saved, sync, seen, given, raced>>
        /\ Present' \subseteq Present /\ \A i \in Present' : upd'[i] = upd[i]
    BY DeleteSteps
  <1> PICK done : done = {i \in Items : Settled(i)}
    OBVIOUS
  <1>2. Owes(cursor, done)' /\ \A s \in Syncs : \A more : Scans(sync[s], more)'
    BY OwesDelete DEF SettledInv
  <1>3. \A i \in Present' : i \in done => Settled(i)' /\ i \in Items
    BY <1>1 DEF Settled, Present
  <1>4. Owes(cursor, {i \in Items : Settled(i)})'
    BY <1>2, <1>3 DEF Owes
  <1>5. ASSUME NEW s \in Syncs
        PROVE  Scans(sync[s], {i \in Items : SettledBy(sync[s], i)})'
    <2> PICK more : more = {i \in Items : SettledBy(sync[s], i)}'
      OBVIOUS
    <2>1. Scans(sync[s], more)'
      BY <1>2
    <2> QED
      BY <2>1 DEF Scans, Owes, ScanOwes
  <1> QED
    BY <1>4, <1>5 DEF SettledInv

LEMMA SettledFrame ==
  ASSUME SettledInv, UNCHANGED <<upd, clock, cursor, saved, sync, seen, given, raced>>
  PROVE  SettledInv'
  BY DEF SettledInv, Owes, Scans, ScanOwes, Settled, SettledBy, Awaits, Current, Present, Latest,
         Ahead, Rank, Newer, Fetching, Returned

LEMMA SettledBegin ==
  ASSUME SourceInv, SettledInv, NEW s \in Syncs,
         (s \in Workers /\ StartJob(s))
            \/ (s \in Requests /\ \E snapshot \in BOOLEAN : StartRequest(s, snapshot))
  PROVE  SettledInv'
  <1>1. SourceInv' /\ UNCHANGED <<cursor, seen, given>>
    BY JobSteps, RequestSteps
  <1>2. PICK q \in UnderWay :
            /\ Moves(s, q) /\ q.phase = "fetch" /\ q.recs = <<>> /\ q.bad = {}
            /\ \/ /\ q.pending = cursor.pending
                  /\ \/ cursor.page # NoPage /\ q.since = 0 /\ q.page = cursor.page
                     \/ cursor.page = NoPage /\ q.since = cursor.hwm /\ q.page = 0
               \/ q.pending = 0 /\ q.since = 0 /\ q.page = 0
    <2>1. CASE s \in Workers /\ StartJob(s)
      <3>1. PICK q \in UnderWay :
               /\ Moves(s, q) /\ q.phase = "fetch" /\ q.recs = <<>> /\ q.bad = {}
               /\ q.pending = cursor.pending
               /\ \/ cursor.page # NoPage /\ q.since = 0 /\ q.page = cursor.page
                  \/ cursor.page = NoPage /\ q.since = cursor.hwm /\ q.page = 0
        BY <2>1, JobSteps
      <3> QED
        BY <3>1
    <2>2. CASE s \in Requests /\ \E snapshot \in BOOLEAN : StartRequest(s, snapshot)
      <3>1. PICK q \in UnderWay :
               /\ Moves(s, q) /\ q.phase = "fetch" /\ q.recs = <<>> /\ q.bad = {}
               /\ q.pending = 0 /\ q.since = 0 /\ q.page = 0
        BY <2>2, RequestSteps
      <3> QED
        BY <3>1
    <2> QED
      BY <2>1, <2>2
  <1> PICK done : done = {i \in Items : Settled(i)}
    OBVIOUS
  <1> PICK paid : paid = {i \in Items : Settled(i) \/ Awaits(q, i)}
    OBVIOUS
  <1>3. Owes(cursor, done)
    BY DEF SettledInv
  <1>4. Scans(q, done)
    BY <1>2, <1>3, OwesBegin
  <1>5. Scans(q, paid)
    BY <1>4, OwesMore
  <1> QED
    BY <1>1, <1>2, <1>5, SettledKeeps

LEMMA SettledRead ==
  ASSUME SourceInv, SettledInv, NEW s \in Syncs, ReadPage(s)
  PROVE  SettledInv'
  <1> PICK p : p = sync[s]
    OBVIOUS
  <1> PICK f : f = FreshOnPage(p.page, p.since)
    OBVIOUS
  <1> PICK recs : recs = p.recs \o f
    OBVIOUS
  <1>1. SourceInv' /\ UNCHANGED <<cursor, seen, given>> /\ p.phase = "fetch"
    BY ReadSteps
  <1>2. p \in UnderWay /\ Past(p) /\ Stages(p) /\ Fetching(p) /\ p.bad = {}
    BY <1>1, InvParts, UnderWayIs DEF Fetching, Stages
  <1>3. PICK q \in UnderWay :
           /\ Moves(s, q) /\ recs \in Seq(Record) /\ ToSet(recs) = ToSet(p.recs) \cup ToSet(f)
           /\ \/ q = [p EXCEPT !.recs = recs, !.page = @ + 1] /\ ~ (Len(f) < PerPage)
              \/ /\ q = Fetched(p, recs, p.page + 1, FALSE)
                 /\ ~ (Len(f) < PerPage) /\ p.page + 1 \in PageNumber
              \/ q = Fetched(p, recs, NoPage, FALSE) /\ Len(f) < PerPage
    BY ReadSteps
  <1>4. q.recs = recs
    <2>1. CASE q = [p EXCEPT !.recs = recs, !.page = @ + 1]
      BY <1>2, <2>1 DEF UnderWay
    <2>2. ASSUME NEW next, q = Fetched(p, recs, next, FALSE)
          PROVE  q.recs = recs
      <3>1. AsksFor(q, p, recs, next)
        BY <2>2, FetchedOut
      <3> QED
        BY <3>1 DEF AsksFor
    <2> QED
      BY <1>3, <2>1, <2>2
  <1> PICK done : done = {i \in Items : SettledBy(p, i)}
    OBVIOUS
  <1> PICK paid : paid = {i \in Items : Settled(i) \/ Awaits(q, i)}
    OBVIOUS
  <1>5. Scans(p, done) /\ done \subseteq paid /\ \A i \in Items : Current(i) \in ToSet(f) => i \in paid
    <2>1. \A i \in Items : Awaits(p, i) \/ Current(i) \in ToSet(f) => Awaits(q, i)
      BY <1>2, <1>3, <1>4 DEF Awaits
    <2> QED
      BY <2>1 DEF SettledInv, SettledBy
  <1>6. Scans(q, paid)
    BY <1>2, <1>3, <1>5, ReadOwes
  <1> QED
    BY <1>1, <1>3, <1>6, SettledKeeps

LEMMA SettledLose ==
  ASSUME SourceInv, SettledInv, NEW s \in Syncs, LosePage(s)
  PROVE  SettledInv'
  <1> PICK p : p = sync[s]
    OBVIOUS
  <1>1. SourceInv' /\ UNCHANGED <<cursor, seen, given>> /\ p.phase = "fetch"
    BY LoseSteps
  <1>2. p \in UnderWay /\ Past(p) /\ Fetching(p) /\ Stages(p) /\ p.bad = {}
    BY <1>1, InvParts, UnderWayIs DEF Fetching, Stages
  <1>3. PICK q \in UnderWay : Moves(s, q) /\ q = Fetched(p, p.recs, NoPage, TRUE)
    BY LoseSteps
  <1> PICK done : done = {i \in Items : SettledBy(p, i)}
    OBVIOUS
  <1>4. Scans(p, done)
    BY DEF SettledInv
  <1>5. Scans(q, done) /\ q.recs = p.recs /\ q.bad = {}
    BY <1>2, <1>3, <1>4, LoseOwes
  <1>6. done = {i \in Items : Settled(i) \/ Awaits(q, i)}
    BY <1>2, <1>5 DEF SettledBy, Awaits
  <1> QED
    BY <1>1, <1>3, <1>5, <1>6, SettledKeeps

\* A step with which the sync has the same records to save and the same cursor to write.
LEMMA SettledSame ==
  ASSUME SourceInv, SourceInv', SettledInv, NEW s \in Syncs, NEW q \in UnderWay, Moves(s, q),
         UNCHANGED <<cursor, seen, given>>, Returned(sync[s]), Returned(q),
         q.recs = sync[s].recs, q.bad = sync[s].bad, q.out = sync[s].out
  PROVE  SettledInv'
  <1> PICK p : p = sync[s]
    OBVIOUS
  <1> PICK paid : paid = {i \in Items : Settled(i) \/ Awaits(q, i)}
    OBVIOUS
  <1>1. paid = {i \in Items : SettledBy(p, i)}
    BY DEF SettledBy, Awaits
  <1>2. Scans(p, paid)
    BY <1>1 DEF SettledInv
  <1>3. Scans(q, paid)
    BY <1>2 DEF Scans, Returned, Fetching
  <1> QED
    BY <1>3, SettledKeeps

LEMMA SettledSave ==
  ASSUME SourceInv, SettledInv, NEW s \in Syncs, Save(s) \/ RefusePoison(s) \/ FailSave(s)
  PROVE  SettledInv'
  <1> PICK p : p = sync[s]
    OBVIOUS
  <1> PICK r : r = Head(p.recs)
    OBVIOUS
  <1>1. /\ SourceInv' /\ UNCHANGED <<upd, cursor, given>> /\ p.phase = "save" /\ p.recs # <<>>
        /\ r \in Record
        /\ \/ seen' = [seen EXCEPT ![r.item] = Larger(seen[r.item], r.at)]
           \/ seen' = seen
    BY SaveSteps, RefuseSteps
  <1>2. PICK q \in UnderWay :
           /\ Moves(s, q) /\ Returned(q) /\ q.recs = Tail(p.recs) /\ q.out = p.out
           /\ \/ seen' = [seen EXCEPT ![r.item] = Larger(seen[r.item], r.at)] /\ q.bad = p.bad
              \/ q.bad = p.bad \cup {r}
    <2>1. CASE Save(s)
      <3>1. seen' = [seen EXCEPT ![r.item] = Larger(seen[r.item], r.at)]
        BY <2>1, SaveSteps
      <3>2. PICK q \in UnderWay : Moves(s, q) /\ Returned(q) /\ q.recs = Tail(p.recs) /\ q.out = p.out
                                  /\ q.bad = p.bad
        BY <2>1, SaveSteps
      <3> QED
        BY <3>1, <3>2
    <2>2. CASE RefusePoison(s) \/ FailSave(s)
      <3>1. PICK q \in UnderWay : Moves(s, q) /\ Returned(q) /\ q.recs = Tail(p.recs) /\ q.out = p.out
                                  /\ q.bad = p.bad \cup {r}
        BY <2>2, RefuseSteps
      <3> QED
        BY <3>1
    <2> QED
      BY <2>1, <2>2
  <1>3. p \in UnderWay /\ p.recs \in Seq(Record) /\ Returned(p)
    BY <1>1, InvParts, UnderWayIs DEF Returned
  <1>4. ToSet(p.recs) = {r} \cup ToSet(q.recs)
    BY <1>1, <1>2, <1>3, HeadAndTail
  <1>5. r.item \in Items /\ r.at \in Nat /\ seen \in [Items -> Nat] /\ given \in [Items -> Nat]
        /\ seen' \in [Items -> Nat]
    <2>1. seen \in [Items -> Time] /\ given \in [Items -> Time] /\ r.item \in Items /\ r.at \in Time
      BY <1>1, InvParts DEF Record
    <2>2. seen' \in [Items -> Time]
      BY <1>1 DEF SourceInv, TypeOK
    <2> QED
      BY <2>1, <2>2, NoPageIsNone
  <1>6. \A i \in Items : seen'[i] >= seen[i] /\ given'[i] >= given[i]
    BY <1>1, <1>5 DEF Larger
  <1>7. \A i \in Items : Settled(i) => Settled(i)'
    BY <1>1, <1>6, SettledGrows
  <1>8. ASSUME NEW i \in Items, Awaits(p, i)
        PROVE  Settled(i)' \/ Awaits(q, i)
    <2>1. CASE Current(i) # r
      BY <1>2, <1>4, <1>8, <2>1 DEF Awaits
    <2>2. CASE Current(i) = r
      <3>1. r.item = i /\ r.at = upd[i]
        BY <2>2 DEF Current
      <3>2. CASE q.bad = p.bad \cup {r}
        BY <2>2, <3>2 DEF Awaits
      <3>3. CASE seen' = [seen EXCEPT ![r.item] = Larger(seen[r.item], r.at)]
        <4>1. seen'[i] >= upd[i]
          BY <1>5, <3>1, <3>3 DEF Larger
        <4> QED
          BY <1>1, <1>5, <3>1, <4>1 DEF Settled, Larger
      <3> QED
        BY <1>2, <3>2, <3>3
    <2> QED
      BY <2>1, <2>2
  <1> PICK done : done = {i \in Items : SettledBy(p, i)}
    OBVIOUS
  <1> PICK paid : paid = {i \in Items : Settled(i)' \/ Awaits(q, i)}
    OBVIOUS
  <1> PICK now : now = {i \in Items : Settled(i)'}
    OBVIOUS
  <1>9. Scans(q, paid)
    <2>1. Scans(p, done) /\ done \subseteq paid
      BY <1>7, <1>8 DEF SettledInv, SettledBy
    <2>2. Owes(p.out, paid)
      BY <1>3, <2>1, OwesMore DEF Scans
    <2> QED
      BY <1>2, <2>2 DEF Scans, Fetching, Returned
  <1>10. Owes(cursor', now)
    <2> PICK was : was = {i \in Items : Settled(i)}
      OBVIOUS
    <2>1. Owes(cursor, was) /\ was \subseteq now
      BY <1>7 DEF SettledInv
    <2> QED
      BY <1>1, <2>1, OwesMore
  <1> QED
    BY <1>1, <1>2, <1>6, <1>9, <1>10, SettledStep

LEMMA SettledHold ==
  ASSUME SourceInv, SettledInv, NEW s \in Syncs, Hold(s)
  PROVE  SettledInv'
  <1> PICK p : p = sync[s]
    OBVIOUS
  <1>1. SourceInv' /\ UNCHANGED <<cursor, seen, given>> /\ Returned(p) /\ p.recs = <<>>
    BY HoldSteps
  <1>2. PICK q \in UnderWay :
           /\ Moves(s, q) /\ q.phase = "write" /\ q.recs = <<>>
           /\ \/ q.bad = p.bad /\ q.out = p.out
              \/ q.out.page = cursor.page /\ q.out.hwm = cursor.hwm /\ q.out.pending = cursor.pending
    BY HoldSteps
  <1>3. Returned(q)
    BY <1>2 DEF Returned
  <1>4. CASE q.bad = p.bad /\ q.out = p.out
    BY <1>1, <1>2, <1>3, <1>4, SettledSame
  <1>5. CASE q.out.page = cursor.page /\ q.out.hwm = cursor.hwm /\ q.out.pending = cursor.pending
    <2> PICK was : was = {i \in Items : Settled(i)}
      OBVIOUS
    <2> PICK paid : paid = {i \in Items : Settled(i) \/ Awaits(q, i)}
      OBVIOUS
    <2>1. Owes(cursor, was) /\ was \subseteq paid
      BY DEF SettledInv
    <2>2. Owes(cursor, paid)
      BY <2>1, OwesMore
    <2>3. Owes(q.out, paid)
      BY <1>5, <2>2 DEF Owes
    <2>4. Scans(q, paid)
      BY <1>2, <2>3 DEF Scans, Fetching
    <2> QED
      BY <1>1, <1>2, <2>4, SettledKeeps
  <1> QED
    BY <1>2, <1>4, <1>5

LEMMA SettledWrite ==
  ASSUME SourceInv, SettledInv, NEW s \in Syncs, WriteCursor(s)
  PROVE  SettledInv'
  <1> PICK p : p = sync[s]
    OBVIOUS
  <1>1. /\ SourceInv' /\ UNCHANGED <<upd, seen>> /\ p.phase = "write" /\ p.recs = <<>>
        /\ cursor' = p.out /\ Moves(s, Idle)
        /\ \A i \in Items : given'[i] >= given[i] /\ \A r \in p.bad : r.item = i => given'[i] >= r.at
    BY WriteSteps
  <1>2. \A i \in Items : seen'[i] >= seen[i] /\ given'[i] >= given[i]
    BY <1>1, InvParts, NoPageIsNone
  <1>3. \A i \in Items : Settled(i) => Settled(i)'
    BY <1>1, <1>2, SettledGrows
  <1>4. ASSUME NEW i \in Items, Awaits(p, i)
        PROVE  Settled(i)'
    <2>1. Current(i) \in p.bad
      BY <1>1, <1>4 DEF Awaits, ToSet
    <2>2. given'[i] >= upd[i]
      BY <1>1, <2>1 DEF Current
    <2>3. given'[i] \in Nat /\ seen'[i] \in Nat /\ upd[i] \in Nat /\ upd'[i] = upd[i]
      BY <1>1, InvParts, NoPageIsNone DEF SourceInv, TypeOK
    <2> QED
      BY <2>2, <2>3 DEF Settled, Larger
  <1> PICK done : done = {i \in Items : SettledBy(p, i)}
    OBVIOUS
  <1> PICK now : now = {i \in Items : Settled(i)'}
    OBVIOUS
  <1>5. Owes(cursor', now)
    <2>1. Returned(p)
      BY <1>1 DEF Returned
    <2>2. Scans(p, done) /\ done \subseteq now
      BY <1>3, <1>4 DEF SettledInv, SettledBy
    <2> QED
      BY <1>1, <2>1, <2>2, OwesMore DEF Scans
  <1> PICK paid : paid = {i \in Items : Settled(i)' \/ Awaits(Idle, i)}
    OBVIOUS
  <1> PICK q : q = Idle
    OBVIOUS
  <1>6. Scans(q, paid) /\ q \in UnderWay /\ Moves(s, q) /\ paid = {i \in Items : Settled(i)' \/ Awaits(q, i)}
    BY <1>1, IdleOwes, IdleIs
  <1> QED
    BY <1>1, <1>2, <1>5, <1>6, SettledStep

LEMMA SettledDrop ==
  ASSUME SourceInv, SettledInv, NEW s \in Syncs, Crash(s) \/ (Check(s) /\ ~connected)
  PROVE  SettledInv'
  <1>1. SourceInv' /\ UNCHANGED <<cursor, seen, given>> /\ Moves(s, Idle)
    BY DropSteps
  <1> PICK q : q = Idle
    OBVIOUS
  <1> PICK paid : paid = {i \in Items : Settled(i) \/ Awaits(q, i)}
    OBVIOUS
  <1>2. Scans(q, paid) /\ q \in UnderWay /\ Moves(s, q)
    BY <1>1, IdleOwes, IdleIs
  <1> QED
    BY <1>1, <1>2, SettledKeeps

LEMMA SettledOfNext ==
  ASSUME SourceInv, SettledInv, ~MidScan, [Next]_vars
  PROVE  SettledInv'
  <1>1. CASE \E i \in Items : Touch(i) \/ Delete(i)
    BY <1>1, SettledTouch, SettledDelete
  <1>2. CASE Disconnect \/ Resume \/ UNCHANGED vars
    BY <1>2, FrameSteps, SettledFrame
  <1>3. CASE \E w \in Workers : StartJob(w)
    BY <1>3, SettledBegin DEF Syncs
  <1>4. CASE \E r \in Requests, snapshot \in BOOLEAN : StartRequest(r, snapshot)
    BY <1>4, SettledBegin DEF Syncs
  <1>5. ASSUME NEW s \in Syncs, Step(s) \/ Fault(s)
        PROVE  SettledInv'
    <2>1. CASE ReadPage(s)
      BY <2>1, SettledRead
    <2>2. CASE Connect(s) \/ (Check(s) /\ connected)
      <3>1. PICK q \in UnderWay :
               /\ Moves(s, q) /\ Returned(q)
               /\ q.recs = sync[s].recs /\ q.bad = sync[s].bad /\ q.out = sync[s].out
        BY <2>2, ConnectSteps
      <3> QED
        BY <2>2, <3>1, ConnectSteps, SettledSame
    <2>3. CASE Save(s) \/ RefusePoison(s) \/ FailSave(s)
      BY <2>3, SettledSave
    <2>4. CASE FindMissing(s)
      <3>1. PICK q \in UnderWay :
               /\ Moves(s, q) /\ Returned(q)
               /\ q.recs = sync[s].recs /\ q.bad = sync[s].bad /\ q.out = sync[s].out
        BY <2>4, FindSteps
      <3> QED
        BY <2>4, <3>1, FindSteps, SettledSame
    <2>5. ASSUME NEW i \in Items, ArchiveMissing(s, i)
          PROVE  SettledInv'
      <3>1. PICK q \in UnderWay :
               /\ Moves(s, q) /\ Returned(q)
               /\ q.recs = sync[s].recs /\ q.bad = sync[s].bad /\ q.out = sync[s].out
        BY <2>5, ArchiveSteps
      <3>2. SourceInv' /\ UNCHANGED <<cursor, seen, given>> /\ Returned(sync[s])
        BY <2>5, ArchiveSteps DEF Returned
      <3> QED
        BY <3>1, <3>2, SettledSame
    <2>6. CASE Hold(s)
      BY <2>6, SettledHold
    <2>7. CASE WriteCursor(s)
      BY <2>7, SettledWrite
    <2>8. CASE LosePage(s)
      BY <2>8, SettledLose
    <2>9. CASE Crash(s) \/ (Check(s) /\ ~connected)
      BY <2>9, SettledDrop
    <2> QED
      BY <1>5, <2>1, <2>2, <2>3, <2>4, <2>5, <2>6, <2>7, <2>8, <2>9 DEF Step, Fault
  <1> QED
    BY <1>1, <1>2, <1>3, <1>4, <1>5 DEF Next

(* The high-water mark never passes a bookmark whose last version was neither *)
(* saved nor passed over after three failing pages: for any list, any number  *)
(* of overlapping syncs, lost pages, failed saves and crashes, as long as     *)
(* nothing is deleted in the middle of a scan (the data-loss guard of         *)
(* sync_source_account_records).                                              *)
THEOREM SkipsNothing == ~MidScan => (Spec => []NothingSkipped)
  <1> SUFFICES ASSUME ~MidScan
               PROVE  Spec => []NothingSkipped
    OBVIOUS
  <1>1. Init => SourceInv /\ SettledInv
    BY InvOfInit, SettledOfInit
  <1>2. SourceInv /\ SettledInv /\ [Next]_vars => SourceInv' /\ SettledInv'
    BY InvNext, SettledOfNext
  <1>3. SettledInv => NothingSkipped
    BY DEF SettledInv, Owes, NothingSkipped, Settled
  <1> QED
    BY <1>1, <1>2, <1>3, PTL DEF Spec

-----------------------------------------------------------------------------
(***************************************************************************)
(* The newest version is kept                                              *)
(***************************************************************************)
\* The capture holds the last version of the bookmark, or it was passed over.
Kept(i) == saved[i] = upd[i] \/ upd[i] <= given[i]

\* Kept, and nothing p has still to save would take it back; or p will save it.
NoneOlder(p, i) == \A r \in ToSet(p.recs) : r.item = i => r.at = upd[i]
KeptBy(p, i)    == (Kept(i) /\ NoneOlder(p, i)) \/ Awaits(p, i)

\* The cursor does not answer for the bookmark.
Unmarked(i) == upd[i] > cursor.hwm /\ upd[i] > cursor.pending

\* The versions of one bookmark come in their order, and only one that the
\* cursor does not answer for has been overtaken since it was read.
InOrder(p) ==
    /\ \A a, b \in DOMAIN p.recs :
          a < b /\ p.recs[a].item = p.recs[b].item => p.recs[a].at <= p.recs[b].at
    /\ \A r \in ToSet(p.recs) :
          r.at <= upd[r.item] /\ (r.at < upd[r.item] => Unmarked(r.item))

\* What a snapshot will not archive: what it has met, what it listed, and what
\* has not been found missing.
HasMet(p)   == {i \in Items : \E r \in ToSet(p.recs) : r.item = i}
Accounted(p) ==
    IF p.phase = "archive" THEN Items \ p.ids ELSE IF Fetching(p) THEN HasMet(p) ELSE p.ids
SnapshotOf(p) ==
    p.snapshot \/ p.phase = "archive" =>
        /\ Scans(p, Accounted(p))
        /\ \A i \in Present : i \in Accounted(p) \/ Unmarked(i) \/ (Fetching(p) /\ Ahead(i, p.page))

Keeps(p) ==
    /\ InOrder(p)
    /\ Scans(p, {i \in Items : KeptBy(p, i)})
    /\ SnapshotOf(p)

KeptInv ==
    ~raced =>
        /\ \A s, t \in Syncs : Active(s) /\ Active(t) => s = t
        /\ \A s \in Syncs : Active(s) => Keeps(sync[s])
        /\ Owes(cursor, {i \in Items : Kept(i)})

LEMMA KeptOfInit ==
  Init => KeptInv
  <1> SUFFICES ASSUME Init PROVE KeptInv
    OBVIOUS
  <1>1. Owes(cursor, {i \in Items : Kept(i)})
    <2>1. cursor.hwm = 0 /\ cursor.page = NoPage
      BY DEF Init, NewCursor
    <2>2. \A i \in Present : upd[i] > 0 /\ upd[i] \in Nat
      BY InvOfInit, InvParts DEF Present
    <2> QED
      BY <2>1, <2>2 DEF Owes
  <1>2. \A s \in Syncs : ~Active(s)
    BY DEF Init, Active, Idle
  <1> QED
    BY <1>1, <1>2 DEF KeptInv

\* A step of one sync while no other is under way.
LEMMA KeptStep ==
  ASSUME SourceInv, KeptInv, NEW s \in Syncs, NEW q \in UnderWay, Moves(s, q),
         raced' = raced, Active(s),
         ~raced => (q.phase # "idle" => Keeps(q)'),
         ~raced => Owes(cursor, {i \in Items : Kept(i)})'
  PROVE  KeptInv'
  <1> SUFFICES ASSUME ~raced
               PROVE  /\ \A t, u \in Syncs : Active(t)' /\ Active(u)' => t = u
                      /\ \A t \in Syncs : Active(t)' => Keeps(sync[t])'
    BY DEF KeptInv
  <1>1. sync'[s] = q /\ \A t \in Syncs \ {s} : sync'[t] = sync[t]
    BY MovesOne, InvParts
  <1>2. \A t \in Syncs : Active(t)' => t = s
    BY <1>1 DEF KeptInv, Active
  <1>3. ASSUME NEW t \in Syncs, Active(t)'
        PROVE  Keeps(sync[t])'
    <2>1. sync'[t] = q /\ q.phase # "idle"
      BY <1>1, <1>2, <1>3 DEF Active
    <2>2. Keeps(q)'
      BY <2>1
    <2> QED
      BY <2>1, <2>2 DEF Keeps, InOrder, SnapshotOf, Accounted, HasMet, KeptBy, NoneOlder, Awaits,
            Scans, Owes, ScanOwes, Latest, Fetching, Returned
  <1> QED
    BY <1>2, <1>3

\* The same for a step that leaves the captures and the marks alone.
LEMMA KeptSame ==
  ASSUME SourceInv, KeptInv, NEW s \in Syncs, NEW q \in UnderWay, Moves(s, q),
         UNCHANGED <<cursor, saved, given, raced>>, Active(s),
         ~raced /\ Keeps(sync[s]) => q.phase = "idle" \/ Keeps(q)
  PROVE  KeptInv'
  <1>1. UNCHANGED <<upd, cursor, saved, given>>
    BY DEF Moves
  <1>2. ASSUME ~raced, q.phase # "idle"
        PROVE  Keeps(q)'
    <2>1. Keeps(q)
      BY <1>2 DEF KeptInv
    <2> QED
      BY <1>1, <2>1 DEF Keeps, InOrder, SnapshotOf, Accounted, HasMet, KeptBy, NoneOlder, Awaits, Kept,
            Scans, Owes, ScanOwes, Latest, Fetching, Returned, Unmarked, Ahead, Rank, Newer, Present,
            Current
  <1>3. ~raced => Owes(cursor, {i \in Items : Kept(i)})'
    BY <1>1 DEF KeptInv, Owes, Kept, Present, Ahead, Rank, Newer
  <1> QED
    BY <1>2, <1>3, KeptStep

LEMMA KeptFrame ==
  ASSUME KeptInv, UNCHANGED <<upd, clock, cursor, saved, sync, seen, given, raced>>
  PROVE  KeptInv'
  <1> QED
    BY DEF KeptInv, Active, Keeps, InOrder, SnapshotOf, Accounted, HasMet, KeptBy, NoneOlder, Awaits,
           Kept, Scans, Owes, ScanOwes, Latest, Fetching, Returned, Unmarked, Ahead, Rank, Newer,
           Present, Current

LEMMA KeptDrop ==
  ASSUME SourceInv, KeptInv, NEW s \in Syncs, Crash(s) \/ (Check(s) /\ ~connected)
  PROVE  KeptInv'
  <1>1. UNCHANGED <<cursor, saved, given, raced>> /\ Moves(s, Idle)
    BY DropSteps
  <1>2. Active(s)
    BY DEF Active, Crash, Check
  <1> PICK q : q = Idle
    OBVIOUS
  <1>3. q \in UnderWay /\ Moves(s, q) /\ q.phase = "idle"
    BY <1>1, IdleIs DEF Idle
  <1> QED
    BY <1>1, <1>2, <1>3, KeptSame

\* A scan that begins has read nothing yet.
LEMMA TopOwes ==
  ASSUME SourceInv, NEW q \in UnderWay, q.phase = "fetch", q.recs = <<>>,
         q.pending = 0, q.since = 0, q.page = 0, NEW done
  PROVE  Scans(q, done) /\ \A i \in Present : Ahead(i, q.page)
  <1>1. \A i \in Present : Ahead(i, 0) /\ upd[i] > 0 /\ upd[i] \in Nat
    BY RankType, PageTimes, InvParts DEF Ahead, Present
  <1>2. ScanOwes(q, done)
    BY <1>1 DEF ScanOwes
  <1> QED
    BY <1>1, <1>2 DEF Scans, Fetching, Returned

LEMMA KeptBegin ==
  ASSUME SourceInv, KeptInv, NEW s \in Syncs,
         (s \in Workers /\ StartJob(s))
            \/ (s \in Requests /\ \E snapshot \in BOOLEAN : StartRequest(s, snapshot))
  PROVE  KeptInv'
  <1>1. /\ UNCHANGED <<upd, cursor, saved, given>>
        /\ raced' = (raced \/ \E t \in Syncs : Active(t))
    BY JobSteps, RequestSteps
  <1>2. PICK q \in UnderWay :
            /\ Moves(s, q) /\ q.phase = "fetch" /\ q.recs = <<>> /\ q.bad = {}
            /\ \/ /\ q.pending = cursor.pending /\ q.snapshot = FALSE
                  /\ \/ cursor.page # NoPage /\ q.since = 0 /\ q.page = cursor.page
                     \/ cursor.page = NoPage /\ q.since = cursor.hwm /\ q.page = 0
               \/ q.pending = 0 /\ q.since = 0 /\ q.page = 0
    <2>1. CASE s \in Workers /\ StartJob(s)
      <3>1. PICK q \in UnderWay :
               /\ Moves(s, q) /\ q.phase = "fetch" /\ q.recs = <<>> /\ q.bad = {}
               /\ q.pending = cursor.pending /\ q.snapshot = FALSE
               /\ \/ cursor.page # NoPage /\ q.since = 0 /\ q.page = cursor.page
                  \/ cursor.page = NoPage /\ q.since = cursor.hwm /\ q.page = 0
        BY <2>1, JobSteps
      <3> QED
        BY <3>1
    <2>2. CASE s \in Requests /\ \E snapshot \in BOOLEAN : StartRequest(s, snapshot)
      <3>1. PICK q \in UnderWay :
               /\ Moves(s, q) /\ q.phase = "fetch" /\ q.recs = <<>> /\ q.bad = {}
               /\ q.pending = 0 /\ q.since = 0 /\ q.page = 0
        BY <2>2, RequestSteps
      <3> QED
        BY <3>1
    <2> QED
      BY <2>1, <2>2
  <1> SUFFICES ASSUME ~raced, \A t \in Syncs : ~Active(t)
               PROVE  /\ \A t, u \in Syncs : Active(t)' /\ Active(u)' => t = u
                      /\ \A t \in Syncs : Active(t)' => Keeps(sync[t])'
                      /\ Owes(cursor, {i \in Items : Kept(i)})'
    BY <1>1 DEF KeptInv
  <1>3. sync'[s] = q /\ \A t \in Syncs \ {s} : sync'[t] = sync[t]
    BY <1>2, MovesOne, InvParts
  <1>4. \A t \in Syncs : Active(t)' => t = s
    BY <1>3 DEF Active
  <1>5. Owes(cursor, {i \in Items : Kept(i)})
    BY DEF KeptInv
  <1>6. Keeps(q)
    <2>1. DOMAIN q.recs = {} /\ ToSet(q.recs) = {}
      BY <1>2 DEF ToSet
    <2>2. InOrder(q)
      BY <2>1 DEF InOrder
    <2> PICK done : done = {i \in Items : Kept(i)}
      OBVIOUS
    <2> PICK more : more = {i \in Items : KeptBy(q, i)}
      OBVIOUS
    <2>3. done \subseteq more
      BY <2>1 DEF KeptBy, NoneOlder
    <2>4. Scans(q, done)
      BY <1>2, <1>5, OwesBegin
    <2>5. Scans(q, more)
      BY <2>3, <2>4, OwesMore
    <2>6. SnapshotOf(q)
      <3>1. CASE q.snapshot = FALSE
        BY <1>2, <3>1 DEF SnapshotOf
      <3>2. CASE q.pending = 0 /\ q.since = 0 /\ q.page = 0
        <4> PICK acc : acc = Accounted(q)
          OBVIOUS
        <4>1. Scans(q, acc) /\ \A i \in Present : Ahead(i, q.page)
          BY <1>2, <3>2, TopOwes
        <4> QED
          BY <1>2, <4>1 DEF SnapshotOf, Fetching
      <3> QED
        BY <1>2, <3>1, <3>2
    <2> QED
      BY <2>2, <2>5, <2>6 DEF Keeps
  <1>7. Keeps(q)'
    BY <1>1, <1>6 DEF Keeps, InOrder, SnapshotOf, Accounted, HasMet, KeptBy, NoneOlder, Awaits, Kept,
            Scans, Owes, ScanOwes, Latest, Fetching, Returned, Unmarked, Ahead, Rank, Newer, Present,
            Current
  <1>8. Keeps(sync[s])'
    BY <1>3, <1>7 DEF Keeps, InOrder, SnapshotOf, Accounted, HasMet, KeptBy, NoneOlder, Awaits,
            Scans, Owes, ScanOwes, Latest, Fetching, Returned
  <1>9. Owes(cursor, {i \in Items : Kept(i)})'
    BY <1>1, <1>5 DEF Owes, Kept, Present, Ahead, Rank, Newer
  <1> QED
    BY <1>4, <1>8, <1>9

\* Records read later than others are of no older version.
LEMMA OrderOfBoth ==
  ASSUME NEW p \in UnderWay, InOrder(p), NEW f \in Seq(Record),
         \A r \in ToSet(f) : r.item \in Present /\ r = Current(r.item),
         NEW q, q.recs = p.recs \o f, upd \in [Items -> Nat]
  PROVE  InOrder(q)
  <1> PICK a : a = p.recs
    OBVIOUS
  <1>1. a \in Seq(Record)
    BY DEF UnderWay
  <1>2. /\ a \o f \in Seq(Record)
        /\ Len(a \o f) = Len(a) + Len(f)
        /\ \A i \in 1 .. Len(a) + Len(f) :
              (a \o f)[i] = IF i <= Len(a) THEN a[i] ELSE f[i - Len(a)]
    BY <1>1, ConcatProperties
  <1>3. Len(a) \in Nat /\ Len(f) \in Nat /\ DOMAIN (a \o f) = 1 .. Len(a) + Len(f)
        /\ DOMAIN a = 1 .. Len(a) /\ DOMAIN f = 1 .. Len(f)
    BY <1>1, <1>2
  <1>4. /\ \A r \in ToSet(a) : r.at <= upd[r.item] /\ (r.at < upd[r.item] => Unmarked(r.item))
        /\ \A m, n \in DOMAIN a : m < n /\ a[m].item = a[n].item => a[m].at <= a[n].at
    BY DEF InOrder
  <1>5. \A r \in ToSet(f) : r.at = upd[r.item] /\ upd[r.item] \in Nat
    BY DEF Current, Present
  <1>6. ASSUME NEW i \in DOMAIN (a \o f)
        PROVE  \/ i \in DOMAIN a /\ (a \o f)[i] = a[i] /\ (a \o f)[i] \in ToSet(a)
               \/ i > Len(a) /\ (a \o f)[i] \in ToSet(f)
    <2>1. CASE i <= Len(a)
      BY <1>2, <1>3, <2>1 DEF ToSet
    <2>2. CASE ~ (i <= Len(a))
      <3>1. i - Len(a) \in DOMAIN f /\ (a \o f)[i] = f[i - Len(a)] /\ i > Len(a)
        BY <1>2, <1>3, <2>2
      <3> QED
        BY <3>1 DEF ToSet
    <2> QED
      BY <2>1, <2>2
  <1>7. ASSUME NEW m \in DOMAIN (a \o f), NEW n \in DOMAIN (a \o f), m < n,
               (a \o f)[m].item = (a \o f)[n].item
        PROVE  (a \o f)[m].at <= (a \o f)[n].at
    <2> PICK x : x = (a \o f)[m]
      OBVIOUS
    <2> PICK y : y = (a \o f)[n]
      OBVIOUS
    <2>1. x.item = y.item /\ m \in Nat /\ n \in Nat
      BY <1>3, <1>7
    <2>2. CASE y \in ToSet(f)
      <3>1. y.at = upd[y.item] /\ upd[y.item] \in Nat
        BY <1>5, <2>2
      <3>2. x \in ToSet(a) \/ x \in ToSet(f)
        BY <1>6
      <3>3. x.at <= upd[x.item]
        BY <1>4, <1>5, <3>2
      <3> QED
        BY <2>1, <3>1, <3>3
    <2>3. CASE y \notin ToSet(f)
      <3>1. n \in DOMAIN a /\ y = a[n]
        BY <1>6, <2>3
      <3>2. m \in DOMAIN a /\ x = a[m]
        BY <1>3, <1>6, <1>7, <2>1, <3>1
      <3> QED
        BY <1>4, <1>7, <2>1, <3>1, <3>2
    <2> QED
      BY <2>2, <2>3
  <1>8. ToSet(a \o f) = ToSet(a) \cup ToSet(f)
    BY <1>1, InConcat
  <1>9. \A r \in ToSet(a \o f) : r.at <= upd[r.item] /\ (r.at < upd[r.item] => Unmarked(r.item))
    BY <1>4, <1>5, <1>8
  <1>10. q.recs = a \o f
    OBVIOUS
  <1> QED
    BY <1>7, <1>9, <1>10 DEF InOrder

\* A snapshot accounts for whatever it met, and what it never lists is newer
\* than all it met.
LEMMA ReadAccounts ==
  ASSUME SourceInv, NEW p \in UnderWay, Fetching(p), Past(p), SnapshotOf(p), p.snapshot, p.since = 0,
         NEW f, f = FreshOnPage(p.page, p.since),
         NEW recs \in Seq(Record), ToSet(recs) = ToSet(p.recs) \cup ToSet(f),
         NEW q \in UnderWay, q.recs = recs, q.snapshot, Scans(q, HasMet(q)),
         \/ q.phase = "fetch" /\ q.page = p.page + 1 /\ ~ (Len(f) < PerPage)
         \/ q.phase = "connect" /\ Len(f) < PerPage /\ q.ids = {r.item : r \in ToSet(recs)}
  PROVE  SnapshotOf(q)
  <1>1. p.page \in Nat /\ p.since \in Nat /\ Accounted(p) = HasMet(p) /\ p.phase = "fetch"
    BY NoPageIsNone DEF UnderWay, Accounted, Fetching
  <1>2. /\ \A r \in ToSet(f) : r.item \in Present /\ r = Current(r.item)
        /\ \A i \in Newer(p.since) :
              Ahead(i, p.page) =>
                 Current(i) \in ToSet(f) \/ (~ (Len(f) < PerPage) /\ Ahead(i, p.page + 1))
    BY <1>1, InvParts, FreshIs
  <1>3. Present \subseteq Items /\ \A i \in Present : i \in Newer(p.since)
    BY DEF Newer, Present
  <1>4. \A i \in Present : i \in HasMet(p) \/ Unmarked(i) \/ Ahead(i, p.page)
    BY <1>1 DEF SnapshotOf
  <1>5. \A i \in Present : Current(i) \in ToSet(f) \/ i \in HasMet(p) => i \in HasMet(q)
    BY <1>3 DEF HasMet, Current
  <1>6. \A i \in Present : i \in HasMet(q) \/ Unmarked(i) \/ (~ (Len(f) < PerPage) /\ Ahead(i, p.page + 1))
    BY <1>2, <1>3, <1>4, <1>5
  <1>7. Accounted(q) = HasMet(q)
    <2>1. CASE q.phase = "fetch"
      BY <2>1 DEF Accounted, Fetching
    <2>2. CASE q.phase = "connect" /\ q.ids = {r.item : r \in ToSet(recs)}
      <3>1. \A r \in ToSet(recs) : r.item \in Items
        BY SetOfRecords DEF Record
      <3>2. q.ids = HasMet(q)
        BY <2>2, <3>1 DEF HasMet
      <3> QED
        BY <2>2, <3>2 DEF Accounted, Fetching
    <2> QED
      BY <2>1, <2>2
  <1> QED
    BY <1>6, <1>7 DEF SnapshotOf, Fetching

LEMMA KeptRead ==
  ASSUME SourceInv, KeptInv, NEW s \in Syncs, ReadPage(s)
  PROVE  KeptInv'
  <1> PICK p : p = sync[s]
    OBVIOUS
  <1> PICK f : f = FreshOnPage(p.page, p.since)
    OBVIOUS
  <1> PICK recs : recs = p.recs \o f
    OBVIOUS
  <1>1. UNCHANGED <<cursor, saved, given, raced>> /\ p.phase = "fetch" /\ Active(s)
    BY ReadSteps DEF Active
  <1>2. p \in UnderWay /\ Past(p) /\ Stages(p) /\ Fetching(p) /\ p.bad = {}
    BY <1>1, InvParts, UnderWayIs DEF Fetching, Stages
  <1>3. PICK q \in UnderWay :
           /\ Moves(s, q) /\ recs \in Seq(Record) /\ ToSet(recs) = ToSet(p.recs) \cup ToSet(f)
           /\ \/ q = [p EXCEPT !.recs = recs, !.page = @ + 1] /\ ~ (Len(f) < PerPage)
              \/ /\ q = Fetched(p, recs, p.page + 1, FALSE)
                 /\ ~ (Len(f) < PerPage) /\ p.page + 1 \in PageNumber
              \/ q = Fetched(p, recs, NoPage, FALSE) /\ Len(f) < PerPage
    BY ReadSteps
  <1>4. /\ q.recs = recs /\ q.bad = {} /\ q.phase \in {"fetch", "connect"}
        /\ q.snapshot => /\ p.snapshot
                         /\ \/ q.phase = "fetch" /\ q.page = p.page + 1 /\ ~ (Len(f) < PerPage)
                            \/ /\ q.phase = "connect" /\ Len(f) < PerPage
                               /\ q.ids = {r.item : r \in ToSet(recs)}
    <2>1. CASE q = [p EXCEPT !.recs = recs, !.page = @ + 1] /\ ~ (Len(f) < PerPage)
      <3>1. q.recs = recs /\ q.page = p.page + 1 /\ q.bad = p.bad /\ q.phase = p.phase
            /\ q.snapshot = p.snapshot
        BY <1>2, <2>1 DEF UnderWay
      <3> QED
        BY <1>1, <1>2, <2>1, <3>1
    <2>2. CASE q = Fetched(p, recs, p.page + 1, FALSE) /\ p.page + 1 \in PageNumber
      <3>1. AsksFor(q, p, recs, p.page + 1)
        BY <2>2, FetchedOut
      <3>2. p.page + 1 # NoPage
        BY <2>2, NoPageIsNone
      <3> QED
        BY <3>1, <3>2 DEF AsksFor
    <2>3. CASE q = Fetched(p, recs, NoPage, FALSE) /\ Len(f) < PerPage
      <3>1. AsksFor(q, p, recs, NoPage)
        BY <2>3, FetchedOut
      <3> QED
        BY <2>3, <3>1 DEF AsksFor
    <2> QED
      BY <1>3, <2>1, <2>2, <2>3
  <1>5. ASSUME Keeps(p)
        PROVE  Keeps(q)
    <2>1. f \in Seq(Record) /\ \A r \in ToSet(f) : r.item \in Present /\ r = Current(r.item)
      <3>1. p.page \in Nat /\ p.since \in Nat
        BY <1>2, NoPageIsNone DEF UnderWay
      <3> QED
        BY <3>1, InvParts, FreshIs
    <2>2. InOrder(q)
      BY <1>2, <1>4, <1>5, <2>1, InvParts, OrderOfBoth DEF Keeps
    <2> PICK done : done = {i \in Items : KeptBy(p, i)}
      OBVIOUS
    <2> PICK more : more = {i \in Items : KeptBy(q, i)}
      OBVIOUS
    <2>3. Scans(q, more)
      <3>1. \A i \in Items : Awaits(p, i) \/ Current(i) \in ToSet(f) => Awaits(q, i)
        BY <1>2, <1>3, <1>4 DEF Awaits
      <3>2. \A i \in Items : NoneOlder(p, i) => NoneOlder(q, i)
        BY <1>3, <1>4, <2>1 DEF NoneOlder, Current
      <3>3. /\ Scans(p, done) /\ done \subseteq more
            /\ \A i \in Items : Current(i) \in ToSet(f) => i \in more
        BY <1>5, <3>1, <3>2 DEF Keeps, KeptBy
      <3> QED
        BY <1>2, <1>3, <3>3, ReadOwes
    <2>4. ASSUME q.snapshot
          PROVE  SnapshotOf(q)
      <3>1. p.snapshot /\ p.since = 0
        BY <1>2, <1>4, <2>4 DEF Stages
      <3> PICK met : met = HasMet(p)
        OBVIOUS
      <3> PICK meets : meets = HasMet(q)
        OBVIOUS
      <3>2. SnapshotOf(p) /\ Scans(p, met)
        BY <1>1, <1>5, <3>1 DEF Keeps, SnapshotOf, Accounted, Fetching
      <3>3. met \subseteq meets /\ \A i \in Items : Current(i) \in ToSet(f) => i \in meets
        BY <1>3, <1>4 DEF HasMet, Current
      <3>4. Scans(q, meets)
        BY <1>2, <1>3, <3>2, <3>3, ReadOwes
      <3>5. \/ q.phase = "fetch" /\ q.page = p.page + 1 /\ ~ (Len(f) < PerPage)
            \/ q.phase = "connect" /\ Len(f) < PerPage /\ q.ids = {r.item : r \in ToSet(recs)}
        BY <1>4, <2>4
      <3> QED
        BY <1>2, <1>3, <1>4, <2>4, <3>1, <3>2, <3>4, <3>5, ReadAccounts
    <2>5. SnapshotOf(q)
      BY <1>4, <2>4 DEF SnapshotOf
    <2> QED
      BY <2>2, <2>3, <2>5 DEF Keeps
  <1> QED
    BY <1>1, <1>3, <1>5, KeptSame

LEMMA KeptLose ==
  ASSUME SourceInv, KeptInv, NEW s \in Syncs, LosePage(s)
  PROVE  KeptInv'
  <1> PICK p : p = sync[s]
    OBVIOUS
  <1>1. UNCHANGED <<cursor, saved, given, raced>> /\ p.phase = "fetch" /\ Active(s)
    BY LoseSteps DEF Active
  <1>2. p \in UnderWay /\ Past(p) /\ Fetching(p) /\ Stages(p) /\ p.bad = {}
    BY <1>1, InvParts, UnderWayIs DEF Fetching, Stages
  <1>3. PICK q \in UnderWay : Moves(s, q) /\ q = Fetched(p, p.recs, NoPage, TRUE)
    BY LoseSteps
  <1>4. ASSUME Keeps(p)
        PROVE  Keeps(q)
    <2> PICK done : done = {i \in Items : KeptBy(p, i)}
      OBVIOUS
    <2>1. Scans(p, done)
      BY <1>4 DEF Keeps
    <2>2. Scans(q, done) /\ q.recs = p.recs /\ q.bad = {}
      BY <1>2, <1>3, <2>1, LoseOwes
    <2>5. ~q.snapshot /\ q.phase = "connect"
      <3> PICK r : r = p.recs
        OBVIOUS
      <3>1. q = Fetched(p, r, NoPage, TRUE)
        BY <1>3
      <3> QED
        BY ONLY <3>1, LostOut
    <2>3. done = {i \in Items : KeptBy(q, i)}
      BY <1>2, <2>2 DEF KeptBy, NoneOlder, Awaits
    <2>4. InOrder(q)
      BY <1>4, <2>2 DEF Keeps, InOrder
    <2> QED
      BY <2>2, <2>3, <2>4, <2>5 DEF Keeps, SnapshotOf
  <1> QED
    BY <1>1, <1>3, <1>4, KeptSame

\* A step with which the sync has the same records to save and the same cursor to write.
LEMMA KeptMove ==
  ASSUME SourceInv, KeptInv, NEW s \in Syncs, NEW q \in UnderWay, Moves(s, q),
         UNCHANGED <<cursor, saved, given, raced>>, Returned(sync[s]), Returned(q),
         q.recs = sync[s].recs, q.bad = sync[s].bad, q.out = sync[s].out,
         SnapshotOf(sync[s]) => SnapshotOf(q)
  PROVE  KeptInv'
  <1> PICK p : p = sync[s]
    OBVIOUS
  <1>1. Active(s)
    BY DEF Active, Returned
  <1>2. ASSUME Keeps(p)
        PROVE  Keeps(q)
    <2> PICK done : done = {i \in Items : KeptBy(p, i)}
      OBVIOUS
    <2>1. done = {i \in Items : KeptBy(q, i)}
      BY DEF KeptBy, NoneOlder, Awaits
    <2>2. Scans(q, done)
      BY <1>2 DEF Keeps, Scans, Returned, Fetching
    <2>3. InOrder(q)
      BY <1>2 DEF Keeps, InOrder
    <2> QED
      BY <1>2, <2>1, <2>2, <2>3 DEF Keeps
  <1> QED
    BY <1>1, <1>2, KeptSame

LEMMA KeptConnect ==
  ASSUME SourceInv, KeptInv, NEW s \in Syncs, Connect(s) \/ (Check(s) /\ connected)
  PROVE  KeptInv'
  <1> PICK p : p = sync[s]
    OBVIOUS
  <1>1. UNCHANGED <<cursor, saved, given, raced>> /\ Returned(p) /\ p.phase # "archive"
    BY ConnectSteps DEF Connect, Check
  <1>2. PICK q \in UnderWay :
           /\ Moves(s, q) /\ Returned(q) /\ q.phase # "archive"
           /\ q.recs = p.recs /\ q.bad = p.bad /\ q.out = p.out
           /\ q.snapshot = p.snapshot /\ q.ids = p.ids
    BY ConnectSteps
  <1>3. ASSUME SnapshotOf(p)
        PROVE  SnapshotOf(q)
    <2>1. Accounted(q) = p.ids /\ Accounted(p) = p.ids
      BY <1>1, <1>2 DEF Accounted, Fetching, Returned
    <2> QED
      BY <1>1, <1>2, <1>3, <2>1 DEF SnapshotOf, Scans, Fetching, Returned
  <1> QED
    BY <1>1, <1>2, <1>3, KeptMove

LEMMA KeptFind ==
  ASSUME SourceInv, KeptInv, NEW s \in Syncs, FindMissing(s)
  PROVE  KeptInv'
  <1> PICK p : p = sync[s]
    OBVIOUS
  <1>1. UNCHANGED <<cursor, saved, given, raced>> /\ Returned(p) /\ p.snapshot /\ p.phase = "missing"
    BY FindSteps DEF FindMissing
  <1>2. PICK q \in UnderWay :
           /\ Moves(s, q) /\ Returned(q) /\ ~q.snapshot
           /\ q.recs = p.recs /\ q.bad = p.bad /\ q.out = p.out
           /\ q.ids = {i \in Items : saved[i] # 0} \ p.ids
    BY FindSteps
  <1>3. p \in UnderWay
    BY InvParts, UnderWayIs
  <1>4. ASSUME SnapshotOf(p)
        PROVE  SnapshotOf(q)
    <2>1. Accounted(p) = p.ids /\ p.ids \in SUBSET Items
      BY <1>1, <1>3 DEF Accounted, Fetching, UnderWay
    <2>2. CASE q.phase = "archive"
      <3> PICK acc : acc = Accounted(q)
        OBVIOUS
      <3> PICK was : was = p.ids
        OBVIOUS
      <3>1. acc = Items \ q.ids /\ was \subseteq acc
        BY <1>2, <2>1, <2>2 DEF Accounted
      <3>2. Scans(p, was) /\ \A i \in Present : i \in was \/ Unmarked(i)
        BY <1>1, <1>4, <2>1 DEF SnapshotOf, Fetching
      <3>3. Scans(p, acc)
        BY <3>1, <3>2, OwesMore
      <3>4. Scans(q, acc)
        BY <1>1, <1>2, <3>3 DEF Scans, Fetching, Returned
      <3> QED
        BY <3>1, <3>2, <3>4 DEF SnapshotOf
    <2>3. CASE q.phase # "archive"
      BY <1>2, <2>3 DEF SnapshotOf
    <2> QED
      BY <2>2, <2>3
  <1> QED
    BY <1>1, <1>2, <1>4, KeptMove

LEMMA KeptArchive ==
  ASSUME SourceInv, KeptInv, NEW s \in Syncs, NEW x \in Items, ArchiveMissing(s, x)
  PROVE  KeptInv'
  <1> PICK p : p = sync[s]
    OBVIOUS
  <1>1. /\ UNCHANGED <<upd, cursor, given, raced>> /\ saved' = [saved EXCEPT ![x] = 0]
        /\ p.phase = "archive" /\ p.recs = <<>> /\ x \in p.ids /\ Active(s) /\ Returned(p)
    BY ArchiveSteps DEF Active, Returned
  <1>2. PICK q \in UnderWay :
           /\ Moves(s, q) /\ Returned(q)
           /\ q.recs = p.recs /\ q.bad = p.bad /\ q.out = p.out
           /\ q.snapshot = p.snapshot /\ q.ids = p.ids \ {x}
    BY ArchiveSteps
  <1>3. p \in UnderWay /\ Stages(p) /\ p.out.page = NoPage /\ ~p.snapshot /\ p.ids \in SUBSET Items
    BY <1>1, InvParts, UnderWayIs DEF Stages
  <1>4. \A i \in Items \ {x} : saved'[i] = saved[i]
    BY <1>1, InvParts
  <1>5. \A i \in Items \ {x} : Kept(i) => Kept(i)'
    BY <1>1, <1>4 DEF Kept
  <1>6. ToSet(p.recs) = {} /\ DOMAIN p.recs = {}
    BY <1>1 DEF ToSet
  <1>7. ASSUME Keeps(p)
        PROVE  /\ Unmarked(x) \/ x \notin Present
               /\ ~ (upd[x] <= p.out.hwm) \/ x \notin Present
    <2>1. Accounted(p) = Items \ p.ids
      BY <1>1 DEF Accounted
    <2>2. /\ Scans(p, Accounted(p))
          /\ \A i \in Present : i \in Accounted(p) \/ Unmarked(i)
      BY <1>1, <1>7 DEF Keeps, SnapshotOf, Fetching
    <2>3. Owes(p.out, Accounted(p))
      BY <1>1, <2>2 DEF Scans
    <2>4. x \notin Accounted(p)
      BY <1>1, <2>1
    <2> QED
      BY <2>2, <2>3, <2>4 DEF Owes
  <1>8. ASSUME ~raced
        PROVE  Keeps(q)'
    <2>1. Keeps(p)
      BY <1>1, <1>8 DEF KeptInv
    <2>2. InOrder(q)'
      BY <1>2, <1>6 DEF InOrder
    <2>3. Scans(q, {i \in Items : KeptBy(q, i)})'
      <3> PICK done : done = {i \in Items : KeptBy(p, i)}
        OBVIOUS
      <3> PICK more : more = {i \in Items : KeptBy(q, i)}'
        OBVIOUS
      <3>1. Owes(p.out, done)
        BY <1>1, <2>1 DEF Keeps, Scans
      <3>2. \A i \in Items \ {x} : i \in done => i \in more
        BY <1>1, <1>2, <1>5 DEF KeptBy, NoneOlder, Awaits, Current
      <3>3. Owes(p.out, more)
        BY <1>3, <1>7, <2>1, <3>1, <3>2 DEF Owes, Present
      <3>4. Scans(q, more)
        BY <1>2, <3>3 DEF Scans, Fetching, Returned
      <3>5. Scans(q, more)'
        BY <1>1, <3>4, OwesSame
      <3> QED
        BY <3>5 DEF Scans, Owes, ScanOwes
    <2>4. SnapshotOf(q)
      <3>1. CASE q.phase = "archive"
        <4> PICK was : was = Accounted(p)
          OBVIOUS
        <4> PICK acc : acc = Accounted(q)
          OBVIOUS
        <4>1. was \subseteq acc
          BY <1>1, <1>2, <3>1 DEF Accounted
        <4>2. Scans(p, was) /\ \A i \in Present : i \in was \/ Unmarked(i)
          BY <1>1, <2>1 DEF Keeps, SnapshotOf, Fetching
        <4>3. Scans(p, acc)
          BY <4>1, <4>2, OwesMore
        <4>4. Scans(q, acc)
          BY <1>1, <1>2, <4>3 DEF Scans, Fetching, Returned
        <4> QED
          BY <4>1, <4>2, <4>4 DEF SnapshotOf
      <3>2. CASE q.phase # "archive"
        BY <1>2, <1>3, <3>2 DEF SnapshotOf
      <3> QED
        BY <3>1, <3>2
    <2>5. SnapshotOf(q)'
      BY <1>1, <2>4 DEF SnapshotOf, Accounted, HasMet, Scans, Owes, ScanOwes, Latest, Fetching,
            Returned, Unmarked, Ahead, Rank, Newer, Present
    <2> QED
      BY <2>2, <2>3, <2>5 DEF Keeps
  <1>9. ASSUME ~raced
        PROVE  Owes(cursor, {i \in Items : Kept(i)})'
    <2> PICK done : done = {i \in Items : Kept(i)}
      OBVIOUS
    <2> PICK more : more = {i \in Items : Kept(i)}'
      OBVIOUS
    <2>1. Owes(cursor, done) /\ Keeps(p)
      BY <1>1, <1>9 DEF KeptInv
    <2>2. \A i \in Items \ {x} : i \in done => i \in more
      BY <1>5
    <2>3. x \in Present => ~ (upd[x] <= cursor.hwm) /\ ~ (upd[x] <= cursor.pending)
      <3>1. upd[x] \in Nat /\ cursor.hwm \in Nat /\ cursor.pending \in Nat
        BY InvParts, CursorIs, NoPageIsNone
      <3> QED
        BY <1>7, <2>1, <3>1 DEF Unmarked
    <2>4. Owes(cursor, more)
      BY <2>1, <2>2, <2>3 DEF Owes, Present
    <2> QED
      BY <1>1, <2>4 DEF Owes, Present, Ahead, Rank, Newer
  <1> QED
    BY <1>1, <1>2, <1>8, <1>9, KeptStep

\* The records left after the first one.
LEMMA OrderOfTail ==
  ASSUME NEW a \in Seq(Record), a # <<>>, NEW p, p.recs = a, InOrder(p),
         NEW q, q.recs = Tail(a)
  PROVE  /\ InOrder(q)
         /\ \A r \in ToSet(Tail(a)) : r.item = Head(a).item => Head(a).at <= r.at
         /\ Head(a).at <= upd[Head(a).item]
         /\ Head(a).at < upd[Head(a).item] => Unmarked(Head(a).item)
  <1>1. /\ Head(a) \in ToSet(a) /\ Head(a) = a[1] /\ 1 \in DOMAIN a
        /\ \A n \in DOMAIN Tail(a) : n + 1 \in DOMAIN a /\ Tail(a)[n] = a[n + 1] /\ n \in Nat
        /\ ToSet(Tail(a)) \subseteq ToSet(a)
    BY HeadAndTail
  <1>2. /\ \A m, n \in DOMAIN a : m < n /\ a[m].item = a[n].item => a[m].at <= a[n].at
        /\ \A r \in ToSet(a) : r.at <= upd[r.item] /\ (r.at < upd[r.item] => Unmarked(r.item))
    BY DEF InOrder
  <1> PICK t : t = Tail(a)
    OBVIOUS
  <1>3. ASSUME NEW m \in DOMAIN t, NEW n \in DOMAIN t, m < n, t[m].item = t[n].item
        PROVE  t[m].at <= t[n].at
    <2>1. m + 1 \in DOMAIN a /\ n + 1 \in DOMAIN a /\ m \in Nat /\ n \in Nat
          /\ t[m] = a[m + 1] /\ t[n] = a[n + 1]
      BY <1>1
    <2>2. m + 1 < n + 1
      BY <1>3, <2>1
    <2> QED
      BY <1>2, <1>3, <2>1, <2>2
  <1>4. ASSUME NEW r \in ToSet(t), r.item = Head(a).item
        PROVE  Head(a).at <= r.at
    <2>1. PICK n \in DOMAIN t : r = t[n]
      BY DEF ToSet
    <2>2. n + 1 \in DOMAIN a /\ n \in Nat /\ r = a[n + 1]
      BY <1>1, <2>1
    <2>4. 1 < n + 1
      <3>1. DOMAIN t = 1 .. Len(t)
        BY HeadAndTail
      <3>2. n \in 1 .. Len(t)
        BY <3>1
      <3> QED
        BY <2>2, <3>2
    <2> QED
      BY <1>1, <1>2, <1>4, <2>2, <2>4
  <1>5. InOrder(q)
    <2>1. q.recs = t /\ ToSet(t) \subseteq ToSet(a)
      BY <1>1
    <2> QED
      BY <1>2, <1>3, <2>1 DEF InOrder
  <1> QED
    BY <1>1, <1>2, <1>4, <1>5

LEMMA KeptSave ==
  ASSUME SourceInv, KeptInv, NEW s \in Syncs, Save(s)
  PROVE  KeptInv'
  <1> PICK p : p = sync[s]
    OBVIOUS
  <1> PICK r : r = Head(p.recs)
    OBVIOUS
  <1>1. /\ UNCHANGED <<upd, cursor, given, raced>> /\ p.phase = "save" /\ p.recs # <<>> /\ r \in Record
        /\ saved' = [saved EXCEPT ![r.item] = r.at] /\ Active(s) /\ Returned(p)
    BY SaveSteps DEF Active, Returned
  <1>2. PICK q \in UnderWay :
           /\ Moves(s, q) /\ Returned(q) /\ q.phase # "archive"
           /\ q.recs = Tail(p.recs) /\ q.bad = p.bad /\ q.out = p.out
           /\ q.snapshot = p.snapshot /\ q.ids = p.ids
    BY SaveSteps
  <1>3. p \in UnderWay /\ p.recs \in Seq(Record)
    BY InvParts, UnderWayIs
  <1> PICK x \in Items : x = r.item
    BY <1>1 DEF Record
  <1>4. /\ saved'[x] = r.at /\ \A i \in Items \ {x} : saved'[i] = saved[i]
        /\ r.at \in Nat /\ upd[x] \in Nat /\ \A i \in Items : upd[i] \in Nat
    BY <1>1, InvParts, NoPageIsNone DEF Record
  <1>5. ToSet(p.recs) = {r} \cup ToSet(q.recs)
    BY <1>1, <1>2, <1>3, HeadAndTail
  <1>6. ASSUME Keeps(p)
        PROVE  /\ InOrder(q)
               /\ \A v \in ToSet(q.recs) : v.item = x => r.at <= v.at /\ v.at <= upd[x]
               /\ r.at = upd[x] \/ (r.at < upd[x] /\ Unmarked(x))
    <2>1. InOrder(p)
      BY <1>6 DEF Keeps
    <2> PICK a : a = p.recs
      OBVIOUS
    <2>2. /\ InOrder(q)
          /\ \A v \in ToSet(Tail(a)) : v.item = Head(a).item => Head(a).at <= v.at
          /\ Head(a).at <= upd[Head(a).item]
          /\ Head(a).at < upd[Head(a).item] => Unmarked(Head(a).item)
      BY <1>1, <1>2, <1>3, <2>1, OrderOfTail
    <2>3. \A v \in ToSet(q.recs) : v.item = x => v.at <= upd[x]
      BY <2>2 DEF InOrder
    <2> QED
      BY <1>2, <1>4, <2>2, <2>3
  <1>7. \A i \in Items \ {x} : Kept(i) => Kept(i)'
    BY <1>1, <1>4 DEF Kept
  <1>8. r.at = upd[x] => Kept(x)'
    BY <1>1, <1>4 DEF Kept
  <1>9. ASSUME Keeps(p), NEW i \in Items, KeptBy(p, i)
        PROVE  KeptBy(q, i)'
    <2>1. CASE Awaits(p, i) /\ Current(i) # r
      <3>1. Awaits(q, i)
        BY <1>2, <1>5, <2>1 DEF Awaits
      <3>2. Awaits(q, i)'
        BY <1>1, <3>1 DEF Awaits, Current
      <3> QED
        BY <3>2 DEF KeptBy
    <2>2. CASE i = x /\ r.at = upd[x]
      <3>1. \A v \in ToSet(q.recs) : v.item = x => v.at = upd[x]
        <4>1. ASSUME NEW v \in ToSet(q.recs), v.item = x
              PROVE  v.at = upd[x]
          <5>1. r.at <= v.at /\ v.at <= upd[x]
            BY <1>6, <1>9, <4>1
          <5>2. v.at \in Nat
            <6>1. v \in Record
              BY SetOfRecords DEF UnderWay
            <6> QED
              BY <6>1, NoPageIsNone DEF Record
          <5> QED
            BY <1>4, <2>2, <5>1, <5>2
        <4> QED
          BY <4>1
      <3>2. NoneOlder(q, i)'
        BY <1>1, <2>2, <3>1 DEF NoneOlder
      <3> QED
        BY <1>8, <2>2, <3>2 DEF KeptBy
    <2>3. CASE i # x /\ ~Awaits(p, i)
      <3>1. Kept(i) /\ NoneOlder(p, i)
        BY <1>9, <2>3 DEF KeptBy
      <3>2. NoneOlder(q, i)'
        BY <1>1, <1>5, <3>1 DEF NoneOlder
      <3> QED
        BY <1>7, <2>3, <3>1, <3>2 DEF KeptBy
    <2>4. CASE i = x /\ r.at # upd[x]
      <3>1. ~NoneOlder(p, i) /\ Current(i) # r
        BY <1>5, <2>4 DEF NoneOlder, Current
      <3> QED
        BY <1>9, <2>1, <3>1 DEF KeptBy
    <2>5. i # x => Current(i) # r
      BY DEF Current
    <2> QED
      BY <2>1, <2>2, <2>3, <2>4, <2>5
  <1>10. ASSUME ~raced
         PROVE  Keeps(q)'
    <2>1. Keeps(p)
      BY <1>1, <1>10 DEF KeptInv
    <2>2. InOrder(q)'
      BY <1>1, <1>6, <2>1 DEF InOrder, Unmarked
    <2>3. Scans(q, {i \in Items : KeptBy(q, i)})'
      <3> PICK done : done = {i \in Items : KeptBy(p, i)}
        OBVIOUS
      <3> PICK more : more = {i \in Items : KeptBy(q, i)}'
        OBVIOUS
      <3>1. Scans(p, done) /\ done \subseteq more
        BY <1>9, <2>1 DEF Keeps
      <3>2. Scans(p, more)
        BY <3>1, OwesMore
      <3>3. Scans(q, more)
        BY <1>1, <1>2, <3>2 DEF Scans, Fetching, Returned
      <3>4. Scans(q, more)'
        BY <1>1, <3>3, OwesSame
      <3> QED
        BY <3>4 DEF Scans, Owes, ScanOwes
    <2>4. SnapshotOf(q)
      <3>1. Accounted(q) = p.ids /\ Accounted(p) = p.ids
        BY <1>1, <1>2 DEF Accounted, Fetching, Returned
      <3>2. SnapshotOf(p)
        BY <2>1 DEF Keeps
      <3> QED
        BY <1>1, <1>2, <3>1, <3>2 DEF SnapshotOf, Scans, Fetching, Returned
    <2>5. SnapshotOf(q)'
      BY <1>1, <2>4 DEF SnapshotOf, Accounted, HasMet, Scans, Owes, ScanOwes, Latest, Fetching,
            Returned, Unmarked, Ahead, Rank, Newer, Present
    <2> QED
      BY <2>2, <2>3, <2>5 DEF Keeps
  <1>11. ASSUME ~raced
         PROVE  Owes(cursor, {i \in Items : Kept(i)})'
    <2> PICK done : done = {i \in Items : Kept(i)}
      OBVIOUS
    <2> PICK more : more = {i \in Items : Kept(i)}'
      OBVIOUS
    <2>1. Owes(cursor, done) /\ Keeps(p)
      BY <1>1, <1>11 DEF KeptInv
    <2>2. \A i \in Items \ {x} : i \in done => i \in more
      BY <1>7
    <2>3. x \in more \/ (~ (upd[x] <= cursor.hwm) /\ ~ (upd[x] <= cursor.pending))
      <3>1. upd[x] \in Nat /\ cursor.hwm \in Nat /\ cursor.pending \in Nat
        BY InvParts, CursorIs, NoPageIsNone
      <3> QED
        BY <1>6, <1>8, <2>1, <3>1 DEF Unmarked
    <2>4. Owes(cursor, more)
      BY <2>1, <2>2, <2>3 DEF Owes, Present
    <2> QED
      BY <1>1, <2>4 DEF Owes, Present, Ahead, Rank, Newer
  <1> QED
    BY <1>1, <1>2, <1>10, <1>11, KeptStep

LEMMA KeptRefuse ==
  ASSUME SourceInv, KeptInv, NEW s \in Syncs, RefusePoison(s) \/ FailSave(s)
  PROVE  KeptInv'
  <1> PICK p : p = sync[s]
    OBVIOUS
  <1> PICK r : r = Head(p.recs)
    OBVIOUS
  <1>1. /\ UNCHANGED <<cursor, saved, given, raced>> /\ p.phase = "save" /\ p.recs # <<>>
        /\ r \in Record /\ Active(s) /\ Returned(p)
    BY RefuseSteps DEF Active, Returned
  <1>2. PICK q \in UnderWay :
           /\ Moves(s, q) /\ Returned(q) /\ q.phase # "archive"
           /\ q.recs = Tail(p.recs) /\ q.bad = p.bad \cup {r} /\ q.out = p.out
           /\ q.snapshot = p.snapshot /\ q.ids = p.ids
    BY RefuseSteps
  <1>3. p \in UnderWay /\ p.recs \in Seq(Record)
    BY InvParts, UnderWayIs
  <1>4. ToSet(p.recs) = {r} \cup ToSet(q.recs)
    BY <1>1, <1>2, <1>3, HeadAndTail
  <1>5. ASSUME Keeps(p)
        PROVE  Keeps(q)
    <2>1. InOrder(q)
      <3>1. InOrder(p)
        BY <1>5 DEF Keeps
      <3> PICK a : a = p.recs
        OBVIOUS
      <3> QED
        BY <1>1, <1>2, <1>3, <3>1, OrderOfTail
    <2> PICK done : done = {i \in Items : KeptBy(p, i)}
      OBVIOUS
    <2> PICK more : more = {i \in Items : KeptBy(q, i)}
      OBVIOUS
    <2>2. done \subseteq more
      BY <1>2, <1>4 DEF KeptBy, NoneOlder, Awaits
    <2>3. Scans(p, more)
      BY <1>5, <2>2, OwesMore DEF Keeps
    <2>4. Scans(q, more)
      BY <1>1, <1>2, <2>3 DEF Scans, Fetching, Returned
    <2>5. SnapshotOf(q)
      <3>1. Accounted(q) = p.ids /\ Accounted(p) = p.ids
        BY <1>1, <1>2 DEF Accounted, Fetching, Returned
      <3>2. SnapshotOf(p)
        BY <1>5 DEF Keeps
      <3> QED
        BY <1>1, <1>2, <3>1, <3>2 DEF SnapshotOf, Scans, Fetching, Returned
    <2> QED
      BY <2>1, <2>4, <2>5 DEF Keeps
  <1> QED
    BY <1>1, <1>2, <1>5, KeptSame

LEMMA KeptHold ==
  ASSUME SourceInv, KeptInv, NEW s \in Syncs, Hold(s)
  PROVE  KeptInv'
  <1> PICK p : p = sync[s]
    OBVIOUS
  <1>1. UNCHANGED <<cursor, saved, given, raced>> /\ Returned(p) /\ p.recs = <<>> /\ Active(s)
    BY HoldSteps DEF Active, Returned
  <1>2. PICK q \in UnderWay :
           /\ Moves(s, q) /\ q.phase = "write" /\ q.recs = <<>> /\ ~q.snapshot
           /\ \/ q.bad = p.bad /\ q.out = p.out
              \/ q.out.page = cursor.page /\ q.out.hwm = cursor.hwm /\ q.out.pending = cursor.pending
    BY HoldSteps
  <1>3. Returned(q) /\ SnapshotOf(q)
    BY <1>2 DEF Returned, SnapshotOf
  <1>4. CASE q.bad = p.bad /\ q.out = p.out
    BY <1>1, <1>2, <1>3, <1>4, KeptMove
  <1>5. CASE q.out.page = cursor.page /\ q.out.hwm = cursor.hwm /\ q.out.pending = cursor.pending
    <2>1. ASSUME ~raced
          PROVE  Keeps(q)
      <3>1. DOMAIN q.recs = {} /\ ToSet(q.recs) = {}
        BY <1>2 DEF ToSet
      <3> PICK done : done = {i \in Items : Kept(i)}
        OBVIOUS
      <3> PICK more : more = {i \in Items : KeptBy(q, i)}
        OBVIOUS
      <3>2. Owes(cursor, done) /\ done \subseteq more
        BY <2>1, <3>1 DEF KeptInv, KeptBy, NoneOlder
      <3>3. Owes(cursor, more)
        BY <3>2, OwesMore
      <3>4. Scans(q, more)
        BY <1>2, <1>5, <3>3 DEF Scans, Fetching, Owes
      <3>5. InOrder(q)
        BY <3>1 DEF InOrder
      <3> QED
        BY <1>3, <3>4, <3>5 DEF Keeps
    <2> QED
      BY <1>1, <1>2, <2>1, KeptSame
  <1> QED
    BY <1>2, <1>4, <1>5

LEMMA KeptWrite ==
  ASSUME SourceInv, KeptInv, NEW s \in Syncs, WriteCursor(s)
  PROVE  KeptInv'
  <1> PICK p : p = sync[s]
    OBVIOUS
  <1>1. /\ SourceInv' /\ UNCHANGED <<upd, saved, raced>> /\ p.phase = "write" /\ p.recs = <<>>
        /\ cursor' = p.out /\ Moves(s, Idle) /\ Active(s) /\ Returned(p)
        /\ \A i \in Items : given'[i] >= given[i] /\ \A r \in p.bad : r.item = i => given'[i] >= r.at
    BY WriteSteps DEF Active, Returned
  <1>2. \A i \in Items : given[i] \in Nat /\ given'[i] \in Nat /\ upd[i] \in Nat
    BY <1>1, InvParts, NoPageIsNone DEF SourceInv, TypeOK
  <1>3. ASSUME NEW i \in Items, KeptBy(p, i)
        PROVE  Kept(i)'
    <2>1. CASE Kept(i)
      BY <1>1, <1>2, <2>1 DEF Kept
    <2>2. CASE Awaits(p, i)
      <3>1. Current(i) \in p.bad
        BY <1>1, <2>2 DEF Awaits, ToSet
      <3>2. given'[i] >= upd[i]
        BY <1>1, <3>1 DEF Current
      <3> QED
        BY <1>1, <1>2, <3>2 DEF Kept
    <2> QED
      BY <1>3, <2>1, <2>2 DEF KeptBy
  <1>4. ASSUME ~raced
        PROVE  Owes(cursor, {i \in Items : Kept(i)})'
    <2> PICK done : done = {i \in Items : KeptBy(p, i)}
      OBVIOUS
    <2> PICK more : more = {i \in Items : Kept(i)}'
      OBVIOUS
    <2>1. Owes(p.out, done) /\ done \subseteq more
      BY <1>1, <1>3, <1>4 DEF KeptInv, Keeps, Scans
    <2>2. Owes(p.out, more)
      BY <2>1, OwesMore
    <2>3. Owes(p.out, more)'
      BY <1>1, <2>2, OwesSame
    <2> QED
      BY <1>1, <2>3 DEF Owes
  <1> PICK q : q = Idle
    OBVIOUS
  <1>5. q \in UnderWay /\ Moves(s, q) /\ q.phase = "idle"
    BY <1>1, IdleIs DEF Idle
  <1> QED
    BY <1>1, <1>4, <1>5, KeptStep

LEMMA KeptTouch ==
  ASSUME SourceInv, KeptInv, NEW x \in Items, Touch(x)
  PROVE  KeptInv'
  <1>1. /\ UNCHANGED <<cursor, saved, sync, seen, given, raced>> /\ upd'[x] = clock + 1
        /\ \A i \in Items \ {x} : upd'[i] = upd[i] /\ (i \in Present => Rank(i)' >= Rank(i))
    BY TouchSteps
  <1>2. /\ clock \in Nat /\ upd \in [Items -> Nat] /\ cursor \in Cursor /\ InPast(cursor)
        /\ cursor.hwm \in Nat /\ cursor.pending \in Nat
    BY InvParts, CursorIs, NoPageIsNone
  <1>3. Unmarked(x)' /\ \A i \in Items \ {x} : Unmarked(i) => Unmarked(i)'
    <2>1. clock + 1 > cursor.hwm /\ clock + 1 > cursor.pending
      BY <1>2 DEF InPast
    <2> QED
      BY <1>1, <2>1 DEF Unmarked
  <1>4. \A i \in Items \ {x} : Kept(i) => Kept(i)'
    BY <1>1 DEF Kept
  <1> SUFFICES ASSUME ~raced
               PROVE  /\ \A s \in Syncs : Active(s) => Keeps(sync[s])'
                      /\ Owes(cursor, {i \in Items : Kept(i)})'
    BY <1>1 DEF KeptInv, Active
  <1>5. Owes(cursor, {i \in Items : Kept(i)})'
    <2> PICK c : c = cursor
      OBVIOUS
    <2> PICK done : done = {i \in Items : Kept(i)}
      OBVIOUS
    <2> PICK more : more = {i \in Items : Kept(i)}'
      OBVIOUS
    <2>1. done \ {x} \subseteq more /\ c \in Cursor /\ InPast(c) /\ Owes(c, done)
      BY <1>2, <1>4 DEF KeptInv
    <2>2. Owes(c, more)'
      BY <2>1, OwesTouch
    <2> QED
      BY <1>1, <2>2 DEF Owes
  <1>6. ASSUME NEW s \in Syncs, Active(s)
        PROVE  Keeps(sync[s])'
    <2> PICK p : p = sync[s]
      OBVIOUS
    <2>1. Keeps(p) /\ p \in UnderWay /\ Past(p) /\ p.recs \in Seq(Record) /\ p.page \in Nat
      BY <1>6, InvParts, UnderWayIs, NoPageIsNone DEF KeptInv
    <2>2. InOrder(p)'
      <3>1. InOrder(p) /\ \A r \in ToSet(p.recs) : r.at <= clock /\ r.item \in Items /\ r.at \in Nat
        <4>1. \A r \in ToSet(p.recs) : r.item \in Items /\ r.at \in Nat
          BY <2>1, SetOfRecords, NoPageIsNone DEF Record
        <4> QED
          BY <2>1, <4>1 DEF Keeps, Past
      <3>2. ASSUME NEW r \in ToSet(p.recs)
            PROVE  r.at <= upd'[r.item] /\ (r.at < upd'[r.item] => Unmarked(r.item)')
        <4>1. CASE r.item = x
          BY <1>1, <1>2, <1>3, <3>1, <4>1
        <4>2. CASE r.item # x
          BY <1>1, <1>3, <3>1, <4>2 DEF InOrder
        <4> QED
          BY <4>1, <4>2
      <3> QED
        BY <3>1, <3>2 DEF InOrder
    <2>3. Scans(p, {i \in Items : KeptBy(p, i)})'
      <3> PICK done : done = {i \in Items : KeptBy(p, i)}
        OBVIOUS
      <3> PICK more : more = {i \in Items : KeptBy(p, i)}'
        OBVIOUS
      <3>1. \A i \in Items \ {x} : KeptBy(p, i) => KeptBy(p, i)'
        BY <1>1, <1>4 DEF KeptBy, NoneOlder, Awaits, Current
      <3>2. done \ {x} \subseteq more /\ Scans(p, done)
        BY <2>1, <3>1 DEF Keeps
      <3>3. Scans(p, more)'
        BY <2>1, <3>2, OwesTouch
      <3> QED
        BY <3>3 DEF Scans, Owes, ScanOwes
    <2>4. SnapshotOf(p)'
      <3> PICK acc : acc = Accounted(p)
        OBVIOUS
      <3> SUFFICES ASSUME p.snapshot \/ p.phase = "archive"
                   PROVE  /\ Scans(p, acc)'
                          /\ \A i \in Present' :
                                i \in acc \/ Unmarked(i)' \/ (Fetching(p) /\ Ahead(i, p.page)')
        BY DEF SnapshotOf, Accounted, HasMet, Fetching
      <3>1. Scans(p, acc) /\ \A i \in Present : i \in acc \/ Unmarked(i) \/ (Fetching(p) /\ Ahead(i, p.page))
        BY <2>1 DEF Keeps, SnapshotOf
      <3>2. Scans(p, acc)'
        BY <2>1, <3>1, OwesTouch
      <3>3. ASSUME NEW i \in Present', i # x
            PROVE  i \in acc \/ Unmarked(i)' \/ (Fetching(p) /\ Ahead(i, p.page)')
        <4>1. i \in Items /\ i \in Present /\ Rank(i)' >= Rank(i)
          BY <1>1, <3>3 DEF Present
        <4> PICK a : a = Rank(i)
          OBVIOUS
        <4> PICK b : b = Rank(i)'
          OBVIOUS
        <4>2. a \in Nat /\ b \in Nat /\ b >= a /\ p.page * PerPage \in Nat
          <5>1. b = RankIn(upd', i)
            BY ListNow DEF Rank, RankIn, Newer, NewerIn, Present
          <5>2. a \in Nat /\ b \in Nat
            BY <5>1, RankType, NewerFinite DEF RankIn
          <5>3. p.page * PerPage \in Nat
            BY <2>1, PageTimes
          <5>4. b >= a
            BY <4>1
          <5> QED
            BY <5>2, <5>3, <5>4
        <4>3. Ahead(i, p.page) => Ahead(i, p.page)'
          <5>1. a >= p.page * PerPage => b >= p.page * PerPage
            BY <4>2
          <5> QED
            BY <5>1 DEF Ahead
        <4> QED
          BY <1>3, <3>1, <4>1, <4>3
      <3> QED
        BY <1>3, <3>2, <3>3
    <2>5. Keeps(p)'
      BY <2>2, <2>3, <2>4 DEF Keeps
    <2> QED
      BY <1>1, <2>5 DEF Keeps, InOrder, SnapshotOf, Accounted, HasMet, KeptBy, NoneOlder, Awaits,
            Scans, Owes, ScanOwes, Latest, Fetching, Returned
  <1> QED
    BY <1>5, <1>6

LEMMA KeptDelete ==
  ASSUME SourceInv, KeptInv, ~MidScan, NEW x \in Items, Delete(x)
  PROVE  KeptInv'
  <1>1. /\ UNCHANGED <<cursor, saved, sync, seen, given, raced>>
        /\ Present' \subseteq Present /\ \A i \in Present' : upd'[i] = upd[i]
        /\ \A s \in Syncs : ~Active(s)
    BY DeleteSteps
  <1> SUFFICES ASSUME ~raced
               PROVE  Owes(cursor, {i \in Items : Kept(i)})'
    BY <1>1 DEF KeptInv, Active
  <1> PICK done : done = {i \in Items : Kept(i)}
    OBVIOUS
  <1>2. Owes(cursor, done)'
    BY OwesDelete DEF KeptInv
  <1>3. \A i \in Present' : i \in done => Kept(i)' /\ i \in Items
    BY <1>1 DEF Kept, Present
  <1> QED
    BY <1>2, <1>3 DEF Owes

LEMMA KeptOfNext ==
  ASSUME SourceInv, KeptInv, ~MidScan, [Next]_vars
  PROVE  KeptInv'
  <1>1. CASE \E i \in Items : Touch(i) \/ Delete(i)
    BY <1>1, KeptTouch, KeptDelete
  <1>2. CASE Disconnect \/ Resume \/ UNCHANGED vars
    BY <1>2, FrameSteps, KeptFrame
  <1>3. CASE \E w \in Workers : StartJob(w)
    BY <1>3, KeptBegin DEF Syncs
  <1>4. CASE \E r \in Requests, snapshot \in BOOLEAN : StartRequest(r, snapshot)
    BY <1>4, KeptBegin DEF Syncs
  <1>5. ASSUME NEW s \in Syncs, Step(s) \/ Fault(s)
        PROVE  KeptInv'
    <2>1. CASE ReadPage(s)
      BY <2>1, KeptRead
    <2>2. CASE Connect(s) \/ (Check(s) /\ connected)
      BY <2>2, KeptConnect
    <2>3. CASE Save(s)
      BY <2>3, KeptSave
    <2>4. CASE RefusePoison(s) \/ FailSave(s)
      BY <2>4, KeptRefuse
    <2>5. CASE FindMissing(s)
      BY <2>5, KeptFind
    <2>6. ASSUME NEW i \in Items, ArchiveMissing(s, i)
          PROVE  KeptInv'
      BY <2>6, KeptArchive
    <2>7. CASE Hold(s)
      BY <2>7, KeptHold
    <2>8. CASE WriteCursor(s)
      BY <2>8, KeptWrite
    <2>9. CASE LosePage(s)
      BY <2>9, KeptLose
    <2>10. CASE Crash(s) \/ (Check(s) /\ ~connected)
      BY <2>10, KeptDrop
    <2> QED
      BY <1>5, <2>1, <2>2, <2>3, <2>4, <2>5, <2>6, <2>7, <2>8, <2>9, <2>10 DEF Step, Fault
  <1> QED
    BY <1>1, <1>2, <1>3, <1>4, <1>5 DEF Next

(* As long as no two syncs of the account overlap and nothing is deleted in   *)
(* the middle of a scan, the capture of a bookmark below the mark holds its   *)
(* last version and is not archived: no snapshot archives what the account    *)
(* answers for, and no older record is saved over a newer one that counts.    *)
THEOREM KeepsNewest == ~MidScan => (Spec => []NewestKept)
  <1> SUFFICES ASSUME ~MidScan
               PROVE  Spec => []NewestKept
    OBVIOUS
  <1>1. Init => SourceInv /\ KeptInv
    BY InvOfInit, KeptOfInit
  <1>2. SourceInv /\ KeptInv /\ [Next]_vars => SourceInv' /\ KeptInv'
    BY InvNext, KeptOfNext
  <1>3. KeptInv => NewestKept
    BY DEF KeptInv, Owes, NewestKept, Kept
  <1> QED
    BY <1>1, <1>2, <1>3, PTL DEF Spec
=============================================================================
