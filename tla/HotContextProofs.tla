--------------------------- MODULE HotContextProofs ---------------------------
(***************************************************************************)
(* The safety of consolidation and of the cache of hot packs, for every    *)
(* number of memories, of layers and of threads, and whatever the authors, *)
(* authorities, times and trust of the memories.                           *)
(***************************************************************************)
EXTENDS HotContext, FiniteSetTheorems, WellFoundedInduction, TLAPS

Tables == [Memories -> Memory \cup {NoRow}]

LiveIn(M, m) == M[m].status = "active" /\ M[m].by = NoMemory

\* A pack is what a search of the memories R finds, but for those that turned.
Matches(pack, R, M, turned) ==
    /\ \A m \in R \ turned : LiveIn(M, m) /\ ~ M[m].hidden =>
          [memory |-> m, value |-> M[m].value] \in pack
    /\ \A item \in pack :
          /\ LiveIn(M, item.memory) /\ item.value = M[item.memory].value
          /\ M[item.memory].hidden => item.memory \in turned

\* An item as a request has seen it when a search found it.
InSight(item) == [memory |-> item.memory, value |-> item.value, hidden |-> FALSE]

Contradict(M, current, stale) ==
    /\ LiveIn(M, current) /\ LiveIn(M, stale)
    /\ M[current].value # M[stale].value
    /\ Reason(current, stale) # "none"

Allowed(current, stale) ==
    /\ current \in Trusted
    /\ \/ /\ AuthorOf[current] = AuthorOf[stale]
          /\ Reason(current, stale) \in {"newer_timestamp", "current_language"}
       \/ AuthorOf[current] = "user" /\ AuthorOf[stale] # "user"

(***************************************************************************)
(* What holds of a thread at the memories M and the revision n             *)
(***************************************************************************)

Shape(th) ==
    /\ th.pc = "idle" => th = Idle
    /\ th.pc \in {"load", "row", "stale", "invalid"} => th.pack = {}
    /\ th.pc = "collect" => th.layer >= 1 /\ (th.layer = 1 => th.pack = {})
    /\ th.pc \in {"hit", "cold"} => th.job = "serve"
    /\ th.job = "serve" => th.pc \notin {"detect", "judge", "apply", "label", "write"}
    /\ th.pc = "write" => th.pack # {}

\* Its labels are not from the future.
InTime(th, n) ==
    /\ th.revision <= n /\ th.begun <= n
    /\ th.pc = "write" => th.begun <= th.revision

\* A request has seen all that is live, and all that it cites.
SeenAll(th, M) ==
    th.job = "serve" =>
        /\ Held(M) \subseteq th.seen
        /\ th.pc \in {"collect", "cold"} => \A item \in th.pack : InSight(item) \in th.seen
        /\ th.pc = "hit" => \A item \in th.pack : \E s \in th.seen : s.memory = item.memory

SearchedBy(th) ==
    IF th.pc = "collect" THEN {m \in Memories : LayerOf[m] < th.layer} ELSE Memories

\* A pack to be stored, if nothing has changed since it was begun.
Fresh(th, M, n) ==
    th.job # "serve" /\ th.pc \in {"collect", "label", "write"} /\ th.begun = n =>
        Matches(th.pack, SearchedBy(th), M, th.turned)

\* A plan, if nothing has changed since the revision was read.
Planned(th, M, n) ==
    th.revision = n =>
        /\ th.pc = "judge" => \A p \in th.plan : Contradict(M, p.current, p.stale)
        /\ th.pc = "apply" => \A p \in th.plan :
              Contradict(M, p.current, p.stale) /\ (p.safe => Allowed(p.current, p.stale))

ThreadOK(th, M, n) ==
    Shape(th) /\ InTime(th, n) /\ SeenAll(th, M) /\ Fresh(th, M, n) /\ Planned(th, M, n)

HotOK(h, M, n) ==
    /\ h.status = "active" => h.pack # {} /\ h.begun <= h.revision
    /\ h.revision <= n
    /\ h.status = "active" /\ h.revision = n /\ h.begun = n => Matches(h.pack, Memories, M, h.turned)

IInv ==
    /\ memories \in Tables
    /\ revision \in Nat
    /\ hot \in Hot
    /\ threads \in [Threads -> Thread]
    /\ HotOK(hot, memories, revision)
    /\ \A t \in Threads : ThreadOK(threads[t], memories, revision)

-----------------------------------------------------------------------------
(***************************************************************************)
(* Facts about constants                                                   *)
(***************************************************************************)
LEMMA Greatest ==
    ASSUME NEW S \in SUBSET Memories, S # {}
    PROVE  \E n \in S : \A k \in S : n >= k
  <1> DEFINE c == Cardinality(Memories)
             T == {c - k : k \in S}
  <1>1. c \in Nat /\ Memories = 1..c
    BY HotAssumption, FS_CardinalityType
  <1> HIDE DEF c
  <1>2. T \in SUBSET Nat /\ T # {}
    BY <1>1
  <1>3. PICK n \in T : \A k \in T : ~ (<<k, n>> \in OpToRel(<, Nat))
    BY <1>2, NatLessThanWellFounded, WFMin
  <1>4. \A k \in T : ~ (k < n)
    BY <1>2, <1>3 DEF OpToRel
  <1>5. PICK m \in S : n = c - m
    BY <1>3
  <1>6. ASSUME NEW k \in S PROVE m >= k
    <2>1. ~ (c - k < c - m)
      BY <1>4, <1>5
    <2>2. k \in Nat /\ m \in Nat
      BY <1>1
    <2>3. QED
      BY <2>1, <2>2, <1>1
  <1>7. QED
    BY <1>5, <1>6

LEMMA LiveRow ==
    ASSUME NEW M \in Tables, NEW m \in Memories, LiveIn(M, m)
    PROVE  M[m] \in Memory /\ M[m].value \in Values
  BY DEF Tables, LiveIn, Memory, NoRow

LEMMA HeldType ==
    ASSUME NEW M \in Tables
    PROVE  /\ Held(M) \subseteq Sighting
           /\ \A m \in Memories : LiveIn(M, m) => \E s \in Held(M) : s.memory = m
  <1>1. \A m \in Memories : LiveIn(M, m) => M[m].value \in Values /\ M[m].hidden \in BOOLEAN
    BY LiveRow DEF Memory
  <1> DEFINE sight(m) == [memory |-> m, value |-> M[m].value, hidden |-> M[m].hidden]
  <1>2. ASSUME NEW m \in Memories, LiveIn(M, m)
        PROVE  sight(m) \in Held(M) /\ sight(m) \in Sighting /\ sight(m).memory = m
    BY <1>1, <1>2 DEF Held, Sighting, LiveIn
  <1>3. ASSUME NEW s \in Held(M) PROVE \E m \in Memories : LiveIn(M, m) /\ s = sight(m)
    BY DEF Held, LiveIn
  <1> HIDE DEF sight
  <1>4. QED
    BY <1>2, <1>3

LEMMA IdleOK ==
    ASSUME NEW M, NEW n \in Nat
    PROVE  Idle \in Thread /\ ThreadOK(Idle, M, n)
  <1>1. Layers \in Nat \ {0}
    BY HotAssumption
  <1>2. QED
    BY <1>1 DEF Idle, Thread, ThreadOK, Shape, InTime, SeenAll, Fresh, Planned

LEMMA FoundType ==
    ASSUME memories \in Tables, NEW layer
    PROVE  /\ Found(layer) \subseteq Item
           /\ \A item \in Found(layer) :
                 /\ LiveIn(memories, item.memory) /\ item.value = memories[item.memory].value
                 /\ ~ memories[item.memory].hidden
                 /\ InSight(item) \in Held(memories)
           /\ \A m \in Memories :
                 LayerOf[m] = layer /\ LiveIn(memories, m) /\ ~ memories[m].hidden =>
                    [memory |-> m, value |-> memories[m].value] \in Found(layer)
  <1> DEFINE item(m) == [memory |-> m, value |-> memories[m].value]
             sight(m) == [memory |-> m, value |-> memories[m].value, hidden |-> memories[m].hidden]
  <1>1. ASSUME NEW m \in Memories, LiveIn(memories, m)
        PROVE  item(m) \in Item /\ item(m).memory = m /\ item(m).value = memories[m].value
    BY <1>1, LiveRow DEF Item
  <1>2. ASSUME NEW m \in Memories, LiveIn(memories, m), ~ memories[m].hidden
        PROVE  InSight(item(m)) \in Held(memories)
    <2>1. memories[m].hidden = FALSE
      BY <1>2, LiveRow DEF Memory
    <2>2. InSight(item(m)) = sight(m)
      BY <2>1 DEF InSight
    <2>3. sight(m) \in Held(memories)
      BY <1>2 DEF Held, LiveIn
    <2>4. QED
      BY <2>2, <2>3
  <1>3. ASSUME NEW i \in Found(layer)
        PROVE  \E m \in Memories : LiveIn(memories, m) /\ ~ memories[m].hidden /\ i = item(m)
    BY DEF Found, LiveIn, Live
  <1>4. ASSUME NEW m \in Memories, LayerOf[m] = layer, LiveIn(memories, m), ~ memories[m].hidden
        PROVE  item(m) \in Found(layer)
    BY <1>4 DEF Found, LiveIn, Live
  <1> HIDE DEF item
  <1>5. \A i \in Found(layer) :
           /\ i \in Item /\ LiveIn(memories, i.memory) /\ i.value = memories[i.memory].value
           /\ ~ memories[i.memory].hidden /\ InSight(i) \in Held(memories)
    BY <1>1, <1>2, <1>3
  <1>6. QED
    BY <1>4, <1>5 DEF item

-----------------------------------------------------------------------------
(***************************************************************************)
(* Changes of the memories                                                 *)
(***************************************************************************)

\* What a commit does to a thread.
Told(th, M) == IF th.job = "serve" THEN [th EXCEPT !.seen = @ \cup Held(M)] ELSE th

LEMMA ToldOK ==
    ASSUME NEW M \in Tables, NEW N \in Tables, NEW n \in Nat, NEW k \in Nat,
           k = IF N = M THEN n ELSE n + 1,
           NEW th \in Thread, ThreadOK(th, M, n)
    PROVE  Told(th, N) \in Thread /\ ThreadOK(Told(th, N), N, k)
  <1> DEFINE new == Told(th, N)
  <1>1. /\ new \in Thread
        /\ new.job = th.job /\ new.pc = th.pc /\ new.revision = th.revision
        /\ new.begun = th.begun /\ new.layer = th.layer /\ new.pack = th.pack
        /\ new.plan = th.plan /\ new.turned = th.turned
        /\ th.seen \subseteq new.seen
        /\ th.job = "serve" => Held(N) \subseteq new.seen
        /\ th.job # "serve" => new = th
    BY HeldType DEF Told, Thread
  <1> HIDE DEF new
  <1>2. Shape(new)
    <2>1. th.pc = "idle" => th.job # "serve"
      BY DEF ThreadOK, Shape, Idle
    <2>2. QED
      BY <1>1, <2>1 DEF ThreadOK, Shape
  <1>3. InTime(new, k)
    BY <1>1 DEF ThreadOK, InTime, Thread
  <1>4. SeenAll(new, N)
    BY <1>1 DEF ThreadOK, SeenAll
  <1>5. CASE N = M
    <2>1. Fresh(new, N, k) /\ Planned(new, N, k)
      BY <1>1, <1>5 DEF ThreadOK, Fresh, Planned, SearchedBy
    <2>2. QED
      BY <1>1, <1>2, <1>3, <1>4, <2>1 DEF ThreadOK, new
  <1>6. CASE N # M
    <2>1. new.begun # k /\ new.revision # k
      BY <1>1, <1>6 DEF ThreadOK, InTime, Thread
    <2>2. Fresh(new, N, k) /\ Planned(new, N, k)
      BY <2>1 DEF Fresh, Planned
    <2>3. QED
      BY <1>1, <1>2, <1>3, <1>4, <2>2 DEF ThreadOK, new
  <1>7. QED
    BY <1>5, <1>6

LEMMA CommitStep ==
    ASSUME IInv, NEW N \in Tables,
           NEW ts \in [Threads -> Thread],
           \A u \in Threads : ThreadOK(ts[u], memories, revision),
           Commit(N, ts)
    PROVE  IInv'
  <1>1. /\ memories' = N /\ revision' = IF N = memories THEN revision ELSE revision + 1
        /\ threads' = [u \in Threads |-> Told(ts[u], N)]
        /\ hot' = hot
    BY DEF Commit, Revised, Told
  <1>2. memories \in Tables /\ revision \in Nat /\ revision' \in Nat /\ hot \in Hot
    BY <1>1 DEF IInv
  <1>3. ASSUME NEW u \in Threads
        PROVE  threads'[u] \in Thread /\ ThreadOK(threads'[u], N, revision')
    BY <1>1, <1>2, ToldOK
  <1>4. threads' \in [Threads -> Thread]
    BY <1>1, <1>3
  <1>5. HotOK(hot, N, revision')
    <2>1. CASE N = memories
      BY <1>1, <2>1 DEF IInv
    <2>2. CASE N # memories
      BY <1>1, <1>2, <2>2 DEF IInv, HotOK, Hot
    <2>3. QED
      BY <2>1, <2>2
  <1>6. QED
    BY <1>1, <1>2, <1>3, <1>4, <1>5 DEF IInv

LEMMA OwnThreads ==
    ASSUME IInv, NEW t \in Threads, NEW r \in Thread, ThreadOK(r, memories, revision)
    PROVE  /\ [threads EXCEPT ![t] = r] \in [Threads -> Thread]
           /\ \A u \in Threads : ThreadOK([threads EXCEPT ![t] = r][u], memories, revision)
  BY DEF IInv

\* A step that changes a thread and perhaps the cache.
LEMMA ThreadStep ==
    ASSUME IInv, NEW t \in Threads, NEW r \in Thread, ThreadOK(r, memories, revision),
           threads' = [threads EXCEPT ![t] = r],
           memories' = memories, revision' = revision,
           hot' \in Hot, HotOK(hot', memories, revision)
    PROVE  IInv'
  <1>1. \A u \in Threads : ThreadOK(threads'[u], memories', revision')
    BY OwnThreads
  <1>2. QED
    BY <1>1, OwnThreads DEF IInv

LEMMA Untouched ==
    ASSUME IInv
    PROVE  hot \in Hot /\ HotOK(hot, memories, revision)
  BY DEF IInv

LEMMA SaveSteps ==
    ASSUME IInv, NEW m \in Memories, NEW v \in Values, Save(m, v)
    PROVE  IInv'
  <1>1. PICK h \in Sights(m) : Commit([memories EXCEPT ![m] = Saved(v, h)], threads)
    BY DEF Save
  <1>2. h \in BOOLEAN
    BY DEF Sights
  <1>3. [memories EXCEPT ![m] = Saved(v, h)] \in Tables
    BY <1>2 DEF IInv, Tables, Saved, Memory
  <1>4. QED
    BY <1>1, <1>3, CommitStep DEF IInv

LEMMA RemovalSteps ==
    ASSUME IInv, NEW m \in Memories, Archive(m) \/ Forget(m)
    PROVE  IInv'
  <1>1. CASE Archive(m)
    <2>1. memories[m] \in Memory
      BY <1>1 DEF Archive, IInv, Tables, NoRow
    <2>2. [memories EXCEPT ![m].status = "archived"] \in Tables
      BY <2>1 DEF IInv, Tables, Memory
    <2>3. QED
      BY <1>1, <2>2, CommitStep DEF Archive, IInv
  <1>2. CASE Forget(m)
    <2>1. [memories EXCEPT ![m] = NoRow] \in Tables
      BY DEF IInv, Tables
    <2>2. QED
      BY <1>2, <2>1, CommitStep DEF Forget, IInv
  <1>3. QED
    BY <1>1, <1>2

LEMMA ResolveStep ==
    ASSUME IInv, NEW stale \in Memories, NEW current \in Memories, Resolve(stale, current)
    PROVE  IInv'
  <1>1. memories[stale] \in Memory
    BY DEF Resolve, IInv, Tables, NoRow
  <1>2. Superseded(memories, stale, current) \in Tables
    BY <1>1 DEF Superseded, IInv, Tables, Memory
  <1>3. QED
    BY <1>2, CommitStep DEF Resolve, IInv

\* A memory comes into or out of sight: what is live, and what it says, stay.
LEMMA TurnedRows ==
    ASSUME memories \in Tables, NEW m \in Memories, Live(m)
    PROVE  /\ Turned(m) \in Tables
           /\ \A k \in Memories :
                 /\ LiveIn(Turned(m), k) <=> LiveIn(memories, k)
                 /\ Turned(m)[k].value = memories[k].value
                 /\ k # m => Turned(m)[k] = memories[k]
  <1>1. memories[m] \in Memory
    BY LiveRow DEF Live, LiveIn
  <1>2. QED
    BY <1>1 DEF Turned, Tables, Memory, LiveIn

LEMMA ReconsiderStep ==
    ASSUME IInv, NEW m \in Memories, Reconsider(m)
    PROVE  IInv'
  <1>1. Turned(m) \in Tables
    BY TurnedRows DEF Reconsider, IInv
  <1>2. QED
    BY <1>1, CommitStep DEF Reconsider, IInv

LEMMA TurnStep ==
    ASSUME IInv, NEW m \in Memories, Turn(m)
    PROVE  IInv'
  <1> DEFINE N == Turned(m)
             new(t) == IF threads[t].job = "serve"
                       THEN [threads[t] EXCEPT !.seen = @ \cup Held(N)]
                       ELSE Noted(threads[t], m)
  <1>1. /\ memories' = N /\ revision' = revision /\ hot' = Noted(hot, m)
        /\ threads' = [t \in Threads |-> new(t)]
        /\ memories \in Tables /\ revision \in Nat /\ hot \in Hot
    BY DEF Turn, IInv
  <1>2. /\ N \in Tables
        /\ \A k \in Memories :
              /\ LiveIn(N, k) <=> LiveIn(memories, k)
              /\ N[k].value = memories[k].value
              /\ k # m => N[k] = memories[k]
    BY <1>1, TurnedRows DEF Turn
  <1> HIDE DEF N
  <1>3. ASSUME NEW pack \in SUBSET Item, NEW R \in SUBSET Memories, NEW turned,
               Matches(pack, R, memories, turned)
        PROVE  Matches(pack, R, N, turned \cup {m})
    <2>1. \A item \in pack : item.memory \in Memories
      BY DEF Item
    <2>2. QED
      BY <1>2, <1>3, <2>1 DEF Matches
  <1>4. hot' \in Hot /\ HotOK(hot', N, revision)
    <2>1. CASE hot.begun = revision
      <3>1. /\ hot' \in Hot
            /\ hot'.status = hot.status /\ hot'.pack = hot.pack /\ hot'.begun = hot.begun
            /\ hot'.revision = hot.revision /\ hot'.turned = hot.turned \cup {m}
        BY <1>1, <2>1 DEF Noted, Hot
      <3>2. hot.pack \in SUBSET Item /\ HotOK(hot, memories, revision)
        BY <1>1 DEF Hot, IInv
      <3>3. QED
        BY <1>3, <3>1, <3>2 DEF HotOK
    <2>2. CASE hot.begun # revision
      BY <1>1, <2>2 DEF Noted, IInv, HotOK
    <2>3. QED
      BY <2>1, <2>2
  <1>5. ASSUME NEW t \in Threads
        PROVE  new(t) \in Thread /\ ThreadOK(new(t), N, revision)
    <2> DEFINE th == threads[t]
               a == new(t)
    <2>1. th \in Thread /\ ThreadOK(th, memories, revision)
      BY DEF IInv
    <2>2. /\ a \in Thread
          /\ a.job = th.job /\ a.pc = th.pc /\ a.revision = th.revision
          /\ a.begun = th.begun /\ a.layer = th.layer /\ a.pack = th.pack
          /\ a.plan = th.plan
          /\ th.seen \subseteq a.seen
          /\ th.job = "serve" => Held(N) \subseteq a.seen
          /\ th.begun = revision /\ th.job # "serve" => a.turned = th.turned \cup {m}
          /\ th = Idle => a = Idle
      <3>1. CASE th.job = "serve"
        BY <1>2, <2>1, <3>1, HeldType DEF Thread, Idle
      <3>2. CASE th.job # "serve" /\ th.begun = revision
        BY <1>1, <2>1, <3>2 DEF Thread, Noted, Idle
      <3>3. CASE th.job # "serve" /\ th.begun # revision
        BY <2>1, <3>3 DEF Noted
      <3>4. QED
        BY <3>1, <3>2, <3>3
    <2> HIDE DEF a, th
    <2>3. Shape(a) /\ InTime(a, revision)
      BY <2>1, <2>2 DEF ThreadOK, Shape, InTime
    <2>4. SeenAll(a, N)
      BY <2>1, <2>2 DEF ThreadOK, SeenAll
    <2>5. Fresh(a, N, revision)
      <3>1. th.pack \in SUBSET Item /\ SearchedBy(th) \in SUBSET Memories
        BY <2>1 DEF Thread, SearchedBy
      <3>2. SearchedBy(a) = SearchedBy(th)
        BY <2>2 DEF SearchedBy
      <3>3. QED
        BY <1>3, <2>1, <2>2, <3>1, <3>2 DEF ThreadOK, Fresh
    <2>6. Planned(a, N, revision)
      <3>1. \A p \in th.plan : p.current \in Memories /\ p.stale \in Memories
        BY <2>1 DEF Thread, Pair
      <3>2. \A p \in th.plan : Contradict(memories, p.current, p.stale)
                                 => Contradict(N, p.current, p.stale)
        BY <1>2, <3>1 DEF Contradict
      <3>3. QED
        BY <2>1, <2>2, <3>2 DEF ThreadOK, Planned
    <2>7. QED
      BY <2>2, <2>3, <2>4, <2>5, <2>6 DEF ThreadOK, a
  <1> HIDE DEF new
  <1>6. QED
    BY <1>1, <1>2, <1>4, <1>5 DEF IInv

-----------------------------------------------------------------------------
(***************************************************************************)
(* Consolidation                                                           *)
(***************************************************************************)
LEMMA SleepStep ==
    ASSUME IInv, NEW t \in Threads, Sleep(t)
    PROVE  IInv'
  <1> DEFINE r == [threads[t] EXCEPT !.job = "sleep", !.pc = "detect", !.revision = revision]
  <1>1. threads[t] = Idle /\ revision \in Nat /\ Idle \in Thread
    BY IdleOK DEF IInv, ThreadOK, Shape, Sleep, At
  <1>2. r \in Thread /\ r.pc = "detect" /\ r.job = "sleep" /\ r.begun = -1 /\ r.revision = revision
    <2> DEFINE a == [threads[t] EXCEPT !.job = "sleep", !.pc = "detect"]
    <2>1. /\ a \in Thread /\ a.pc = "detect" /\ a.job = "sleep"
          /\ a.begun = threads[t].begun
      BY <1>1 DEF Thread
    <2>2. threads[t].begun = -1 /\ r = [a EXCEPT !.revision = revision]
      BY <1>1 DEF Idle
    <2> HIDE DEF a, r
    <2>3. QED
      BY <1>1, <2>1, <2>2 DEF Thread
  <1>3. ThreadOK(r, memories, revision)
    <2> HIDE DEF r
    <2>1. QED
      BY <1>1, <1>2 DEF ThreadOK, Shape, InTime, SeenAll, Fresh, Planned
  <1>4. QED
    BY <1>2, <1>3, ThreadStep, Untouched DEF Sleep

LEMMA DetectStep ==
    ASSUME IInv, NEW t \in Threads, Detect(t)
    PROVE  IInv'
  <1> DEFINE plan == {p \in Pair : Conflicts(p.current, p.stale) /\ ~ p.safe}
             r == [threads[t] EXCEPT !.pc = "judge", !.plan = plan]
  <1>1. threads[t] \in Thread /\ ThreadOK(threads[t], memories, revision)
        /\ threads[t].pc = "detect"
    BY DEF IInv, Detect, At
  <1>2. plan \in SUBSET Pair /\ \A p \in plan : Contradict(memories, p.current, p.stale)
    BY DEF Conflicts, Contradict, Live, LiveIn
  <1> HIDE DEF plan
  <1>3. r \in Thread /\ r.pc = "judge" /\ r.job # "serve" /\ r.plan = plan
        /\ r.revision = threads[t].revision /\ r.begun = threads[t].begun
    BY <1>1, <1>2 DEF Thread, ThreadOK, Shape
  <1>4. ThreadOK(r, memories, revision)
    <2> HIDE DEF r
    <2>1. QED
      BY <1>1, <1>2, <1>3 DEF ThreadOK, Shape, InTime, SeenAll, Fresh, Planned
  <1>5. QED
    BY <1>3, <1>4, ThreadStep, Untouched DEF Detect, plan

LEMMA JudgeStep ==
    ASSUME IInv, NEW t \in Threads, Judge(t)
    PROVE  IInv'
  <1> DEFINE judged(p) == [p EXCEPT !.safe = Safe(p.current, p.stale)]
             plan == {judged(p) : p \in threads[t].plan}
             r == [threads[t] EXCEPT !.pc = "apply", !.plan = plan]
  <1>1. threads[t] \in Thread /\ ThreadOK(threads[t], memories, revision)
        /\ threads[t].pc = "judge"
    BY DEF IInv, Judge, At
  <1>2. threads[t].plan \in SUBSET Pair
    BY <1>1 DEF Thread
  <1>3. ASSUME NEW p \in threads[t].plan
        PROVE  /\ judged(p) \in Pair
               /\ judged(p).current = p.current /\ judged(p).stale = p.stale
               /\ judged(p).safe => Allowed(p.current, p.stale)
    BY <1>2 DEF Pair, Safe, Allowed
  <1>4. plan \in SUBSET Pair
    BY <1>3
  <1>5. ASSUME threads[t].revision = revision, NEW p \in plan
        PROVE  Contradict(memories, p.current, p.stale) /\ (p.safe => Allowed(p.current, p.stale))
    <2>1. PICK q \in threads[t].plan : p = judged(q)
      OBVIOUS
    <2>2. Contradict(memories, q.current, q.stale)
      BY <1>1, <1>5 DEF ThreadOK, Planned
    <2>3. QED
      BY <1>3, <2>1, <2>2
  <1> HIDE DEF plan
  <1>6. r \in Thread /\ r.pc = "apply" /\ r.job # "serve" /\ r.plan = plan
        /\ r.revision = threads[t].revision /\ r.begun = threads[t].begun
    BY <1>1, <1>4 DEF Thread, ThreadOK, Shape
  <1>7. ThreadOK(r, memories, revision)
    <2> HIDE DEF r
    <2>1. Planned(r, memories, revision)
      BY <1>5, <1>6 DEF Planned
    <2>2. QED
      BY <1>1, <1>6, <2>1 DEF ThreadOK, Shape, InTime, SeenAll, Fresh
  <1>8. threads' = [threads EXCEPT ![t] = r]
    BY DEF Judge, plan
  <1> HIDE DEF r
  <1>9. QED
    BY <1>6, <1>7, <1>8, ThreadStep, Untouched DEF Judge

\* Who supersedes a memory is one of the plan.
LEMMA Winner ==
    ASSUME memories \in Tables, NEW plan \in SUBSET Pair
    PROVE  /\ Resolved(plan) \in Tables
           /\ \A m \in Memories : Resolved(plan)[m].by # memories[m].by =>
                 \E p \in plan : p.safe /\ p.stale = m /\ p.current = Resolved(plan)[m].by
  <1> DEFINE winners(m) == {p.current : p \in {q \in plan : q.safe /\ q.stale = m}}
             last(m) == CHOOSE w \in winners(m) : \A x \in winners(m) : w >= x
             row(m) == IF winners(m) = {} \/ memories[m].status = "none" THEN memories[m]
                       ELSE [memories[m] EXCEPT !.by = last(m)]
  <1>1. ASSUME NEW m \in Memories, winners(m) # {}
        PROVE  last(m) \in winners(m) /\ last(m) \in Memories
    <2>1. winners(m) \in SUBSET Memories
      BY DEF Pair
    <2>2. \E w \in winners(m) : \A x \in winners(m) : w >= x
      BY <1>1, <2>1, Greatest
    <2>3. QED
      BY <2>1, <2>2
  <1>2. Resolved(plan) = [m \in Memories |-> row(m)]
    BY DEF Resolved
  <1>3. \A m \in Memories : winners(m) # {} =>
           \E p \in plan : p.safe /\ p.stale = m /\ p.current = last(m)
    BY <1>1
  <1> HIDE DEF winners, last
  <1>4. ASSUME NEW m \in Memories
        PROVE  /\ row(m) \in Memory \cup {NoRow}
               /\ row(m).by # memories[m].by => winners(m) # {} /\ row(m).by = last(m)
    <2>1. CASE winners(m) = {} \/ memories[m].status = "none"
      BY <2>1 DEF Tables
    <2>2. CASE winners(m) # {} /\ memories[m].status # "none"
      BY <1>1, <2>2 DEF Tables, Memory, NoRow
    <2>3. QED
      BY <2>1, <2>2
  <1> HIDE DEF row
  <1>5. QED
    BY <1>2, <1>3, <1>4 DEF Tables

LEMMA ApplyStep ==
    ASSUME IInv, NEW t \in Threads, Apply(t)
    PROVE  IInv'
  <1> DEFINE r == [Idle EXCEPT !.job = "sleep", !.pc = "collect", !.layer = 1]
  <1>1. r \in Thread /\ ThreadOK(r, memories, revision)
    <2>1. revision \in Nat /\ Layers \in Nat \ {0} /\ LayerOf \in [Memories -> 1..Layers]
      BY HotAssumption DEF IInv
    <2> DEFINE a == [Idle EXCEPT !.job = "sleep", !.pc = "collect"]
    <2>2. /\ a \in Thread /\ a.pc = "collect" /\ a.job = "sleep" /\ a.pack = {}
          /\ a.begun = -1 /\ a.revision = -1
      BY <2>1, IdleOK DEF Thread, Idle
    <2>3. r = [a EXCEPT !.layer = 1]
      OBVIOUS
    <2> HIDE DEF a, r
    <2>4. /\ r \in Thread /\ r.pc = "collect" /\ r.job = "sleep" /\ r.layer = 1
          /\ r.pack = {} /\ r.begun = -1 /\ r.revision = -1
      BY <2>1, <2>2, <2>3 DEF Thread
    <2>5. QED
      BY <2>1, <2>4 DEF ThreadOK, Shape, InTime, SeenAll, Fresh, Planned
  <1>2. threads[t].plan \in SUBSET Pair
    BY DEF IInv, Thread
  <1>3. Resolved(threads[t].plan) \in Tables
    BY <1>2, Winner DEF IInv
  <1> HIDE DEF r
  <1>4. /\ [threads EXCEPT ![t] = r] \in [Threads -> Thread]
        /\ \A u \in Threads : ThreadOK([threads EXCEPT ![t] = r][u], memories, revision)
    BY <1>1, OwnThreads
  <1>5. Commit(Resolved(threads[t].plan), [threads EXCEPT ![t] = r])
    BY DEF Apply, r
  <1>6. QED
    BY <1>3, <1>4, <1>5, CommitStep

LEMMA EndStep ==
    ASSUME IInv, NEW t \in Threads, Abandon(t) \/ Return(t) \/ Crash(t)
    PROVE  IInv'
  <1>1. Idle \in Thread /\ ThreadOK(Idle, memories, revision)
    BY IdleOK DEF IInv
  <1>2. QED
    BY <1>1, ThreadStep, Untouched DEF Abandon, Return, Crash

-----------------------------------------------------------------------------
(***************************************************************************)
(* Packs                                                                   *)
(***************************************************************************)
LEMMA CollectStep ==
    ASSUME IInv, NEW t \in Threads, Collect(t)
    PROVE  IInv'
  <1> DEFINE th == threads[t]
             found == Found(th.layer)
             begun == IF th.layer = 1 /\ th.job # "serve" THEN revision ELSE th.begun
             layer == IF th.layer = Layers THEN 0 ELSE th.layer + 1
             pc == IF th.layer < Layers THEN "collect"
                   ELSE IF th.job = "serve" THEN "cold" ELSE "label"
             r == [th EXCEPT !.pack = th.pack \cup found, !.begun = begun,
                             !.layer = layer, !.pc = pc]
  <1>1. /\ th \in Thread /\ ThreadOK(th, memories, revision) /\ th.pc = "collect"
        /\ threads' = [threads EXCEPT ![t] = r]
        /\ memories \in Tables /\ revision \in Nat
    BY DEF IInv, Collect, At
  <1>2. Layers \in Nat \ {0} /\ LayerOf \in [Memories -> 1..Layers]
    BY HotAssumption
  <1>3. /\ th.layer \in 1..Layers /\ begun \in Int /\ layer \in 0..Layers
        /\ begun <= revision
    BY <1>1, <1>2 DEF Thread, ThreadOK, Shape, InTime
  <1>4. found \subseteq Item
    BY <1>1, FoundType
  <1>5. /\ r \in Thread
        /\ r.job = th.job /\ r.revision = th.revision /\ r.seen = th.seen
        /\ r.plan = th.plan /\ r.turned = th.turned
        /\ r.pack = th.pack \cup found /\ r.begun = begun /\ r.layer = layer /\ r.pc = pc
    <2> DEFINE a == [th EXCEPT !.pack = th.pack \cup found, !.begun = begun]
    <2> HIDE DEF found, begun, layer, th
    <2>1. /\ a \in Thread
          /\ a.job = th.job /\ a.revision = th.revision /\ a.seen = th.seen
          /\ a.plan = th.plan /\ a.turned = th.turned
          /\ a.pack = th.pack \cup found /\ a.begun = begun
      BY <1>1, <1>3, <1>4 DEF Thread
    <2>2. r = [a EXCEPT !.layer = layer, !.pc = pc]
      OBVIOUS
    <2>3. pc \in {"collect", "cold", "label"}
      OBVIOUS
    <2> HIDE DEF a, r, pc
    <2>4. QED
      BY <2>1, <2>2, <2>3, <1>3 DEF Thread
  <1> HIDE DEF r
  <1>6. Shape(r)
    BY <1>1, <1>2, <1>3, <1>5 DEF ThreadOK, Shape, Thread
  <1>7. InTime(r, revision) /\ Planned(r, memories, revision)
    BY <1>1, <1>3, <1>5 DEF ThreadOK, InTime, Planned
  <1>8. SeenAll(r, memories)
    <2> SUFFICES ASSUME th.job = "serve"
                 PROVE  \A item \in th.pack \cup found : InSight(item) \in th.seen
      BY <1>1, <1>5 DEF SeenAll, ThreadOK
    <2>1. \A item \in th.pack : InSight(item) \in th.seen
      BY <1>1 DEF ThreadOK, SeenAll
    <2>2. \A item \in found : InSight(item) \in th.seen
      BY <1>1, FoundType DEF ThreadOK, SeenAll
    <2>3. QED
      BY <2>1, <2>2
  <1>9. Fresh(r, memories, revision)
    <2> SUFFICES ASSUME r.job # "serve", r.begun = revision
                 PROVE  Matches(r.pack, SearchedBy(r), memories, r.turned)
      BY DEF Fresh
    <2>1. Matches(th.pack, {m \in Memories : LayerOf[m] < th.layer}, memories, th.turned)
      <3>1. CASE th.layer = 1
        <4>1. th.pack = {} /\ \A m \in Memories : ~ (LayerOf[m] < 1)
          BY <1>1, <1>2, <3>1 DEF ThreadOK, Shape
        <4>2. QED
          BY <3>1, <4>1 DEF Matches
      <3>2. CASE th.layer # 1
        <4>1. th.begun = revision /\ th.job # "serve"
          BY <1>5, <3>2
        <4>2. QED
          BY <1>1, <4>1 DEF ThreadOK, Fresh, SearchedBy
      <3>3. QED
        BY <3>1, <3>2
    <2>2. \A m \in SearchedBy(r) :
             m \in Memories /\ (LayerOf[m] < th.layer \/ LayerOf[m] = th.layer)
      <3>1. \A m \in Memories : LayerOf[m] \in 1..Layers
        BY <1>2
      <3>2. CASE th.layer < Layers
        BY <1>2, <1>3, <1>5, <3>1, <3>2 DEF SearchedBy
      <3>3. CASE th.layer = Layers
        BY <1>2, <1>3, <1>5, <3>1, <3>3 DEF SearchedBy
      <3>4. QED
        BY <1>2, <1>3, <3>2, <3>3
    <2>3. /\ \A item \in found :
                /\ LiveIn(memories, item.memory) /\ item.value = memories[item.memory].value
                /\ ~ memories[item.memory].hidden
          /\ \A m \in Memories :
                LayerOf[m] = th.layer /\ LiveIn(memories, m) /\ ~ memories[m].hidden =>
                   [memory |-> m, value |-> memories[m].value] \in found
      BY <1>1, FoundType
    <2> HIDE DEF found
    <2>4. QED
      BY <1>5, <2>1, <2>2, <2>3 DEF Matches
  <1>10. ThreadOK(r, memories, revision)
    BY <1>6, <1>7, <1>8, <1>9 DEF ThreadOK
  <1>11. QED
    BY <1>1, <1>5, <1>10, ThreadStep, Untouched DEF Collect

LEMMA LabelStep ==
    ASSUME IInv, NEW t \in Threads, Label(t)
    PROVE  IInv'
  <1> DEFINE th == threads[t]
             a == [th EXCEPT !.revision = revision, !.pc = "write"]
             r == IF WorthStoring(th.pack) THEN a ELSE Idle
  <1>1. /\ th \in Thread /\ ThreadOK(th, memories, revision) /\ th.pc = "label"
        /\ threads' = [threads EXCEPT ![t] = r]
        /\ revision \in Nat
    BY DEF IInv, Label, At
  <1>2. /\ a \in Thread /\ a.pc = "write" /\ a.revision = revision
        /\ a.job = th.job /\ a.begun = th.begun /\ a.pack = th.pack /\ a.turned = th.turned
    <2> DEFINE b == [th EXCEPT !.revision = revision]
    <2> HIDE DEF th, r
    <2>1. /\ b \in Thread /\ b.revision = revision
          /\ b.job = th.job /\ b.begun = th.begun /\ b.pack = th.pack /\ b.turned = th.turned
      BY <1>1 DEF Thread
    <2>2. a = [b EXCEPT !.pc = "write"]
      OBVIOUS
    <2> HIDE DEF a, b
    <2>3. QED
      BY <2>1, <2>2 DEF Thread
  <1> HIDE DEF a
  <1>3. WorthStoring(th.pack) => ThreadOK(a, memories, revision)
    BY <1>1, <1>2 DEF ThreadOK, Shape, InTime, SeenAll, Fresh, Planned, SearchedBy, WorthStoring
  <1>4. r \in Thread /\ ThreadOK(r, memories, revision)
    BY <1>1, <1>2, <1>3, IdleOK
  <1> HIDE DEF r
  <1>5. QED
    BY <1>1, <1>4, ThreadStep, Untouched DEF Label

LEMMA WriteStep ==
    ASSUME IInv, NEW t \in Threads, Write(t)
    PROVE  IInv'
  <1> DEFINE th == threads[t]
             a == [Idle EXCEPT !.job = "sleep", !.pc = "load"]
             r == IF th.job = "sleep" THEN a ELSE Idle
  <1>1. /\ th \in Thread /\ ThreadOK(th, memories, revision) /\ th.pc = "write"
        /\ threads' = [threads EXCEPT ![t] = r]
        /\ revision \in Nat
    BY DEF IInv, Write, At
  <1>2. /\ a \in Thread /\ a.pc = "load" /\ a.job = "sleep" /\ a.revision = -1
        /\ a.begun = -1 /\ a.pack = {}
    BY IdleOK, <1>1 DEF Thread, Idle
  <1> HIDE DEF a
  <1>3. ThreadOK(a, memories, revision)
    BY <1>1, <1>2 DEF ThreadOK, Shape, InTime, SeenAll, Fresh, Planned
  <1>4. r \in Thread /\ ThreadOK(r, memories, revision)
    BY <1>1, <1>2, <1>3, IdleOK
  <1>5. hot' \in Hot /\ HotOK(hot', memories, revision)
    <2>1. /\ hot' = [status |-> "active", revision |-> th.revision,
                      pack |-> th.pack, begun |-> th.begun, turned |-> th.turned]
          /\ th.revision \in Int /\ th.begun \in Int /\ th.pack \in SUBSET Item
          /\ th.turned \in SUBSET Memories
      BY <1>1 DEF Write, Thread
    <2>2. hot' \in Hot
      BY <2>1 DEF Hot
    <2>3. th.pack # {} /\ th.begun <= th.revision /\ th.revision <= revision
      BY <1>1 DEF ThreadOK, Shape, InTime
    <2>4. th.begun = revision => Matches(th.pack, Memories, memories, th.turned)
      BY <1>1 DEF ThreadOK, Shape, Fresh, SearchedBy
    <2>5. QED
      BY <2>1, <2>2, <2>3, <2>4 DEF HotOK
  <1> HIDE DEF r
  <1>6. QED
    BY <1>1, <1>4, <1>5, ThreadStep DEF Write

-----------------------------------------------------------------------------
(***************************************************************************)
(* Requests and prefetches                                                 *)
(***************************************************************************)
LEMMA AskStep ==
    ASSUME IInv, NEW t \in Threads, NEW job \in {"warm", "serve"}, Ask(t, job)
    PROVE  IInv'
  <1> DEFINE seen == IF job = "serve" THEN Held(memories) ELSE {}
             r == [Idle EXCEPT !.job = job, !.pc = "load", !.seen = seen]
             a == [Idle EXCEPT !.job = job, !.pc = "load"]
  <1>1. /\ threads' = [threads EXCEPT ![t] = r]
        /\ memories \in Tables /\ revision \in Nat
    BY DEF IInv, Ask
  <1>2. /\ seen \subseteq Sighting
        /\ job = "serve" => Held(memories) \subseteq seen
    BY <1>1, HeldType
  <1>3. /\ a \in Thread /\ a.job = job /\ a.pc = "load" /\ a.revision = -1
        /\ a.begun = -1 /\ a.pack = {}
    BY <1>1, IdleOK DEF Thread, Idle
  <1>4. r = [a EXCEPT !.seen = seen]
    OBVIOUS
  <1> HIDE DEF a, r, seen
  <1>5. /\ r \in Thread /\ r.job = job /\ r.pc = "load" /\ r.revision = -1
        /\ r.begun = -1 /\ r.pack = {} /\ r.seen = seen
    BY <1>2, <1>3, <1>4 DEF Thread
  <1>6. ThreadOK(r, memories, revision)
    BY <1>1, <1>2, <1>5 DEF ThreadOK, Shape, InTime, SeenAll, Fresh, Planned
  <1>7. QED
    BY <1>1, <1>5, <1>6, ThreadStep, Untouched DEF Ask

LEMMA LoadStep ==
    ASSUME IInv, NEW t \in Threads, Load(t)
    PROVE  IInv'
  <1> DEFINE th == threads[t]
             r == [th EXCEPT !.revision = revision, !.pc = "row"]
             a == [th EXCEPT !.revision = revision]
  <1>1. /\ th \in Thread /\ ThreadOK(th, memories, revision) /\ th.pc = "load"
        /\ threads' = [threads EXCEPT ![t] = r]
        /\ revision \in Nat
    BY DEF IInv, Load, At
  <1> HIDE DEF th
  <1>2. /\ a \in Thread /\ a.revision = revision /\ a.job = th.job
        /\ a.begun = th.begun /\ a.pack = th.pack /\ a.seen = th.seen
    BY <1>1 DEF Thread
  <1>3. r = [a EXCEPT !.pc = "row"]
    OBVIOUS
  <1> HIDE DEF a, r
  <1>4. /\ r \in Thread /\ r.pc = "row" /\ r.revision = revision /\ r.job = th.job
        /\ r.begun = th.begun /\ r.pack = th.pack /\ r.seen = th.seen
    BY <1>2, <1>3 DEF Thread
  <1>5. ThreadOK(r, memories, revision)
    BY <1>1, <1>4 DEF ThreadOK, Shape, InTime, SeenAll, Fresh, Planned
  <1>6. QED
    BY <1>1, <1>4, <1>5, ThreadStep, Untouched DEF Load

\* A thread for which the cache has nothing.
LEMMA MissedOK ==
    ASSUME IInv, NEW th \in Thread, ThreadOK(th, memories, revision),
           th.pc \in {"row", "stale", "invalid"}
    PROVE  Missed(th) \in Thread /\ ThreadOK(Missed(th), memories, revision)
  <1> DEFINE r == [th EXCEPT !.pc = "collect", !.layer = 1, !.revision = -1]
             a == [th EXCEPT !.pc = "collect", !.layer = 1]
  <1>1. /\ Layers \in Nat \ {0} /\ LayerOf \in [Memories -> 1..Layers]
        /\ revision \in Nat
    BY HotAssumption DEF IInv
  <1>2. /\ a \in Thread /\ a.pc = "collect" /\ a.layer = 1 /\ a.job = th.job
        /\ a.begun = th.begun /\ a.pack = th.pack /\ a.seen = th.seen
    <2> DEFINE b == [th EXCEPT !.pc = "collect"]
    <2>1. /\ b \in Thread /\ b.pc = "collect" /\ b.job = th.job
          /\ b.begun = th.begun /\ b.pack = th.pack /\ b.seen = th.seen
      BY DEF Thread
    <2>2. a = [b EXCEPT !.layer = 1] /\ 1 \in 0..Layers
      BY <1>1
    <2> HIDE DEF a, b
    <2>3. QED
      BY <2>1, <2>2 DEF Thread
  <1>3. r = [a EXCEPT !.revision = -1]
    OBVIOUS
  <1> HIDE DEF a, r
  <1>4. /\ r \in Thread /\ r.pc = "collect" /\ r.layer = 1 /\ r.job = th.job
        /\ r.begun = th.begun /\ r.pack = th.pack /\ r.seen = th.seen /\ r.revision = -1
    BY <1>2, <1>3 DEF Thread
  <1>5. th.pack = {}
    BY DEF ThreadOK, Shape
  <1>6. Fresh(r, memories, revision)
    <2>1. SearchedBy(r) = {}
      BY <1>1, <1>4 DEF SearchedBy
    <2>2. QED
      BY <1>4, <1>5, <2>1 DEF Fresh, Matches
  <1>7. ThreadOK(r, memories, revision)
    BY <1>1, <1>4, <1>5, <1>6 DEF ThreadOK, Shape, InTime, SeenAll, Planned
  <1>8. QED
    BY <1>1, <1>4, <1>7, IdleOK DEF Missed, r

LEMMA ReadRowStep ==
    ASSUME IInv, NEW t \in Threads, ReadRow(t)
    PROVE  IInv'
  <1> DEFINE th == threads[t]
             stale == [th EXCEPT !.pc = "stale", !.revision = -1]
             check == [th EXCEPT !.pc = "check", !.pack = hot.pack, !.revision = -1]
             a == [th EXCEPT !.pc = "check", !.pack = hot.pack]
             r == IF hot.status # "active" THEN Missed(th)
                  ELSE IF hot.revision # th.revision THEN stale ELSE check
  <1>1. /\ th \in Thread /\ ThreadOK(th, memories, revision) /\ th.pc = "row"
        /\ threads' = [threads EXCEPT ![t] = r]
        /\ revision \in Nat /\ hot.pack \in SUBSET Item
    BY DEF IInv, ReadRow, At, Hot
  <1> HIDE DEF th
  <1>2. /\ stale \in Thread /\ stale.pc = "stale" /\ stale.revision = -1
        /\ stale.job = th.job /\ stale.begun = th.begun /\ stale.pack = th.pack
        /\ stale.seen = th.seen
    <2> DEFINE b == [th EXCEPT !.pc = "stale"]
    <2>1. /\ b \in Thread /\ b.pc = "stale" /\ b.job = th.job
          /\ b.begun = th.begun /\ b.pack = th.pack /\ b.seen = th.seen
      BY <1>1 DEF Thread
    <2>2. stale = [b EXCEPT !.revision = -1]
      OBVIOUS
    <2> HIDE DEF stale, b
    <2>3. QED
      BY <2>1, <2>2 DEF Thread
  <1>3. /\ a \in Thread /\ a.pc = "check" /\ a.job = th.job /\ a.begun = th.begun
        /\ a.seen = th.seen
    BY <1>1 DEF Thread
  <1>4. check = [a EXCEPT !.revision = -1]
    OBVIOUS
  <1> HIDE DEF a, stale, check
  <1>5. /\ check \in Thread /\ check.pc = "check" /\ check.revision = -1
        /\ check.job = th.job /\ check.begun = th.begun /\ check.seen = th.seen
    BY <1>3, <1>4 DEF Thread
  <1>6. ThreadOK(stale, memories, revision)
    BY <1>1, <1>2 DEF ThreadOK, Shape, InTime, SeenAll, Fresh, Planned
  <1>7. ThreadOK(check, memories, revision)
    BY <1>1, <1>5 DEF ThreadOK, Shape, InTime, SeenAll, Fresh, Planned
  <1>8. r \in Thread /\ ThreadOK(r, memories, revision)
    BY <1>1, <1>2, <1>5, <1>6, <1>7, MissedOK
  <1> HIDE DEF r
  <1>9. QED
    BY <1>1, <1>8, ThreadStep, Untouched DEF ReadRow

\* What is cited is live, and has been seen.
LEMMA CheckPackStep ==
    ASSUME IInv, NEW t \in Threads, CheckPack(t)
    PROVE  IInv'
  <1> DEFINE th == threads[t]
             stale == [th EXCEPT !.pc = "stale", !.pack = {}]
             hit == [th EXCEPT !.pc = "hit"]
             r == IF ~ PackIsCurrent(th.pack) THEN stale
                  ELSE IF th.job = "serve" THEN hit ELSE Idle
  <1>1. /\ th \in Thread /\ ThreadOK(th, memories, revision) /\ th.pc = "check"
        /\ threads' = [threads EXCEPT ![t] = r]
        /\ revision \in Nat
    BY DEF IInv, CheckPack, At
  <1> HIDE DEF th
  <1>2. /\ stale \in Thread /\ stale.pc = "stale" /\ stale.pack = {}
        /\ stale.revision = th.revision /\ stale.job = th.job /\ stale.begun = th.begun
        /\ stale.seen = th.seen
    BY <1>1 DEF Thread
  <1>3. /\ hit \in Thread /\ hit.pc = "hit" /\ hit.pack = th.pack
        /\ hit.revision = th.revision /\ hit.job = th.job /\ hit.begun = th.begun
        /\ hit.seen = th.seen
    BY <1>1 DEF Thread
  <1> HIDE DEF stale, hit
  <1>4. ThreadOK(stale, memories, revision)
    BY <1>1, <1>2 DEF ThreadOK, Shape, InTime, SeenAll, Fresh, Planned
  <1>5. ASSUME PackIsCurrent(th.pack), th.job = "serve"
        PROVE  ThreadOK(hit, memories, revision)
    <2>1. \A item \in th.pack : item.memory \in Memories /\ LiveIn(memories, item.memory)
      BY <1>1, <1>5 DEF PackIsCurrent, Live, LiveIn, Thread, Item
    <2>2. \A item \in th.pack : \E s \in th.seen : s.memory = item.memory
      <3>1. memories \in Tables /\ Held(memories) \subseteq th.seen
        BY <1>1, <1>5 DEF IInv, ThreadOK, SeenAll
      <3>2. QED
        BY <2>1, <3>1, HeldType
    <2>3. SeenAll(hit, memories)
      BY <1>1, <1>3, <2>2 DEF ThreadOK, SeenAll
    <2>4. QED
      BY <1>1, <1>3, <1>5, <2>3 DEF ThreadOK, Shape, InTime, Fresh, Planned
  <1>6. r \in Thread /\ ThreadOK(r, memories, revision)
    BY <1>1, <1>2, <1>3, <1>4, <1>5, IdleOK
  <1> HIDE DEF r
  <1>7. QED
    BY <1>1, <1>6, ThreadStep, Untouched DEF CheckPack

LEMMA PackUnreadableStep ==
    ASSUME IInv, NEW t \in Threads, PackUnreadable(t)
    PROVE  IInv'
  <1> DEFINE th == threads[t]
             r == [th EXCEPT !.pc = "invalid", !.pack = {}]
  <1>1. /\ th \in Thread /\ ThreadOK(th, memories, revision) /\ th.pc = "check"
        /\ threads' = [threads EXCEPT ![t] = r]
    BY DEF IInv, PackUnreadable, At
  <1> HIDE DEF th
  <1>2. /\ r \in Thread /\ r.pc = "invalid" /\ r.pack = {}
        /\ r.revision = th.revision /\ r.job = th.job /\ r.begun = th.begun
        /\ r.seen = th.seen
    BY <1>1 DEF Thread
  <1> HIDE DEF r
  <1>3. ThreadOK(r, memories, revision)
    BY <1>1, <1>2 DEF ThreadOK, Shape, InTime, SeenAll, Fresh, Planned
  <1>4. QED
    BY <1>1, <1>2, <1>3, ThreadStep, Untouched DEF PackUnreadable

LEMMA MarkStep ==
    ASSUME IInv, NEW t \in Threads, NEW status \in {"stale", "invalid"}, Mark(t, status)
    PROVE  IInv'
  <1>1. /\ threads[t] \in Thread /\ ThreadOK(threads[t], memories, revision)
        /\ threads[t].pc = status
        /\ threads' = [threads EXCEPT ![t] = Missed(threads[t])]
        /\ revision \in Nat
    BY DEF IInv, Mark, At
  <1>2. Missed(threads[t]) \in Thread /\ ThreadOK(Missed(threads[t]), memories, revision)
    BY <1>1, MissedOK
  <1>3. hot' = [NoHot EXCEPT !.status = status]
    BY DEF Mark
  <1>4. hot' \in Hot /\ HotOK(hot', memories, revision)
    BY <1>1, <1>3 DEF NoHot, Hot, HotOK
  <1>5. QED
    BY <1>1, <1>2, <1>4, ThreadStep DEF Mark

-----------------------------------------------------------------------------
(***************************************************************************)
(* The invariant                                                           *)
(***************************************************************************)
LEMMA InitOK == Init => IInv
  <1> SUFFICES ASSUME Init PROVE IInv
    OBVIOUS
  <1>1. memories \in Tables
    <2>1. \A v \in Values, h \in BOOLEAN : Saved(v, h) \in Memory
      BY DEF Saved, Memory
    <2>2. {NoRow} \cup {Saved(v, h) : v \in Values, h \in BOOLEAN} \subseteq Memory \cup {NoRow}
      BY <2>1
    <2>3. QED
      BY <2>2 DEF Init, Tables
  <1>2. revision = 0 /\ hot = NoHot /\ threads = [t \in Threads |-> Idle]
    BY DEF Init
  <1>3. hot \in Hot /\ HotOK(hot, memories, revision)
    BY <1>2 DEF NoHot, Hot, HotOK
  <1>4. QED
    BY <1>1, <1>2, <1>3, IdleOK DEF IInv

LEMMA NextStep == IInv /\ [Next]_vars => IInv'
  <1> SUFFICES ASSUME IInv, [Next]_vars PROVE IInv'
    OBVIOUS
  <1>1. CASE Change
    BY <1>1, SaveSteps, RemovalSteps, ReconsiderStep, TurnStep, ResolveStep DEF Change
  <1>2. ASSUME NEW t \in Sleepers, Consolidate(t) PROVE IInv'
    <2>1. t \in Threads
      BY DEF Threads
    <2>2. QED
      BY <1>2, <2>1, SleepStep, DetectStep, JudgeStep, ApplyStep, EndStep DEF Consolidate
  <1>3. ASSUME NEW t \in Servers, NEW job \in {"warm", "serve"}, Ask(t, job) PROVE IInv'
    <2>1. t \in Threads
      BY DEF Threads
    <2>2. QED
      BY <1>3, <2>1, AskStep
  <1>4. ASSUME NEW t \in Threads, Step(t) PROVE IInv'
    <2>1. CASE Collect(t) \/ Label(t) \/ Write(t)
      BY <2>1, CollectStep, LabelStep, WriteStep
    <2>2. CASE Load(t) \/ ReadRow(t) \/ CheckPack(t) \/ PackUnreadable(t)
      BY <2>2, LoadStep, ReadRowStep, CheckPackStep, PackUnreadableStep
    <2>3. CASE \E status \in {"stale", "invalid"} : Mark(t, status)
      BY <2>3, MarkStep
    <2>4. CASE Return(t) \/ Crash(t)
      BY <2>4, EndStep
    <2>5. QED
      BY <1>4, <2>1, <2>2, <2>3, <2>4 DEF Step
  <1>5. CASE UNCHANGED vars
    BY <1>5 DEF vars, IInv
  <1>6. QED
    BY <1>1, <1>2, <1>3, <1>4, <1>5 DEF Next

\* The inductive invariant: a label is never from the future; a pack that is being
\* made or is cached, and a plan, still fit the memories where the revision has not
\* moved since they were begun; a request has seen all that is live and all it cites.
THEOREM InvCorrect == Spec => []IInv
  <1>1. QED
    BY InitOK, NextStep, PTL DEF Spec

\* The types hold, a cached pack cites something, and no label is from the future,
\* whatever the writers of packs and the changes of the memories interleave.
THEOREM TypeCorrect == Spec => []TypeOK
  <1>1. IInv => TypeOK
    BY DEF IInv, Tables, HotOK, TypeOK
  <1>2. QED
    BY <1>1, InvCorrect, PTL

\* What a request is answered with, from the cache or not, cites only memories that
\* were active and not superseded at some moment of the request; an assembled answer
\* says of them what they said, in sight of a search, at such a moment.
THEOREM ServedLive == Spec => []ServedWasLive
  <1>1. IInv => ServedWasLive
    BY DEF IInv, ThreadOK, Shape, SeenAll, InSight, ServedWasLive, At
  <1>2. QED
    BY <1>1, InvCorrect, PTL

\* A cached pack that was made at the current revision is what a search would find,
\* but for the memories that time or the policy of an account has brought into sight
\* or out of it since.
THEOREM Faithful == Spec => []HotIsFaithful
  <1>1. IInv => HotIsFaithful
    BY DEF IInv, HotOK, Matches, LiveIn, Live, HotIsFaithful
  <1>2. QED
    BY <1>1, InvCorrect, PTL

-----------------------------------------------------------------------------
(***************************************************************************)
(* Plans                                                                   *)
(***************************************************************************)

\* The step that applies a plan.
LEMMA Applied ==
    ASSUME IInv, NEW t \in Threads, NEW m \in Memories,
           At(t, "apply"), threads'[t].pc = "collect", memories'[m].by # memories[m].by,
           Next
    PROVE  Apply(t)
  <1>1. threads \in [Threads -> Thread] /\ threads[t].pc = "apply"
    BY DEF IInv, At
  <1>2. CASE Change
    <2>1. ASSUME NEW M, Commit(M, threads) PROVE threads'[t].pc = threads[t].pc
      BY <1>1, <2>1 DEF Commit, Thread
    <2>2. ASSUME NEW k \in Memories, Turn(k) PROVE threads'[t].pc = threads[t].pc
      BY <1>1, <2>2 DEF Turn, Noted, Thread
    <2>3. QED
      BY <1>1, <1>2, <2>1, <2>2 DEF Change, Save, Archive, Forget, Reconsider, Resolve
  <1>3. ASSUME NEW u \in Sleepers, Consolidate(u) PROVE Apply(t)
    <2>1. Apply(u)
      BY <1>3 DEF Consolidate, Sleep, Detect, Judge, Abandon
    <2>2. u = t
      <3> SUFFICES ASSUME u # t PROVE FALSE
        OBVIOUS
      <3> DEFINE ts == [threads EXCEPT ![u] =
                          [Idle EXCEPT !.job = "sleep", !.pc = "collect", !.layer = 1]]
      <3>1. ts[t] = threads[t]
        BY <1>1
      <3>2. threads' = [v \in Threads |-> Told(ts[v], Resolved(threads[u].plan))]
        BY <2>1 DEF Apply, Commit, Told
      <3> HIDE DEF ts
      <3>3. threads'[t] = Told(threads[t], Resolved(threads[u].plan))
        BY <3>1, <3>2
      <3>4. threads'[t].pc = threads[t].pc
        BY <1>1, <3>3 DEF Told, Thread
      <3>5. QED
        BY <1>1, <3>4
    <2>3. QED
      BY <2>1, <2>2
  <1>4. CASE \E u \in Servers, job \in {"warm", "serve"} : Ask(u, job)
    BY <1>4 DEF Ask
  <1>5. CASE \E u \in Threads : Step(u)
    BY <1>5 DEF Step, Collect, Label, Write, Load, ReadRow, CheckPack, PackUnreadable,
                Mark, Return, Crash
  <1>6. QED
    BY <1>2, <1>3, <1>4, <1>5 DEF Next

\* What a consolidation supersedes, it still may at that moment.
LEMMA PlanHeld ==
  ASSUME IInv, [Next]_vars, NEW t \in Threads, NEW m \in Memories,
         At(t, "apply"), memories'[m].by # memories[m].by, threads'[t].pc = "collect"
  PROVE  Conflicts(memories'[m].by, m) /\ Safe(memories'[m].by, m)
  <1>1. Apply(t)
    BY Applied DEF vars
  <1>2. /\ threads[t] \in Thread /\ ThreadOK(threads[t], memories, revision)
        /\ threads[t].pc = "apply" /\ threads[t].revision = revision
        /\ memories' = Resolved(threads[t].plan) /\ memories \in Tables
    BY <1>1 DEF IInv, Apply, PlanCurrent, Commit, At
  <1>3. threads[t].plan \in SUBSET Pair
    BY <1>2 DEF Thread
  <1>4. PICK p \in threads[t].plan : p.safe /\ p.stale = m /\ p.current = memories'[m].by
    BY <1>2, <1>3, Winner
  <1>5. Contradict(memories, p.current, p.stale) /\ Allowed(p.current, p.stale)
    BY <1>2, <1>4 DEF ThreadOK, Planned
  <1>6. QED
    BY <1>4, <1>5 DEF Contradict, Allowed, LiveIn, Live, Conflicts, Safe

\* A consolidation supersedes a memory only by one that contradicts it at that
\* moment, and only where it may decide by itself, for every order of changes,
\* detection and judgement before it.
THEOREM PlanHolds == Spec => PlanStillHolds
  <1>1. IInv /\ [Next]_vars =>
           [\A t \in Threads, m \in Memories :
               At(t, "apply") /\ memories'[m].by # memories[m].by
               /\ threads'[t].pc = "collect" =>
                  Conflicts(memories'[m].by, m) /\ Safe(memories'[m].by, m)]_vars
    BY PlanHeld
  <1>2. QED
    BY <1>1, InvCorrect, PTL DEF Spec, PlanStillHolds

-----------------------------------------------------------------------------
(***************************************************************************)
(* Where the replacements of a memory end                                  *)
(***************************************************************************)
\* Every memory has a time that can be read, as in the run.
AllTimesRead == \A m \in Memories : TimeOf[m] # NoTime

\* What a consolidation may decide by itself, where all times can be read, follows
\* this order: the user before others, then the newer, then by wording.
Beats(k, m) ==
    \/ AuthorOf[k] = "user" /\ AuthorOf[m] # "user"
    \/ /\ AuthorOf[k] = "user" <=> AuthorOf[m] = "user"
       /\ \/ TimeOf[k] > TimeOf[m]
          \/ TimeOf[k] = TimeOf[m] /\ LanguageOf[k] > LanguageOf[m]

LEMMA AllowedBeats ==
  ASSUME AllTimesRead, NEW k \in Memories, NEW m \in Memories, Allowed(k, m)
  PROVE  Beats(k, m)
  <1>1. /\ TimeOf[k] \in Int /\ TimeOf[m] \in Int /\ TimeOf[k] # NoTime /\ TimeOf[m] # NoTime
        /\ LanguageOf[k] \in Int /\ LanguageOf[m] \in Int
    BY HotAssumption DEF AllTimesRead
  <1>2. CASE AuthorOf[k] = "user" /\ AuthorOf[m] # "user"
    BY <1>2 DEF Beats
  <1>3. CASE AuthorOf[k] = AuthorOf[m] /\ Reason(k, m) \in {"newer_timestamp", "current_language"}
    <2>1. Basis(k, m).lead > 0 /\ Reason(k, m) = Basis(k, m).by
      BY <1>3 DEF Reason
    <2>2. CASE TimeOf[k] # TimeOf[m]
      <3>1. Basis(k, m).lead = TimeOf[k] - TimeOf[m]
        BY <1>1, <2>2 DEF Basis
      <3> QED
        BY <1>1, <1>3, <2>1, <3>1 DEF Beats
    <2>3. CASE TimeOf[k] = TimeOf[m]
      <3>1. Basis(k, m).lead = LanguageOf[k] - LanguageOf[m]
        BY <1>1, <2>3 DEF Basis
      <3> QED
        BY <1>1, <1>3, <2>1, <2>3, <3>1 DEF Beats
    <2> QED
      BY <2>2, <2>3
  <1> QED
    BY <1>2, <1>3 DEF Allowed

LEMMA BeatsOrders ==
  ASSUME AllTimesRead
  PROVE  /\ \A k \in Memories : ~Beats(k, k)
         /\ \A j, k, m \in Memories : Beats(j, k) /\ Beats(k, m) => Beats(j, m)
  <1>1. \A k \in Memories : TimeOf[k] \in Int /\ LanguageOf[k] \in Int
    BY HotAssumption DEF AllTimesRead
  <1> QED
    BY <1>1 DEF Beats

\* Sets of numbers have a least one.
LEMMA Least ==
  ASSUME NEW T \in SUBSET Nat, T # {}
  PROVE  \E n \in T : \A k \in T : n <= k
  <1>1. PICK n \in T : \A k \in T : ~ (<<k, n>> \in OpToRel(<, Nat))
    BY NatLessThanWellFounded, WFMin
  <1>2. n \in Nat /\ \A k \in T : k \in Nat
    OBVIOUS
  <1>3. \A k \in T : ~ (k < n)
    BY <1>1, <1>2 DEF OpToRel
  <1>4. \A k \in T : n <= k
    BY <1>2, <1>3
  <1> QED
    BY <1>4

After(M, x) == IF M[x].by = NoMemory THEN x ELSE M[x].by

\* f is the walk of N steps from m along the replacements.
Walks(M, m, N, f) == f = [n \in 0..N |-> IF n = 0 THEN m ELSE After(M, f[n - 1])]

LEMMA WalkExists ==
  ASSUME NEW M, NEW m, NEW N \in Nat
  PROVE  \E f : Walks(M, m, N, f)
  <1> DEFINE T == {n \in Nat : ~\E f : Walks(M, m, n, f)}
  <1> SUFFICES ASSUME T # {} PROVE FALSE
    OBVIOUS
  <1>1. PICK n \in T : \A k \in T : n <= k
    BY Least
  <1>2. n \in Nat /\ ~\E f : Walks(M, m, n, f)
    OBVIOUS
  <1>3. n # 0
    <2> DEFINE f == [i \in 0..0 |-> m]
    <2>1. f = [i \in 0..0 |-> IF i = 0 THEN m ELSE After(M, f[i - 1])]
      OBVIOUS
    <2> QED
      BY <1>2, <2>1 DEF Walks
  <1>4. n - 1 \in Nat /\ n - 1 \notin T
    BY <1>1, <1>2, <1>3
  <1>5. PICK g : Walks(M, m, n - 1, g)
    BY <1>4
  <1> DEFINE f == [i \in 0..n |-> IF i = n THEN After(M, g[n - 1]) ELSE g[i]]
  <1>6. \A i \in 0..(n - 1) : g[i] = IF i = 0 THEN m ELSE After(M, g[i - 1])
    BY <1>5 DEF Walks
  <1>7. \A i \in 0..n : f[i] = IF i = 0 THEN m ELSE After(M, f[i - 1])
    <2>1. ASSUME NEW i \in 0..n, i # 0
          PROVE  f[i] = After(M, f[i - 1])
      <3>1. i - 1 \in 0..n /\ i - 1 # n /\ i - 1 \in 0..(n - 1)
        BY <1>2, <2>1
      <3>2. f[i - 1] = g[i - 1]
        BY <3>1
      <3>3. CASE i = n
        BY <3>2, <3>3
      <3>4. CASE i # n
        <4>1. i \in 0..(n - 1)
          BY <1>2, <3>4
        <4>2. g[i] = After(M, g[i - 1])
          BY <1>6, <2>1, <4>1
        <4> QED
          BY <3>2, <3>4, <4>2
      <3> QED
        BY <3>3, <3>4
    <2>2. 0 \in 0..n /\ 0 \in 0..(n - 1) /\ f[0] = g[0] /\ g[0] = m
      BY <1>2, <1>3, <1>4, <1>6
    <2> QED
      BY <2>1, <2>2
  <1>8. Walks(M, m, n, f)
    BY <1>7 DEF Walks
  <1> QED
    BY <1>2, <1>8

WalkOf(M, m) == CHOOSE f : Walks(M, m, Cardinality(Memories), f)
HeadIn(M, m) == WalkOf(M, m)[Cardinality(Memories)]

LEMMA HeadIs == ASSUME NEW m PROVE Head(m)' = HeadIn(memories', m)
  BY DEF Head, HeadIn, WalkOf, Walks, After

\* Where every replacement goes up in the order, a walk ends before it has passed
\* more memories than there are.
LEMMA ChainEnds ==
  ASSUME AllTimesRead, NEW M, NEW L \in SUBSET Memories, NEW m \in L,
         \A x \in L : M[x].by # NoMemory => M[x].by \in L /\ Beats(M[x].by, x)
  PROVE  HeadIn(M, m) \in L /\ M[HeadIn(M, m)].by = NoMemory
  <1>0. IsFiniteSet(Memories) /\ Cardinality(Memories) \in Nat
    BY HotAssumption, FS_CardinalityType
  <1>1. PICK N \in Nat : N = Cardinality(Memories)
    BY <1>0
  <1>2. PICK f : f = WalkOf(M, m)
    OBVIOUS
  <1>3. Walks(M, m, N, f)
    BY <1>0, <1>1, <1>2, WalkExists DEF WalkOf
  <1>4. /\ f[0] = m /\ DOMAIN f = 0..N
        /\ \A n \in 0..N : n # 0 => f[n] = After(M, f[n - 1])
    BY <1>3 DEF Walks
  <1>5. \A n \in 0..N : f[n] \in L
    <2> DEFINE T == {n \in 0..N : f[n] \notin L}
    <2> SUFFICES ASSUME T # {} PROVE FALSE
      OBVIOUS
    <2>0. T \in SUBSET Nat
      OBVIOUS
    <2>1. PICK n \in T : \A k \in T : n <= k
      BY <2>0, Least
    <2>2. n \in 0..N /\ f[n] \notin L /\ n # 0
      BY <1>4
    <2>3. n - 1 \in 0..N /\ ~(n <= n - 1)
      BY <2>2
    <2>4. f[n - 1] \in L
      BY <2>1, <2>3
    <2> QED
      BY <1>4, <2>2, <2>4 DEF After
  <1>6. M[f[N]].by = NoMemory
    <2> SUFFICES ASSUME M[f[N]].by # NoMemory PROVE FALSE
      OBVIOUS
    <2>1. \A k \in 0..N : M[f[N - k]].by # NoMemory
      <3> DEFINE T == {k \in 0..N : M[f[N - k]].by = NoMemory}
      <3> SUFFICES ASSUME T # {} PROVE FALSE
        OBVIOUS
      <3>0. T \in SUBSET Nat
        OBVIOUS
      <3>1. PICK k \in T : \A j \in T : k <= j
        BY <3>0, Least
      <3>2. k \in 0..N /\ M[f[N - k]].by = NoMemory
        OBVIOUS
      <3>3. k # 0
        BY <3>2
      <3>4. k - 1 \in 0..N /\ ~(k <= k - 1) /\ N - (k - 1) \in 0..N /\ N - (k - 1) # 0
            /\ (N - (k - 1)) - 1 = N - k
        BY <3>2, <3>3
      <3>5. M[f[N - (k - 1)]].by # NoMemory
        BY <3>1, <3>4
      <3>6. f[N - (k - 1)] = After(M, f[N - k])
        BY <1>4, <3>4
      <3> QED
        BY <3>2, <3>5, <3>6 DEF After
    <2>2. \A n \in 0..N : M[f[n]].by # NoMemory
      <3>1. \A n \in 0..N : N - n \in 0..N /\ N - (N - n) = n
        OBVIOUS
      <3> QED
        BY <2>1, <3>1
    <2>3. ASSUME NEW i \in 0..N, NEW j \in 0..N, i < j
          PROVE  Beats(f[j], f[i])
      <3> DEFINE T == {n \in 0..N : i < n /\ ~Beats(f[n], f[i])}
      <3> SUFFICES ASSUME T # {} PROVE FALSE
        BY <2>3
      <3>0. T \in SUBSET Nat
        OBVIOUS
      <3>1. PICK n \in T : \A k \in T : n <= k
        BY <3>0, Least
      <3>2. n \in 0..N /\ i < n /\ ~Beats(f[n], f[i]) /\ n # 0
        OBVIOUS
      <3>3. n - 1 \in 0..N /\ ~(n <= n - 1) /\ (n - 1 = i \/ i < n - 1)
        BY <3>2
      <3>4. Beats(f[n], f[n - 1])
        BY <1>4, <1>5, <2>2, <3>2, <3>3 DEF After
      <3>5. n - 1 = i \/ Beats(f[n - 1], f[i])
        BY <3>1, <3>3
      <3>6. f[n] \in Memories /\ f[n - 1] \in Memories /\ f[i] \in Memories
        BY <1>5, <3>2, <3>3
      <3> QED
        BY <3>2, <3>4, <3>5, <3>6, BeatsOrders
    <2>4. f \in [0..N -> Memories]
      BY <1>3, <1>5 DEF Walks
    <2>5. IsFiniteSet(0..N) /\ Cardinality(0..N) = N + 1
      BY FS_Interval
    <2>6. PICK i \in 0..N, j \in 0..N : i # j /\ f[i] = f[j]
      BY <1>0, <1>1, <2>4, <2>5, FS_PigeonHole
    <2> QED
      BY <1>5, <2>3, <2>6, BeatsOrders
  <1> QED
    BY <1>1, <1>2, <1>5, <1>6 DEF HeadIn

\* Whatever one consolidation replaces, the chain of replacements ends at a live
\* memory, for any number of memories that contradict one another: the decisions
\* that _consolidation_resolution_is_safe leaves to it agree on one order.  This
\* needs that all times can be read; where they cannot, "newer" and "worded as
\* current" decide different pairs.
THEOREM AnswersSurvive == AllTimesRead => (Spec => AnswerSurvives)
  <1> SUFFICES ASSUME AllTimesRead
               PROVE  Spec => AnswerSurvives
    OBVIOUS
  <1>1. ASSUME IInv, [Next]_vars, NEW t \in Threads, NEW m \in Memories,
               At(t, "apply"), memories'[m].by # memories[m].by, threads'[t].pc = "collect"
        PROVE  Live(Head(m))'
    <2>1. Apply(t)
      BY <1>1, Applied DEF vars
    <2>2. /\ threads[t].plan \in SUBSET Pair /\ memories \in Tables
          /\ memories' = Resolved(threads[t].plan)
      BY <1>1, <2>1 DEF IInv, Apply, Commit, Thread
    <2>3. ASSUME NEW x \in Memories, memories'[x].by # memories[x].by
          PROVE  memories'[x].by \in Memories /\ Live(memories'[x].by) /\ Live(x)
                 /\ Beats(memories'[x].by, x)
      <3>1. Conflicts(memories'[x].by, x) /\ Safe(memories'[x].by, x)
        BY <1>1, <2>3, PlanHeld
      <3>2. memories'[x].by \in Memories
        BY <2>2, <2>3, Winner DEF Pair
      <3> QED
        BY <1>1, <3>1, <3>2, AllowedBeats DEF Conflicts, Safe, Allowed
    <2> DEFINE L == {x \in Memories : Live(x)}
    <2>4. \A x \in L : memories'[x].by # NoMemory
                      => memories'[x].by \in L /\ Beats(memories'[x].by, x)
      BY <2>3 DEF Live
    <2>5. m \in L
      BY <1>1, <2>3
    <2>6. PICK h : h = HeadIn(memories', m)
      OBVIOUS
    <2>7. h \in L /\ memories'[h].by = NoMemory
      BY <1>1, <2>4, <2>5, <2>6, ChainEnds
    <2>8. memories'[h].status = memories[h].status
      BY <2>2, <2>7 DEF Resolved, Tables, Memory, NoRow
    <2> QED
      BY <2>6, <2>7, <2>8, HeadIs DEF Live
  <1>2. IInv /\ [Next]_vars =>
           [\A t \in Threads, m \in Memories :
               At(t, "apply") /\ memories'[m].by # memories[m].by
               /\ threads'[t].pc = "collect" => Live(Head(m))']_vars
    BY <1>1
  <1>3. QED
    BY <1>2, InvCorrect, PTL DEF Spec, AnswerSurvives
=============================================================================
