------------------------------ MODULE HotContext ------------------------------
(***************************************************************************)
(* The consolidation of memories and the cache of hot context packs.       *)
(*                                                                         *)
(* A consolidation ("sleep") looks for memories that contradict each       *)
(* other, supersedes the ones it may, and then warms the cache: it         *)
(* assembles the pack of a frequent request and stores it.  A request      *)
(* ("serve") is answered from the cache, or from a pack assembled for it;  *)
(* a prefetch ("warm") stores a pack beside the requests.                  *)
(*                                                                         *)
(* A counter, which triggers advance with every change of the memories,    *)
(* tells a plan or a pack that the memories have changed since.  The       *)
(* transactions of a handler are actions of their own.                     *)
(*                                                                         *)
(* All memories of the model claim a value of one field in one scope, the  *)
(* request is answered from all of them, and a user, an agent or a         *)
(* connector is one principal.                                             *)
(***************************************************************************)
EXTENDS Integers, FiniteSets

CONSTANTS
    Memories,      \* ids, in their order
    NoMemory,
    Values,        \* what a memory says
    NoValue,
    Sleepers,      \* threads that run a consolidation
    Servers,       \* threads that serve requests or warm the cache
    Layers,        \* the layers 1..Layers of a pack are read one after the other
    LayerOf,
    AuthorOf,      \* author_class
    AuthorityOf,   \* _answer_authority_score
    TimeOf,        \* occurred_at or captured_at
    NoTime,        \* a time that cannot be parsed
    LanguageOf,    \* _answer_current_language_score: "now", "updated", ...
    Trusted,       \* memories of a trust of 0.6 or more
    Varying,       \* memories with a valid_from or valid_to, or of a source account
                   \* with a policy: a search may or may not leave them out
    MaxRevision    \* bound of the model: no change of others, and no turn, beyond it

Threads == Sleepers \cup Servers

ASSUME HotAssumption ==
    /\ Sleepers \cap Servers = {}
    /\ IsFiniteSet(Memories) /\ Memories = 1..Cardinality(Memories)
    /\ NoMemory \notin Memories /\ NoValue \notin Values
    /\ Layers \in Nat \ {0}
    /\ LayerOf \in [Memories -> 1..Layers]
    /\ AuthorOf \in [Memories -> {"user", "agent", "connector"}]
    /\ AuthorityOf \in [Memories -> Int]
    /\ NoTime \notin Int
    /\ TimeOf \in [Memories -> Int \cup {NoTime}]
    /\ LanguageOf \in [Memories -> Int]
    /\ Trusted \subseteq Memories
    /\ Varying \subseteq Memories
    /\ MaxRevision \in Nat

VARIABLES
    memories,
    revision,   \* memory_corpus_revisions
    hot,        \* the row of hot_context_packs for the request, with its pack
    threads

vars == <<memories, revision, hot, threads>>

Memory == [status : {"active", "archived"}, value : Values,
           by : Memories \cup {NoMemory}, hidden : BOOLEAN]

NoRow == [status |-> "none", value |-> NoValue, by |-> NoMemory, hidden |-> FALSE]

Saved(v, hidden) == [status |-> "active", value |-> v, by |-> NoMemory, hidden |-> hidden]

\* Whether a filter of the search leaves a saved memory out: it is not valid yet or no
\* longer, or a policy or the review of its capture keeps it back.
Sights(m) == IF m \in Varying THEN BOOLEAN ELSE {FALSE}

Item == [memory : Memories, value : Values]

\* begun and turned are history: the revision when the first layer of the pack was
\* read, and the memories that have come into sight or out of it since, as long as the
\* revision is the same.
Hot == [status : {"none", "active", "stale", "invalid"}, revision : Int,
        pack : SUBSET Item, begun : Int, turned : SUBSET Memories]

NoHot == [status |-> "none", revision |-> -1, pack |-> {}, begun |-> -1, turned |-> {}]

Pair == [current : Memories, stale : Memories, safe : BOOLEAN]

\* seen is history: the items that held at some moment of a request, and
\* whether they were hidden from a search then.
Sighting == [memory : Memories, value : Values, hidden : BOOLEAN]

Thread == [job : {"none", "sleep", "warm", "serve"},
           pc : {"idle", "detect", "judge", "apply", "collect", "label", "write",
                 "load", "row", "check", "stale", "invalid", "hit", "cold"},
           revision : Int, begun : Int, turned : SUBSET Memories,
           layer : 0..Layers, pack : SUBSET Item, plan : SUBSET Pair, seen : SUBSET Sighting]

Idle == [job |-> "none", pc |-> "idle", revision |-> -1, begun |-> -1, turned |-> {},
         layer |-> 0, pack |-> {}, plan |-> {}, seen |-> {}]

\* Active and not superseded: what is searched, if it is not hidden.
Live(m) == memories[m].status = "active" /\ memories[m].by = NoMemory

Held(M) ==
    {[memory |-> m, value |-> M[m].value, hidden |-> M[m].hidden] :
        m \in {k \in Memories : M[k].status = "active" /\ M[k].by = NoMemory}}

At(t, pc) == threads[t].pc = pc

-----------------------------------------------------------------------------
\* Captures have been saved before; no pack is cached.
Init ==
    /\ memories \in [Memories -> {NoRow} \cup {Saved(v, h) : v \in Values, h \in BOOLEAN}]
    /\ \A m \in Memories : memories[m].hidden \in Sights(m)
    /\ revision = 0
    /\ hot = NoHot
    /\ threads = [t \in Threads |-> Idle]

(***************************************************************************)
(* Changes of the memories                                                 *)
(***************************************************************************)

\* The triggers of the table memories.  (The increments of one commit are not
\* told apart, and a row that is written again as it was counts as no change.)
Revised(M) == IF M = memories THEN revision ELSE revision + 1

\* A commit, which the requests under way may see.
Commit(M, ts) ==
    /\ memories' = M
    /\ revision' = Revised(M)
    /\ threads' = [t \in Threads |->
          IF ts[t].job = "serve" THEN [ts[t] EXCEPT !.seen = @ \cup Held(M)] ELSE ts[t]]
    /\ hot' = hot

Superseded(M, stale, current) == [M EXCEPT ![stale].by = current]

\* INSERT OR REPLACE: a memory that is saved again is active, whatever replaced it.
Save(m, v) ==
    \E h \in Sights(m) : Commit([memories EXCEPT ![m] = Saved(v, h)], threads)

Archive(m) ==
    /\ memories[m].status # "none"
    /\ Commit([memories EXCEPT ![m].status = "archived"], threads)

Forget(m) ==
    /\ memories[m].status # "none"
    /\ Commit([memories EXCEPT ![m] = NoRow], threads)

\* resolve_conflict, by a user or an agent.
Resolve(stale, current) ==
    /\ stale # current
    /\ memories[stale].status # "none" /\ memories[current].status # "none"
    /\ ~ (AuthorOf[stale] = "user" /\ AuthorOf[current] = "agent")
    /\ Commit(Superseded(memories, stale, current), threads)

Turned(m) == [memories EXCEPT ![m].hidden = ~ @]

\* The review status of its capture, or a setting of the user, brings a memory into
\* sight or takes it out: both have triggers.  (It matters to live memories only.)
Reconsider(m) ==
    /\ m \in Varying /\ Live(m)
    /\ Commit(Turned(m), threads)

Noted(p, m) == IF p.begun = revision THEN [p EXCEPT !.turned = @ \cup {m}] ELSE p

\* The same without a trigger: valid_from or valid_to passes, or upsert_source_account
\* rewrites the policy of its account.
Turn(m) ==
    /\ m \in Varying /\ Live(m)
    /\ memories' = Turned(m)
    /\ hot' = Noted(hot, m)
    /\ threads' = [t \in Threads |->
          IF threads[t].job = "serve" THEN [threads[t] EXCEPT !.seen = @ \cup Held(Turned(m))]
          ELSE Noted(threads[t], m)]
    /\ UNCHANGED revision

(***************************************************************************)
(* Consolidation                                                           *)
(***************************************************************************)

\* What decides between two memories of one field, by their times where both can be
\* read and differ, and how far it is in favour of the first.
Basis(m, k) ==
    IF TimeOf[m] # NoTime /\ TimeOf[k] # NoTime /\ TimeOf[m] # TimeOf[k]
    THEN [by |-> "newer_timestamp", lead |-> TimeOf[m] - TimeOf[k]]
    ELSE [by |-> "current_language", lead |-> LanguageOf[m] - LanguageOf[k]]

\* Why the one is current and the other stale (_answer_current_item), "none" where
\* it is not.
Reason(current, stale) ==
    LET authority == AuthorityOf[current] - AuthorityOf[stale]
        basis == Basis(current, stale)
    IN  CASE authority >= 3 -> "trusted_canonical_source"
          [] authority <= -3 -> "none"
          [] basis.lead > 0 -> basis.by
          [] basis.lead < 0 -> "none"
          [] OTHER -> IF current < stale THEN "ranking_order" ELSE "none"

\* detect_conflicts
Conflicts(current, stale) ==
    /\ Live(current) /\ Live(stale)
    /\ memories[current].value # memories[stale].value
    /\ Reason(current, stale) # "none"

\* Mutant: a canonical source wins by itself.
SafeByAnyReason(current, stale) ==
    /\ memories[current].status # "none" /\ memories[stale].status # "none"
    /\ current \in Trusted
    /\ \/ AuthorOf[current] = AuthorOf[stale] /\ Reason(current, stale) # "ranking_order"
       \/ AuthorOf[current] = "user"

\* _consolidation_resolution_is_safe: the newer of two claims of one author, or a
\* user's over a machine's.
Safe(current, stale) ==
    /\ memories[current].status # "none" /\ memories[stale].status # "none"
    /\ current \in Trusted
    /\ \/ /\ AuthorOf[current] = AuthorOf[stale]
          /\ Reason(current, stale) \in {"newer_timestamp", "current_language"}
       \/ AuthorOf[current] = "user" /\ AuthorOf[stale] # "user"

Sleep(t) ==
    /\ At(t, "idle")
    /\ threads' = [threads EXCEPT ![t] =
          [@ EXCEPT !.job = "sleep", !.pc = "detect", !.revision = revision]]
    /\ UNCHANGED <<memories, revision, hot>>

Detect(t) ==
    /\ At(t, "detect")
    /\ threads' = [threads EXCEPT ![t] = [@ EXCEPT !.pc = "judge",
          !.plan = {p \in Pair : Conflicts(p.current, p.stale) /\ ~ p.safe}]]
    /\ UNCHANGED <<memories, revision, hot>>

\* The conflicts are judged one by one; a change in between is as good as one
\* before or after, since the revision has moved either way.
Judge(t) ==
    /\ At(t, "judge")
    /\ threads' = [threads EXCEPT ![t] = [@ EXCEPT !.pc = "apply",
          !.plan = {[p EXCEPT !.safe = Safe(p.current, p.stale)] : p \in threads[t].plan}]]
    /\ UNCHANGED <<memories, revision, hot>>

\* The decisions are taken in the order of the current memory, so that the last
\* one stays.
Resolved(plan) ==
    [m \in Memories |->
        LET winners == {p.current : p \in {q \in plan : q.safe /\ q.stale = m}}
        IN  IF winners = {} \/ memories[m].status = "none" THEN memories[m]
            ELSE [memories[m] EXCEPT
                    !.by = CHOOSE w \in winners : \A x \in winners : w >= x]]

\* Mutant: the revision is not compared.
PlanTaken(t) == threads[t].revision >= 0

\* "The corpus-revision comparison prevents applying a plan to concurrently changed
\* data."
PlanCurrent(t) == threads[t].revision = revision

Apply(t) ==
    /\ At(t, "apply")
    /\ PlanCurrent(t)
    /\ Commit(Resolved(threads[t].plan),
              [threads EXCEPT ![t] = [Idle EXCEPT !.job = "sleep", !.pc = "collect", !.layer = 1]])

\* The revision has moved, or a decision fails: everything is rolled back.
Abandon(t) ==
    /\ At(t, "apply")
    /\ threads' = [threads EXCEPT ![t] = Idle]
    /\ UNCHANGED <<memories, revision, hot>>

(***************************************************************************)
(* Packs                                                                   *)
(***************************************************************************)

\* Mutant: the filter on superseded memories is missing.
FoundReplaced(layer) ==
    {[memory |-> m, value |-> memories[m].value] :
        m \in {k \in Memories : /\ LayerOf[k] = layer
                                /\ memories[k].status = "active" /\ ~ memories[k].hidden}}

\* What a search of a layer finds (_memory_filters).
Found(layer) ==
    {[memory |-> m, value |-> memories[m].value] :
        m \in {k \in Memories : LayerOf[k] = layer /\ Live(k) /\ ~ memories[k].hidden}}

\* assemble_context reads layer by layer.
Collect(t) ==
    LET th == threads[t] IN
    /\ At(t, "collect") /\ th.layer <= Layers
    /\ threads' = [threads EXCEPT ![t] = [@ EXCEPT
          !.pack = th.pack \cup Found(th.layer),
          !.begun = IF th.layer = 1 /\ th.job # "serve" THEN revision ELSE th.begun,
          !.layer = IF th.layer = Layers THEN 0 ELSE th.layer + 1,
          !.pc = IF th.layer < Layers THEN "collect"
                 ELSE IF th.job = "serve" THEN "cold" ELSE "label"]]
    /\ UNCHANGED <<memories, revision, hot>>

\* "Hot context packs require at least one cited item."
WorthStoring(pack) == pack # {}

\* _store_hot_context_pack pins the pack and reads the revision that it writes
\* down in a transaction of its own.
Label(t) ==
    /\ At(t, "label")
    /\ threads' = [threads EXCEPT ![t] =
          IF WorthStoring(@.pack) THEN [@ EXCEPT !.revision = revision, !.pc = "write"]
          ELSE Idle]
    /\ UNCHANGED <<memories, revision, hot>>

\* A consolidation then reads back what it has stored.
Write(t) ==
    /\ At(t, "write")
    /\ hot' = [status |-> "active", revision |-> threads[t].revision,
               pack |-> threads[t].pack, begun |-> threads[t].begun,
               turned |-> threads[t].turned]
    /\ threads' = [threads EXCEPT ![t] =
          IF @.job = "sleep" THEN [Idle EXCEPT !.job = "sleep", !.pc = "load"] ELSE Idle]
    /\ UNCHANGED <<memories, revision>>

(***************************************************************************)
(* Requests and prefetches                                                 *)
(***************************************************************************)

Ask(t, job) ==
    /\ At(t, "idle")
    /\ threads' = [threads EXCEPT ![t] = [Idle EXCEPT !.job = job, !.pc = "load",
          !.seen = IF job = "serve" THEN Held(memories) ELSE {}]]
    /\ UNCHANGED <<memories, revision, hot>>

\* What a thread does when the cache has nothing for it.
Missed(th) ==
    IF th.job = "sleep" THEN Idle
    ELSE [th EXCEPT !.pc = "collect", !.layer = 1, !.revision = -1]

Load(t) ==
    /\ At(t, "load")
    /\ threads' = [threads EXCEPT ![t] = [@ EXCEPT !.revision = revision, !.pc = "row"]]
    /\ UNCHANGED <<memories, revision, hot>>

ReadRow(t) ==
    /\ At(t, "row")
    /\ threads' = [threads EXCEPT ![t] =
          IF hot.status # "active" THEN Missed(@)
          ELSE IF hot.revision # @.revision THEN [@ EXCEPT !.pc = "stale", !.revision = -1]
          ELSE [@ EXCEPT !.pc = "check", !.pack = hot.pack, !.revision = -1]]
    /\ UNCHANGED <<memories, revision, hot>>

\* Mutant: the revision is trusted.
PackCitesMemories(pack) == \A item \in pack : item.memory \in Memories

\* _cached_pack_is_current
PackIsCurrent(pack) == \A item \in pack : Live(item.memory)

\* The pinned pack is read and its citations are looked up.
CheckPack(t) ==
    /\ At(t, "check")
    /\ threads' = [threads EXCEPT ![t] =
          IF ~ PackIsCurrent(@.pack) THEN [@ EXCEPT !.pc = "stale", !.pack = {}]
          ELSE IF @.job = "serve" THEN [@ EXCEPT !.pc = "hit"]
          ELSE Idle]
    /\ UNCHANGED <<memories, revision, hot>>

\* External: the file of the pack has been removed or altered.
PackUnreadable(t) ==
    /\ At(t, "check")
    /\ threads' = [threads EXCEPT ![t] = [@ EXCEPT !.pc = "invalid", !.pack = {}]]
    /\ UNCHANGED <<memories, revision, hot>>

\* The row is marked by its key, whatever has been written to it since.  What a
\* marked row holds is never read again, and left out.
Mark(t, status) ==
    /\ At(t, status) /\ status \in {"stale", "invalid"}
    /\ hot' = [NoHot EXCEPT !.status = status]
    /\ threads' = [threads EXCEPT ![t] = Missed(@)]
    /\ UNCHANGED <<memories, revision>>

\* The answer leaves.
Return(t) ==
    /\ At(t, "hit") \/ At(t, "cold")
    /\ threads' = [threads EXCEPT ![t] = Idle]
    /\ UNCHANGED <<memories, revision, hot>>

\* The process dies, or a later step of the handler raises.
Crash(t) ==
    /\ ~ At(t, "idle")
    /\ threads' = [threads EXCEPT ![t] = Idle]
    /\ UNCHANGED <<memories, revision, hot>>

-----------------------------------------------------------------------------
Change ==
    /\ revision < MaxRevision
    /\ \/ \E m \in Memories, v \in Values : Save(m, v)
       \/ \E m \in Memories : Archive(m) \/ Forget(m) \/ Reconsider(m) \/ Turn(m)
       \/ \E stale, current \in Memories : Resolve(stale, current)

Consolidate(t) == Sleep(t) \/ Detect(t) \/ Judge(t) \/ Apply(t) \/ Abandon(t)

Step(t) ==
    \/ Collect(t) \/ Label(t) \/ Write(t)
    \/ Load(t) \/ ReadRow(t) \/ CheckPack(t) \/ PackUnreadable(t)
    \/ \E status \in {"stale", "invalid"} : Mark(t, status)
    \/ Return(t) \/ Crash(t)

Next ==
    \/ Change
    \/ \E t \in Sleepers : Consolidate(t)
    \/ \E t \in Servers, job \in {"warm", "serve"} : Ask(t, job)
    \/ \E t \in Threads : Step(t)

Spec == Init /\ [][Next]_vars

-----------------------------------------------------------------------------
(***************************************************************************)
(* Properties                                                              *)
(***************************************************************************)

\* Types; what is cached cites something, and a label is not from the future.
TypeOK ==
    /\ memories \in [Memories -> Memory \cup {NoRow}]
    /\ revision \in Nat
    /\ hot \in Hot
    /\ threads \in [Threads -> Thread]
    /\ hot.status = "active" => hot.pack # {} /\ hot.begun <= hot.revision
    /\ hot.revision <= revision

\* "Superseded facts are never served": what an answer cites was active and not
\* superseded at some moment of the request; and what an answer assembled for the
\* request says was said, and in sight of a search, at some moment of it.
ServedWasLive ==
    \A t \in Threads :
        /\ At(t, "hit") => \A item \in threads[t].pack :
              \E s \in threads[t].seen : s.memory = item.memory
        /\ At(t, "cold") => \A item \in threads[t].pack :
              [memory |-> item.memory, value |-> item.value, hidden |-> FALSE] \in threads[t].seen

\* A pack whose memories did not change between the first search and the label
\* is, as long as the cache would serve it, what a search would find: nothing new
\* is missing, and nothing edited, replaced or hidden is in it.  Excepted are the
\* memories that came into or out of sight since the first search with no trigger
\* (by time or by the policy of an account): those the revision does not tell of
\* (see the README).
HotIsFaithful ==
    hot.status = "active" /\ hot.revision = revision /\ hot.begun = revision =>
        /\ \A m \in Memories \ hot.turned : Live(m) /\ ~ memories[m].hidden =>
              [memory |-> m, value |-> memories[m].value] \in hot.pack
        /\ \A item \in hot.pack :
              /\ Live(item.memory) /\ item.value = memories[item.memory].value
              /\ memories[item.memory].hidden => item.memory \in hot.turned

\* A consolidation supersedes a memory only by one that contradicts it at that
\* moment, and only where it may decide by itself.
PlanStillHolds ==
    [][\A t \in Threads, m \in Memories :
          At(t, "apply") /\ memories'[m].by # memories[m].by
          /\ threads'[t].pc = "collect" =>
              Conflicts(memories'[m].by, m) /\ Safe(memories'[m].by, m)]_vars

\* _resolve_active_head: where the chain of replacements of a memory ends.
Head(m) ==
    LET walk[n \in 0..Cardinality(Memories)] ==
          IF n = 0 THEN m
          ELSE IF memories[walk[n - 1]].by = NoMemory THEN walk[n - 1]
          ELSE memories[walk[n - 1]].by
    IN  walk[Cardinality(Memories)]

\* The decisions of one consolidation never supersede each other's winners in a
\* circle: whoever was replaced, the chain of replacements ends at a live memory.
\* "... so agents only ever see the current fact" (resolve_conflict); this needs that
\* all times can be read (see the README).
AnswerSurvives ==
    [][\A t \in Threads, m \in Memories :
          At(t, "apply") /\ memories'[m].by # memories[m].by
          /\ threads'[t].pc = "collect" => Live(Head(m))']_vars

-----------------------------------------------------------------------------
(***************************************************************************)
(* What the comments say and the code does not keep (see the README)       *)
(***************************************************************************)

\* "Every served hot pack is content-hash verified, revision-current, ...": what a
\* pack from the cache says held, and was in sight, at some moment of the request.
HitIsCurrent ==
    \A t \in Threads : At(t, "hit") =>
        \A item \in threads[t].pack :
            [memory |-> item.memory, value |-> item.value, hidden |-> FALSE]
                \in threads[t].seen

=============================================================================
