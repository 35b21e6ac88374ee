---------------------------- MODULE AgentSession ----------------------------
(***************************************************************************)
(* One session of an agent: the working set that turns its context packs   *)
(* into deltas, the packs that are pinned to it, and its checkpoints.      *)
(*                                                                         *)
(* A context request reads the row of the working set, looks up which      *)
(* memories have been superseded, writes the row and answers: each of them *)
(* is a transaction of its own, and so are the steps of a checkpoint and   *)
(* of a resume.  The trajectory and its centroid only choose what a        *)
(* prefetch warms; they are left out, as is the relevance of a citation.   *)
(***************************************************************************)
EXTENDS Integers, FiniteSets, SequencesExt

CONSTANTS
    Memories,
    NoMemory,
    Requests,         \* requests of the session that are served at the same time
    Ttl,              \* SESSION_EVICTION_TTL_TURNS, 4 in the code
    KnownCap,         \* SESSION_KNOWN_CAP, 512 in the code
    HeadDepth,        \* 16 in the code: supersessions that are followed
    ReplayCap,        \* 100 in the code: pinned packs that a resume replays
    MaxBegun,         \* bound of the model: packs and checkpoints begun
    MaxMishaps        \* bound of the model: requests that die or fail

ASSUME SessionAssumption ==
    /\ IsFiniteSet(Memories)
    /\ NoMemory \notin Memories
    /\ Ttl \in Nat \ {0} /\ KnownCap \in Nat \ {0} /\ HeadDepth \in Nat
    /\ ReplayCap \in Nat \ {0}
    /\ MaxBegun \in Nat /\ MaxMishaps \in Nat

VARIABLES
    supersededBy,  \* memories.superseded_by
    inactive,      \* memories whose status is not active
    row,           \* session_working_set of the session
    packs,         \* context_packs linked to the session, oldest first
    status,        \* agent_sessions.status
    recorded,      \* events "checkpoint" of the session
    checkpoints,   \* the checkpoint that each episode holds, 0 for none
    work,          \* what each request has read and does next
    told,          \* history: what the deltas have announced and the server still knows
    idle,          \* history: turns recorded since each memory was last cited
    raced,         \* history: what overlapping requests have disturbed
    served, begun, mishaps

sessionVars == <<supersededBy, inactive, row, packs, status, recorded, checkpoints, work,
          told, idle, raced, served, begun, mishaps>>

Turns == 0 .. MaxBegun

\* known: the turn at which each memory was last served, 0 when it is not known.
WorkingSet == [known : [Memories -> Turns], turn : Turns, cursor : Turns]
Fresh == [known |-> [m \in Memories |-> 0], turn |-> 0, cursor |-> 0]

Delta == [new : SUBSET Memories, evicted : SUBSET Memories,
          superseded : [Memories -> Memories \cup {NoMemory}], gone : SUBSET Memories]
NoDelta == [new |-> {}, evicted |-> {}, superseded |-> [m \in Memories |-> NoMemory],
            gone |-> {}]

Work == [at : {"idle", "look", "save", "pin", "answer", "rehydrate", "seed",
               "check.save", "check.record"},
         cited : SUBSET Memories, seen : WorkingSet, next : WorkingSet, delta : Delta,
         index : 0 .. MaxBegun + 1, content : 0 .. MaxBegun]
NoCall == [at |-> "idle", cited |-> {}, seen |-> Fresh, next |-> Fresh, delta |-> NoDelta,
         index |-> 0, content |-> 0]

Known(w)      == {m \in Memories : w.known[m] > 0}
Superseded(m) == supersededBy[m] # NoMemory
Active        == {m \in Memories : m \notin inactive /\ ~Superseded(m)}

\* _resolve_active_head
ActiveHead(m) ==
    LET walk[d \in 0 .. HeadDepth] ==
            [n \in Memories |->
                IF ~Superseded(n) THEN IF n \in inactive THEN NoMemory ELSE n
                ELSE IF d = 0 THEN NoMemory ELSE walk[d - 1][supersededBy[n]]]
    IN  walk[HeadDepth][m]

SessionInit ==
    /\ supersededBy = [m \in Memories |-> NoMemory]
    /\ inactive = {}
    /\ row = Fresh
    /\ packs = <<>>
    /\ status = "active"
    /\ recorded = 0
    /\ checkpoints = [i \in 1 .. MaxBegun |-> 0]
    /\ work = [r \in Requests |-> NoCall]
    /\ told = {}
    /\ idle = [m \in Memories |-> 0]
    /\ raced = {}
    /\ served = 0 /\ begun = 0 /\ mishaps = 0

\* Another request of the session is being served or resumed.
Overlap(r) ==
    IF \E q \in Requests \ {r} :
          work[q].at \in {"look", "save", "pin", "answer", "rehydrate", "seed"}
    THEN {"overlap"} ELSE {}

At(r, label)   == work[r].at = label
Goes(r, next)  == work' = [work EXCEPT ![r] = next]
Then(r, label) == Goes(r, [work[r] EXCEPT !.at = label])

TheMemories    == <<supersededBy, inactive>>
TheCheckpoints == <<status, recorded, checkpoints, begun>>
TheDeltas      == <<row, told, idle, served>>

(***************************************************************************)
(* Memories change beside the session                                      *)
(***************************************************************************)
Supersede(m, n) ==
    /\ {m, n} \subseteq Active /\ m # n
    /\ supersededBy' = [supersededBy EXCEPT ![m] = n]
    /\ UNCHANGED <<inactive, TheDeltas, packs, TheCheckpoints, work, raced, mishaps>>

Archive(m) ==
    /\ m \in Active
    /\ inactive' = inactive \cup {m}
    /\ UNCHANGED <<supersededBy, TheDeltas, packs, TheCheckpoints, work, raced, mishaps>>

(***************************************************************************)
(* A context request                                                       *)
(***************************************************************************)
\* The pack is built and the working set is loaded.
Load(r, cited) ==
    /\ At(r, "idle")
    /\ served + begun < MaxBegun
    /\ cited \subseteq Active
    /\ served' = served + 1
    /\ Goes(r, [NoCall EXCEPT !.at = "look", !.cited = cited, !.seen = row])
    /\ raced' = raced \cup Overlap(r)
    /\ UNCHANGED <<TheMemories, row, told, idle, packs, TheCheckpoints, mishaps>>

Stale(r)   == {m \in Known(work[r].seen) \cup work[r].cited : Superseded(m)}
Gone(r)    == Stale(r) \cap Known(work[r].seen)

\* Mutant: a known memory is announced again.
NewAgain(r) == work[r].cited \ Stale(r)

New(r) == work[r].cited \ (Stale(r) \cup Known(work[r].seen))

\* Mutant: one turn too early.
EvictedEarly(r) ==
    {m \in Known(work[r].seen) \ (work[r].cited \cup Stale(r)) :
        work[r].seen.turn + 2 - work[r].seen.known[m] >= Ttl}

Evicted(r) ==
    {m \in Known(work[r].seen) \ (work[r].cited \cup Stale(r)) :
        work[r].seen.turn + 1 - work[r].seen.known[m] >= Ttl}

\* The head is named only when the session has it.
Replacement(r, m) ==
    IF ActiveHead(m) \in work[r].cited \cup Known(work[r].seen) THEN ActiveHead(m) ELSE NoMemory

\* known before the cap: what is forgotten leaves, what is cited is of this turn.
NextKnown(r) ==
    [m \in Memories |->
        IF m \in work[r].cited THEN work[r].seen.turn + 1
        ELSE IF m \in Evicted(r) \cup Gone(r) THEN 0
        ELSE work[r].seen.known[m]]

\* The KnownCap memories that were served last.
Newest(known, kept) ==
    LET all == {m \in Memories : known[m] > 0}
    IN  /\ kept \subseteq all
        /\ Cardinality(kept) = IF Cardinality(all) > KnownCap THEN KnownCap ELSE Cardinality(all)
        /\ \A m \in kept, n \in all \ kept : known[m] >= known[n]

\* _session_supersessions and the rest of _compute_working_memory_delta.
Look(r, kept) ==
    LET known == NextKnown(r)
        seen == work[r].seen
    IN  /\ At(r, "look")
        /\ Newest(known, kept)
        /\ Goes(r, [work[r] EXCEPT
              !.at = "save",
              !.next = [known |-> [m \in Memories |-> IF m \in kept THEN known[m] ELSE 0],
                        turn |-> seen.turn + 1, cursor |-> seen.cursor + 1],
              !.delta = [new |-> New(r), evicted |-> Evicted(r), gone |-> Gone(r),
                         superseded |-> [m \in Memories |-> IF m \in Gone(r) THEN Replacement(r, m)
                                                            ELSE NoMemory]]])
        /\ UNCHANGED <<TheMemories, TheDeltas, packs, TheCheckpoints, raced, mishaps>>

\* INSERT ... ON CONFLICT DO UPDATE: whatever another request wrote is lost.
Save(r) ==
    /\ At(r, "save")
    /\ row' = work[r].next
    /\ told' = told \cap Known(work[r].next)
    /\ idle' = [m \in Memories |-> IF m \in work[r].cited THEN 0 ELSE idle[m] + 1]
    /\ Goes(r, [NoCall EXCEPT !.at = "pin", !.cited = work[r].cited, !.delta = work[r].delta,
                            !.seen = work[r].next])
    /\ UNCHANGED <<TheMemories, served, packs, TheCheckpoints, raced, mishaps>>

\* The delta fails (a locked database): the answer goes without one.
NoWorkingMemory(r) ==
    /\ work[r].at \in {"look", "save"}
    /\ mishaps < MaxMishaps
    /\ mishaps' = mishaps + 1
    /\ Goes(r, [NoCall EXCEPT !.at = "pin", !.cited = work[r].cited])
    /\ UNCHANGED <<TheMemories, TheDeltas, packs, TheCheckpoints, raced>>

\* pin_context_pack: a pack with the same bytes (`again`), of this session or of
\* another one, is not pinned twice.
Pin(r, again) ==
    /\ At(r, "pin")
    /\ packs' = IF again THEN packs ELSE Append(packs, work[r].cited)
    /\ Goes(r, [work[r] EXCEPT !.at = "answer", !.cited = {}])
    /\ UNCHANGED <<TheMemories, TheDeltas, TheCheckpoints, raced, mishaps>>

\* The request did not ask for a pin, or its pack is pinned.
Answer(r) ==
    /\ work[r].at \in {"pin", "answer"}
    /\ told' = told \cup (work[r].delta.new \cap Known(work[r].seen))
    /\ Goes(r, NoCall)
    /\ UNCHANGED <<TheMemories, row, idle, served, packs, TheCheckpoints, raced, mishaps>>

(***************************************************************************)
(* Resuming the session in a fresh conversation                            *)
(***************************************************************************)
\* The last pinned packs are read, oldest first, and then the working set.
Rehydrate(r) ==
    LET left == IF Len(packs) > ReplayCap THEN Len(packs) - ReplayCap ELSE 0
        Citing(m) == {i \in left + 1 .. Len(packs) : m \in packs[i]}
        known == [m \in Memories |-> IF Citing(m) = {} THEN 0 ELSE Max(Citing(m)) - left]
    IN  /\ At(r, "idle")
        /\ Goes(r, [NoCall EXCEPT !.at = "rehydrate",
                       !.next = [known |-> known, turn |-> Len(packs) - left, cursor |-> 0]])
        /\ raced' = raced \cup Overlap(r)
        /\ UNCHANGED <<TheMemories, TheDeltas, packs, TheCheckpoints, mishaps>>

\* The packs are answered; they seed the working set unless it has a cursor.
ResumeLoad(r) ==
    /\ At(r, "rehydrate")
    /\ IF row.cursor = 0 /\ Known(work[r].next) # {}
       THEN Goes(r, [work[r] EXCEPT !.at = "seed", !.seen = row])
       ELSE Goes(r, NoCall)
    /\ UNCHANGED <<TheMemories, TheDeltas, packs, TheCheckpoints, raced, mishaps>>

\* From then on the packs are the turns of the session.
ResumeSeed(r) ==
    LET next == work[r].next
    IN  /\ At(r, "seed")
        /\ row' = next
        /\ told' = Known(next)
        /\ idle' = [m \in Memories |-> IF m \in Known(next) THEN next.turn - next.known[m]
                                       ELSE idle[m]]
        /\ Goes(r, NoCall)
        /\ UNCHANGED <<TheMemories, served, packs, TheCheckpoints, raced, mishaps>>

(***************************************************************************)
(* Checkpoints                                                             *)
(***************************************************************************)
\* The session is read, and its checkpoints are counted.
CheckpointRead(r) ==
    /\ At(r, "idle")
    /\ served + begun < MaxBegun
    /\ status # "closed"
    /\ begun' = begun + 1
    /\ Goes(r, [NoCall EXCEPT !.at = "check.save", !.index = recorded + 1, !.content = begun + 1])
    /\ UNCHANGED <<TheMemories, TheDeltas, packs, status, recorded, checkpoints, raced, mishaps>>

\* save_capture under an id made of the index: an upsert.
CheckpointSave(r) ==
    /\ At(r, "check.save")
    /\ checkpoints' = [checkpoints EXCEPT ![work[r].index] = work[r].content]
    /\ Then(r, "check.record")
    /\ UNCHANGED <<TheMemories, TheDeltas, packs, status, recorded, begun, raced,
                   mishaps>>

\* The status is written whatever it is now, and the event is counted next time.
CheckpointRecord(r) ==
    /\ At(r, "check.record")
    /\ status' = "active"
    /\ recorded' = recorded + 1
    /\ Goes(r, NoCall)
    /\ UNCHANGED <<TheMemories, TheDeltas, packs, checkpoints, begun, raced, mishaps>>

Close(r) ==
    /\ At(r, "idle")
    /\ status # "closed"
    /\ status' = "closed"
    /\ UNCHANGED <<TheMemories, TheDeltas, packs, recorded, checkpoints, begun, work,
                   raced, mishaps>>

\* The server stops, or the pin is refused: the request is not answered.
Die(r) ==
    /\ ~At(r, "idle")
    /\ mishaps < MaxMishaps
    /\ mishaps' = mishaps + 1
    /\ Goes(r, NoCall)
    /\ UNCHANGED <<TheMemories, TheDeltas, packs, TheCheckpoints, raced>>

-----------------------------------------------------------------------------
Serve(r) ==
    \/ \E cited \in SUBSET Memories : Load(r, cited)
    \/ \E kept \in SUBSET Memories : Look(r, kept)
    \/ \E again \in BOOLEAN : Pin(r, again)
    \/ Save(r) \/ NoWorkingMemory(r) \/ Answer(r)

Resume(r)     == Rehydrate(r) \/ ResumeLoad(r) \/ ResumeSeed(r)
Checkpoint(r) == CheckpointRead(r) \/ CheckpointSave(r) \/ CheckpointRecord(r) \/ Close(r)

SessionNext ==
    \/ \E r \in Requests : Serve(r) \/ Resume(r) \/ Checkpoint(r) \/ Die(r)
    \/ \E m, n \in Memories : Supersede(m, n)
    \/ \E m \in Memories : Archive(m)

SessionSpec == SessionInit /\ [][SessionNext]_sessionVars

-----------------------------------------------------------------------------
(***************************************************************************)
(* Properties                                                              *)
(***************************************************************************)
SessionTypeOK ==
    /\ supersededBy \in [Memories -> Memories \cup {NoMemory}]
    /\ inactive \subseteq Memories
    /\ row \in WorkingSet
    /\ packs \in Seq(SUBSET Memories)
    /\ status \in {"active", "closed"}
    /\ recorded \in 0 .. MaxBegun
    /\ checkpoints \in [1 .. MaxBegun -> 0 .. MaxBegun]
    /\ work \in [Requests -> Work]
    /\ told \subseteq Memories
    /\ idle \in [Memories -> Nat]
    /\ raced \subseteq {"overlap"}
    /\ served \in 0 .. MaxBegun
    /\ begun \in 0 .. MaxBegun
    /\ mishaps \in 0 .. MaxMishaps

\* A memory that a delta has announced is not announced again while the
\* server knows it (until it is evicted, superseded or pushed out by the cap),
\* unless requests of the session overlapped: answers and deltas that are lost,
\* resumes and supersessions do not bring it back (delta_no_resend in
\* docs/CMP_PROTOCOL.md; storage.py, _compute_working_memory_delta).
NoResend ==
    \A r \in Requests :
        (work[r].at \in {"pin", "answer"} /\ "overlap" \notin raced) =>
            work[r].delta.new \cap told = {}

\* A memory is evicted only when the last Ttl turns of the session, this one
\* included, have not cited it; lost answers, resumes and failures of the
\* delta do not change that, only overlapping requests do (eviction_soundness
\* in docs/CMP_PROTOCOL.md).
EvictionSound ==
    \A r \in Requests :
        (At(r, "save") /\ "overlap" \notin raced) =>
            \A m \in work[r].delta.evicted : idle[m] + 1 >= Ttl

\* The "monotonic per-session delta counter" of the working set never goes
\* back (docs/CMP_PROTOCOL.md, cursor; storage.py, _save_session_working_set).
CursorMonotonic == [][row'.cursor >= row.cursor]_sessionVars
=============================================================================
