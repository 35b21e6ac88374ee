------------------------------- MODULE Vault -------------------------------
(***************************************************************************)
(* The vault (vault.py) and the index (storage.py).  A memory is a row of  *)
(* the index, a JSON record and a Markdown note in the vault's memories    *)
(* folder; a deletion leaves a tombstone file there and one in the index.  *)
(* Notes are the source of truth: the user edits, adds and deletes them in *)
(* an editor, and a reconciliation brings the index in line, a missing     *)
(* note being a deletion.  A rebuild replaces the index by what the vault  *)
(* holds, and a restore puts a backup's folders in the place of the live   *)
(* ones and rebuilds.                                                      *)
(*                                                                         *)
(* SQLite shares no transaction with the files: a writer holds the         *)
(* database while it writes them and commits afterwards, and a reader of   *)
(* files holds nothing.  So files and rows interleave between the steps of *)
(* threads, and a crash may fall between any two of them.                  *)
(***************************************************************************)
EXTENDS Naturals, FiniteSets

CONSTANTS
    Memories,
    Handmade,   \* memories that begin as a note the user writes; the others are saved by captures
    Texts,      \* what a memory may say; a note of another text has another file name
    None,       \* no row, no record, no note
    Garbled,    \* a note that cannot be parsed
    Threads,
    MassMin,    \* mass_delete_min (10 in the code)
    MaxCalls, MaxEdits, MaxFaults  \* bounds: requests, acts of the user, failures

ASSUME VaultAssumption ==
    /\ Handmade \subseteq Memories /\ IsFiniteSet(Memories)
    /\ None # Garbled /\ None \notin Threads \cup Memories /\ {None, Garbled} \cap Texts = {}
    /\ MassMin \in Nat \ {0} /\ MaxCalls \in Nat /\ MaxEdits \in Nat /\ MaxFaults \in Nat

VARIABLES
    rows,       \* memories of the index
    tombstoned, \* sync_tombstones of the index
    records,    \* memories/<kind>/<id>.json
    notes,      \* memories/<layer>/<slug>--<short id>.md
    misnamed,   \* notes under a file name of the user's, which the id does not give
    graves,     \* deletion_tombstones/
    present,    \* whether memories/ exists
    migrated,   \* markdown_backfilled_users of manifest.json has the user
    bare,       \* no record of any kind was ever written into the vault
    away,       \* files of memories/ that a drive or a sync client keeps back
    backup,     \* the latest backup
    work,       \* what each thread has read and does next
    writer,     \* the thread whose transaction holds the database
    up,         \* whether the server runs
    calm,       \* history: threads that nobody has disturbed since they began
    marks,      \* history: what befell each memory
    calls, edits, faults

index == <<rows, tombstoned>>
files == <<records, notes, misnamed, graves, present, migrated, bare>>
vaultVars ==
    <<index, files, away, backup, work, writer, up, calm, marks, calls, edits, faults>>

Nothing == [m \in Memories |-> None]
Row  == Texts \cup {None}
Note == Row \cup {Garbled}
\* asked: the user or a request deleted it; unwritten: a record stood without a
\* note; halfway: its save died; stray: a record without row and note; moving: it
\* was saved while a reconciliation decided; swept: its note was kept back;
\* misnamed: deleted under a name of the user's; restored: rows and files were of
\* two vaults, in a restore; raced: a deletion or a return fell into a rebuild;
\* torn: a restore died or failed after its swap; unrecorded: a note stood without
\* a record; again: the user wrote its note again when it was gone.
Reasons == {"asked", "unwritten", "halfway", "stray", "moving", "swept", "misnamed", "restored",
            "raced", "torn", "unrecorded", "again"}

Tasks == [at : {"idle", "save.files", "save.note", "commit", "bury", "erase", "rows", "decide",
               "remove", "graves", "read", "rewrite", "swap", "rebury"},
         mem : Memories \cup {None}, text : Row,
         notes : [Memories -> Row], rows : [Memories -> Row],
         queue : SUBSET Memories,  \* deletions that are left
         rebuild : BOOLEAN, reconciling : BOOLEAN, buried : SUBSET Memories]
VaultIdle == [at |-> "idle", mem |-> None, text |-> None, notes |-> Nothing, rows |-> Nothing,
         queue |-> {}, rebuild |-> FALSE, reconciling |-> FALSE, buried |-> {}]

Copy == [records : [Memories -> Row], notes : [Memories -> Note], misnamed : SUBSET Memories,
         graves : SUBSET Memories, migrated : BOOLEAN, bare : BOOLEAN, taken : BOOLEAN]
NoCopy == [records |-> Nothing, notes |-> Nothing, misnamed |-> {}, graves |-> {},
           migrated |-> FALSE, bare |-> FALSE, taken |-> FALSE]
Aside  == [records : [Memories -> Row], notes : [Memories -> Note]]
NoneAside == [records |-> Nothing, notes |-> Nothing]

\* _iter_memory_notes_for_id: by the file name; a note that cannot be parsed counts.
Found(m)    == notes[m] # None /\ m \notin misnamed
Readable(m) == notes[m] \in Texts
\* iter_memory_markdown_records
Parsed == [m \in Memories |-> IF Readable(m) THEN notes[m] ELSE None]

\* A vault that is in use, one of a version without notes, or an index whose
\* vault was never written.
VaultInit ==
    /\ rows \in [Memories -> Row]
    /\ \A m \in Handmade : rows[m] = None
    /\ tombstoned = {} /\ graves = {} /\ misnamed = {} /\ present = TRUE
    /\ \/ records = rows /\ notes = rows /\ migrated = TRUE /\ bare = FALSE
       \/ records = rows /\ notes = Nothing /\ migrated = FALSE /\ bare = FALSE
       \/ records = Nothing /\ notes = Nothing /\ migrated = FALSE /\ bare = TRUE
    /\ away = NoneAside /\ backup = NoCopy
    /\ work = [p \in Threads |-> VaultIdle]
    /\ writer = None
    /\ up = FALSE
    /\ calm = {} /\ marks = {}
    /\ calls = 0 /\ edits = 0 /\ faults = 0

(***************************************************************************)
(* A thread begins, goes on or ends                                        *)
(***************************************************************************)
Goes(p, next)  == work' = [work EXCEPT ![p] = next]
Then(p, label) == Goes(p, [work[p] EXCEPT !.at = label])
At(p, label)   == work[p].at = label
Begins(p) ==
    /\ up
    /\ At(p, "idle")
    /\ calls < MaxCalls
    /\ calls' = calls + 1
    /\ UNCHANGED <<edits, faults>>
\* Whoever changes something disturbs the others.
Stirs(p)   == calm' = calm \cap {p}
Bounds     == <<calls, edits, faults>>
Fault      == faults < MaxFaults /\ faults' = faults + 1 /\ UNCHANGED <<calls, edits>>
Marked(set, reason) == marks' = marks \cup (set \X {reason})
\* One of the two files of a memory without the other.
Halves(r, n) == ({m \in Memories : r[m] = None /\ n[m] # None} \X {"unrecorded"})
           \cup ({m \in Memories : r[m] # None /\ n[m] = None} \X {"unwritten"})
AnyAt(labels)       == \E q \in Threads : work[q].at \in labels
\* A reconciliation that has read the index and has deletions to decide or to do.
Deciding(q) == work[q].reconciling /\ work[q].at \in {"decide", "remove", "bury", "erase"}
Raced(set, labels)  == Marked(IF AnyAt(labels) THEN set ELSE {}, "raced")

\* Files of the memories in the set go: records, and the notes that are found.
Unlinked(set) ==
    /\ records' = [m \in Memories |-> IF m \in set THEN None ELSE records[m]]
    /\ notes' = [m \in Memories |-> IF m \in set /\ Found(m) THEN None ELSE notes[m]]
    /\ present' = TRUE
    /\ UNCHANGED <<misnamed, graves, migrated, bare>>

(***************************************************************************)
(* save_capture: rows, record and note in one transaction                  *)
(***************************************************************************)
SaveBegin(p, m, t) ==
    /\ Begins(p)
    /\ m \notin Handmade /\ m \notin tombstoned
    /\ writer = None
    /\ writer' = p
    /\ Goes(p, [VaultIdle EXCEPT !.at = "save.files", !.mem = m, !.text = t])
    /\ Marked(IF rows[m] = None /\ \E q \in Threads : Deciding(q) THEN {m} ELSE {}, "moving")
    /\ UNCHANGED <<index, files, away, backup, up, calm>>

\* The record, and the note of the former text, which has another file name.
SaveFiles(p) ==
    LET m == work[p].mem
        t == work[p].text
    IN  /\ At(p, "save.files")
        /\ records' = [records EXCEPT ![m] = t]
        /\ notes' = [notes EXCEPT ![m] = IF @ = t THEN t ELSE None]
        /\ present' = TRUE /\ bare' = FALSE
        /\ Then(p, "save.note")
        /\ Stirs(p)
        /\ UNCHANGED <<index, misnamed, graves, migrated, away, backup, writer, up, marks, Bounds>>

\* A note that cannot be written is passed over ("never let a Markdown write
\* failure break the authoritative JSON record write").
SaveNote(p) ==
    /\ At(p, "save.note")
    /\ \/ /\ notes' = [notes EXCEPT ![work[p].mem] = work[p].text]
          /\ present' = TRUE
          /\ UNCHANGED <<marks, Bounds>>
       \/ /\ Fault
          /\ Marked({work[p].mem}, "unwritten")
          /\ UNCHANGED <<notes, present>>
    /\ Then(p, "commit")
    /\ Stirs(p)
    /\ UNCHANGED <<index, records, misnamed, graves, migrated, bare, away, backup, writer, up>>

SaveCommit(p) ==
    /\ At(p, "commit")
    /\ rows' = [rows EXCEPT ![work[p].mem] = work[p].text]
    /\ writer' = None
    /\ Goes(p, VaultIdle)
    /\ Stirs(p)
    /\ UNCHANGED <<tombstoned, files, away, backup, up, marks, Bounds>>

(***************************************************************************)
(* delete_memory                                                           *)
(***************************************************************************)
\* The files go first, then the tombstone is written, then the rows go.
DeleteBegin(p, m) ==
    /\ Begins(p)
    /\ rows[m] # None
    /\ writer = None
    /\ writer' = p
    /\ Unlinked({m})
    /\ Goes(p, [VaultIdle EXCEPT !.at = "bury", !.mem = m])
    /\ marks' = marks \cup {<<m, "asked">>} \cup (({m} \cap misnamed) \X {"misnamed"})
    /\ Stirs(p)
    /\ UNCHANGED <<index, away, backup, up>>

\* raced: another thread holds what it read of the vault without this tombstone.
Bury(p) ==
    /\ At(p, "bury")
    /\ graves' = graves \cup {work[p].mem}
    /\ Then(p, "erase")
    /\ Raced({work[p].mem}, {"swap", "read", "rewrite"})
    /\ Stirs(p)
    /\ UNCHANGED <<index, records, notes, misnamed, present, migrated, bare, away, backup,
                   writer, up, Bounds>>

AfterDelete(p) ==
    IF work[p].reconciling THEN Goes(p, [work[p] EXCEPT !.at = "remove", !.mem = None])
    ELSE Goes(p, VaultIdle)

Erase(p) ==
    /\ At(p, "erase")
    /\ rows' = [rows EXCEPT ![work[p].mem] = None]
    /\ tombstoned' = tombstoned \cup {work[p].mem}
    /\ writer' = None
    /\ AfterDelete(p)
    /\ Stirs(p)
    /\ UNCHANGED <<files, away, backup, up, marks, Bounds>>

Saving(p) == work[p].at \in {"save.note", "commit"}
\* A transaction fails after files were written.
Abort(p) ==
    /\ work[p].at \in {"save.files", "save.note", "commit", "bury", "erase"}
    /\ Fault
    /\ writer' = None
    /\ AfterDelete(p)
    /\ Marked(IF Saving(p) THEN {work[p].mem} ELSE {}, "halfway")
    /\ calm' = calm \ {p}
    /\ UNCHANGED <<index, files, away, backup, up>>

(***************************************************************************)
(* reconcile_vault_edits                                                   *)
(***************************************************************************)
ReconcileNotes(p) ==
    /\ Begins(p)
    /\ Goes(p, [VaultIdle EXCEPT !.at = "rows", !.notes = Parsed, !.reconciling = TRUE])
    /\ calm' = calm \cup {p}
    /\ UNCHANGED <<index, files, away, backup, writer, up, marks>>

ReconcileRows(p) ==
    /\ At(p, "rows")
    /\ Goes(p, [work[p] EXCEPT !.at = "decide", !.rows = rows])
    /\ UNCHANGED <<index, files, away, backup, writer, up, calm, marks, Bounds>>

\* Mutant: notes that returned since are not looked for again.
MissingAtOnce(p) ==
    IF migrated /\ present THEN {m \in Memories : work[p].rows[m] # None /\ work[p].notes[m] = None} ELSE {}
\* What is gone from the notes and, looked at again, still is.
Missing(p) ==
    IF migrated /\ present
    THEN {m \in Memories : work[p].rows[m] # None /\ work[p].notes[m] = None /\ ~Found(m)}
    ELSE {}
\* Too many to be deletions: a folder that was cleared.
Implausible(p) ==
    LET all == {m \in Memories : work[p].rows[m] # None}
    IN  /\ Cardinality(Missing(p)) >= MassMin
        /\ 2 * Cardinality(Missing(p)) >= Cardinality(all)
\* Mutant: notes of memories the index has not are passed over.
DiffersKnown(p) == \E m \in Memories : work[p].rows[m] # None /\ work[p].notes[m] \notin {None, work[p].rows[m]}
Differs(p) == \E m \in Memories : work[p].notes[m] \notin {None, work[p].rows[m]}

ReconcileDecide(p) ==
    LET gone == Missing(p)
        moving == {work[q].mem : q \in {r \in Threads : At(r, "save.note")}}
        stray == {m \in Memories : records[m] # None /\ notes[m] = None /\ work[p].rows[m] = None}
        replaced == IF \E q \in Threads \ {p} : ~work[q].reconciling /\ work[q].rebuild
                    THEN Memories ELSE {}
        few == Cardinality(gone) < MassMin
                 \/ 2 * Cardinality(gone) < Cardinality({m \in Memories : work[p].rows[m] # None})
        hidden == {m \in Memories : away.notes[m] # None /\ few}
    IN  /\ At(p, "decide")
        /\ IF Implausible(p) \/ (gone = {} /\ ~Differs(p))
           THEN Goes(p, VaultIdle) /\ UNCHANGED marks
           ELSE /\ Goes(p, [VaultIdle EXCEPT !.at = "remove", !.queue = gone, !.reconciling = TRUE,
                                        !.rebuild = Differs(p)])
                /\ marks' = marks \cup ((gone \cap moving) \X {"moving"})
                                  \cup ((gone \cap hidden) \X {"swept"})
                                  \cup ((gone \cap misnamed) \X {"misnamed"})
                                  \cup ((gone \cap replaced) \X {"restored"})
                                  \cup (stray \X {"stray"})
        /\ UNCHANGED <<index, files, away, backup, writer, up, calm, Bounds>>

\* delete_memory, which returns at once when there is no row.
ReconcileRemove(p, m) ==
    /\ At(p, "remove")
    /\ m \in work[p].queue
    /\ IF rows[m] = None
       THEN /\ Goes(p, [work[p] EXCEPT !.queue = @ \ {m}])
            /\ UNCHANGED <<files, writer, calm, marks>>
       ELSE /\ writer = None
            /\ writer' = p
            /\ Unlinked({m})
            /\ Goes(p, [work[p] EXCEPT !.at = "bury", !.mem = m, !.queue = @ \ {m}])
            /\ Marked({m} \cap misnamed, "misnamed")
            /\ Stirs(p)
    /\ UNCHANGED <<index, away, backup, up, Bounds>>

ReconcileRest(p) ==
    /\ At(p, "remove")
    /\ work[p].queue = {}
    /\ Goes(p, IF work[p].rebuild THEN [work[p] EXCEPT !.at = "graves"] ELSE VaultIdle)
    /\ UNCHANGED <<index, files, away, backup, writer, up, calm, marks, Bounds>>

(***************************************************************************)
(* rebuild_index_from_vault                                                *)
(***************************************************************************)
RebuildBegin(p) ==
    /\ Begins(p)
    /\ Goes(p, [VaultIdle EXCEPT !.at = "graves"])
    /\ UNCHANGED <<index, files, away, backup, writer, up, calm, marks>>

\* apply_tombstones goes by the records: a note without one stays.
ApplyGraves(p) ==
    /\ At(p, "graves")
    /\ Unlinked({m \in graves : records[m] # None})
    /\ Then(p, "read")
    /\ marks' = marks \cup (IF AnyAt({"rebury"}) THEN Memories \X {"raced"} ELSE {})
                      \cup ({m \in graves \cap misnamed : records[m] # None} \X {"misnamed"})
    /\ Stirs(p)
    /\ UNCHANGED <<index, away, backup, writer, up, Bounds>>

\* Notes win; a record whose note is missing or cannot be parsed is merged in.
ReadVault(p) ==
    /\ At(p, "read")
    /\ Goes(p, [work[p] EXCEPT !.at = "rewrite",
                   !.rows = [m \in Memories |-> IF Readable(m) THEN notes[m] ELSE records[m]]])
    /\ UNCHANGED <<index, files, away, backup, writer, up, calm, marks, Bounds>>

Rewrite(p) ==
    /\ At(p, "rewrite")
    /\ writer = None
    /\ rows' = work[p].rows
    /\ Goes(p, VaultIdle)
    /\ Stirs(p)
    /\ UNCHANGED <<tombstoned, files, away, backup, writer, up, marks, Bounds>>

(***************************************************************************)
(* create_backup and restore_latest_backup                                 *)
(***************************************************************************)
Backup(p) ==
    /\ Begins(p)
    /\ backup' = [records |-> records, notes |-> notes, misnamed |-> misnamed, graves |-> graves,
                  migrated |-> migrated, bare |-> bare, taken |-> TRUE]
    /\ present' = TRUE
    /\ marks' = marks \cup Halves(records, notes)
    /\ Stirs(p)
    /\ UNCHANGED <<index, records, notes, misnamed, graves, migrated, bare, away, work, writer, up>>

\* The tombstones of the live vault are kept in hand.
RestoreBegin(p) ==
    /\ Begins(p)
    /\ backup.taken
    /\ Goes(p, [VaultIdle EXCEPT !.at = "swap", !.buried = graves, !.rebuild = TRUE])
    /\ Raced(Memories, {"rebury"})
    /\ UNCHANGED <<index, files, away, backup, writer, up, calm>>

\* Folders are staged and swapped; a swap that fails is undone.
RestoreSwap(p) ==
    /\ At(p, "swap")
    /\ \/ /\ records' = backup.records /\ notes' = backup.notes /\ misnamed' = backup.misnamed
          /\ graves' = backup.graves /\ migrated' = backup.migrated /\ bare' = backup.bare
          /\ Then(p, "rebury")
          /\ UNCHANGED Bounds
       \/ /\ Fault
          /\ Goes(p, VaultIdle)
          /\ UNCHANGED <<records, notes, misnamed, graves, migrated, bare>>
    /\ present' = TRUE
    /\ marks' = marks \cup (IF AnyAt({"read"}) THEN Memories \X {"raced"} ELSE {})
                      \cup (IF AnyAt({"rewrite", "rows"}) \/ \E q \in Threads : Deciding(q)
                            THEN Memories \X {"restored"} ELSE {})
    /\ Stirs(p)
    /\ UNCHANGED <<index, away, backup, writer, up>>

\* Mutant: the tombstones of the live vault are not written into the restored one.
RestoreReburyNone(p) ==
    /\ At(p, "rebury")
    /\ Then(p, "graves")
    /\ Stirs(p)
    /\ UNCHANGED <<index, files, away, backup, writer, up, marks, Bounds>>

RestoreRebury(p) ==
    /\ At(p, "rebury")
    /\ graves' = graves \cup work[p].buried
    /\ Then(p, "graves")
    /\ Stirs(p)
    /\ UNCHANGED <<index, records, notes, misnamed, present, migrated, bare, away, backup,
                   writer, up, marks, Bounds>>

\* A root file cannot be put in its place, which nothing undoes, or a tombstone
\* cannot be written: the server goes on with a vault half restored.
RestoreFails(p) ==
    /\ Fault
    /\ \/ /\ At(p, "swap")
          /\ records' = backup.records /\ notes' = backup.notes /\ misnamed' = backup.misnamed
          /\ graves' = backup.graves /\ bare' = backup.bare
          /\ migrated' \in {migrated, backup.migrated}
          /\ present' = TRUE
       \/ /\ At(p, "rebury")
          /\ \E some \in SUBSET work[p].buried : graves' = graves \cup some
          /\ UNCHANGED <<records, notes, misnamed, present, migrated, bare>>
    /\ Goes(p, VaultIdle)
    /\ Marked(Memories, "torn")
    /\ calm' = {}
    /\ UNCHANGED <<index, away, backup, writer, up>>

\* A restore that has replaced the vault and not the index yet.
Restoring(p) == At(p, "rebury") \/ (work[p].rebuild /\ ~work[p].reconciling /\ ~At(p, "swap"))
\* A rebuild fails: a file cannot be removed or read, or the transaction aborts.
RebuildFails(p) ==
    /\ Fault
    /\ \E some \in SUBSET {m \in graves : records[m] # None} :
          /\ \/ At(p, "graves") /\ Unlinked(some)
             \/ work[p].at \in {"read", "rewrite"} /\ some = {} /\ UNCHANGED files
          /\ marks' = marks \cup (IF Restoring(p) THEN Memories \X {"torn"} ELSE {})
                            \cup (IF AnyAt({"rebury"}) THEN Memories \X {"raced"} ELSE {})
                            \cup ((some \cap misnamed) \X {"misnamed"})
    /\ Goes(p, VaultIdle)
    /\ calm' = {}
    /\ UNCHANGED <<index, away, backup, writer, up>>

(***************************************************************************)
(* Stops and starts                                                        *)
(***************************************************************************)
Stops(torn) ==
    /\ up
    /\ Fault
    /\ up' = FALSE
    /\ work' = [p \in Threads |-> VaultIdle]
    /\ writer' = None
    /\ calm' = {}
    /\ marks' = marks \cup ({work[p].mem : p \in {q \in Threads : Saving(q)}} \X {"halfway"})
                      \cup (torn \X {"torn"})
    /\ UNCHANGED <<index, away, backup>>

VaultCrash ==
    /\ Stops(IF \E p \in Threads : Restoring(p) THEN Memories ELSE {})
    /\ UNCHANGED files

\* Between two renames: each folder is the old one or the new one, or the
\* memories are out of the way and nothing is in their place.
RestoreDies(p) ==
    /\ At(p, "swap")
    /\ Stops(Memories)
    /\ \/ /\ records' = Nothing /\ notes' = Nothing /\ misnamed' = {} /\ present' = FALSE
       \/ /\ records' = backup.records /\ notes' = backup.notes /\ misnamed' = backup.misnamed
          /\ present' = TRUE
       \/ UNCHANGED <<records, notes, misnamed, present>>
    /\ graves' \in {graves, backup.graves}
    /\ UNCHANGED <<migrated, bare>>

\* ensure_vault_backfilled: memories without a note get one, and the flag that
\* lets a missing note be a deletion is set when all were written; notes get
\* the name of their id; a vault without any record is written from the index.
Start ==
    LET lacking == {m \in Memories : rows[m] # None /\ ~Found(m)}
        new == IF migrated THEN {} ELSE lacking
        blank == bare /\ records = Nothing
    IN  /\ ~up
        /\ up' = TRUE
        /\ present' = TRUE
        /\ \E failed \in SUBSET new :
              LET anew == IF blank THEN {m \in Memories : rows[m] # None} ELSE new \ failed
              IN  /\ IF failed = {} THEN UNCHANGED Bounds ELSE Fault
                  /\ notes' = [m \in Memories |-> IF m \in anew THEN rows[m] ELSE notes[m]]
                  /\ misnamed' = {m \in misnamed \ anew : notes[m] = Garbled}
                  /\ migrated' = (migrated \/ failed = {})
        /\ records' = IF blank THEN rows ELSE records
        /\ bare' = (bare /\ ~(blank /\ rows # Nothing))
        /\ UNCHANGED <<index, graves, away, backup, work, writer, calm, marks>>

(***************************************************************************)
(* The user, in an editor                                                  *)
(***************************************************************************)
Acts ==
    /\ edits < MaxEdits
    /\ edits' = edits + 1
    /\ calm' = {}
    /\ UNCHANGED <<index, graves, migrated, bare, backup, work, writer, up, calls, faults>>

Edit(m) ==
    /\ Acts
    /\ Readable(m)
    /\ \E t \in (Texts \cup {Garbled}) \ {notes[m]} : notes' = [notes EXCEPT ![m] = t]
    /\ UNCHANGED <<records, misnamed, present, away, marks>>

\* A note of the user's, with an id in its front matter; or the same note again.
Create(m, t) ==
    /\ Acts
    /\ m \in Handmade
    /\ notes[m] = None /\ rows[m] = None
    /\ notes' = [notes EXCEPT ![m] = t]
    /\ misnamed' \in {misnamed, misnamed \cup {m}}
    /\ present' = TRUE
    /\ marks' = marks \cup (({m} \cap tombstoned) \X {"again"})
                      \cup (IF \E q \in Threads : Deciding(q) THEN {<<m, "moving">>} ELSE {})
    /\ UNCHANGED <<records, away>>

Discard(m) ==
    /\ Acts
    /\ notes[m] # None
    /\ notes' = [notes EXCEPT ![m] = None]
    /\ misnamed' = misnamed \ {m}
    /\ Marked({m}, "asked")
    /\ UNCHANGED <<records, present, away>>

\* A drive is unmounted or a sync client clears the folder; later it returns.
Clear ==
    /\ Acts
    /\ away = NoneAside
    /\ notes # Nothing
    /\ away' = [records |-> records, notes |-> notes]
    /\ records' = Nothing /\ notes' = Nothing
    /\ present' \in BOOLEAN
    /\ UNCHANGED <<misnamed, marks>>

Return ==
    /\ away # NoneAside
    /\ records' = [m \in Memories |-> IF records[m] = None THEN away.records[m] ELSE records[m]]
    /\ notes' = [m \in Memories |-> IF notes[m] = None THEN away.notes[m] ELSE notes[m]]
    /\ present' = TRUE
    /\ away' = NoneAside
    /\ calm' = {}
    /\ marks' = marks
          \cup (IF AnyAt({"bury", "erase", "read"}) THEN Memories \X {"raced"} ELSE {})
          \cup Halves(records', notes')
    /\ UNCHANGED <<index, misnamed, graves, migrated, bare, backup, work, writer, up, Bounds>>

-----------------------------------------------------------------------------
Save(p)   == (\E m \in Memories, t \in Texts : SaveBegin(p, m, t)) \/ SaveFiles(p) \/ SaveNote(p) \/ SaveCommit(p)
DeleteMemory(p) == (\E m \in Memories : DeleteBegin(p, m)) \/ Bury(p) \/ Erase(p)
Reconcile(p) ==
    \/ ReconcileNotes(p) \/ ReconcileRows(p) \/ ReconcileDecide(p)
    \/ \E m \in Memories : ReconcileRemove(p, m)
    \/ ReconcileRest(p)
Rebuild(p) == RebuildBegin(p) \/ ApplyGraves(p) \/ ReadVault(p) \/ Rewrite(p) \/ RebuildFails(p)
Restore(p) ==
    \/ RestoreBegin(p) \/ RestoreSwap(p) \/ RestoreRebury(p)
    \/ RestoreDies(p) \/ RestoreFails(p)
User ==
    \/ \E m \in Memories : Edit(m) \/ Discard(m) \/ \E t \in Texts : Create(m, t)
    \/ Clear \/ Return

VaultNext ==
    \/ \E p \in Threads :
          Save(p) \/ DeleteMemory(p) \/ Reconcile(p) \/ Rebuild(p) \/ Backup(p) \/ Restore(p) \/ Abort(p)
    \/ VaultCrash \/ Start \/ User

VaultSpec == VaultInit /\ [][VaultNext]_vaultVars

-----------------------------------------------------------------------------
(***************************************************************************)
(* Properties                                                              *)
(***************************************************************************)
VaultTypeOK ==
    /\ rows \in [Memories -> Row] /\ tombstoned \subseteq Memories
    /\ records \in [Memories -> Row] /\ notes \in [Memories -> Note]
    /\ misnamed \subseteq Memories /\ graves \subseteq Memories
    /\ present \in BOOLEAN /\ migrated \in BOOLEAN /\ bare \in BOOLEAN
    /\ away \in Aside /\ backup \in Copy
    /\ work \in [Threads -> Tasks] /\ writer \in Threads \cup {None}
    /\ up \in BOOLEAN /\ calm \subseteq Threads /\ marks \subseteq Memories \X Reasons
    /\ calls \in 0 .. MaxCalls /\ edits \in 0 .. MaxEdits /\ faults \in 0 .. MaxFaults

\* A tombstone, which nothing takes back, is written only of a memory that was
\* deleted: by a request, or by the user in the editor.  A reconciliation takes
\* a missing note for a deletion; what it must see through are a vault without
\* notes yet, a folder that is gone or was cleared, a note that cannot be parsed
\* and one that returned since it looked.  The ways it is fooled are listed: a
\* note that was not written or is being moved, is under a name of the user's or
\* is one of few kept back, and a restore that is under way, failed or has died.
OnlyDeletedGo ==
    \A m \in graves : \E r \in Reasons \ {"raced", "stray", "unrecorded", "again"} : <<m, r>> \in marks

\* A deleted memory does not come back into the index: not by a rebuild, not by
\* the restore of a backup that was taken while it was there, not with the files
\* a drive had kept back.  Unless a deletion fell between the steps of a rebuild,
\* a restore died or failed halfway, its note was there without a record or under
\* another name, or the user wrote it again.
StayOut ==
    \A m \in Memories : rows[m] # None /\ m \in tombstoned =>
        \E r \in {"raced", "torn", "unrecorded", "misnamed", "again"} : <<m, r>> \in marks

\* Index and notes agree.  Rows without a note may be there while the vault is not
\* migrated or its folder is missing, and of a record that was merged in (stray).
Settled ==
    \A m \in Memories :
        /\ Readable(m) => rows[m] = notes[m]
        /\ migrated /\ present /\ notes[m] = None => rows[m] = None \/ <<m, "stray">> \in marks

\* A reconciliation that nobody disturbed, that did not fail and did not refuse
\* the sweep leaves the index as the notes say: every note that can be parsed is a
\* row of its text, and in a migrated vault whose folder is there no memory
\* without a note is left, unless its record alone brought it back.
ReconcileSettles ==
    [][\A p \in Threads :
          (/\ work[p].reconciling /\ work'[p].at = "idle" /\ p \in calm'
           /\ ~(At(p, "decide") /\ Implausible(p))) => Settled']_vaultVars
=============================================================================
