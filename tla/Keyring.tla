------------------------------- MODULE Keyring -------------------------------
(***************************************************************************)
(* The keys of one user of the hosted plane (keyring.py, UserKeyring).     *)
(* The API runs as several processes (deploy/macmini/run-api.sh) over one  *)
(* keyring.sqlite, each with a lock and a cache of unwrapped keys of its   *)
(* own: what one call does is serialised inside a process and nowhere      *)
(* else.  A call reads the row of user_keys before its first write opens a *)
(* transaction, so that the row may have changed when it writes.           *)
(*                                                                         *)
(* The cryptography is a library call: a key is a number, a blob is the    *)
(* pair of the version in its header and the key that sealed it.           *)
(***************************************************************************)
EXTENDS Naturals

CONSTANTS
    Procs,      \* the processes that serve the API
    Budget,     \* nonce_budget: writes under one version of the key
    MaxVersion, \* bound: versions of the key
    MaxKeys,    \* bound: keys drawn
    MaxWrites,  \* bound: blobs written under a version, or about to be
    MaxFaults   \* bound: transactions that fail after a key was drawn

ASSUME KeyringAssumption ==
    /\ Budget \in Nat \ {0}
    /\ MaxVersion \in Nat /\ MaxKeys \in Nat /\ MaxWrites \in Nat /\ MaxFaults \in Nat

Version == 1 .. MaxVersion
Key == 1 .. MaxKeys
NoKey == 0

VARIABLES
    row,        \* the user's row of user_keys
    wraps,      \* user_key_wraps: the key that is wrapped for each version
    cache,      \* _cache of each process: the unwrapped key of each version
    work,       \* the call each process is in, if any
    sealed,     \* the blobs written: version in the header, key used
    drawn,      \* keys drawn so far
    written,    \* history: blobs written under each version
    lost,       \* history: keys whose transaction was rolled back
    overlapped, \* history: whether two processes ever encrypted together
    shredded,   \* history: whether crypto_shred has returned
    minting,    \* history: whether a call was about to mint at a shred
    faults

keyringVars == <<row, wraps, cache, work, sealed, drawn, written, lost, overlapped,
          shredded, minting, faults>>
database == <<row, wraps>>
blobs == <<sealed, written>>
past == <<lost, overlapped, shredded, minting>>

NoUser == [exists |-> FALSE, version |-> 0, count |-> 0, destroyed |-> FALSE]

\* A call keeps what it read of the row.  phase "mint": it is going to draw the
\* key of `version`; "key" and "open": it is going to fetch that key, to seal or
\* to open a blob; "count": it holds the key and is going to count the write.
Idle == [phase |-> "idle", version |-> 0, count |-> 0, key |-> NoKey, fresh |-> FALSE]

Encrypting(p) == work[p].phase \in {"mint", "key", "count"}

KeyringInit ==
    /\ row = NoUser
    /\ wraps = [v \in Version |-> NoKey]
    /\ cache = [p \in Procs |-> [v \in Version |-> NoKey]]
    /\ work = [p \in Procs |-> Idle]
    /\ sealed = {} /\ drawn = 0 /\ written = [v \in Version |-> 0]
    /\ lost = {} /\ overlapped = FALSE /\ shredded = FALSE /\ minting = FALSE
    /\ faults = 0

Begin(p, call) ==
    /\ work[p].phase = "idle"
    /\ work' = [work EXCEPT ![p] = call]

\* The call raises, or has returned.
End(p) == work' = [work EXCEPT ![p] = Idle]

Cached(p, v, k) == cache' = [cache EXCEPT ![p][v] = k]

Seal(v, k) ==
    /\ sealed' = sealed \cup {<<v, k>>}
    /\ written' = [written EXCEPT ![v] = @ + 1]

\* Mutant: the budget is one write larger than it says.
ExhaustedLate(count) == count > Budget

Exhausted(count) == count >= Budget

(***************************************************************************)
(* encrypt_blob: _current_key_locked reads the row and decides which key   *)
(* seals the blob.  A destroyed row refuses the call.                      *)
(***************************************************************************)
EncryptRead(p) ==
    /\ ~row.destroyed
    /\ LET mints == ~row.exists \/ Exhausted(row.count)
           version == IF mints THEN row.version + 1 ELSE row.version
       IN  /\ version \in Version /\ written[version] < MaxWrites
           /\ Begin(p, [phase |-> IF mints THEN "mint" ELSE "key",
                        version |-> version, count |-> IF mints THEN 0 ELSE row.count,
                        key |-> NoKey, fresh |-> ~row.exists])
    /\ overlapped' = (overlapped \/ \E q \in Procs \ {p} : Encrypting(q))
    /\ UNCHANGED <<database, cache, blobs, drawn, lost, shredded, minting, faults>>

\* _mint_locked and the write of the row, in one transaction: a version that
\* has a wrap, or a row where none was read, is refused by the primary key.
Fits(p) ==
    /\ wraps[work[p].version] = NoKey
    /\ work[p].fresh => ~row.exists

\* Mutant: the wrap of another process is replaced.
MintOver(p) ==
    LET v == work[p].version
        k == drawn + 1
    IN  /\ work[p].phase = "mint"
        /\ k <= MaxKeys
        /\ drawn' = k
        /\ wraps' = [wraps EXCEPT ![v] = k]
        /\ row' = [row EXCEPT !.exists = TRUE, !.version = v, !.count = 1]
        /\ Cached(p, v, k) /\ Seal(v, k) /\ End(p)
        /\ UNCHANGED <<past, faults>>

Mint(p) ==
    LET v == work[p].version
        k == drawn + 1
    IN  /\ work[p].phase = "mint" /\ Fits(p)
        /\ k <= MaxKeys
        /\ drawn' = k
        /\ wraps' = [wraps EXCEPT ![v] = k]
        /\ row' = [row EXCEPT !.exists = TRUE, !.version = v, !.count = 1]
        /\ Cached(p, v, k) /\ Seal(v, k) /\ End(p)
        /\ UNCHANGED <<past, faults>>

\* Another process has minted the version: the call raises before it caches.
MintConflict(p) ==
    /\ work[p].phase = "mint"
    /\ wraps[work[p].version] # NoKey
    /\ End(p)
    /\ UNCHANGED <<database, cache, blobs, drawn, past, faults>>

\* The transaction is rolled back after the key was cached: the row exists
\* meanwhile (a tombstone), or the write or the commit fails.
MintRolledBack(p) ==
    LET v == work[p].version
        k == drawn + 1
    IN  /\ work[p].phase = "mint" /\ wraps[v] = NoKey
        /\ k <= MaxKeys
        /\ Fits(p) => faults < MaxFaults
        /\ faults' = IF Fits(p) THEN faults + 1 ELSE faults
        /\ drawn' = k
        /\ lost' = lost \cup {k}
        /\ Cached(p, v, k) /\ End(p)
        /\ UNCHANGED <<database, blobs, overlapped, shredded, minting>>

\* _dek_locked: the cached key, or the wrapped one, which is cached; the call
\* raises if there is neither.
Fetched(p, v) == IF cache[p][v] # NoKey THEN cache[p][v] ELSE wraps[v]

EncryptKey(p) ==
    LET v == work[p].version
        k == Fetched(p, v)
    IN  /\ work[p].phase = "key"
        /\ IF k = NoKey THEN End(p)
           ELSE work' = [work EXCEPT ![p].phase = "count", ![p].key = k]
        /\ Cached(p, v, k)
        /\ UNCHANGED <<database, blobs, drawn, past, faults>>

\* The write is counted, whatever the row holds by now, and the blob sealed.
EncryptCount(p) ==
    /\ work[p].phase = "count"
    /\ row' = [row EXCEPT !.count = work[p].count + 1]
    /\ Seal(work[p].version, work[p].key) /\ End(p)
    /\ UNCHANGED <<wraps, cache, drawn, past, faults>>

(***************************************************************************)
(* decrypt_blob: the row is checked, then the key of the blob's version is *)
(* fetched.                                                                *)
(***************************************************************************)
DecryptRead(p, v) ==
    /\ row.exists /\ ~row.destroyed
    /\ \E blob \in sealed : blob[1] = v
    /\ Begin(p, [phase |-> "open", version |-> v, count |-> 0, key |-> NoKey,
                 fresh |-> FALSE])
    /\ UNCHANGED <<database, cache, blobs, drawn, past, faults>>

DecryptKey(p) ==
    LET v == work[p].version
    IN  /\ work[p].phase = "open"
        /\ Cached(p, v, Fetched(p, v))
        /\ End(p)
        /\ UNCHANGED <<database, blobs, drawn, past, faults>>

\* Mutant: only a user who has keys is tombstoned.
ShredKnown(p) ==
    /\ work[p].phase = "idle"
    /\ wraps' = [v \in Version |-> NoKey]
    /\ row' = IF row.exists THEN [row EXCEPT !.destroyed = TRUE] ELSE row
    /\ cache' = [cache EXCEPT ![p] = [v \in Version |-> NoKey]]
    /\ shredded' = TRUE
    /\ minting' = (minting \/ \E q \in Procs : work[q].phase = "mint")
    /\ UNCHANGED <<work, blobs, drawn, lost, overlapped, faults>>

\* crypto_shred: one transaction deletes every wrap and leaves a tombstone, for
\* a user without keys too; the process then purges its own cache.
Shred(p) ==
    /\ work[p].phase = "idle"
    /\ wraps' = [v \in Version |-> NoKey]
    /\ row' = [row EXCEPT !.exists = TRUE, !.destroyed = TRUE]
    /\ cache' = [cache EXCEPT ![p] = [v \in Version |-> NoKey]]
    /\ shredded' = TRUE
    /\ minting' = (minting \/ \E q \in Procs : work[q].phase = "mint")
    /\ UNCHANGED <<work, blobs, drawn, lost, overlapped, faults>>

\* A cached key runs out of time, or gives way to the keys of other users.
Evict(p, v) ==
    /\ cache[p][v] # NoKey
    /\ Cached(p, v, NoKey)
    /\ UNCHANGED <<database, work, blobs, drawn, past, faults>>

\* A statement of a call fails (the database is locked): it raises, and leaves
\* what it had not written.
Abort(p) ==
    /\ work[p].phase # "idle" /\ End(p)
    /\ UNCHANGED <<database, cache, blobs, drawn, past, faults>>

\* The process dies and is started again.
Restart(p) ==
    /\ cache' = [cache EXCEPT ![p] = [v \in Version |-> NoKey]]
    /\ End(p)
    /\ UNCHANGED <<database, blobs, drawn, past, faults>>

KeyringNext ==
    \E p \in Procs :
        \/ EncryptRead(p) \/ Mint(p) \/ MintConflict(p) \/ MintRolledBack(p)
        \/ EncryptKey(p) \/ EncryptCount(p)
        \/ \E v \in Version : DecryptRead(p, v) \/ Evict(p, v)
        \/ DecryptKey(p) \/ Shred(p) \/ Abort(p) \/ Restart(p)

KeyringSpec == KeyringInit /\ [][KeyringNext]_keyringVars

-----------------------------------------------------------------------------
KeyringTypeOK ==
    /\ row \in [exists : BOOLEAN, version : 0 .. MaxVersion, count : Nat,
                destroyed : BOOLEAN]
    /\ wraps \in [Version -> Key \cup {NoKey}]
    /\ cache \in [Procs -> [Version -> Key \cup {NoKey}]]
    /\ work \in [Procs -> [phase : {"idle", "mint", "key", "count", "open"},
                           version : 0 .. MaxVersion, count : Nat,
                           key : Key \cup {NoKey}, fresh : BOOLEAN]]
    /\ \A p \in Procs : work[p].phase # "idle" => work[p].version \in Version
    /\ sealed \subseteq Version \X Key
    /\ drawn \in 0 .. MaxKeys
    /\ written \in [Version -> Nat]
    /\ lost \subseteq 1 .. drawn
    /\ overlapped \in BOOLEAN /\ shredded \in BOOLEAN /\ minting \in BOOLEAN
    /\ faults \in 0 .. MaxFaults

(* As long as the keys are not destroyed every blob opens, in whatever       *)
(* process: the wrap of the version in its header is the key that sealed it, *)
(* and so is what a process may have cached instead.  Excepted are the keys  *)
(* whose transaction was rolled back after they were cached (keyring.py,     *)
(* _mint_locked), which the process goes on using if another one mints the   *)
(* version.                                                                  *)
Readable ==
    ~row.destroyed => \A blob \in sealed :
        blob[2] \notin lost =>
            /\ wraps[blob[1]] = blob[2]
            /\ \A p \in Procs : cache[p][blob[1]] \in {NoKey, blob[2]} \cup lost

(* A shred is final: the tombstone stays, and no key is left or minted for   *)
(* the user again, unless a call that had read the row before was about to   *)
(* mint (keyring.py, "post-shred encrypts can never silently mint fresh key  *)
(* material").                                                               *)
ShredFinal ==
    shredded => /\ row.destroyed
                /\ minting \/ \A v \in Version : wraps[v] = NoKey

(* No version of the key seals more blobs than its nonce budget, as long as  *)
(* the processes do not encrypt at the same time (keyring.py,                *)
(* DEFAULT_NONCE_BUDGET, and docs/ACCOUNTS_ENCRYPTION_DESIGN.md section 4).  *)
BudgetKept == ~overlapped => \A v \in Version : written[v] <= Budget
=============================================================================
