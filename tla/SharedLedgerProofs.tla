-------------------------- MODULE SharedLedgerProofs --------------------------
(***************************************************************************)
(* Proofs about the shared memory of a user, for any principals, contents  *)
(* and messages and any number of calls: the ledger of a principal is one  *)
(* chain, and every shared memory is in it; what contradicts a stronger    *)
(* memory that was there before is not in use; and memories supersede one  *)
(* another in no circle unless two superseding calls overlapped.           *)
(***************************************************************************)
EXTENDS SharedLedger, FiniteSetTheorems, TLAPS

-----------------------------------------------------------------------------
(***************************************************************************)
(* The invariant                                                           *)
(***************************************************************************)
\* What a call carries at each of its steps.
CarryingOf(r) ==
    /\ r.at = "idle" => r = Idle
    /\ r.at # "idle" => r.message \in Messages
    /\ r.saved = NoMemory <=> r.at \in {"idle", "burn", "save"}
    /\ r.allowed => r.at \in {"settle", "reserve", "append"} /\ r.message.target # NoMemory

Carrying == \A c \in Calls : CarryingOf(calls[c])

\* Who is about to append holds the write reservation, and its tail is the last row.
Writing ==
    \A c \in Calls : /\ calls[c].at = "append" <=> writer = c
                     /\ writer = c => calls[c].tail = Len(ledger[calls[c].message.principal])

Chained == \A p \in Principals : \A i \in DOMAIN ledger[p] : ledger[p][i].previous = i - 1

\* The call that saved the memory, and not one that echoes it, writes its row.
Owed(m) == \E c \in Calls : calls[c].saved = m /\ calls[c].message.principal = Author(m)

Written ==
    \A m \in Memory : Author(m) # User /\ memories[m].status # "none"
                      => Linked(m) \/ Owed(m) \/ m \in orphans

\* The capture of a memory is one of its author.
Owned ==
    \A m \in Memory :
        memories[m].capture[1] = IF memories[m].status = "none" THEN User ELSE Author(m)

\* A memory that a call has saved is there.
Kept == \A c \in Calls : calls[c].saved # NoMemory => memories[calls[c].saved].status # "none"

\* Of who has not been judged, nothing is decided.
Unjudged ==
    /\ revoked \subseteq judged
    /\ \A k \in Captures : decisions[k] # "none" => k[1] \in judged

\* A call that will still look at the rivals of m, or has found itself beaten.
Doubting(c, m) ==
    /\ calls[c].saved = m /\ calls[c].message.target = NoMemory
    /\ calls[c].message.principal = Author(m)
    /\ calls[c].at = "weigh" \/ (calls[c].at = "settle" /\ ~calls[c].allowed)

\* The authority of a memory that is in use, as long as nobody has judged its author.
Weight(a) == IF a = User THEN UserTrust * 100 ELSE Trust[a] * DefaultScore[Kind[a]]

Contested(m, e) ==
    /\ InUse(m) /\ InUse(e) /\ Contradicts(m, e) /\ Author(m) # Author(e)
    /\ {Author(m), Author(e)} \cap judged = {}
    /\ m \notin orphans \cup revised

Doubted ==
    \A pair \in met :
        /\ Author(pair[1]) # User
        /\ Contested(pair[1], pair[2]) =>
              \/ Weight(Author(pair[2])) <= Weight(Author(pair[1])) + Margin
              \/ \E c \in Calls : Doubting(c, pair[1])

\* One call supersedes at a time, with a memory that nothing supersedes.
Alone ==
    crossed \/ \A c \in Calls : Superseding(c) =>
                  /\ memories[calls[c].saved].by = NoMemory
                  /\ \A d \in Calls : Superseding(d) => d = c

IInv ==
    /\ TypeOK /\ Carrying
    /\ Writing /\ Chained /\ Written
    /\ Owned /\ Kept /\ Unjudged /\ Doubted
    /\ Alone /\ NoCircle

-----------------------------------------------------------------------------
(***************************************************************************)
(* What a step makes of its call                                           *)
(***************************************************************************)
Labels == {"idle", "burn", "save", "weigh", "settle", "reserve", "append"}

Call == [at : Labels, message : Messages \cup {NoMessage}, saved : Memory \cup {NoMemory},
         allowed : BOOLEAN, tail : Nat]

\* The record of the call c has these fields after the step; the others stay.
Becomes(c, at, message, saved, allowed, tail) ==
    /\ calls' \in [Calls -> Call]
    /\ \A d \in Calls \ {c} : calls'[d] = calls[d]
    /\ calls'[c].at = at /\ calls'[c].message = message /\ calls'[c].saved = saved
    /\ calls'[c].allowed = allowed /\ calls'[c].tail = tail

Stops(c) ==
    /\ calls' \in [Calls -> Call] /\ calls'[c] = Idle
    /\ \A d \in Calls \ {c} : calls'[d] = calls[d]

LEMMA IdleCall ==
  /\ Idle \in Call /\ Idle.at = "idle" /\ Idle.message = NoMessage /\ Idle.saved = NoMemory
  /\ Idle.allowed = FALSE /\ Idle.tail = 0
  BY DEF Idle, Call, Labels

LEMMA CallsTyped == TypeOK => calls \in [Calls -> Call]
  BY DEF TypeOK, Call, Labels

LEMMA Stopped ==
  ASSUME TypeOK, NEW c \in Calls, Ends(c)
  PROVE  Stops(c)
  BY CallsTyped, IdleCall DEF Ends, Stops

LEMMA Replaced ==
  ASSUME TypeOK, NEW c \in Calls, NEW r \in Call, calls' = [calls EXCEPT ![c] = r]
  PROVE  Becomes(c, r.at, r.message, r.saved, r.allowed, r.tail)
  BY CallsTyped DEF Becomes


LEMMA BeginDoes ==
  ASSUME TypeOK, NEW c \in Calls, NEW msg \in Messages, Begin(c, msg)
  PROVE  Becomes(c, "burn", msg, NoMemory, FALSE, 0)
  <1> DEFINE r == [Idle EXCEPT !.at = "burn", !.message = msg]
  <1>1. /\ r \in Call /\ r.at = "burn" /\ r.message = msg /\ r.saved = NoMemory
        /\ r.allowed = FALSE /\ r.tail = 0
    BY DEF Idle, Call, Labels
  <1>2. calls' = [calls EXCEPT ![c] = r]
    BY DEF Begin
  <1> HIDE DEF r
  <1> QED
    BY <1>1, <1>2, Replaced

LEMMA GoesTo ==
  ASSUME TypeOK, NEW c \in Calls, NEW label \in Labels, Goes(c, label)
  PROVE  Becomes(c, label, calls[c].message, calls[c].saved, calls[c].allowed, calls[c].tail)
  <1>1. PICK q : q = calls[c]
    OBVIOUS
  <1>2. q \in Call
    BY <1>1, CallsTyped
  <1>3. PICK r : r = [q EXCEPT !.at = label]
    OBVIOUS
  <1>4. /\ r \in Call /\ r.at = label /\ r.message = q.message /\ r.saved = q.saved
        /\ r.allowed = q.allowed /\ r.tail = q.tail
    BY <1>2, <1>3 DEF Call
  <1>5. calls' = [calls EXCEPT ![c] = r]
    BY <1>1, <1>3 DEF Goes
  <1> QED
    BY <1>1, <1>4, <1>5, Replaced

LEMMA SavesAs ==
  ASSUME TypeOK, NEW c \in Calls, NEW m \in Memory,
         calls' = [calls EXCEPT ![c].at = "weigh", ![c].saved = m]
  PROVE  Becomes(c, "weigh", calls[c].message, m, calls[c].allowed, calls[c].tail)
  <1>1. PICK q : q = calls[c]
    OBVIOUS
  <1>2. q \in Call /\ calls \in [Calls -> Call]
    BY <1>1, CallsTyped
  <1>3. PICK r : r = [q EXCEPT !.at = "weigh", !.saved = m]
    OBVIOUS
  <1>4. /\ r \in Call /\ r.at = "weigh" /\ r.message = q.message /\ r.saved = m
        /\ r.allowed = q.allowed /\ r.tail = q.tail
    BY <1>2, <1>3 DEF Call, Labels
  <1>5. calls' = [calls EXCEPT ![c] = r]
    BY <1>1, <1>2, <1>3
  <1> QED
    BY <1>1, <1>4, <1>5, Replaced

LEMMA WeighsAs ==
  ASSUME TypeOK, NEW c \in Calls, NEW allowed \in BOOLEAN,
         calls' = [calls EXCEPT ![c].at = "settle", ![c].allowed = allowed]
  PROVE  Becomes(c, "settle", calls[c].message, calls[c].saved, allowed, calls[c].tail)
  <1>1. PICK q : q = calls[c]
    OBVIOUS
  <1>2. q \in Call /\ calls \in [Calls -> Call]
    BY <1>1, CallsTyped
  <1>3. PICK r : r = [q EXCEPT !.at = "settle", !.allowed = allowed]
    OBVIOUS
  <1>4. /\ r \in Call /\ r.at = "settle" /\ r.message = q.message /\ r.saved = q.saved
        /\ r.allowed = allowed /\ r.tail = q.tail
    BY <1>2, <1>3 DEF Call, Labels
  <1>5. calls' = [calls EXCEPT ![c] = r]
    BY <1>1, <1>2, <1>3
  <1> QED
    BY <1>1, <1>4, <1>5, Replaced

LEMMA ReservesAs ==
  ASSUME TypeOK, NEW c \in Calls, NEW n \in Nat,
         calls' = [calls EXCEPT ![c].at = "append", ![c].tail = n]
  PROVE  Becomes(c, "append", calls[c].message, calls[c].saved, calls[c].allowed, n)
  <1>1. PICK q : q = calls[c]
    OBVIOUS
  <1>2. q \in Call /\ calls \in [Calls -> Call]
    BY <1>1, CallsTyped
  <1>3. PICK r : r = [q EXCEPT !.at = "append", !.tail = n]
    OBVIOUS
  <1>4. /\ r \in Call /\ r.at = "append" /\ r.message = q.message /\ r.saved = q.saved
        /\ r.allowed = q.allowed /\ r.tail = n
    BY <1>2, <1>3 DEF Call, Labels
  <1>5. calls' = [calls EXCEPT ![c] = r]
    BY <1>1, <1>2, <1>3
  <1> QED
    BY <1>1, <1>4, <1>5, Replaced

-----------------------------------------------------------------------------
(***************************************************************************)
(* The steps of a call                                                     *)
(***************************************************************************)
Own(msg) == <<msg.principal, msg.content>>

LEMMA MessageFacts ==
  ASSUME NEW msg \in Messages
  PROVE  /\ msg.principal \in Principals /\ msg.content \in Contents /\ msg.nonce \in Nat
         /\ msg.target \in Memory \cup {NoMemory}
         /\ msg.principal # User
         /\ Own(msg) \in Memory /\ Author(Own(msg)) = msg.principal
         /\ Capture(msg) \in Captures /\ Capture(msg)[1] = msg.principal
  <1>1. /\ msg.principal \in Principals /\ msg.content \in Contents /\ msg.nonce \in Nat
        /\ msg.target \in Memory \cup {NoMemory} /\ msg.principal # User
    BY LedgerAssumption DEF Message, Nonces
  <1>2. Capture(msg) \in Captures
    BY DEF Captures
  <1> QED
    BY <1>1, <1>2 DEF Own, Memory, Authors, Author, Capture

LEMMA CaptureFacts == \A k \in Captures : k[1] \in Principals /\ k[1] # User
  BY MessageFacts DEF Captures

LEMMA MemoryFacts ==
  /\ \A m \in Memory : Author(m) \in Authors /\ m # NoMemory
  /\ NoMemory \notin Memory /\ NoMessage \notin Messages /\ NoCall \notin Calls /\ User \notin Principals
  BY LedgerAssumption DEF Memory, Author

LEMMA BurnDoes ==
  ASSUME TypeOK, NEW c \in Calls, Burn(c)
  PROVE  \/ Stops(c)
         \/ Becomes(c, "save", calls[c].message, calls[c].saved, calls[c].allowed, calls[c].tail)
  <1>1. Ends(c) \/ Goes(c, "save")
    BY DEF Burn
  <1> QED
    BY <1>1, Stopped, GoesTo DEF Labels

\* A save falls on the row of the author, or on one that the message echoes.
SavesOwn(c) ==
    /\ Becomes(c, "weigh", calls[c].message, Own(calls[c].message), calls[c].allowed, calls[c].tail)
    /\ memories' = [memories EXCEPT ![Own(calls[c].message)] =
                       Stored(Own(calls[c].message), Capture(calls[c].message))]
    /\ NoteSave(c, Own(calls[c].message))

SavesEcho(c, m) ==
    /\ Becomes(c, "weigh", calls[c].message, m, calls[c].allowed, calls[c].tail)
    /\ InUse(m) /\ UNCHANGED <<memories, met, orphans, revised>>

LEMMA SaveDoes ==
  ASSUME TypeOK, Carrying, NEW c \in Calls, Save(c)
  PROVE  SavesOwn(c) \/ \E m \in Memory : SavesEcho(c, m)
  <1> DEFINE msg == calls[c].message
             own == <<msg.principal, msg.content>>
             stored(m) == calls' = [calls EXCEPT ![c].at = "weigh", ![c].saved = m]
  <1>1. own \in Memory /\ own = Own(msg)
    BY MessageFacts DEF Save, Carrying, CarryingOf, Own
  <1>2. \/ /\ memories' = [memories EXCEPT ![own] = Stored(own, Capture(msg))]
           /\ stored(own) /\ NoteSave(c, own)
        \/ /\ \E m \in Echoes(msg) : stored(m)
           /\ UNCHANGED <<memories, met, orphans, revised>>
    BY DEF Save
  <1>3. \A m \in Echoes(msg) : m \in Memory /\ InUse(m)
    BY DEF Echoes
  <1> QED
    BY <1>1, <1>2, <1>3, SavesAs DEF SavesOwn, SavesEcho

\* After the look at the others a call settles what it has found, or goes on.
LEMMA WeighDoes ==
  ASSUME TypeOK, Carrying, NEW c \in Calls, Weigh(c)
  PROVE  \/ /\ calls[c].message.target # NoMemory
            /\ \E allowed \in BOOLEAN :
                  Becomes(c, "settle", calls[c].message, calls[c].saved, allowed, calls[c].tail)
         \/ /\ calls[c].message.target = NoMemory /\ ~calls[c].allowed
            /\ \/ Becomes(c, "settle", calls[c].message, calls[c].saved, calls[c].allowed, calls[c].tail)
               \/ /\ Becomes(c, "reserve", calls[c].message, calls[c].saved, calls[c].allowed,
                             calls[c].tail)
                  /\ ~\E e \in Rivals(calls[c].message, calls[c].saved) :
                         Authority(e) > Authority(calls[c].saved) + Margin
  <1> DEFINE beaten == \E e \in Rivals(calls[c].message, calls[c].saved) :
                         Authority(e) > Authority(calls[c].saved) + Margin
  <1>1. CASE calls[c].message.target # NoMemory
    <2>1. PICK allowed : allowed = MayReplace(calls[c].message, calls[c].saved)
      OBVIOUS
    <2>2. allowed \in BOOLEAN
      BY <2>1 DEF MayReplace
    <2>3. calls' = [calls EXCEPT ![c].at = "settle", ![c].allowed = allowed]
      BY <1>1, <2>1 DEF Weigh
    <2> QED
      BY <1>1, <2>2, <2>3, WeighsAs
  <1>2. CASE calls[c].message.target = NoMemory
    <2>1. Goes(c, IF beaten THEN "settle" ELSE "reserve")
      BY <1>2 DEF Weigh
    <2>2. ~calls[c].allowed
      BY DEF Weigh, Carrying, CarryingOf, TypeOK
    <2>3. CASE beaten
      <3>1. Goes(c, "settle")
        BY <2>1, <2>3
      <3> QED
        BY <1>2, <2>2, <3>1, GoesTo DEF Labels
    <2>4. CASE ~beaten
      <3>1. Goes(c, "reserve")
        BY <2>1, <2>4
      <3> QED
        BY <1>2, <2>2, <2>4, <3>1, GoesTo DEF Labels
    <2> QED
      BY <2>3, <2>4
  <1> QED
    BY <1>1, <1>2

LEMMA SettleDoes ==
  ASSUME TypeOK, NEW c \in Calls, Settle(c)
  PROVE  Becomes(c, "reserve", calls[c].message, calls[c].saved, calls[c].allowed, calls[c].tail)
  BY GoesTo DEF Settle, Labels

LEMMA ReserveDoes ==
  ASSUME TypeOK, Carrying, NEW c \in Calls, Reserve(c)
  PROVE  Becomes(c, "append", calls[c].message, calls[c].saved, calls[c].allowed,
                 Len(ledger[calls[c].message.principal]))
  <1>1. calls[c].message.principal \in Principals
    BY MessageFacts DEF Reserve, Carrying, CarryingOf
  <1>2. Len(ledger[calls[c].message.principal]) \in Nat
    BY <1>1 DEF TypeOK
  <1> QED
    BY <1>2, ReservesAs DEF Reserve

LEMMA LastDoes ==
  ASSUME TypeOK, NEW c \in Calls, Extend(c) \/ Die(c)
  PROVE  Stops(c)
  BY Stopped DEF Extend, Die

\* What a step makes of its call is again what a call carries.
LEMMA CarryingStep ==
  ASSUME TypeOK, Carrying, Next
  PROVE  calls' \in [Calls -> Call] /\ Carrying'
  <1>0. calls \in [Calls -> Call] /\ \A c \in Calls : CarryingOf(calls[c])
    BY CallsTyped DEF Carrying
  <1>1. ASSUME NEW c \in Calls, Stops(c)
        PROVE  calls' \in [Calls -> Call] /\ Carrying'
    <2>1. CarryingOf(Idle)
      BY IdleCall DEF CarryingOf
    <2> QED
      BY <1>0, <1>1, <2>1 DEF Stops, Carrying, CarryingOf
  <1>2. ASSUME NEW c \in Calls, NEW at \in Labels \ {"idle"}, NEW message \in Messages, NEW saved,
               NEW allowed, NEW tail,
               Becomes(c, at, message, saved, allowed, tail),
               saved = NoMemory <=> at \in {"burn", "save"},
               allowed => at \in {"settle", "reserve", "append"} /\ message.target # NoMemory
        PROVE  calls' \in [Calls -> Call] /\ Carrying'
    <2>1. \A d \in Calls \ {c} : CarryingOf(calls'[d])
      BY <1>0, <1>2 DEF Becomes
    <2>2. CarryingOf(calls'[c])
      BY <1>2 DEF Becomes, CarryingOf
    <2> QED
      BY <1>2, <2>1, <2>2 DEF Becomes, Carrying, CarryingOf
  <1>3. ASSUME NEW c \in Calls, NEW msg \in Messages, Begin(c, msg)
        PROVE  calls' \in [Calls -> Call] /\ Carrying'
    BY <1>2, <1>3, BeginDoes DEF Labels
  <1>4. ASSUME NEW c \in Calls, calls[c].at # "idle"
        PROVE  /\ calls[c].message \in Messages
               /\ calls[c].saved = NoMemory <=> calls[c].at \in {"burn", "save"}
               /\ calls[c].allowed => calls[c].at \in {"settle", "reserve", "append"}
                                      /\ calls[c].message.target # NoMemory
    BY <1>0, <1>4 DEF CarryingOf
  <1>5. ASSUME NEW c \in Calls, Burn(c)
        PROVE  calls' \in [Calls -> Call] /\ Carrying'
    <2>1. calls[c].at = "burn"
      BY <1>5 DEF Burn
    <2> QED
      BY <1>1, <1>2, <1>4, <1>5, <2>1, BurnDoes DEF Labels
  <1>6. ASSUME NEW c \in Calls, Save(c)
        PROVE  calls' \in [Calls -> Call] /\ Carrying'
    <2>1. calls[c].at = "save"
      BY <1>6 DEF Save
    <2>2. Own(calls[c].message) \in Memory /\ \A m \in Memory : m # NoMemory
      BY <1>4, <2>1, MessageFacts, MemoryFacts
    <2> QED
      BY <1>2, <1>4, <1>6, <2>1, <2>2, SaveDoes DEF SavesOwn, SavesEcho, Labels
  <1>7. ASSUME NEW c \in Calls, Weigh(c)
        PROVE  calls' \in [Calls -> Call] /\ Carrying'
    <2>1. calls[c].at = "weigh"
      BY <1>7 DEF Weigh
    <2>2. calls[c].message \in Messages /\ calls[c].saved # NoMemory
      BY <1>4, <2>1
    <2>3. ASSUME calls[c].message.target # NoMemory, NEW allowed \in BOOLEAN,
                 Becomes(c, "settle", calls[c].message, calls[c].saved, allowed, calls[c].tail)
          PROVE  calls' \in [Calls -> Call] /\ Carrying'
      BY <1>2, <2>2, <2>3 DEF Labels
    <2>4. ASSUME ~calls[c].allowed, NEW at \in {"settle", "reserve"},
                 Becomes(c, at, calls[c].message, calls[c].saved, calls[c].allowed, calls[c].tail)
          PROVE  calls' \in [Calls -> Call] /\ Carrying'
      <3>1. at \in Labels \ {"idle"} /\ at \notin {"burn", "save"}
        BY DEF Labels
      <3> QED
        BY <1>2, <2>2, <2>4, <3>1
    <2> QED
      BY <1>7, <2>3, <2>4, WeighDoes
  <1>8. ASSUME NEW c \in Calls, Settle(c)
        PROVE  calls' \in [Calls -> Call] /\ Carrying'
    <2>1. calls[c].at = "settle"
      BY <1>8 DEF Settle
    <2> QED
      BY <1>2, <1>4, <1>8, <2>1, SettleDoes DEF Labels
  <1>9. ASSUME NEW c \in Calls, Reserve(c)
        PROVE  calls' \in [Calls -> Call] /\ Carrying'
    <2>1. calls[c].at = "reserve"
      BY <1>9 DEF Reserve
    <2> QED
      BY <1>2, <1>4, <1>9, <2>1, ReserveDoes DEF Labels
  <1>10. ASSUME NEW c \in Calls, Extend(c) \/ Die(c)
         PROVE  calls' \in [Calls -> Call] /\ Carrying'
    BY <1>1, <1>10, LastDoes
  <1>11. ASSUME UNCHANGED calls
         PROVE  calls' \in [Calls -> Call] /\ Carrying'
    BY <1>0, <1>11 DEF Carrying, CarryingOf
  <1>12. ASSUME NEW k \in Captures, Approve(k) \/ Reject(k)
         PROVE  UNCHANGED calls
    BY <1>12 DEF Approve, Reject
  <1>13. ASSUME NEW v \in Contents, Note(v)
         PROVE  UNCHANGED calls
    BY <1>13 DEF Note
  <1>14. ASSUME NEW p \in Principals, Revoke(p)
         PROVE  UNCHANGED calls
    BY <1>14 DEF Revoke
  <1> QED
    BY <1>3, <1>5, <1>6, <1>7, <1>8, <1>9, <1>10, <1>11, <1>12, <1>13, <1>14 DEF Next, Step

-----------------------------------------------------------------------------
(***************************************************************************)
(* The tables                                                              *)
(***************************************************************************)
MemoryRow == [status : {"none", "active", "quarantined", "archived"},
              by : Memory \cup {NoMemory}, capture : Captures \cup {NoCapture}]

LEMMA RowTyped ==
  ASSUME NEW k \in Captures \cup {NoCapture}
  PROVE  /\ Row(k) \in MemoryRow /\ Row(k).status = "active" /\ Row(k).by = NoMemory
         /\ Row(k).capture = k
  BY DEF Row, MemoryRow

\* What the steps do to the row of a memory.
LEMMA RowWrites ==
  ASSUME TypeOK, NEW m \in Memory, NEW by \in Memory, NEW status \in {"quarantined", "archived"}
  PROVE  /\ memories \in [Memory -> MemoryRow]
         /\ [memories EXCEPT ![m].status = status] \in [Memory -> MemoryRow]
         /\ [memories EXCEPT ![m].status = status][m].status = status
         /\ [memories EXCEPT ![m].status = status][m].by = memories[m].by
         /\ [memories EXCEPT ![m].status = status][m].capture = memories[m].capture
         /\ \A n \in Memory \ {m} : [memories EXCEPT ![m].status = status][n] = memories[n]
         /\ [memories EXCEPT ![m].by = by] \in [Memory -> MemoryRow]
         /\ [memories EXCEPT ![m].by = by][m].by = by
         /\ [memories EXCEPT ![m].by = by][m].status = memories[m].status
         /\ [memories EXCEPT ![m].by = by][m].capture = memories[m].capture
         /\ \A n \in Memory \ {m} : [memories EXCEPT ![m].by = by][n] = memories[n]
  <1>1. memories \in [Memory -> MemoryRow]
    BY DEF TypeOK, MemoryRow
  <1> QED
    BY <1>1 DEF MemoryRow

\* A memory is saved anew, in the place of what was on its row.
Saved(m, k) ==
    /\ memories' \in [Memory -> MemoryRow]
    /\ \A n \in Memory \ {m} : memories'[n] = memories[n]
    /\ memories'[m].status = "active" /\ memories'[m].by = NoMemory /\ memories'[m].capture = k

\* One row is quarantined, or some are archived, or one is superseded: what is
\* in use gets less.
Lessens ==
    /\ memories' \in [Memory -> MemoryRow]
    /\ \A m \in Memory :
          /\ memories'[m].capture = memories[m].capture
          /\ memories'[m].status = memories[m].status
             \/ memories'[m].status \in {"quarantined", "archived"}
          /\ memories[m].status = "none" => memories'[m].status = "none"

Supersedes(stale, by) ==
    /\ stale \in Memory /\ by \in Memory /\ stale # by
    /\ memories'[stale].by = by
    /\ \A m \in Memory \ {stale} : memories'[m].by = memories[m].by

\* The steps, by what they do to memories.
LEMMA MemoriesStep ==
  ASSUME TypeOK, Carrying, Owned, Kept, Next
  PROVE  \/ UNCHANGED memories
         \/ \E c \in Calls : Save(c) /\ SavesOwn(c) /\ Saved(Own(calls[c].message), Capture(calls[c].message))
         \/ \E v \in Contents : Note(v) /\ Saved(<<User, v>>, NoCapture)
         \/ /\ Lessens
            /\ \/ \A m \in Memory : memories'[m].by = memories[m].by
               \/ \E c \in Calls : Settle(c) /\ calls[c].allowed
                                   /\ Supersedes(calls[c].message.target, calls[c].saved)
  <1>0. memories \in [Memory -> MemoryRow]
    BY DEF TypeOK, MemoryRow
  <1>1. ASSUME NEW c \in Calls, Save(c)
        PROVE  UNCHANGED memories \/ (SavesOwn(c) /\ Saved(Own(calls[c].message), Capture(calls[c].message)))
    <2>1. Own(calls[c].message) \in Memory /\ Capture(calls[c].message) \in Captures \cup {NoCapture}
      BY <1>1, MessageFacts DEF Save, Carrying, CarryingOf
    <2>2. SavesOwn(c) => Saved(Own(calls[c].message), Capture(calls[c].message))
      BY <1>0, <2>1, RowTyped DEF SavesOwn, Saved, Stored
    <2> QED
      BY <1>1, <2>2, SaveDoes DEF SavesEcho
  <1>2. ASSUME NEW v \in Contents, Note(v)
        PROVE  Saved(<<User, v>>, NoCapture)
    <2>1. <<User, v>> \in Memory /\ memories' = [memories EXCEPT ![<<User, v>>] = Row(NoCapture)]
      BY <1>2 DEF Note, Memory, Authors
    <2> QED
      BY <1>0, <2>1, RowTyped DEF Saved
  <1>3. ASSUME NEW k \in Captures, Reject(k)
        PROVE  Lessens /\ \A m \in Memory : memories'[m].by = memories[m].by
    <2>1. ASSUME NEW m \in Memory
          PROVE  /\ memories'[m] \in MemoryRow /\ memories'[m].by = memories[m].by
                 /\ memories'[m].capture = memories[m].capture
                 /\ memories'[m].status = memories[m].status \/ memories'[m].status = "archived"
                 /\ memories[m].status = "none" => memories'[m].status = "none"
      <3>1. memories'[m] = IF memories[m].capture = k THEN [memories[m] EXCEPT !.status = "archived"]
                           ELSE memories[m]
        BY <1>3 DEF Reject
      <3>2. memories[m].status = "none" => memories[m].capture # k
        BY CaptureFacts DEF Owned
      <3> QED
        BY <1>0, <3>1, <3>2 DEF MemoryRow
    <2>2. memories' = [m \in Memory |-> memories'[m]]
      BY <1>3 DEF Reject
    <2>3. memories' \in [Memory -> MemoryRow]
      BY <2>1, <2>2
    <2> QED
      BY <2>1, <2>3 DEF Lessens
  <1>4. ASSUME NEW c \in Calls, Settle(c)
        PROVE  \/ UNCHANGED memories
               \/ Lessens /\ \A m \in Memory : memories'[m].by = memories[m].by
               \/ Lessens /\ calls[c].allowed /\ Supersedes(calls[c].message.target, calls[c].saved)
    <2>1. /\ calls[c].message \in Messages /\ calls[c].saved \in Memory
          /\ calls[c].allowed => calls[c].message.target # NoMemory
      BY <1>4 DEF Settle, Carrying, CarryingOf, TypeOK
    <2>2. calls[c].allowed => calls[c].message.target \in Memory
      BY <2>1, MessageFacts
    <2>3. PICK t, s : t = calls[c].message.target /\ s = calls[c].saved
      OBVIOUS
    <2>4. CASE calls[c].allowed
      <3>1. UNCHANGED memories \/ (memories' = [memories EXCEPT ![t].by = s] /\ t # s)
        BY <1>4, <2>3, <2>4 DEF Settle, Supersede
      <3>2. ASSUME memories' = [memories EXCEPT ![t].by = s], t # s
            PROVE  Lessens /\ Supersedes(t, s)
        <4>1. t \in Memory /\ s \in Memory
          BY <2>1, <2>2, <2>3, <2>4
        <4>2. /\ memories' \in [Memory -> MemoryRow]
              /\ memories'[t].by = s /\ memories'[t].status = memories[t].status
              /\ memories'[t].capture = memories[t].capture
              /\ \A n \in Memory \ {t} : memories'[n] = memories[n]
          BY <3>2, <4>1, RowWrites
        <4> QED
          BY <3>2, <4>1, <4>2 DEF Lessens, Supersedes
      <3> QED
        BY <2>3, <2>4, <3>1, <3>2 DEF Supersedes
    <2>5. CASE ~calls[c].allowed
      <3>1. memories' = [memories EXCEPT ![s].status = "quarantined"] /\ s \in Memory
        BY <1>4, <2>1, <2>3, <2>5 DEF Settle, Quarantine
      <3>2. /\ memories' \in [Memory -> MemoryRow]
            /\ memories'[s].status = "quarantined" /\ memories'[s].by = memories[s].by
            /\ memories'[s].capture = memories[s].capture
            /\ \A n \in Memory \ {s} : memories'[n] = memories[n]
        BY <3>1, RowWrites
      <3>3. memories[s].status # "none"
        BY <2>1, <2>3, <3>1, MemoryFacts DEF Kept
      <3>4. Lessens /\ \A m \in Memory : memories'[m].by = memories[m].by
        BY <3>2, <3>3 DEF Lessens
      <3> QED
        BY <3>4
    <2> QED
      BY <2>4, <2>5
  <1>5. ASSUME NEW c \in Calls, \/ (\E msg \in Messages : Begin(c, msg)) \/ Burn(c) \/ Weigh(c)
                                \/ Reserve(c) \/ Extend(c) \/ Die(c)
        PROVE  UNCHANGED memories
    BY <1>5 DEF Begin, Burn, Weigh, Reserve, Extend, Die, tables
  <1>6. ASSUME \/ \E k \in Captures : Approve(k)
               \/ \E p \in Principals : Revoke(p)
        PROVE  UNCHANGED memories
    BY <1>6 DEF Approve, Revoke
  <1> QED
    BY <1>1, <1>2, <1>3, <1>4, <1>5, <1>6 DEF Next, Step

LEMMA MemoriesTyped ==
  ASSUME TypeOK, Carrying, Owned, Kept, Next
  PROVE  memories' \in [Memory -> MemoryRow] /\ Owned'
  <1>0. memories \in [Memory -> MemoryRow]
    BY DEF TypeOK, MemoryRow
  <1>1. CASE UNCHANGED memories
    BY <1>0, <1>1 DEF Owned
  <1>2. ASSUME NEW c \in Calls, Save(c), Saved(Own(calls[c].message), Capture(calls[c].message))
        PROVE  memories' \in [Memory -> MemoryRow] /\ Owned'
    <2>1. Capture(calls[c].message)[1] = Author(Own(calls[c].message))
      BY <1>2, MessageFacts DEF Save, Carrying, CarryingOf
    <2> QED
      BY <1>2, <2>1 DEF Saved, Owned
  <1>3. ASSUME NEW v \in Contents, Saved(<<User, v>>, NoCapture)
        PROVE  memories' \in [Memory -> MemoryRow] /\ Owned'
    BY <1>3 DEF Saved, Owned, NoCapture, Author
  <1>4. CASE Lessens
    BY <1>4 DEF Lessens, Owned
  <1> QED
    BY <1>1, <1>2, <1>3, <1>4, MemoriesStep

\* Only a step of its own changes what a call carries.
LEMMA CallsStep ==
  ASSUME TypeOK, Carrying, Next, NEW d \in Calls
  PROVE  \/ calls'[d] = calls[d]
         \/ \E msg \in Messages : Begin(d, msg)
         \/ Burn(d) \/ Save(d) \/ Weigh(d) \/ Settle(d) \/ Reserve(d) \/ Extend(d) \/ Die(d)
  <1>1. ASSUME NEW c \in Calls \ {d}, Step(c)
        PROVE  calls'[d] = calls[d]
    <2>1. ASSUME NEW at, NEW message, NEW saved, NEW allowed, NEW tail,
                 Becomes(c, at, message, saved, allowed, tail)
          PROVE  calls'[d] = calls[d]
      BY <2>1 DEF Becomes
    <2>2. Stops(c) => calls'[d] = calls[d]
      BY DEF Stops
    <2>3. ASSUME NEW msg \in Messages, Begin(c, msg)
          PROVE  calls'[d] = calls[d]
      BY <2>1, <2>3, BeginDoes
    <2>4. Burn(c) \/ Settle(c) \/ Reserve(c) \/ Extend(c) \/ Die(c) => calls'[d] = calls[d]
      BY <2>1, <2>2, BurnDoes, SettleDoes, ReserveDoes, LastDoes
    <2>5. Save(c) => calls'[d] = calls[d]
      BY <2>1, SaveDoes DEF SavesOwn, SavesEcho
    <2>6. Weigh(c) => calls'[d] = calls[d]
      BY <2>1, WeighDoes
    <2> QED
      BY <1>1, <2>3, <2>4, <2>5, <2>6 DEF Step
  <1>2. ASSUME NEW k \in Captures, Approve(k) \/ Reject(k)
        PROVE  UNCHANGED calls
    BY <1>2 DEF Approve, Reject
  <1>3. ASSUME NEW v \in Contents, Note(v)
        PROVE  UNCHANGED calls
    BY <1>3 DEF Note
  <1>4. ASSUME NEW p \in Principals, Revoke(p)
        PROVE  UNCHANGED calls
    BY <1>4 DEF Revoke
  <1>5. \/ UNCHANGED calls
        \/ \E c \in Calls : Step(c)
    BY <1>2, <1>3, <1>4 DEF Next
  <1>6. Step(d) => \/ \E msg \in Messages : Begin(d, msg)
                   \/ Burn(d) \/ Save(d) \/ Weigh(d) \/ Settle(d) \/ Reserve(d) \/ Extend(d) \/ Die(d)
    BY DEF Step
  <1> QED
    BY <1>1, <1>5, <1>6

\* How a call comes by a memory: it saves it, and keeps it and its message then.
LEMMA SavedStep ==
  ASSUME TypeOK, Carrying, Next, NEW d \in Calls, calls'[d].saved # NoMemory
  PROVE  /\ calls'[d].message = calls[d].message
         /\ \/ calls'[d].saved = calls[d].saved
            \/ Save(d) /\ (SavesOwn(d) \/ \E m \in Memory : SavesEcho(d, m))
  <1>1. CASE calls'[d] = calls[d]
    BY <1>1
  <1>2. ASSUME \E msg \in Messages : Begin(d, msg)
        PROVE  FALSE
    BY <1>2, BeginDoes DEF Becomes
  <1>3. CASE Burn(d)
    BY <1>3, BurnDoes, IdleCall DEF Stops, Becomes
  <1>4. CASE Save(d)
    BY <1>4, SaveDoes DEF SavesOwn, SavesEcho, Becomes
  <1>5. CASE Weigh(d)
    BY <1>5, WeighDoes DEF Becomes
  <1>6. CASE Settle(d)
    BY <1>6, SettleDoes DEF Becomes
  <1>7. CASE Reserve(d)
    BY <1>7, ReserveDoes DEF Becomes
  <1>8. ASSUME Extend(d) \/ Die(d)
        PROVE  FALSE
    BY <1>8, LastDoes, IdleCall DEF Stops
  <1> QED
    BY <1>1, <1>2, <1>3, <1>4, <1>5, <1>6, <1>7, <1>8, CallsStep

LEMMA KeptStep ==
  ASSUME TypeOK, Carrying, Owned, Kept, Next
  PROVE  Kept'
  <1>1. ASSUME NEW m \in Memory, memories[m].status # "none"
        PROVE  memories'[m].status # "none"
    BY <1>1, MemoriesStep DEF Saved, Lessens
  <1>2. ASSUME NEW d \in Calls, calls'[d].saved # NoMemory
        PROVE  memories'[calls'[d].saved].status # "none"
    <2>1. CASE calls'[d].saved = calls[d].saved
      BY <1>1, <1>2, <2>1 DEF Kept, TypeOK
    <2>2. CASE SavesOwn(d) /\ Save(d)
      <3>1. Own(calls[d].message) \in Memory
        BY <2>2, MessageFacts DEF Save, Carrying, CarryingOf
      <3>2. memories'[Own(calls[d].message)].status = "active"
        BY <2>2, <3>1, RowTyped DEF SavesOwn, Stored, Row, TypeOK
      <3> QED
        BY <2>2, <3>2 DEF SavesOwn, Becomes
    <2>3. ASSUME NEW m \in Memory, SavesEcho(d, m)
          PROVE  memories'[calls'[d].saved].status # "none"
      BY <2>3 DEF SavesEcho, Becomes, InUse
    <2> QED
      BY <1>2, <2>1, <2>2, <2>3, SavedStep
  <1> QED
    BY <1>2 DEF Kept

LEMMA UnjudgedStep ==
  ASSUME TypeOK, Unjudged, Next
  PROVE  Unjudged' /\ judged \subseteq judged'
  <1>1. ASSUME UNCHANGED <<revoked, decisions, judged>>
        PROVE  Unjudged' /\ judged \subseteq judged'
    BY <1>1 DEF Unjudged
  <1>2. ASSUME NEW c \in Calls, Step(c)
        PROVE  UNCHANGED <<revoked, decisions, judged>>
    BY <1>2 DEF Step, Begin, Burn, Save, Weigh, Settle, Reserve, Extend, Die, tables, history
  <1>3. ASSUME NEW k \in Captures, NEW decision, Judge(k, decision), UNCHANGED revoked
        PROVE  Unjudged' /\ judged \subseteq judged'
    BY <1>3 DEF Judge, Unjudged, TypeOK
  <1>4. ASSUME NEW k \in Captures, Approve(k) \/ Reject(k)
        PROVE  Unjudged' /\ judged \subseteq judged'
    BY <1>3, <1>4 DEF Approve, Reject
  <1>5. ASSUME NEW v \in Contents, Note(v)
        PROVE  UNCHANGED <<revoked, decisions, judged>>
    BY <1>5 DEF Note
  <1>6. ASSUME NEW p \in Principals, Revoke(p)
        PROVE  Unjudged' /\ judged \subseteq judged'
    BY <1>6 DEF Revoke, Unjudged
  <1> QED
    BY <1>1, <1>2, <1>4, <1>5, <1>6 DEF Next

-----------------------------------------------------------------------------
(***************************************************************************)
(* The ledger                                                              *)
(***************************************************************************)
LedgerRow == [nonce : Nonces, previous : Nat, memory : Memory]

LEMMA LedgerTyped == TypeOK => \A p \in Principals : ledger[p] \in Seq(LedgerRow)
  BY DEF TypeOK, LedgerRow

LEMMA AppendFacts ==
  ASSUME NEW R, NEW q \in Seq(R), NEW r \in R
  PROVE  /\ Append(q, r) \in Seq(R) /\ Len(Append(q, r)) = Len(q) + 1
         /\ DOMAIN Append(q, r) = 1 .. Len(q) + 1 /\ DOMAIN q = 1 .. Len(q) /\ Len(q) \in Nat
         /\ Append(q, r)[Len(q) + 1] = r
         /\ \A i \in DOMAIN q : Append(q, r)[i] = q[i]
  OBVIOUS

LEMMA LedgerUntouched ==
  ASSUME Next
  PROVE  \/ UNCHANGED <<ledger, writer>>
         \/ \E c \in Calls : Reserve(c) \/ Extend(c) \/ Die(c)
  <1>1. ASSUME NEW c \in Calls, \/ (\E msg \in Messages : Begin(c, msg)) \/ Burn(c) \/ Save(c)
                                \/ Weigh(c) \/ Settle(c)
        PROVE  UNCHANGED <<ledger, writer>>
    BY <1>1 DEF Begin, Burn, Save, Weigh, Settle, tables
  <1>2. ASSUME \/ (\E k \in Captures : Approve(k) \/ Reject(k))
               \/ (\E v \in Contents : Note(v))
               \/ \E p \in Principals : Revoke(p)
        PROVE  UNCHANGED <<ledger, writer>>
    BY <1>2 DEF Approve, Reject, Note, Revoke
  <1> QED
    BY <1>1, <1>2 DEF Next, Step

LEMMA WritingStep ==
  ASSUME TypeOK, Carrying, Writing, Chained, Next
  PROVE  /\ Writing' /\ Chained' /\ writer' \in Calls \cup {NoCall}
         /\ ledger' \in [Principals -> Seq([nonce : Nonces, previous : Nat, memory : Memory])]
  <1>0. /\ writer \in Calls \cup {NoCall} /\ NoCall \notin Calls
        /\ ledger \in [Principals -> Seq([nonce : Nonces, previous : Nat, memory : Memory])]
    BY MemoryFacts DEF TypeOK
  \* Another call than c keeps what it has, or is not writing.
  <1>1. ASSUME NEW d \in Calls, ~Reserve(d), ~Extend(d), ~Die(d)
        PROVE  calls'[d] = calls[d] \/ (calls'[d].at # "append" /\ calls[d].at # "append")
    <2>1. CASE \E msg \in Messages : Begin(d, msg)
      BY <2>1, BeginDoes DEF Becomes, Begin
    <2>2. CASE Burn(d)
      BY <2>2, BurnDoes, IdleCall DEF Becomes, Stops, Burn
    <2>3. CASE Save(d)
      BY <2>3, SaveDoes DEF SavesOwn, SavesEcho, Becomes, Save
    <2>4. CASE Weigh(d)
      BY <2>4, WeighDoes DEF Becomes, Weigh
    <2>5. CASE Settle(d)
      BY <2>5, SettleDoes DEF Becomes, Settle
    <2> QED
      BY <1>1, <2>1, <2>2, <2>3, <2>4, <2>5, CallsStep
  <1>2. ASSUME NEW c \in Calls, NEW d \in Calls \ {c}, Reserve(c) \/ Extend(c) \/ Die(c)
        PROVE  calls'[d] = calls[d]
    BY <1>2, ReserveDoes, LastDoes DEF Becomes, Stops
  <1>3. CASE ~\E c \in Calls : Reserve(c) \/ Extend(c) \/ Die(c)
    <2>1. UNCHANGED <<ledger, writer>>
      BY <1>3, LedgerUntouched
    <2>2. Writing'
      BY <1>1, <1>3, <2>1 DEF Writing
    <2> QED
      BY <1>0, <2>1, <2>2 DEF Chained
  <1>4. ASSUME NEW c \in Calls, Reserve(c)
        PROVE  /\ Writing' /\ Chained' /\ writer' = c /\ UNCHANGED ledger
    <2>1. /\ calls'[c].at = "append" /\ writer' = c /\ UNCHANGED ledger
          /\ calls'[c].tail = Len(ledger[calls'[c].message.principal]) /\ writer = NoCall
      BY <1>4, ReserveDoes DEF Becomes, Reserve, Free, tables
    <2>2. \A d \in Calls \ {c} : calls'[d] = calls[d] /\ calls[d].at # "append"
      BY <1>0, <1>2, <1>4, <2>1 DEF Writing
    <2> QED
      BY <2>1, <2>2 DEF Writing, Chained
  <1>5. ASSUME NEW c \in Calls, Extend(c)
        PROVE  /\ Writing' /\ Chained' /\ writer' = NoCall
               /\ ledger' \in [Principals -> Seq([nonce : Nonces, previous : Nat, memory : Memory])]
    <2> DEFINE msg == calls[c].message
               row == [nonce |-> msg.nonce, previous |-> calls[c].tail, memory |-> calls[c].saved]
    <2>1. /\ msg \in Messages /\ msg.principal \in Principals /\ msg.nonce \in Nonces
          /\ calls[c].saved \in Memory /\ calls[c].at = "append"
      BY <1>5, MessageFacts DEF Extend, Carrying, CarryingOf, TypeOK, Nonces
    <2>2. calls[c].tail = Len(ledger[msg.principal]) /\ calls[c].tail \in Nat /\ writer = c
      BY <2>1 DEF Writing, TypeOK
    <2>3. row \in [nonce : Nonces, previous : Nat, memory : Memory] /\ row.previous = calls[c].tail
      BY <2>1, <2>2
    <2>4. /\ ledger' = [ledger EXCEPT ![msg.principal] = Append(ledger[msg.principal], row)]
          /\ writer' = NoCall
      BY <1>5, <2>1 DEF Extend, TypeOK
    <2> HIDE DEF msg, row
    <2>5. /\ ledger' \in [Principals -> Seq([nonce : Nonces, previous : Nat, memory : Memory])]
          /\ ledger'[msg.principal] = Append(ledger[msg.principal], row)
          /\ \A p \in Principals \ {msg.principal} : ledger'[p] = ledger[p]
      <3>1. PICK longer : longer = Append(ledger[msg.principal], row)
        OBVIOUS
      <3>2. longer \in Seq([nonce : Nonces, previous : Nat, memory : Memory])
        BY <2>1, <2>3, <3>1, LedgerTyped, AppendFacts DEF LedgerRow
      <3>3. ledger' = [ledger EXCEPT ![msg.principal] = longer]
        BY <2>4, <3>1
      <3> QED
        BY <1>0, <2>1, <3>1, <3>2, <3>3
    <2>6. Chained'
      <3>1. ASSUME NEW p \in Principals, NEW i \in DOMAIN ledger'[p]
            PROVE  ledger'[p][i].previous = i - 1
        <4>1. CASE p # msg.principal
          BY <2>5, <4>1 DEF Chained
        <4>2. CASE p = msg.principal
          <5>1. ledger[p] \in Seq([nonce : Nonces, previous : Nat, memory : Memory])
            BY <1>0
          <5>2. \/ i \in DOMAIN ledger[p] /\ ledger'[p][i] = ledger[p][i]
                \/ i = Len(ledger[p]) + 1 /\ ledger'[p][i] = row
            <6>1. PICK q : q = ledger[p]
              OBVIOUS
            <6>2. q \in Seq(LedgerRow) /\ row \in LedgerRow
              BY <2>3, <5>1, <6>1 DEF LedgerRow
            <6>3. ledger'[p] = Append(q, row)
              BY <2>5, <4>2, <6>1
            <6> QED
              BY <6>1, <6>2, <6>3, AppendFacts
          <5> QED
            BY <2>2, <2>3, <4>2, <5>1, <5>2 DEF Chained
        <4> QED
          BY <4>1, <4>2
      <3> QED
        BY <3>1 DEF Chained
    <2>7. \A d \in Calls : calls'[d].at # "append"
      <3>1. calls'[c].at = "idle"
        BY <1>5, LastDoes, IdleCall DEF Stops
      <3>2. \A d \in Calls \ {c} : calls'[d] = calls[d] /\ calls[d].at # "append"
        BY <1>2, <1>5, <2>2 DEF Writing
      <3> QED
        BY <3>1, <3>2
    <2>8. Writing'
      BY <1>0, <2>4, <2>7 DEF Writing
    <2> QED
      BY <2>4, <2>5, <2>6, <2>8
  <1>6. ASSUME NEW c \in Calls, Die(c)
        PROVE  /\ Writing' /\ Chained' /\ UNCHANGED ledger /\ writer' \in Calls \cup {NoCall}
    <2>1. UNCHANGED ledger /\ writer' = IF writer = c THEN NoCall ELSE writer
      BY <1>6 DEF Die, tables
    <2>2. calls'[c].at = "idle" /\ \A d \in Calls \ {c} : calls'[d] = calls[d]
      BY <1>6, LastDoes, IdleCall DEF Stops
    <2> QED
      BY <1>0, <2>1, <2>2 DEF Writing, Chained
  <1> QED
    BY <1>0, <1>3, <1>4, <1>5, <1>6

\* The ledger grows at its ends.
LEMMA LedgerGrows ==
  ASSUME TypeOK, Carrying, Next
  PROVE  /\ \A m \in Memory : Author(m) # User /\ Linked(m) => Linked(m)'
         /\ \A c \in Calls, m \in Memory :
               /\ Extend(c) /\ calls[c].saved = m /\ calls[c].message.principal = Author(m)
               => Linked(m)'
  <1>1. ASSUME NEW c \in Calls, Extend(c)
        PROVE  /\ \A m \in Memory : Author(m) # User /\ Linked(m) => Linked(m)'
               /\ \A m \in Memory : calls[c].saved = m /\ calls[c].message.principal = Author(m)
                     => Linked(m)'
    <2> DEFINE msg == calls[c].message
               row == [nonce |-> msg.nonce, previous |-> calls[c].tail, memory |-> calls[c].saved]
    <2>1. msg.principal \in Principals /\ calls[c].saved \in Memory
      BY <1>1, MessageFacts DEF Extend, Carrying, CarryingOf, TypeOK
    <2>2. row.memory = calls[c].saved
      OBVIOUS
    <2>3. /\ \A p \in Principals : ledger[p] \in Seq([nonce : Nonces, previous : Nat, memory : Memory])
          /\ row \in [nonce : Nonces, previous : Nat, memory : Memory]
      BY <1>1, <2>1, MessageFacts DEF Extend, Carrying, CarryingOf, TypeOK, Nonces
    <2>4. ledger' = [ledger EXCEPT ![msg.principal] = Append(ledger[msg.principal], row)]
      BY <1>1 DEF Extend, TypeOK
    <2> HIDE DEF msg, row
    <2>5. /\ ledger'[msg.principal] = Append(ledger[msg.principal], row)
          /\ \A p \in Principals \ {msg.principal} : ledger'[p] = ledger[p]
      BY <2>1, <2>4 DEF TypeOK
    <2>6. /\ Len(ledger[msg.principal]) + 1 \in DOMAIN ledger'[msg.principal]
          /\ ledger'[msg.principal][Len(ledger[msg.principal]) + 1] = row
          /\ \A i \in DOMAIN ledger[msg.principal] :
                i \in DOMAIN ledger'[msg.principal] /\ ledger'[msg.principal][i] = ledger[msg.principal][i]
      BY <2>1, <2>3, <2>5, LedgerTyped, AppendFacts DEF LedgerRow
    <2>7. ASSUME NEW m \in Memory, calls[c].saved = m, msg.principal = Author(m)
          PROVE  Linked(m)'
      BY <2>2, <2>6, <2>7 DEF Linked
    <2>8. ASSUME NEW m \in Memory, Author(m) # User, Linked(m)
          PROVE  Linked(m)'
      <3>1. Author(m) \in Principals
        BY <2>8, MemoryFacts DEF Authors
      <3> QED
        BY <2>5, <2>6, <2>8, <3>1 DEF Linked
    <2> QED
      BY <2>7, <2>8 DEF msg
  <1>2. CASE ~\E c \in Calls : Extend(c)
    <2>1. UNCHANGED ledger
      BY <1>2, LedgerUntouched DEF Reserve, Die, tables
    <2> QED
      BY <1>2, <2>1 DEF Linked
  <1> QED
    BY <1>1, <1>2

\* What a call has saved it holds, with its message, until it ends.
LEMMA HeldStep ==
  ASSUME TypeOK, Carrying, Next, NEW d \in Calls, calls[d].saved # NoMemory
  PROVE  \/ Extend(d) \/ Die(d)
         \/ calls'[d].saved = calls[d].saved /\ calls'[d].message = calls[d].message
  <1>1. calls[d].at \notin {"idle", "burn", "save"}
    BY DEF Carrying, CarryingOf
  <1>2. ~(\E msg \in Messages : Begin(d, msg)) /\ ~Burn(d) /\ ~Save(d)
    BY <1>1 DEF Begin, Burn, Save
  <1>3. CASE Weigh(d)
    BY <1>3, WeighDoes DEF Becomes
  <1>4. CASE Settle(d)
    BY <1>4, SettleDoes DEF Becomes
  <1>5. CASE Reserve(d)
    BY <1>5, ReserveDoes DEF Becomes
  <1> QED
    BY <1>2, <1>3, <1>4, <1>5, CallsStep

\* Only a save of the memory itself takes something back of its history.
LEMMA HistoryStep ==
  ASSUME TypeOK, Carrying, Next
  PROVE  \/ \E c \in Calls : Save(c) /\ SavesOwn(c)
         \/ orphans \subseteq orphans' /\ UNCHANGED revised /\ met' \subseteq met
  <1>1. ASSUME NEW c \in Calls, Save(c)
        PROVE  SavesOwn(c) \/ UNCHANGED <<orphans, revised, met>>
    BY <1>1, SaveDoes DEF SavesEcho
  <1>2. ASSUME NEW c \in Calls, \/ (\E msg \in Messages : Begin(c, msg)) \/ Burn(c) \/ Weigh(c)
                                \/ Settle(c) \/ Reserve(c) \/ Extend(c)
        PROVE  UNCHANGED <<orphans, revised, met>>
    BY <1>2 DEF Begin, Burn, Weigh, Settle, Reserve, Extend, history
  <1>3. ASSUME NEW c \in Calls, Die(c)
        PROVE  orphans \subseteq orphans' /\ UNCHANGED <<revised, met>>
    BY <1>3 DEF Die
  <1>4. ASSUME NEW v \in Contents, Note(v)
        PROVE  UNCHANGED <<orphans, revised>> /\ met' \subseteq met
    BY <1>4 DEF Note
  <1>5. ASSUME \/ (\E k \in Captures : Approve(k) \/ Reject(k))
               \/ \E p \in Principals : Revoke(p)
        PROVE  UNCHANGED <<orphans, revised, met>>
    BY <1>5 DEF Approve, Reject, Revoke
  <1> QED
    BY <1>1, <1>2, <1>3, <1>4, <1>5 DEF Next, Step

\* After a save of its own the call holds a memory of its principal.
LEMMA SaveHolds ==
  ASSUME TypeOK, Carrying, NEW c \in Calls, Save(c), SavesOwn(c)
  PROVE  /\ Own(calls[c].message) \in Memory
         /\ calls'[c].at = "weigh" /\ calls'[c].saved = Own(calls[c].message)
         /\ calls'[c].message = calls[c].message
         /\ Author(Own(calls[c].message)) = calls[c].message.principal
         /\ calls[c].message.principal # User
  BY MessageFacts DEF SavesOwn, Becomes, Save, Carrying, CarryingOf

LEMMA WrittenStep ==
  ASSUME TypeOK, Carrying, Owned, Kept, Written, Next
  PROVE  Written'
  <1>1. ASSUME NEW c \in Calls, Save(c), SavesOwn(c), NEW m \in Memory, m = Own(calls[c].message)
        PROVE  Owed(m)'
    BY <1>1, SaveHolds DEF Owed
  <1>2. ASSUME NEW m \in Memory, Author(m) # User, memories[m].status = "none",
               memories'[m].status # "none"
        PROVE  Owed(m)'
    <2>1. ASSUME NEW v \in Contents, Saved(<<User, v>>, NoCapture)
          PROVE  FALSE
      BY <1>2, <2>1 DEF Saved, Author
    <2>2. ASSUME NEW c \in Calls, Save(c), SavesOwn(c), NEW k, Saved(Own(calls[c].message), k)
          PROVE  m = Own(calls[c].message)
      BY <1>2, <2>2 DEF Saved
    <2> QED
      BY <1>1, <1>2, <2>1, <2>2, MemoriesStep DEF Lessens
  <1>3. ASSUME NEW m \in Memory, m \in orphans
        PROVE  Owed(m)' \/ m \in orphans'
    <2>1. ASSUME NEW c \in Calls, Save(c), SavesOwn(c), m # Own(calls[c].message)
          PROVE  m \in orphans'
      BY <1>3, <2>1 DEF SavesOwn, NoteSave
    <2> QED
      BY <1>1, <1>3, <2>1, HistoryStep
  <1>4. ASSUME NEW m \in Memory, NEW c \in Calls, calls[c].saved = m,
               calls[c].message.principal = Author(m)
        PROVE  Linked(m)' \/ Owed(m)' \/ m \in orphans'
    <2>1. m # NoMemory
      BY MemoryFacts
    <2>2. CASE Extend(c)
      BY <1>4, <2>2, LedgerGrows
    <2>3. CASE Die(c)
      BY <1>4, <2>1, <2>3 DEF Die
    <2>4. CASE calls'[c].saved = calls[c].saved /\ calls'[c].message = calls[c].message
      BY <1>4, <2>4 DEF Owed
    <2> QED
      BY <1>4, <2>1, <2>2, <2>3, <2>4, HeldStep
  <1>5. ASSUME NEW m \in Memory, Author(m) # User, memories[m].status # "none"
        PROVE  Linked(m)' \/ Owed(m)' \/ m \in orphans'
    BY <1>3, <1>4, <1>5, LedgerGrows DEF Written, Owed
  <1>6. ASSUME NEW m \in Memory, Author(m) # User, memories'[m].status # "none"
        PROVE  Linked(m)' \/ Owed(m)' \/ m \in orphans'
    BY <1>2, <1>5, <1>6
  <1> QED
    BY <1>6 DEF Written

-----------------------------------------------------------------------------
(***************************************************************************)
(* What contradicts                                                        *)
(***************************************************************************)
\* Of who is not judged the reputation is the one that all begin with.
LEMMA AuthorityIs ==
  ASSUME TypeOK, Unjudged, NEW m \in Memory, memories[m].by = NoMemory, Author(m) \notin judged
  PROVE  Authority(m) = Weight(Author(m)) /\ Weight(Author(m)) \in Int
  <1>1. CASE Author(m) = User
    BY <1>1 DEF Authority, Weight, UserTrust
  <1>2. CASE Author(m) # User
    <2> DEFINE p == Author(m)
    <2>1. p \in Principals /\ p \notin revoked
      BY <1>2, MemoryFacts DEF Authors, Unjudged
    <2>2. ASSUME NEW d \in {"approved", "rejected"}
          PROVE  Decided(p, d) = 0
      <3>1. {k \in Captures : k[1] = p /\ decisions[k] = d} = {}
        BY <2>2 DEF Unjudged
      <3> QED
        BY <3>1, FS_EmptySet DEF Decided
    <2>3. Reputation(p) = DefaultScore[Kind[p]]
      <3>1. 0 + 0 < MinDecisions /\ MinDecisions \in Nat
        BY LedgerAssumption
      <3> QED
        BY <2>2, <3>1 DEF Reputation
    <2>4. Trust[p] \in Nat /\ DefaultScore[Kind[p]] \in Nat
      BY <2>1, LedgerAssumption DEF DefaultScore
    <2>5. Authority(m) = (Trust[p] * DefaultScore[Kind[p]]) \div 1
      BY <1>2, <2>1, <2>3 DEF Authority
    <2>6. \A n \in Nat : n \div 1 = n
      OBVIOUS
    <2>7. Trust[p] * DefaultScore[Kind[p]] \in Nat
      BY <2>4
    <2> QED
      BY <1>2, <2>5, <2>6, <2>7 DEF Weight
  <1> QED
    BY <1>1, <1>2

\* A memory that has been in use all the time was in use before the step.
LEMMA InUseStep ==
  ASSUME TypeOK, Carrying, Owned, Kept, Next, NEW m \in Memory,
         memories'[m].status = "active" /\ memories'[m].by = NoMemory,
         \A c \in Calls : Save(c) /\ SavesOwn(c) => m # Own(calls[c].message),
         \A v \in Contents : Note(v) => m # <<User, v>>
  PROVE  InUse(m)
  <1>1. ASSUME NEW n, NEW k, Saved(n, k), m # n
        PROVE  InUse(m)
    BY <1>1 DEF Saved, InUse
  <1>2. ASSUME NEW stale, NEW by, Supersedes(stale, by)
        PROVE  memories'[m].by = memories[m].by
    BY <1>2, MemoryFacts DEF Supersedes
  <1>3. ASSUME Lessens, memories'[m].by = memories[m].by
        PROVE  InUse(m)
    BY <1>3 DEF Lessens, InUse
  <1> QED
    BY <1>1, <1>2, <1>3, MemoriesStep DEF InUse

\* A call that looks at the rivals finds those that are stronger.
LEMMA WeighFinds ==
  ASSUME TypeOK, Carrying, Owned, Unjudged, NEW c \in Calls, Weigh(c),
         NEW m \in Memory, NEW e \in Memory, Doubting(c, m), Contested(m, e)
  PROVE  \/ calls'[c].at = "settle" /\ ~calls'[c].allowed
         \/ Weight(Author(e)) <= Weight(Author(m)) + Margin
  <1>1. /\ calls[c].saved = m /\ calls[c].message.target = NoMemory
        /\ calls[c].message.principal = Author(m) /\ calls[c].message \in Messages
    BY DEF Doubting, Weigh, Carrying, CarryingOf
  <1>2. e \in Rivals(calls[c].message, m)
    <2>1. memories[e].capture[1] = Author(e)
      BY DEF Contested, InUse, Owned
    <2>2. memories[e].capture # Capture(calls[c].message)
      BY <1>1, <2>1, MessageFacts DEF Contested
    <2> QED
      BY <1>1, <2>2 DEF Rivals, Contested
  <1>3. /\ Authority(e) = Weight(Author(e)) /\ Weight(Author(e)) \in Int
        /\ Authority(m) = Weight(Author(m)) /\ Weight(Author(m)) \in Int
    BY AuthorityIs DEF Contested, InUse
  <1>4. \/ calls'[c].at = "settle" /\ ~calls'[c].allowed
        \/ ~\E r \in Rivals(calls[c].message, calls[c].saved) :
               Authority(r) > Authority(calls[c].saved) + Margin
    BY <1>1, WeighDoes DEF Becomes
  <1> QED
    BY <1>1, <1>2, <1>3, <1>4 DEF Margin

LEMMA DoubtedStep ==
  ASSUME TypeOK, Carrying, Owned, Kept, Unjudged, Doubted, Next
  PROVE  Doubted'
  <1>1. met \subseteq Memory \X Memory /\ judged \subseteq judged'
    BY UnjudgedStep DEF TypeOK
  <1>2. ASSUME NEW c \in Calls, Save(c), SavesOwn(c), NEW e \in Memory,
               NEW m \in Memory, m = Own(calls[c].message)
        PROVE  Author(m) # User /\ (Contested(m, e)' => Doubting(c, m)')
    <2>1. ASSUME calls[c].message.target # NoMemory
          PROVE  m \in revised'
      BY <1>2, <2>1 DEF SavesOwn, NoteSave
    <2> QED
      BY <1>2, <2>1, SaveHolds DEF Contested, Doubting
  <1>3. ASSUME NEW m \in Memory, NEW e \in Memory, <<m, e>> \in met, Contested(m, e)',
               \A c \in Calls : Save(c) /\ SavesOwn(c) => Own(calls[c].message) \notin {m, e},
               \A v \in Contents : Note(v) => e # <<User, v>>
        PROVE  \/ Weight(Author(e)) <= Weight(Author(m)) + Margin
               \/ \E c \in Calls : Doubting(c, m)'
    <2>1. Author(m) # User
      BY <1>3 DEF Doubted
    <2>2. \A v \in Contents : m # <<User, v>>
      BY <2>1 DEF Author
    <2>3. InUse(m) /\ InUse(e)
      BY <1>3, <2>2, InUseStep DEF Contested, InUse
    <2>4. m \notin orphans \cup revised
      <3>1. ASSUME NEW c \in Calls, Save(c), SavesOwn(c), m # Own(calls[c].message)
            PROVE  m \notin orphans \cup revised
        BY <1>3, <3>1 DEF SavesOwn, NoteSave, Contested
      <3> QED
        BY <1>3, <3>1, HistoryStep DEF Contested
    <2>5. Contested(m, e)
      BY <1>1, <1>3, <2>3, <2>4 DEF Contested
    <2>6. ASSUME NEW c \in Calls, Doubting(c, m)
          PROVE  \/ Weight(Author(e)) <= Weight(Author(m)) + Margin
                 \/ Doubting(c, m)'
      <3>1. m # NoMemory /\ calls[c].saved = m /\ calls[c].at \in {"weigh", "settle"}
        BY <2>6, MemoryFacts DEF Doubting
      <3>2. CASE calls'[c] = calls[c]
        BY <2>6, <3>2 DEF Doubting
      <3>3. CASE Weigh(c)
        <4>1. calls'[c].saved = calls[c].saved /\ calls'[c].message = calls[c].message
          BY <3>3, WeighDoes DEF Becomes
        <4>2. \/ calls'[c].at = "settle" /\ ~calls'[c].allowed
              \/ Weight(Author(e)) <= Weight(Author(m)) + Margin
          BY <2>5, <2>6, <3>3, WeighFinds
        <4> QED
          BY <2>6, <4>1, <4>2 DEF Doubting
      <3>4. ASSUME Settle(c)
            PROVE  FALSE
        <4>1. ~calls[c].allowed
          BY <2>6, <3>4 DEF Doubting, Settle
        <4>2. memories' = [memories EXCEPT ![m].status = "quarantined"]
          BY <3>1, <3>4, <4>1 DEF Settle, Quarantine
        <4>3. memories'[m].status = "quarantined"
          BY <4>2, RowWrites
        <4> QED
          BY <1>3, <4>3 DEF Contested, InUse
      <3>5. ASSUME Die(c)
            PROVE  FALSE
        <4>1. m \in orphans'
          BY <3>1, <3>5 DEF Die
        <4> QED
          BY <1>3, <4>1 DEF Contested
      <3>6. ~(\E msg \in Messages : Begin(c, msg)) /\ ~Burn(c) /\ ~Save(c) /\ ~Reserve(c) /\ ~Extend(c)
        BY <3>1 DEF Begin, Burn, Save, Reserve, Extend
      <3> QED
        BY <3>2, <3>3, <3>4, <3>5, <3>6, CallsStep
    <2> QED
      BY <1>3, <2>5, <2>6 DEF Doubted
  \* A pair that is there afterwards was there before, or its first is what was saved.
  <1>4. ASSUME NEW m \in Memory, NEW e \in Memory, <<m, e>> \in met',
               ~\E c \in Calls : Save(c) /\ SavesOwn(c) /\ m = Own(calls[c].message)
        PROVE  /\ <<m, e>> \in met
               /\ \A c \in Calls : Save(c) /\ SavesOwn(c) => Own(calls[c].message) \notin {m, e}
               /\ \A v \in Contents : Note(v) => e # <<User, v>>
    <2>1. ASSUME NEW c \in Calls, Save(c), SavesOwn(c)
          PROVE  <<m, e>> \in met /\ Own(calls[c].message) \notin {m, e}
      <3>1. PICK own : own = Own(calls[c].message)
        OBVIOUS
      <3>2. <<m, e>> \in {pair \in met : own \notin {pair[1], pair[2]}}
                         \cup {<<own, x>> : x \in {x \in Memory \ {own} : InUse(x)}}
        BY <1>4, <2>1, <3>1 DEF SavesOwn, NoteSave
      <3>3. m # own
        BY <1>4, <2>1, <3>1
      <3> QED
        BY <3>1, <3>2, <3>3
    <2>2. ASSUME NEW v \in Contents, Note(v)
          PROVE  e # <<User, v>>
      BY <1>4, <2>2 DEF Note
    <2> QED
      BY <1>4, <2>1, <2>2, HistoryStep
  <1>5. met' \subseteq Memory \X Memory
    <2>1. ASSUME NEW c \in Calls, Save(c), SavesOwn(c)
          PROVE  met' \subseteq Memory \X Memory
      <3>1. PICK own : own = Own(calls[c].message)
        OBVIOUS
      <3>2. own \in Memory
        BY <2>1, <3>1, SaveHolds
      <3>3. met' = {pair \in met : own \notin {pair[1], pair[2]}}
                   \cup {<<own, x>> : x \in {x \in Memory \ {own} : InUse(x)}}
        BY <2>1, <3>1 DEF SavesOwn, NoteSave
      <3> QED
        BY <1>1, <3>2, <3>3
    <2> QED
      BY <1>1, <2>1, HistoryStep
  <1>6. ASSUME NEW m \in Memory, NEW e \in Memory, <<m, e>> \in met'
        PROVE  /\ Author(m) # User
               /\ Contested(m, e)' => \/ Weight(Author(e)) <= Weight(Author(m)) + Margin
                                      \/ \E c \in Calls : Doubting(c, m)'
    <2>1. CASE \E c \in Calls : Save(c) /\ SavesOwn(c) /\ m = Own(calls[c].message)
      BY <1>2, <2>1
    <2>2. CASE ~\E c \in Calls : Save(c) /\ SavesOwn(c) /\ m = Own(calls[c].message)
      <3>1. Author(m) # User
        BY <1>4, <1>6, <2>2 DEF Doubted
      <3> QED
        BY <1>3, <1>4, <1>6, <2>2, <3>1
    <2> QED
      BY <2>1, <2>2
  <1>7. ASSUME NEW pair \in met'
        PROVE  /\ Author(pair[1]) # User
               /\ Contested(pair[1], pair[2])' =>
                     \/ Weight(Author(pair[2])) <= Weight(Author(pair[1])) + Margin
                     \/ \E c \in Calls : Doubting(c, pair[1])'
    <2>1. PICK m \in Memory, e \in Memory : pair = <<m, e>>
      BY <1>5
    <2>2. pair[1] = m /\ pair[2] = e
      BY <2>1
    <2> QED
      BY <1>6, <2>1, <2>2
  <1> QED
    BY <1>7 DEF Doubted

-----------------------------------------------------------------------------
(***************************************************************************)
(* What supersedes                                                         *)
(***************************************************************************)
\* A superseding call was that before, or has just saved.
LEMMA SupersedingStep ==
  ASSUME TypeOK, Carrying, Next, NEW d \in Calls, Superseding(d)'
  PROVE  \/ Superseding(d) /\ calls'[d].saved = calls[d].saved
         \/ /\ Save(d) /\ calls[d].message.target # NoMemory
            /\ (SavesOwn(d) \/ \E m \in Memory : SavesEcho(d, m))
  <1>1. calls'[d].at \in {"weigh", "settle"} /\ calls'[d].message.target # NoMemory
    BY DEF Superseding
  <1>2. CASE calls'[d] = calls[d]
    BY <1>1, <1>2 DEF Superseding
  <1>3. ASSUME \E msg \in Messages : Begin(d, msg)
        PROVE  FALSE
    BY <1>1, <1>3, BeginDoes DEF Becomes
  <1>4. ASSUME Burn(d)
        PROVE  FALSE
    BY <1>1, <1>4, BurnDoes, IdleCall DEF Stops, Becomes
  <1>5. CASE Save(d)
    BY <1>1, <1>5, SaveDoes DEF SavesOwn, SavesEcho, Becomes
  <1>6. CASE Weigh(d)
    <2>1. calls[d].at = "weigh"
      BY <1>6 DEF Weigh
    <2> QED
      BY <1>1, <1>6, <2>1, WeighDoes DEF Becomes, Superseding
  <1>7. ASSUME Settle(d) \/ Reserve(d)
        PROVE  FALSE
    BY <1>1, <1>7, SettleDoes, ReserveDoes DEF Becomes
  <1>8. ASSUME Extend(d) \/ Die(d)
        PROVE  FALSE
    BY <1>1, <1>8, LastDoes, IdleCall DEF Stops
  <1> QED
    BY <1>2, <1>3, <1>4, <1>5, <1>6, <1>7, <1>8, CallsStep

\* The history remembers every overlap of superseding calls.
LEMMA CrossedStep ==
  ASSUME TypeOK, Next
  PROVE  /\ crossed => crossed'
         /\ crossed' \in BOOLEAN
         /\ \A c \in Calls : /\ Save(c) /\ calls[c].message.target # NoMemory
                             /\ \E d \in Calls \ {c} : Superseding(d)
                             => crossed'
  <1>0. crossed \in BOOLEAN
    BY DEF TypeOK
  <1>1. ASSUME NEW c \in Calls, Save(c)
        PROVE  crossed' = (crossed \/ (calls[c].message.target # NoMemory
                                       /\ \E d \in Calls \ {c} : Superseding(d)))
    BY <1>1 DEF Save
  <1>2. ASSUME NEW c \in Calls, \/ (\E msg \in Messages : Begin(c, msg)) \/ Burn(c) \/ Weigh(c)
                                \/ Settle(c) \/ Reserve(c) \/ Extend(c) \/ Die(c)
        PROVE  UNCHANGED crossed
    BY <1>2 DEF Begin, Burn, Weigh, Settle, Reserve, Extend, Die, history
  <1>3. ASSUME \/ (\E k \in Captures : Approve(k) \/ Reject(k))
               \/ (\E v \in Contents : Note(v))
               \/ \E p \in Principals : Revoke(p)
        PROVE  UNCHANGED crossed
    BY <1>3 DEF Approve, Reject, Note, Revoke
  <1>4. (\E c \in Calls : Save(c)) \/ UNCHANGED crossed
    BY <1>2, <1>3 DEF Next, Step
  <1> QED
    BY <1>0, <1>1, <1>4

\* Which call supersedes a memory: one that has found that it may.
LEMMA SettleSupersedes ==
  ASSUME TypeOK, Carrying, NEW c \in Calls, Settle(c), calls[c].allowed
  PROVE  Superseding(c) /\ calls'[c].at = "reserve"
  BY SettleDoes DEF Settle, Superseding, Carrying, CarryingOf, Becomes

LEMMA AloneStep ==
  ASSUME TypeOK, Carrying, Owned, Kept, Alone, Next
  PROVE  Alone'
  <1> SUFFICES ASSUME ~crossed'
               PROVE  Alone'
    BY DEF Alone
  <1>1. \A c \in Calls : Superseding(c) =>
            /\ memories[calls[c].saved].by = NoMemory
            /\ \A d \in Calls : Superseding(d) => d = c
    BY CrossedStep DEF Alone
  <1>2. ASSUME NEW c \in Calls, NEW d \in Calls, Save(c), Superseding(c)', Superseding(d)'
        PROVE  d = c
    <2>1. ASSUME d # c
          PROVE  calls'[d] = calls[d]
      BY <1>2, <2>1, SaveDoes DEF SavesOwn, SavesEcho, Becomes
    <2>2. ASSUME d # c
          PROVE  Superseding(d)
      BY <1>2, <2>1, <2>2 DEF Superseding
    <2>3. calls[c].message.target # NoMemory
      BY <1>2, SupersedingStep DEF Superseding, Save
    <2> QED
      BY <1>2, <2>2, <2>3, CrossedStep
  <1>3. ASSUME NEW c \in Calls, NEW d \in Calls, Superseding(c)', Superseding(d)'
        PROVE  d = c
    <2>1. Superseding(c) \/ Save(c)
      BY <1>3, SupersedingStep
    <2>2. Superseding(d) \/ Save(d)
      BY <1>3, SupersedingStep
    <2> QED
      BY <1>1, <1>2, <1>3, <2>1, <2>2
  <1>4. ASSUME NEW c \in Calls, Superseding(c)', Superseding(c),
               NEW m \in Memory, calls[c].saved = m
        PROVE  memories'[m].by = NoMemory
    <2>1. memories[m].by = NoMemory
      BY <1>1, <1>4
    <2>2. ASSUME NEW n, NEW k, Saved(n, k)
          PROVE  memories'[m].by = NoMemory
      BY <2>1, <2>2 DEF Saved
    <2>3. ASSUME NEW d \in Calls, Settle(d), calls[d].allowed
          PROVE  FALSE
      <3>1. d = c
        BY <1>1, <1>4, <2>3, SettleSupersedes
      <3> QED
        BY <1>4, <2>3, <3>1, SettleSupersedes DEF Superseding
    <2> QED
      BY <2>1, <2>2, <2>3, MemoriesStep
  <1>5. ASSUME NEW c \in Calls, Save(c), Superseding(c)'
        PROVE  memories'[calls'[c].saved].by = NoMemory
    <2>1. CASE SavesOwn(c)
      <3>1. calls'[c].saved = Own(calls[c].message) /\ Own(calls[c].message) \in Memory
        BY <1>5, <2>1, SaveHolds
      <3>2. memories'[Own(calls[c].message)] = Row(Capture(calls[c].message))
        BY <2>1, <3>1 DEF SavesOwn, Stored, TypeOK
      <3> QED
        BY <3>1, <3>2 DEF Row
    <2>2. ASSUME NEW m \in Memory, SavesEcho(c, m)
          PROVE  memories'[calls'[c].saved].by = NoMemory
      BY <2>2 DEF SavesEcho, Becomes, InUse
    <2> QED
      BY <1>5, <2>1, <2>2, SaveDoes
  <1>6. ASSUME NEW c \in Calls, Superseding(c)'
        PROVE  memories'[calls'[c].saved].by = NoMemory
    <2>1. CASE Superseding(c) /\ calls'[c].saved = calls[c].saved
      <3>1. calls[c].saved \in Memory
        BY <2>1 DEF Superseding, Carrying, CarryingOf, TypeOK
      <3> QED
        BY <1>4, <1>6, <2>1, <3>1
    <2> QED
      BY <1>5, <1>6, <2>1, SupersedingStep
  <1> QED
    BY <1>3, <1>6 DEF Alone

LEMMA NoCircleStep ==
  ASSUME TypeOK, Carrying, Owned, Kept, Alone, NoCircle, Next
  PROVE  NoCircle'
  <1> SUFFICES ASSUME ~crossed', NEW S \in (SUBSET Memory) \ {{}}
               PROVE  \E m \in S : memories'[m].by \notin S
    BY DEF NoCircle
  <1>1. ~crossed
    BY CrossedStep
  <1>2. PICK m \in S : memories[m].by \notin S
    BY <1>1 DEF NoCircle
  <1>3. NoMemory \notin S
    BY MemoryFacts
  <1>4. ASSUME NEW n, NEW k, Saved(n, k)
        PROVE  \E x \in S : memories'[x].by \notin S
    <2>1. CASE n \in S
      BY <1>3, <1>4, <2>1 DEF Saved
    <2>2. CASE n \notin S
      BY <1>2, <1>4, <2>2 DEF Saved
    <2> QED
      BY <2>1, <2>2
  <1>5. ASSUME \A x \in Memory : memories'[x].by = memories[x].by
        PROVE  \E x \in S : memories'[x].by \notin S
    BY <1>2, <1>5
  <1>6. ASSUME NEW c \in Calls, Settle(c), calls[c].allowed,
               NEW stale, NEW by, stale = calls[c].message.target, by = calls[c].saved,
               Supersedes(stale, by)
        PROVE  \E x \in S : memories'[x].by \notin S
    <2>1. memories'[by].by = NoMemory
      BY <1>1, <1>6, SettleSupersedes DEF Alone, Supersedes
    <2>2. CASE by \in S
      BY <1>3, <2>1, <2>2
    <2>3. CASE by \notin S /\ stale \in S
      BY <1>6, <2>3 DEF Supersedes
    <2>4. CASE by \notin S /\ stale \notin S
      BY <1>2, <1>6, <2>4 DEF Supersedes
    <2> QED
      BY <2>2, <2>3, <2>4
  <1> QED
    BY <1>2, <1>4, <1>5, <1>6, MemoriesStep

-----------------------------------------------------------------------------
(***************************************************************************)
(* The invariant holds                                                     *)
(***************************************************************************)
LEMMA HistoryTyped ==
  ASSUME TypeOK, Carrying, Next
  PROVE  orphans' \subseteq Memory /\ met' \subseteq Memory \X Memory /\ revised' \subseteq Memory
  <1>0. orphans \subseteq Memory /\ met \subseteq Memory \X Memory /\ revised \subseteq Memory
    BY DEF TypeOK
  <1>1. ASSUME NEW c \in Calls, Save(c), SavesOwn(c)
        PROVE  orphans' \subseteq Memory /\ met' \subseteq Memory \X Memory /\ revised' \subseteq Memory
    <2>1. PICK own : own = Own(calls[c].message)
      OBVIOUS
    <2>2. own \in Memory
      BY <1>1, <2>1, SaveHolds
    <2>3. /\ met' = {pair \in met : own \notin {pair[1], pair[2]}}
                    \cup {<<own, x>> : x \in {x \in Memory \ {own} : InUse(x)}}
          /\ orphans' = orphans \ {own}
          /\ revised' \in {revised \ {own}, revised \cup {own}}
      BY <1>1, <2>1 DEF SavesOwn, NoteSave
    <2> QED
      BY <1>0, <2>2, <2>3
  <1>2. ASSUME NEW c \in Calls, Die(c)
        PROVE  orphans' \subseteq Memory
    <2>1. calls[c].saved \in Memory \cup {NoMemory}
      BY DEF TypeOK
    <2> QED
      BY <1>0, <1>2, <2>1 DEF Die
  <1>3. ASSUME ~\E c \in Calls : (Save(c) /\ SavesOwn(c)) \/ Die(c)
        PROVE  orphans' \subseteq orphans
    <2>1. ASSUME NEW c \in Calls, Save(c), ~SavesOwn(c)
          PROVE  UNCHANGED orphans
      BY <2>1, SaveDoes DEF SavesEcho
    <2>2. ASSUME NEW c \in Calls, \/ (\E msg \in Messages : Begin(c, msg)) \/ Burn(c) \/ Weigh(c)
                                  \/ Settle(c) \/ Reserve(c) \/ Extend(c)
          PROVE  UNCHANGED orphans
      BY <2>2 DEF Begin, Burn, Weigh, Settle, Reserve, Extend, history
    <2>3. ASSUME \/ (\E k \in Captures : Approve(k) \/ Reject(k))
                 \/ (\E v \in Contents : Note(v))
                 \/ \E p \in Principals : Revoke(p)
          PROVE  UNCHANGED orphans
      BY <2>3 DEF Approve, Reject, Note, Revoke
    <2> QED
      BY <1>3, <2>1, <2>2, <2>3 DEF Next, Step
  <1>4. ASSUME ~\E c \in Calls : Save(c) /\ SavesOwn(c)
        PROVE  orphans' \subseteq Memory /\ met' \subseteq Memory \X Memory /\ revised' \subseteq Memory
    <2>1. orphans' \subseteq Memory
      BY <1>0, <1>2, <1>3, <1>4
    <2> QED
      BY <1>0, <1>4, <2>1, HistoryStep
  <1> QED
    BY <1>1, <1>4

\* The other tables, and what the history counts.
OtherTables ==
    /\ revoked \subseteq Principals /\ nonces \subseteq Captures
    /\ captures \in [Captures -> {"none", "pending", "approved", "archived"}]
    /\ decisions \in [Captures -> {"none", "approved", "rejected"}]
    /\ judged \subseteq Principals /\ sent \subseteq Messages /\ acts \in Nat /\ faults \in Nat

LEMMA OtherTablesStep ==
  ASSUME TypeOK, Carrying, Next
  PROVE  OtherTables'
  <1>0. OtherTables
    BY DEF TypeOK, OtherTables
  <1>1. ASSUME NEW c \in Calls, NEW msg \in Messages, Begin(c, msg)
        PROVE  OtherTables'
    BY <1>0, <1>1 DEF Begin, OtherTables, tables
  <1>2. ASSUME NEW c \in Calls, Burn(c)
        PROVE  OtherTables'
    <2>1. Capture(calls[c].message) \in Captures
      BY <1>2, MessageFacts DEF Burn, Carrying, CarryingOf
    <2>2. UNCHANGED nonces \/ nonces' = nonces \cup {Capture(calls[c].message)}
      BY <1>2 DEF Burn
    <2>3. UNCHANGED <<revoked, captures, decisions, judged, sent, acts, faults>>
      BY <1>2 DEF Burn, history
    <2> QED
      BY <1>0, <2>1, <2>2, <2>3 DEF OtherTables
  <1>3. ASSUME NEW c \in Calls, Save(c)
        PROVE  OtherTables'
    <2>1. PICK status \in {"pending", "approved"} :
             captures' = [captures EXCEPT ![Capture(calls[c].message)] = status]
      BY <1>3 DEF Save
    <2> QED
      BY <1>0, <1>3, <2>1 DEF Save, OtherTables
  <1>4. ASSUME NEW c \in Calls, Settle(c)
        PROVE  OtherTables'
    <2>1. \/ UNCHANGED captures
          \/ captures' = [captures EXCEPT ![Capture(calls[c].message)] = "pending"]
      BY <1>4 DEF Settle, Quarantine
    <2>2. UNCHANGED <<revoked, nonces, decisions, judged, sent, acts, faults>>
      BY <1>4 DEF Settle, history
    <2> QED
      BY <1>0, <2>1, <2>2 DEF OtherTables
  <1>5. ASSUME NEW c \in Calls, Weigh(c) \/ Reserve(c) \/ Extend(c)
        PROVE  OtherTables'
    BY <1>0, <1>5 DEF Weigh, Reserve, Extend, OtherTables, tables, history
  <1>6. ASSUME NEW c \in Calls, Die(c)
        PROVE  OtherTables'
    BY <1>0, <1>6 DEF Die, OtherTables, tables
  <1>7. ASSUME NEW k \in Captures, Approve(k) \/ Reject(k)
        PROVE  OtherTables'
    <2>1. k[1] \in Principals
      BY CaptureFacts
    <2>2. /\ UNCHANGED <<revoked, nonces, sent, faults>>
          /\ judged' = judged \cup {k[1]} /\ acts' = acts + 1
      BY <1>7 DEF Approve, Reject, Judge, Acts
    <2>3. \E status \in {"approved", "archived"} : captures' = [captures EXCEPT ![k] = status]
      BY <1>7 DEF Approve, Reject
    <2>4. \E d \in {"approved", "rejected"} : decisions' = [decisions EXCEPT ![k] = d]
      BY <1>7 DEF Approve, Reject, Judge
    <2> QED
      BY <1>0, <2>1, <2>2, <2>3, <2>4 DEF OtherTables
  <1>8. ASSUME NEW v \in Contents, Note(v)
        PROVE  OtherTables'
    BY <1>0, <1>8 DEF Note, Acts, OtherTables
  <1>9. ASSUME NEW p \in Principals, Revoke(p)
        PROVE  OtherTables'
    BY <1>0, <1>9 DEF Revoke, Acts, OtherTables
  <1> QED
    BY <1>1, <1>2, <1>3, <1>4, <1>5, <1>6, <1>7, <1>8, <1>9 DEF Next, Step

LEMMA TypeOKStep ==
  ASSUME TypeOK, Carrying, Owned, Kept, Writing, Chained, Next
  PROVE  TypeOK'
  <1>1. /\ calls' \in [Calls -> Call] /\ memories' \in [Memory -> MemoryRow]
        /\ crossed' \in BOOLEAN /\ writer' \in Calls \cup {NoCall}
        /\ ledger' \in [Principals -> Seq([nonce : Nonces, previous : Nat, memory : Memory])]
    BY CarryingStep, MemoriesTyped, CrossedStep, WritingStep
  <1> QED
    BY <1>1, HistoryTyped, OtherTablesStep DEF TypeOK, OtherTables, Call, Labels, MemoryRow

LEMMA InitInv == Init => IInv
  <1> SUFFICES ASSUME Init
               PROVE  IInv
    OBVIOUS
  <1>1. \A c \in Calls : calls[c] = Idle
    BY DEF Init
  <1>2. \A m \in Memory : memories[m].status = "none" /\ memories[m].by = NoMemory
                          /\ memories[m].capture = <<User, 0>>
    BY DEF Init, NoRow, NoCapture
  <1>3. \A p \in Principals : ledger[p] = <<>>
    BY DEF Init
  <1>4. TypeOK
    <2>1. Idle \in Call /\ NoRow \in MemoryRow
      BY IdleCall DEF NoRow, MemoryRow
    <2>2. calls \in [Calls -> Call] /\ memories \in [Memory -> MemoryRow]
      BY <2>1 DEF Init
    <2>3. ledger \in [Principals -> Seq([nonce : Nonces, previous : Nat, memory : Memory])]
      BY DEF Init
    <2> QED
      BY <2>2, <2>3 DEF Init, TypeOK, Call, Labels, MemoryRow
  <1>5. Carrying
    BY <1>1, IdleCall DEF Carrying, CarryingOf
  <1>6. Writing
    BY <1>1, IdleCall, MemoryFacts DEF Init, Writing
  <1>7. Chained
    BY <1>3 DEF Chained
  <1>8. Written /\ Owned /\ Kept
    BY <1>1, <1>2, IdleCall DEF Written, Owned, Kept
  <1>9. Unjudged /\ Doubted
    BY DEF Init, Unjudged, Doubted
  <1>10. Alone
    BY <1>1, IdleCall DEF Alone, Superseding
  <1>11. NoCircle
    <2>1. ASSUME NEW S \in (SUBSET Memory) \ {{}}
          PROVE  \E m \in S : memories[m].by \notin S
      <3>1. PICK m : m \in S
        OBVIOUS
      <3>2. memories[m].by = NoMemory /\ NoMemory \notin S
        BY <1>2, <3>1, MemoryFacts
      <3> QED
        BY <3>1, <3>2
    <2> QED
      BY <2>1 DEF NoCircle
  <1> QED
    BY <1>4, <1>5, <1>6, <1>7, <1>8, <1>9, <1>10, <1>11 DEF IInv

LEMMA NextInv == IInv /\ Next => IInv'
  <1> SUFFICES ASSUME IInv, Next
               PROVE  IInv'
    OBVIOUS
  <1>1. /\ TypeOK /\ Carrying /\ Writing /\ Chained /\ Written
        /\ Owned /\ Kept /\ Unjudged /\ Doubted /\ Alone /\ NoCircle
    BY DEF IInv
  <1>2. TypeOK' /\ Carrying' /\ Writing' /\ Chained'
    BY <1>1, TypeOKStep, CarryingStep, WritingStep
  <1>3. Written' /\ Owned' /\ Kept' /\ Unjudged'
    BY <1>1, WrittenStep, MemoriesTyped, KeptStep, UnjudgedStep
  <1>4. Doubted' /\ Alone' /\ NoCircle'
    BY <1>1, DoubtedStep, AloneStep, NoCircleStep
  <1> QED
    BY <1>2, <1>3, <1>4 DEF IInv

LEMMA StutterInv == IInv /\ UNCHANGED vars => IInv'
  <1> SUFFICES ASSUME IInv, UNCHANGED vars
               PROVE  IInv'
    OBVIOUS
  <1>1. UNCHANGED <<revoked, nonces, memories, captures, decisions, ledger, writer, calls>>
        /\ UNCHANGED <<orphans, met, revised, judged, crossed, sent, acts, faults>>
    BY DEF vars
  <1>2. TypeOK' /\ Carrying' /\ Writing' /\ Chained'
    BY <1>1 DEF IInv, TypeOK, Carrying, CarryingOf, Writing, Chained
  <1>3. Written' /\ Owned' /\ Kept' /\ Unjudged'
    BY <1>1 DEF IInv, Written, Linked, Owed, Owned, Kept, Unjudged
  <1>4. Doubted' /\ Alone' /\ NoCircle'
    BY <1>1 DEF IInv, Doubted, Contested, Doubting, InUse, Alone, Superseding, NoCircle
  <1> QED
    BY <1>2, <1>3, <1>4 DEF IInv

\* The invariant is one: whatever the calls and the user do, and whenever a
\* call stops half-way (record_shared_memory and what it calls).
THEOREM InvCorrect == Spec => []IInv
  <1>1. Init => IInv
    BY InitInv
  <1>2. IInv /\ [Next]_vars => IInv'
    BY NextInv, StutterInv
  <1> QED
    BY <1>1, <1>2, PTL DEF Spec

\* The rows of the tables and the calls keep the shape that the schema and the
\* code give them.
THEOREM TypeCorrect == Spec => []TypeOK
  <1>1. IInv => TypeOK
    BY DEF IInv
  <1> QED
    BY <1>1, InvCorrect, PTL

\* verify_shared_memory finds nothing to object to: the rows of a principal
\* are one chain of hashes, though the calls that write them overlap and may
\* die (the tail is read under BEGIN IMMEDIATE), and a shared memory is in its
\* author's chain unless the call that saved it is under way or has died.
THEOREM LedgerIsVerified == Spec => []LedgerVerifies
  <1>1. IInv => LedgerVerifies
    BY DEF IInv, Chained, Written, Owed, LedgerVerifies, Saving
  <1> QED
    BY <1>1, InvCorrect, PTL

\* A memory that contradicts a stronger one, in use before it was last saved,
\* is not in use: quarantine_if_contested finds it, though it looks in one
\* transaction and acts in another, and though others save and settle between
\* the two.
THEOREM ContestedStaysOut == Spec => []ContestedIsOut
  <1>1. IInv => ContestedIsOut
    <2> SUFFICES ASSUME IInv, NEW pair \in met,
                        InUse(pair[1]), InUse(pair[2]), Contradicts(pair[1], pair[2]),
                        Author(pair[1]) # Author(pair[2]),
                        {Author(pair[1]), Author(pair[2])} \cap judged = {},
                        pair[1] \notin orphans \cup revised, ~Saving(pair[1])
                 PROVE  Authority(pair[2]) <= Authority(pair[1]) + Margin
      BY DEF ContestedIsOut
    <2>1. PICK m \in Memory, e \in Memory : pair = <<m, e>>
      BY DEF IInv, TypeOK
    <2>2. pair[1] = m /\ pair[2] = e
      BY <2>1
    <2>3. Contested(m, e)
      BY <2>2 DEF Contested
    <2>4. ~\E c \in Calls : Doubting(c, m)
      BY <2>2 DEF Saving, Doubting
    <2>5. Weight(Author(e)) <= Weight(Author(m)) + Margin
      BY <2>2, <2>3, <2>4 DEF IInv, Doubted
    <2>6. Authority(e) = Weight(Author(e)) /\ Authority(m) = Weight(Author(m))
      BY <2>3, AuthorityIs DEF IInv, Contested, InUse
    <2> QED
      BY <2>2, <2>5, <2>6
  <1> QED
    BY <1>1, InvCorrect, PTL

\* Memories supersede one another in no circle, unless two superseding calls
\* overlapped: what a call supersedes with is never itself superseded then
\* (resolve_conflict writes superseded_by without a look at where it leads).
THEOREM SupersedingHasNoCircle == Spec => []NoCircle
  <1>1. IInv => NoCircle
    BY DEF IInv
  <1> QED
    BY <1>1, InvCorrect, PTL
=============================================================================
