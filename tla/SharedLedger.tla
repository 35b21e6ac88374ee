---------------------------- MODULE SharedLedger ----------------------------
(***************************************************************************)
(* The shared memory of one user (storage.py, record_shared_memory and     *)
(* what it calls): principals sign what they say, a nonce is good for one  *)
(* message, a memory that contradicts a stronger one is quarantined, and   *)
(* every message is a row of its principal's chain of hashes.              *)
(*                                                                         *)
(* A memory is known by its author and its content: what a principal says  *)
(* again falls on the row of the first time.  All contents make a claim    *)
(* about one field, so that two different ones contradict each other.      *)
(* Only signed messages are modelled; others are refused at once.  A hash  *)
(* of the chain stands for the row that has it, by its place.              *)
(***************************************************************************)
EXTENDS Integers, Sequences, FiniteSets

CONSTANTS
    Principals,
    User,          \* the author of the user's own memories
    Contents,
    Kind,          \* of each principal: "user", "connector" or "agent"
    Trust,         \* of each principal, in hundredths
    Messages,      \* what the principals have signed, see Message
    NoMemory, NoCall, NoMessage,
    Calls,         \* requests that may be under way together
    MinDecisions,  \* decisions of the user that make a reputation
    MaxActs,       \* bound: what the user does
    MaxFaults      \* bound: requests that die half-way, or are sent again

Authors == Principals \cup {User}
Memory == Authors \X Contents
Author(m) == m[1]
Content(m) == m[2]

\* A principal's nonce names the capture of the message.
Nonces == Nat
Message == [principal : Principals, nonce : Nonces, content : Contents,
            target : Memory \cup {NoMemory}]
Capture(msg) == <<msg.principal, msg.nonce>>
Captures == {Capture(msg) : msg \in Messages}
NoCapture == <<User, 0>>

ASSUME LedgerAssumption ==
    /\ User \notin Principals /\ NoMemory \notin Memory
    /\ Kind \in [Principals -> {"user", "connector", "agent"}]
    /\ Trust \in [Principals -> 0 .. 100]
    /\ Messages \subseteq Message /\ NoMessage \notin Messages
    /\ NoCall \notin Calls
    /\ MinDecisions \in Nat \ {0} /\ MaxActs \in Nat /\ MaxFaults \in Nat

AutoApproveTrust == 80
Margin == 500  \* five hundredths, in the scale of an authority
UserTrust == 100
DefaultScore == [kind \in {"user", "connector", "agent"} |->
    CASE kind = "user" -> 100 [] kind = "connector" -> 80 [] kind = "agent" -> 50]

VARIABLES
    revoked,   \* principals
    nonces,    \* shared_memory_nonces
    memories,  \* the row of each memory
    captures,  \* the review status of each capture
    decisions, \* the last decision of the user about each capture
    ledger,    \* shared_memory_writes of each principal, by rowid
    writer,    \* the call that holds SQLite's write reservation
    calls,
    orphans,   \* history: memories whose last save has no row in the ledger, its call being dead
    met,       \* history: <<m, e>> if e was in use when m was last saved, and has stayed
    revised,   \* history: memories last saved by a message that supersedes
    judged,    \* history: principals whose authority has changed
    crossed,   \* history: whether two superseding calls ever overlapped
    sent,      \* history: messages that were sent
    acts,      \* what the user has done
    faults

vars == <<revoked, nonces, memories, captures, decisions, ledger, writer, calls,
          orphans, met, revised, judged, crossed, sent, acts, faults>>
history == <<orphans, met, revised, judged, crossed, sent, acts, faults>>
tables == <<revoked, nonces, memories, captures, decisions, ledger>>

NoRow == [status |-> "none", by |-> NoMemory, capture |-> NoCapture]
Row(capture) == [status |-> "active", by |-> NoMemory, capture |-> capture]
InUse(m) == memories[m].status = "active" /\ memories[m].by = NoMemory

Idle == [at |-> "idle", message |-> NoMessage, saved |-> NoMemory,
         allowed |-> FALSE, tail |-> 0]

Init ==
    /\ revoked = {} /\ nonces = {}
    /\ memories = [m \in Memory |-> NoRow]
    /\ captures = [k \in Captures |-> "none"]
    /\ decisions = [k \in Captures |-> "none"]
    /\ ledger = [p \in Principals |-> <<>>]
    /\ writer = NoCall /\ calls = [c \in Calls |-> Idle]
    /\ orphans = {} /\ met = {} /\ revised = {} /\ judged = {} /\ crossed = FALSE /\ sent = {} /\ acts = 0 /\ faults = 0

Free == writer = NoCall
Decided(p, d) == Cardinality({k \in Captures : k[1] = p /\ decisions[k] = d})

\* The share of what the user has approved, once enough is decided.
Reputation(p) ==
    LET approved == Decided(p, "approved")
        decided == approved + Decided(p, "rejected")
    IN IF decided >= MinDecisions THEN (100 * approved) \div decided
       ELSE DefaultScore[Kind[p]]

\* A superseded memory has half of its author's trust, one of a revoked
\* principal no authority at all.
Authority(m) ==
    LET trust == IF Author(m) = User THEN UserTrust ELSE Trust[Author(m)]
        scale == IF Author(m) = User THEN 100
                 ELSE IF Author(m) \in revoked THEN 0 ELSE Reputation(Author(m))
    IN (trust * scale) \div (IF memories[m].by = NoMemory THEN 1 ELSE 2)

AuthorKind(m) == IF Author(m) = User THEN "user" ELSE Kind[Author(m)]
Contradicts(m, e) == Content(m) # Content(e)

---------------------------------------------------------------------------
(* A call, step by step *)

Begin(c, msg) ==
    /\ calls[c].at = "idle" /\ msg.principal \notin revoked
    /\ calls' = [calls EXCEPT ![c] = [Idle EXCEPT !.at = "burn", !.message = msg]]
    /\ sent' = sent \cup {msg}
    /\ faults' = IF msg \in sent THEN faults + 1 ELSE faults
    /\ faults' <= MaxFaults
    /\ UNCHANGED <<tables, writer, orphans, met, revised, judged, crossed, acts>>

Goes(c, step) == calls' = [calls EXCEPT ![c].at = step]
Ends(c) == calls' = [calls EXCEPT ![c] = Idle]

\* The nonce is spent in a transaction of its own, before anything is saved.
Burn(c) ==
    /\ calls[c].at = "burn" /\ Free
    /\ LET nonce == Capture(calls[c].message) IN
       IF nonce \in nonces THEN Ends(c) /\ UNCHANGED nonces
       ELSE Goes(c, "save") /\ nonces' = nonces \cup {nonce}
    /\ UNCHANGED <<revoked, memories, captures, decisions, ledger, writer, history>>

\* What an agent says after the user or a connector is not saved again.
Echoes(msg) ==
    IF Kind[msg.principal] # "agent" THEN {}
    ELSE {m \in Memory : Content(m) = msg.content /\ AuthorKind(m) # "agent" /\ InUse(m)}

\* Mutant: a row that is saved again stays superseded.
StoredUnderOld(m, capture) == [Row(capture) EXCEPT !.by = memories[m].by]

Stored(m, capture) == Row(capture)

Superseding(c) == calls[c].at \in {"weigh", "settle"} /\ calls[c].message.target # NoMemory
NoteSave(c, m) ==
    LET msg == calls[c].message IN
    /\ met' = {pair \in met : m \notin {pair[1], pair[2]}}
              \cup {<<m, e>> : e \in {e \in Memory \ {m} : InUse(e)}}
    /\ orphans' = orphans \ {m}
    /\ revised' = IF msg.target = NoMemory THEN revised \ {m} ELSE revised \cup {m}

\* The user has switched the review of new captures off.
Save(c) ==
    LET msg == calls[c].message
        own == <<msg.principal, msg.content>>
        stored(m) == calls' = [calls EXCEPT ![c].at = "weigh", ![c].saved = m]
    IN
    /\ calls[c].at = "save" /\ Free
    /\ captures' = [captures EXCEPT ![Capture(msg)] =
                       IF Trust[msg.principal] < AutoApproveTrust THEN "pending" ELSE "approved"]
    /\ \/ /\ Echoes(msg) = {}
          /\ memories' = [memories EXCEPT ![own] = Stored(own, Capture(msg))]
          /\ stored(own) /\ NoteSave(c, own)
       \/ /\ \E m \in Echoes(msg) : stored(m)
          /\ UNCHANGED <<memories, met, orphans, revised>>
    /\ crossed' = (crossed \/ (msg.target # NoMemory /\ \E d \in Calls \ {c} : Superseding(d)))
    /\ UNCHANGED <<revoked, nonces, decisions, ledger, writer, judged, sent, acts, faults>>

\* May the memory that was saved replace the one that the message names?
MayReplace(msg, saved) ==
    LET target == msg.target IN
    /\ memories[target].status # "none"
    /\ \/ Author(target) = msg.principal
       \/ /\ ~(AuthorKind(target) = "user" /\ Kind[msg.principal] = "agent")
          /\ Authority(saved) > Authority(target) + Margin

\* Mutant: what waits for review contradicts nobody.
RivalsApproved(msg, saved) ==
    {e \in Memory : /\ InUse(e) /\ Author(e) # msg.principal /\ e # saved
                    /\ Contradicts(saved, e)
                    /\ Author(e) # User => captures[memories[e].capture] = "approved"}

Rivals(msg, saved) ==
    {e \in Memory : /\ InUse(e) /\ Author(e) # msg.principal /\ e # saved
                    /\ memories[e].capture # Capture(msg)
                    /\ Contradicts(saved, e)}

\* The look at the others is a read; what follows from it is a transaction of
\* its own.
Weigh(c) ==
    LET msg == calls[c].message
        saved == calls[c].saved
        beaten == \E e \in Rivals(msg, saved) : Authority(e) > Authority(saved) + Margin
    IN
    /\ calls[c].at = "weigh"
    /\ IF msg.target # NoMemory
       THEN calls' = [calls EXCEPT ![c].at = "settle", ![c].allowed = MayReplace(msg, saved)]
       ELSE Goes(c, IF beaten THEN "settle" ELSE "reserve")
    /\ UNCHANGED <<tables, writer, history>>

\* resolve_conflict looks again at the rows and at who speaks.
Supersede(stale, by) ==
    memories' = IF \/ stale = by \/ memories[stale].status = "none"
                   \/ AuthorKind(stale) = "user" /\ AuthorKind(by) = "agent"
                THEN memories
                ELSE [memories EXCEPT ![stale].by = by]

Quarantine(m, capture) ==
    /\ memories' = [memories EXCEPT ![m].status = "quarantined"]
    /\ captures' = [captures EXCEPT ![capture] = "pending"]

Settle(c) ==
    LET msg == calls[c].message
        saved == calls[c].saved
    IN
    /\ calls[c].at = "settle" /\ Free
    /\ IF calls[c].allowed
       THEN Supersede(msg.target, saved) /\ UNCHANGED captures
       ELSE Quarantine(saved, Capture(msg))
    /\ Goes(c, "reserve")
    /\ UNCHANGED <<revoked, nonces, decisions, ledger, writer, history>>

\* Mutant: the tail is read before the write reservation is taken.
ReserveLate(c) ==
    /\ calls[c].at = "reserve"
    /\ calls' = [calls EXCEPT ![c].at = "append",
                              ![c].tail = Len(ledger[calls[c].message.principal])]
    /\ UNCHANGED <<tables, writer, history>>

\* BEGIN IMMEDIATE, and the read of the last row's hash.
Reserve(c) ==
    /\ calls[c].at = "reserve" /\ Free
    /\ writer' = c
    /\ calls' = [calls EXCEPT ![c].at = "append",
                              ![c].tail = Len(ledger[calls[c].message.principal])]
    /\ UNCHANGED <<tables, history>>

Extend(c) ==
    LET msg == calls[c].message
        row == [nonce |-> msg.nonce, previous |-> calls[c].tail, memory |-> calls[c].saved]
    IN
    /\ calls[c].at = "append"
    /\ ledger' = [ledger EXCEPT ![msg.principal] = Append(@, row)]
    /\ writer' = NoCall
    /\ Ends(c)
    /\ UNCHANGED <<revoked, nonces, memories, captures, decisions, history>>

\* The process stops, or a step raises: what was committed stays.
Die(c) ==
    /\ calls[c].at # "idle" /\ faults < MaxFaults
    /\ faults' = faults + 1
    /\ orphans' = orphans \cup ({calls[c].saved} \ {NoMemory})
    /\ writer' = IF writer = c THEN NoCall ELSE writer
    /\ Ends(c)
    /\ UNCHANGED <<tables, met, revised, judged, crossed, sent, acts>>

---------------------------------------------------------------------------
(* The user *)

Acts == acts < MaxActs /\ acts' = acts + 1

Judge(k, decision) ==
    /\ decisions' = [decisions EXCEPT ![k] = decision]
    /\ judged' = judged \cup {k[1]}

Approve(k) ==
    /\ Free /\ Acts /\ captures[k] \in {"pending", "approved"}
    /\ captures' = [captures EXCEPT ![k] = "approved"]
    /\ Judge(k, "approved")
    /\ UNCHANGED <<revoked, nonces, memories, ledger, writer, calls, orphans, met, revised, crossed, sent, faults>>

Reject(k) ==
    /\ Free /\ Acts /\ captures[k] # "none"
    /\ captures' = [captures EXCEPT ![k] = "archived"]
    /\ memories' = [m \in Memory |-> IF memories[m].capture = k
                                     THEN [memories[m] EXCEPT !.status = "archived"]
                                     ELSE memories[m]]
    /\ Judge(k, "rejected")
    /\ UNCHANGED <<revoked, nonces, ledger, writer, calls, orphans, met, revised, crossed, sent, faults>>

\* The user notes something down.
Note(v) ==
    LET m == <<User, v>> IN
    /\ Free /\ Acts /\ memories[m].status = "none"
    /\ memories' = [memories EXCEPT ![m] = Row(NoCapture)]
    /\ met' = {pair \in met : pair[2] # m}
    /\ UNCHANGED <<revoked, nonces, captures, decisions, ledger, writer, calls,
                   orphans, revised, judged, crossed, sent, faults>>

Revoke(p) ==
    /\ Free /\ Acts /\ p \notin revoked
    /\ revoked' = revoked \cup {p}
    /\ judged' = judged \cup {p}
    /\ UNCHANGED <<nonces, memories, captures, decisions, ledger, writer, calls,
                   orphans, met, revised, crossed, sent, faults>>

Step(c) ==
    \/ \E msg \in Messages : Begin(c, msg)
    \/ Burn(c) \/ Save(c) \/ Weigh(c) \/ Settle(c) \/ Reserve(c) \/ Extend(c) \/ Die(c)

Next ==
    \/ \E c \in Calls : Step(c)
    \/ \E k \in Captures : Approve(k) \/ Reject(k)
    \/ \E v \in Contents : Note(v)
    \/ \E p \in Principals : Revoke(p)

Spec == Init /\ [][Next]_vars

---------------------------------------------------------------------------
(* Properties *)

\* Rows, calls and the history have the shape the tables give them.
TypeOK ==
    /\ revoked \subseteq Principals /\ nonces \subseteq Captures
    /\ memories \in [Memory -> [status : {"none", "active", "quarantined", "archived"},
                                by : Memory \cup {NoMemory}, capture : Captures \cup {NoCapture}]]
    /\ captures \in [Captures -> {"none", "pending", "approved", "archived"}]
    /\ decisions \in [Captures -> {"none", "approved", "rejected"}]
    /\ ledger \in [Principals -> Seq([nonce : Nonces, previous : Nat, memory : Memory])]
    /\ writer \in Calls \cup {NoCall}
    /\ calls \in [Calls -> [at : {"idle", "burn", "save", "weigh", "settle", "reserve", "append"},
                            message : Messages \cup {NoMessage}, saved : Memory \cup {NoMemory},
                            allowed : BOOLEAN, tail : Nat]]
    /\ orphans \subseteq Memory /\ met \subseteq Memory \X Memory /\ revised \subseteq Memory
    /\ judged \subseteq Principals /\ crossed \in BOOLEAN /\ sent \subseteq Messages /\ acts \in Nat /\ faults \in Nat

Linked(m) == \E i \in DOMAIN ledger[Author(m)] : ledger[Author(m)][i].memory = m
Saving(m) == \E c \in Calls : calls[c].saved = m

\* verify_shared_memory finds nothing to object to: the rows of a principal
\* are one chain, whoever writes beside it, and a shared memory has a signed
\* row, unless the call that saved it is still under way or has died.
LedgerVerifies ==
    /\ \A p \in Principals : \A i \in DOMAIN ledger[p] : ledger[p][i].previous = i - 1
    /\ \A m \in Memory : Author(m) # User /\ memories[m].status # "none"
                         => Linked(m) \/ Saving(m) \/ m \in orphans

\* What contradicts a stronger memory that was there before is not in use:
\* not after another message has said it again, and not because the two were
\* sent at the same time.  Excepted are a call that is under way or has died,
\* a message that supersedes (it is weighed against its target alone), and
\* authority that has changed since.
ContestedIsOut ==
    \A pair \in met :
        LET m == pair[1]
            e == pair[2]
        IN /\ InUse(m) /\ InUse(e) /\ Contradicts(m, e) /\ Author(m) # Author(e)
           /\ {Author(m), Author(e)} \cap judged = {}
           /\ m \notin orphans \cup revised /\ ~Saving(m)
           => Authority(e) <= Authority(m) + Margin

\* Memories do not supersede one another in a circle, which would leave the
\* user none of them, unless two superseding calls overlapped.
NoCircle ==
    crossed \/ \A S \in (SUBSET Memory) \ {{}} : \E m \in S : memories[m].by \notin S

\* Not kept: an agent that repeats a memory of the user strengthens it
\* (storage.py:28502-28504).  If its message names a memory that it may not
\* replace, what is quarantined is the memory that it echoed, the user's own.
EchoStrengthens ==
    [][\A m \in Memory : Author(m) = User /\ memories[m].status = "active"
                         => memories'[m].status = "active"]_vars
=============================================================================
