---------------------------- MODULE ControlPlane ----------------------------
(***************************************************************************)
(* The control plane of the hosted service for one user (sharding.py,      *)
(* StoreRegistry and TokenControlIndex, with the routes of main.py that    *)
(* call them).  A scoped token lives twice: in the table of the user's     *)
(* shard and in the index that all requests look at first; the row of the  *)
(* user, with the plan that billing sets, lives in the index.  No          *)
(* transaction spans two of these databases, so that every operation below *)
(* is a sequence of steps between which other requests run, or the process *)
(* dies.                                                                   *)
(*                                                                         *)
(* Minting a token under a label replaces the token of that label; the     *)
(* model follows one label.  Tokens are numbered as they are drawn.        *)
(***************************************************************************)
EXTENDS Naturals

CONSTANTS
    Calls,      \* requests that may be under way together
    MaxTokens,  \* bound: tokens drawn
    MaxEvents,  \* bound: billing events; odd ones subscribe, even ones cancel
    MaxFaults   \* bound: requests that die half-way

ASSUME ControlAssumption ==
    MaxTokens \in Nat /\ MaxEvents \in Nat /\ MaxFaults \in Nat

Token == 1 .. MaxTokens
NoToken == 0
Event == 1 .. MaxEvents
PlanOf(e) == IF e % 2 = 1 THEN "pro" ELSE "free"

VARIABLES
    shard,      \* api_tokens of the shard: the label's row, if any
    index,      \* scoped_token_index: the label's row, if any
    user,       \* the row of users: its status and its plan
    account,    \* whether the user's account can sign in
    recorded,   \* billing_events
    work,       \* the request of each call, if any
    drawn,      \* tokens drawn so far
    current,    \* history: the token the last completed operation left valid
    spare,      \* history: the token of a mint that has not returned
    raced,      \* history: whether two operations on tokens ever overlapped
    torn,       \* history: whether a deletion left the index as it was
    crossed,    \* history: whether two deliveries of one billing event ever overlapped
    applied,    \* history: the billing events that found the user registered
    overtaken,  \* history: whether one that was not recorded was applied after a newer one
    due,        \* history: the plan the newest leaves the user
    faults

vars == <<shard, index, user, account, recorded, work, drawn, current, spare,
          raced, torn, crossed, applied, overtaken, due, faults>>
tables == <<shard, index>>
billing == <<recorded, crossed, applied, overtaken, due>>
tokens == <<drawn, current, spare, torn>>

NoRow == [token |-> NoToken, revoked |-> FALSE]
Row(t) == [token |-> t, revoked |-> FALSE]
NoUser == [status |-> "none", plan |-> "free"]

\* Where a request is; `event` belongs to a billing delivery, `token` to a mint,
\* `mark` to the deletion of the account.
Idle == [at |-> "idle", token |-> NoToken, event |-> 0, mark |-> FALSE]
At(step) == [Idle EXCEPT !.at = step]

Init ==
    /\ shard = NoRow /\ index = NoRow /\ user = NoUser
    /\ account = TRUE
    /\ recorded = {} /\ crossed = FALSE /\ applied = {} /\ overtaken = FALSE /\ due = "free"
    /\ work = [c \in Calls |-> Idle]
    /\ drawn = 0 /\ current = NoToken /\ spare = NoToken
    /\ raced = FALSE /\ torn = FALSE /\ faults = 0

Valid(row, t) == t # NoToken /\ row.token = t /\ ~row.revoked

\* Mutant: both databases must know the token.
AcceptedByBoth(t) ==
    /\ Valid(index, t) /\ Valid(shard, t)
    /\ user.status \in {"none", "active"}

\* _authenticate_scoped_token: the index, then the shard, then the status of the
\* user once more; a user who is not registered is as good as an active one.
Accepted(t) ==
    /\ Valid(index, t) \/ Valid(shard, t)
    /\ user.status \in {"none", "active"}

\* A request may use the data plane if it has a token or a session.
SignedIn == account \/ \E t \in Token : Accepted(t)

OnTokens(c) == work[c].at \notin {"idle", "bill", "record"}

Begin(c, request) ==
    /\ work[c].at = "idle"
    /\ work' = [work EXCEPT ![c] = request]
    /\ raced' = (raced \/ \E d \in Calls : OnTokens(d))
    /\ UNCHANGED <<tables, user, account, billing, tokens, faults>>

Go(c, step) == work' = [work EXCEPT ![c].at = step]
End(c) == work' = [work EXCEPT ![c] = Idle]

(***************************************************************************)
(* Tokens                                                                  *)
(***************************************************************************)
\* POST /v1/auth/tokens with a session; POST /v1/integrations/tokens with either.
MintBySession(c) == account /\ Begin(c, At("ensure"))
MintByToken(c) == SignedIn /\ Begin(c, At("mint"))

\* _ensure_account_provisioned: a user who has a row is left alone.
Ensure(c) ==
    /\ work[c].at = "ensure"
    /\ Go(c, IF user.status = "none" THEN "register" ELSE "mint")
    /\ UNCHANGED <<tables, user, account, billing, tokens, raced, faults>>

\* POST /v1/admin/users: provision_user looks for the row before it writes it.
Provision(c, allowExisting) ==
    /\ allowExisting \/ user.status = "none"
    /\ Begin(c, At("register"))

\* register_user, after a second look like that of Ensure: status and plan are
\* written over what is there.  The token of the request is minted next.
Register(c) ==
    /\ work[c].at = "register"
    /\ user' = [status |-> "active", plan |-> "free"]
    /\ due' = "free"
    /\ Go(c, "mint")
    /\ UNCHANGED <<tables, account, recorded, crossed, applied, overtaken, tokens, raced, faults>>

\* _ensure_token: the shard's row of the label is replaced.
MintShard(c) ==
    LET t == drawn + 1
    IN  /\ work[c].at = "mint" /\ t \in Token
        /\ drawn' = t /\ shard' = Row(t) /\ spare' = t
        /\ work' = [work EXCEPT ![c].at = "publish", ![c].token = t]
        /\ UNCHANGED <<index, user, account, billing, current, torn, raced, faults>>

\* TokenControlIndex.upsert: so is the index's, whatever it says of the label.
\* The token is returned.
MintIndex(c) ==
    /\ work[c].at = "publish"
    /\ index' = Row(work[c].token)
    /\ current' = work[c].token /\ spare' = NoToken /\ torn' = FALSE
    /\ End(c)
    /\ UNCHANGED <<shard, user, account, billing, drawn, raced, faults>>

\* DELETE /v1/auth/tokens/{id} and /v1/integrations/tokens/{id}.
Revoke(c) == SignedIn /\ Begin(c, At("revoke"))

\* Mutant: a token that was revoked before is not found again.
RevokeShardOnce(c) ==
    /\ work[c].at = "revoke"
    /\ IF shard.token = NoToken \/ shard.revoked
       THEN End(c) /\ current' = NoToken /\ spare' = NoToken /\ UNCHANGED shard
       ELSE /\ Go(c, "unlist") /\ shard' = [shard EXCEPT !.revoked = TRUE]
            /\ UNCHANGED <<current, spare>>
    /\ UNCHANGED <<index, user, account, billing, drawn, torn, raced, faults>>

\* CortexStore.revoke_token: a token the shard does not know is "not found", one
\* that is revoked already is revoked again.
RevokeShard(c) ==
    /\ work[c].at = "revoke"
    /\ IF shard.token = NoToken
       THEN End(c) /\ current' = NoToken /\ spare' = NoToken /\ UNCHANGED shard
       ELSE /\ Go(c, "unlist") /\ shard' = [shard EXCEPT !.revoked = TRUE]
            /\ UNCHANGED <<current, spare>>
    /\ UNCHANGED <<index, user, account, billing, drawn, torn, raced, faults>>

\* TokenControlIndex.revoke.
RevokeIndex(c) ==
    /\ work[c].at = "unlist"
    /\ index' = [index EXCEPT !.revoked = (index.token # NoToken)]
    /\ current' = NoToken /\ spare' = NoToken /\ torn' = FALSE
    /\ End(c)
    /\ UNCHANGED <<shard, user, account, billing, drawn, raced, faults>>

(***************************************************************************)
(* Users                                                                   *)
(***************************************************************************)
SetStatus(from, to) ==
    /\ user.status = from
    /\ user' = [user EXCEPT !.status = to]
    /\ UNCHANGED <<tables, account, billing, work, tokens, raced, faults>>

Suspend == SetStatus("active", "suspended")
Reactivate == SetStatus("suspended", "active")

\* DELETE /v1/user-data by the user, DELETE /v1/admin/users/{id} by the operator,
\* DELETE /v1/auth/account, which then marks the account.
WipeByUser(c) == SignedIn /\ Begin(c, At("wipe"))
WipeByAdmin(c) == user.status # "none" /\ Begin(c, At("wipe"))
DeleteAccount(c) == account /\ Begin(c, [At("wipe") EXCEPT !.mark = TRUE])

\* delete_user_data of the shard, then TokenControlIndex.delete_user.
WipeShard(c) ==
    /\ work[c].at = "wipe"
    /\ shard' = NoRow
    /\ Go(c, "forget")
    /\ UNCHANGED <<index, user, account, billing, tokens, raced, faults>>

WipeIndex(c) ==
    /\ work[c].at = "forget"
    /\ index' = NoRow /\ user' = NoUser
    /\ current' = NoToken /\ spare' = NoToken /\ torn' = FALSE
    /\ IF work[c].mark THEN Go(c, "mark") ELSE End(c)
    /\ UNCHANGED <<shard, account, billing, drawn, raced, faults>>

\* mark_deleted, which revokes every session.
MarkDeleted(c) ==
    /\ work[c].at = "mark"
    /\ account' = FALSE
    /\ End(c)
    /\ UNCHANGED <<tables, user, billing, tokens, raced, faults>>

(***************************************************************************)
(* Billing                                                                 *)
(***************************************************************************)
\* POST /v1/billing/webhook, by the provider: any event, however often and in any
\* order (events are numbered as they occurred; the code compares no two).  One
\* that was recorded has no effect.
Delivered(c, e, known) ==
    /\ work[c].at = "idle"
    /\ IF known
       THEN UNCHANGED <<work, crossed>>
       ELSE /\ work' = [work EXCEPT ![c] = [At("bill") EXCEPT !.event = e]]
            /\ crossed' = (crossed \/ \E d \in Calls : work[d].event = e)
    /\ UNCHANGED <<tables, user, account, recorded, applied, overtaken, due, tokens, raced, faults>>

\* Mutant: only the last event is remembered.
DeliverLast(c, e) == Delivered(c, e, e \in recorded /\ \A f \in recorded : f <= e)

Deliver(c, e) == Delivered(c, e, e \in recorded)

\* apply_billing_event: the plan of a user who has a row.
Apply(c) ==
    LET e == work[c].event
        last == \A f \in applied : f <= e
    IN  /\ work[c].at = "bill"
        /\ IF user.status = "none"
           THEN UNCHANGED <<user, applied, overtaken, due>>
           ELSE /\ user' = [user EXCEPT !.plan = PlanOf(e)]
                /\ applied' = applied \cup {e}
                /\ overtaken' = (overtaken \/ (~last /\ e \notin recorded))
                /\ due' = IF last THEN PlanOf(e) ELSE due
        /\ Go(c, "record")
        /\ UNCHANGED <<tables, account, recorded, crossed, tokens, raced, faults>>

\* record_billing_event, and the answer to the provider.
Record(c) ==
    /\ work[c].at = "record"
    /\ recorded' = recorded \cup {work[c].event}
    /\ End(c)
    /\ UNCHANGED <<tables, user, account, crossed, applied, overtaken, due, tokens, raced, faults>>

-----------------------------------------------------------------------------
\* A statement fails, or the process dies: what the request had not written
\* stays unwritten.
Abort(c) ==
    /\ work[c].at # "idle"
    /\ faults < MaxFaults /\ faults' = faults + 1
    /\ torn' = (torn \/ work[c].at = "forget")
    /\ End(c)
    /\ UNCHANGED <<tables, user, account, billing, drawn, current, spare, raced>>

Next ==
    \/ \E c \in Calls :
        \/ MintBySession(c) \/ MintByToken(c) \/ Ensure(c)
        \/ \E allowExisting \in BOOLEAN : Provision(c, allowExisting)
        \/ Register(c) \/ MintShard(c) \/ MintIndex(c)
        \/ Revoke(c) \/ RevokeShard(c) \/ RevokeIndex(c)
        \/ WipeByUser(c) \/ WipeByAdmin(c) \/ DeleteAccount(c)
        \/ WipeShard(c) \/ WipeIndex(c) \/ MarkDeleted(c)
        \/ \E e \in Event : Deliver(c, e)
        \/ Apply(c) \/ Record(c) \/ Abort(c)
    \/ Suspend \/ Reactivate

Spec == Init /\ [][Next]_vars

-----------------------------------------------------------------------------
TokenRow == [token : Token \cup {NoToken}, revoked : BOOLEAN]

TypeOK ==
    /\ shard \in TokenRow /\ index \in TokenRow
    /\ user \in [status : {"none", "active", "suspended"}, plan : {"free", "pro"}]
    /\ account \in BOOLEAN /\ recorded \subseteq Event
    /\ work \in [Calls -> [at : {"idle", "ensure", "register", "mint", "publish", "revoke",
                                 "unlist", "wipe", "forget", "mark", "bill", "record"},
                           token : Token \cup {NoToken}, event : 0 .. MaxEvents,
                           mark : BOOLEAN]]
    /\ drawn \in 0 .. MaxTokens
    /\ current \in Token \cup {NoToken} /\ spare \in Token \cup {NoToken}
    /\ raced \in BOOLEAN /\ torn \in BOOLEAN /\ crossed \in BOOLEAN
    /\ applied \subseteq Event /\ overtaken \in BOOLEAN
    /\ due \in {"free", "pro"} /\ faults \in 0 .. MaxFaults

(* Of a user whose requests do not overlap no token is accepted but the one   *)
(* the last completed operation left valid, and that of a mint that did not   *)
(* return: what a mint replaced, and what a revocation ended, did not find or *)
(* a deletion swept is dead in both databases, whatever died half-way before  *)
(* (upsert, revoke_token and delete_user_data of sharding.py).  Excepted is a *)
(* deletion that reached the shard alone: its tokens live on in the index,    *)
(* where a revocation does not find them, until it is repeated.               *)
OnlyCurrentWorks == ~raced /\ ~torn => \A t \in Token : Accepted(t) => t \in {current, spare}

(* The token that is valid keeps working, unless the user is suspended, while *)
(* it is being replaced or revoked and after a replacement, a revocation or a *)
(* deletion that died half-way: the index is written last.                    *)
CurrentWorks == ~raced /\ current # NoToken /\ user.status # "suspended" => Accepted(current)

(* The plan of a user is the one the newest billing event gave it, however    *)
(* deliveries of several events overlap, die and are repeated: one that was   *)
(* recorded does not undo a later one (main.py, billing_webhook: "the         *)
(* provider event id is recorded so a replayed delivery is a single effect"). *)
(* Excepted are an event that is delivered twice at once, and one that was    *)
(* not recorded when it was applied after a newer one: because it came late,  *)
(* or because its first delivery died between the two steps.                  *)
PlanFollows == ~crossed /\ ~overtaken /\ user.status # "none" => user.plan = due

(* What that docstring says without exception: an event that was applied, and *)
(* after it a newer one, does not change the plan when it is delivered again. *)
(* It does if its first delivery died before it was recorded (see the README).*)
SingleEffect ==
    [][\A c \in Calls :
          LET e == work[c].event
          IN  Apply(c) /\ ~crossed /\ e \in applied /\ (\E f \in applied : f > e)
              => user' = user]_vars
=============================================================================
