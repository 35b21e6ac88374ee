------------------------- MODULE ControlPlaneProofs -------------------------
(***************************************************************************)
(* Proofs about the control plane, for any set of calls and any bounds:    *)
(* while requests do not overlap, a token that was replaced, revoked or    *)
(* swept is dead in both databases, wherever earlier requests died, and    *)
(* the one that is valid works; the plan is what the newest event gave.    *)
(***************************************************************************)
EXTENDS ControlPlane, TLAPS

\* What a request carries to its next step.
Carrying ==
    \A c \in Calls :
        /\ work[c].at = "publish" => work[c].token \in Token
        /\ work[c].at \in {"bill", "record"} => work[c].event \in Event

\* Requests on tokens take turns until two overlap.
Turns == ~raced => \A c, d \in Calls : OnTokens(c) /\ OnTokens(d) => c = d

\* What the first step of a mint, a revocation or a deletion has left in the
\* shard is there still when the second step begins.
Halfway ==
    ~raced => \A c \in Calls :
        /\ work[c].at = "publish" => shard = Row(work[c].token)
        /\ work[c].at = "unlist" => shard.revoked
        /\ work[c].at = "forget" => shard = NoRow

\* The index is written last: it lists the valid token as long as there is one.
Listed == ~raced /\ current # NoToken => Valid(index, current)

\* Where a token that is not the current one may still be.  The shard alone can
\* have one, from a mint that did not return; and only a deletion that has not
\* come to the index leaves it a token of which the shard has no row.
Known ==
    ~raced /\ ~torn =>
        /\ \A t \in Token : Valid(index, t) => t = current
        /\ \A t \in Token : Valid(shard, t) => t \in {current, spare}
        /\ shard.token = NoToken /\ (\A c \in Calls : work[c].at # "forget")
              => \A t \in Token : ~Valid(index, t)

Billing(c) == work[c].at \in {"bill", "record"}

\* As long as no event is delivered twice at once, one that is about to be applied
\* is not recorded; so it is the newest, or it is marked as overtaken.
InOrder ==
    ~crossed =>
        /\ \A c, d \in Calls : Billing(c) /\ Billing(d) /\ work[c].event = work[d].event => c = d
        /\ \A c \in Calls : work[c].at = "bill" => work[c].event \notin recorded
        /\ ~overtaken /\ user.status # "none" => user.plan = due

IInv == TypeOK /\ Carrying /\ Turns /\ Halfway /\ Listed /\ Known /\ InOrder

-----------------------------------------------------------------------------
Call == [at : {"idle", "ensure", "register", "mint", "publish", "revoke",
               "unlist", "wipe", "forget", "mark", "bill", "record"},
         token : Token \cup {NoToken}, event : 0 .. MaxEvents, mark : BOOLEAN]

Steps == {"ensure", "register", "mint", "revoke", "wipe", "bill"}

LEMMA AtType ==
  ASSUME NEW step \in Steps
  PROVE  /\ Idle \in Call /\ At(step) \in Call /\ [At(step) EXCEPT !.mark = TRUE] \in Call
         /\ At(step).at = step /\ [At(step) EXCEPT !.mark = TRUE].at = step
         /\ \A e \in Event : /\ [At(step) EXCEPT !.event = e] \in Call
                             /\ [At(step) EXCEPT !.event = e].event = e
                             /\ [At(step) EXCEPT !.event = e].at = step
  <1> USE ControlAssumption
  <1>1. Idle \in Call
    BY DEF Idle, Call, Token, NoToken
  <1>2. At(step) \in Call /\ At(step).at = step
    BY <1>1 DEF At, Steps, Call
  <1>3. \A e \in Event : e \in 0 .. MaxEvents
    BY DEF Event
  <1>4. \A r \in Call : /\ [r EXCEPT !.mark = TRUE] \in Call /\ [r EXCEPT !.mark = TRUE].at = r.at
                        /\ \A e \in Event : /\ [r EXCEPT !.event = e] \in Call
                                            /\ [r EXCEPT !.event = e].event = e
                                            /\ [r EXCEPT !.event = e].at = r.at
    BY <1>3 DEF Call
  <1> QED
    BY <1>1, <1>2, <1>4

LEMMA IdleType == Idle \in Call /\ Idle.at = "idle"
  BY ControlAssumption DEF Idle, Call, Token, NoToken

LEMMA InitInv == Init => IInv
  <1> SUFFICES ASSUME Init PROVE IInv
    OBVIOUS
  <1> USE ControlAssumption
  <1>1. work \in [Calls -> Call] /\ \A c \in Calls : work[c].at = "idle"
    BY IdleType DEF Init
  <1>2. TypeOK
    <2>1. NoRow \in TokenRow
      BY DEF NoRow, TokenRow
    <2>2. NoUser \in [status : {"none", "active", "suspended"}, plan : {"free", "pro"}]
      BY DEF NoUser
    <2>3. recorded \subseteq Event /\ applied \subseteq Event
      BY DEF Init
    <2>4. drawn \in 0 .. MaxTokens /\ faults \in 0 .. MaxFaults
      BY DEF Init
    <2> QED
      BY <1>1, <2>1, <2>2, <2>3, <2>4 DEF Init, TypeOK, Call
  <1>3. Carrying /\ Turns /\ Halfway /\ InOrder
    BY <1>1 DEF Init, Carrying, Turns, OnTokens, Halfway, InOrder, Billing, NoUser
  <1>4. Listed /\ Known
    BY <1>1 DEF Init, Listed, Known, Valid, NoRow, NoToken
  <1> QED
    BY <1>2, <1>3, <1>4 DEF IInv

-----------------------------------------------------------------------------
(***************************************************************************)
(* How the requests move                                                   *)
(***************************************************************************)
\* One request goes to another place; the others stay.
Moves(c, call) ==
    /\ call \in Call
    /\ work' = [work EXCEPT ![c] = call]

LEMMA MovesType ==
  ASSUME TypeOK, NEW c \in Calls, NEW call, Moves(c, call)
  PROVE  /\ work' \in [Calls -> Call] /\ work'[c] = call
         /\ \A d \in Calls \ {c} : work'[d] = work[d]
  BY DEF TypeOK, Call, Moves

LEMMA BeginMoves ==
  ASSUME TypeOK, NEW c \in Calls, NEW call \in Call, Begin(c, call)
  PROVE  Moves(c, call)
  BY DEF Begin, Moves

LEMMA EndMoves ==
  ASSUME TypeOK, NEW c \in Calls, End(c)
  PROVE  Moves(c, Idle)
  BY IdleType DEF End, Moves

Places == {"idle", "ensure", "register", "mint", "publish", "revoke",
           "unlist", "wipe", "forget", "mark", "bill", "record"}

LEMMA GoMoves ==
  ASSUME TypeOK, NEW c \in Calls, NEW step \in Places, Go(c, step)
  PROVE  /\ Moves(c, [work[c] EXCEPT !.at = step])
         /\ [work[c] EXCEPT !.at = step].at = step
         /\ [work[c] EXCEPT !.at = step].event = work[c].event
         /\ [work[c] EXCEPT !.at = step].token = work[c].token
  BY DEF TypeOK, Places, Go, Moves, Call

\* What a request does that touches neither tokens nor deliveries of others.
LEMMA BeginTokens ==
  ASSUME TypeOK, NEW c \in Calls,
         \/ MintBySession(c) \/ MintByToken(c) \/ \E x \in BOOLEAN : Provision(c, x)
         \/ Revoke(c) \/ WipeByUser(c) \/ WipeByAdmin(c) \/ DeleteAccount(c)
  PROVE  \E call \in Call :
            /\ Begin(c, call) /\ Moves(c, call)
            /\ call.at \in {"ensure", "mint", "register", "revoke", "wipe"}
  <1>1. CASE DeleteAccount(c)
    BY <1>1, AtType, BeginMoves DEF DeleteAccount, Steps
  <1>2. CASE MintBySession(c)
    BY <1>2, AtType, BeginMoves DEF MintBySession, Steps
  <1>3. CASE MintByToken(c)
    BY <1>3, AtType, BeginMoves DEF MintByToken, Steps
  <1>4. CASE \E x \in BOOLEAN : Provision(c, x)
    BY <1>4, AtType, BeginMoves DEF Provision, Steps
  <1>5. CASE Revoke(c)
    BY <1>5, AtType, BeginMoves DEF Revoke, Steps
  <1>6. CASE WipeByUser(c) \/ WipeByAdmin(c)
    BY <1>6, AtType, BeginMoves DEF WipeByUser, WipeByAdmin, Steps
  <1> QED
    BY <1>1, <1>2, <1>3, <1>4, <1>5, <1>6

-----------------------------------------------------------------------------
(***************************************************************************)
(* Types, and what a request carries                                       *)
(***************************************************************************)
\* The shape of a state but for the requests.
Shapes ==
    /\ shard \in TokenRow /\ index \in TokenRow
    /\ user \in [status : {"none", "active", "suspended"}, plan : {"free", "pro"}]
    /\ account \in BOOLEAN /\ recorded \subseteq Event
    /\ drawn \in 0 .. MaxTokens
    /\ current \in Token \cup {NoToken} /\ spare \in Token \cup {NoToken}
    /\ raced \in BOOLEAN /\ torn \in BOOLEAN /\ crossed \in BOOLEAN
    /\ applied \subseteq Event /\ overtaken \in BOOLEAN
    /\ due \in {"free", "pro"} /\ faults \in 0 .. MaxFaults

LEMMA TypeParts == TypeOK <=> Shapes /\ work \in [Calls -> Call]
  BY DEF TypeOK, Shapes, Call

LEMMA TypePartsNext == Shapes' /\ work' \in [Calls -> Call] => TypeOK'
  BY DEF TypeOK, Shapes, Call

LEMMA RowType == NoRow \in TokenRow /\ \A t \in Token : Row(t) \in TokenRow
  BY DEF NoRow, Row, TokenRow

LEMMA RevokedType ==
  ASSUME NEW row \in TokenRow, NEW b \in BOOLEAN
  PROVE  /\ [row EXCEPT !.revoked = b] \in TokenRow
         /\ [row EXCEPT !.revoked = b].token = row.token
         /\ [row EXCEPT !.revoked = b].revoked = b
  BY DEF TokenRow

LEMMA NoUserType == NoUser \in [status : {"none", "active", "suspended"}, plan : {"free", "pro"}]
  BY DEF NoUser

LEMMA EventType == \A e \in Event : e \in 0 .. MaxEvents /\ PlanOf(e) \in {"free", "pro"}
  BY ControlAssumption DEF Event, PlanOf

\* A request that moves where it needs nothing carries nothing wrong.
LEMMA CarryingMoves ==
  ASSUME TypeOK, Carrying, NEW c \in Calls, NEW call, Moves(c, call),
         call.at = "publish" => call.token \in Token,
         call.at \in {"bill", "record"} => call.event \in Event
  PROVE  Carrying' /\ work' \in [Calls -> Call]
  BY MovesType DEF Carrying

LEMMA ShapesStep ==
  ASSUME TypeOK, Carrying, Next
  PROVE  Shapes'
  <1> USE ControlAssumption
  <1>0. Shapes
    BY TypeParts
  <1>1. ASSUME NEW c \in Calls,
               \/ MintBySession(c) \/ MintByToken(c) \/ \E x \in BOOLEAN : Provision(c, x)
               \/ Revoke(c) \/ WipeByUser(c) \/ WipeByAdmin(c) \/ DeleteAccount(c)
        PROVE  Shapes'
    BY <1>0, <1>1, BeginTokens DEF Begin, Shapes, tables, billing, tokens
  <1>2. ASSUME NEW c \in Calls, Ensure(c) \/ MarkDeleted(c)
        PROVE  Shapes'
    BY <1>0, <1>2 DEF Ensure, MarkDeleted, Shapes, tables, billing, tokens
  <1>3. ASSUME NEW c \in Calls, Register(c)
        PROVE  Shapes'
    BY <1>0, <1>3 DEF Register, Shapes, tables, tokens
  <1>4. ASSUME NEW c \in Calls, MintShard(c)
        PROVE  Shapes'
    BY <1>0, <1>4, RowType DEF MintShard, Shapes, billing, Token
  <1>5. ASSUME NEW c \in Calls, MintIndex(c)
        PROVE  Shapes'
    BY <1>0, <1>5, RowType DEF MintIndex, Shapes, billing, Carrying
  <1>6. ASSUME NEW c \in Calls, RevokeShard(c)
        PROVE  Shapes'
    BY <1>0, <1>6, RevokedType DEF RevokeShard, Shapes, billing
  <1>7. ASSUME NEW c \in Calls, RevokeIndex(c)
        PROVE  Shapes'
    <2>1. index' \in TokenRow
      BY <1>0, <1>7, RevokedType DEF RevokeIndex, Shapes
    <2> QED
      BY <1>0, <1>7, <2>1 DEF RevokeIndex, Shapes, billing
  <1>8. ASSUME NEW c \in Calls, WipeShard(c) \/ WipeIndex(c)
        PROVE  Shapes'
    BY <1>0, <1>8, RowType, NoUserType DEF WipeShard, WipeIndex, Shapes, billing, tokens
  <1>9. ASSUME NEW c \in Calls, NEW e \in Event, Deliver(c, e)
        PROVE  Shapes'
    <2>1. crossed' \in BOOLEAN
      BY <1>0, <1>9, EventType DEF Deliver, Delivered, Shapes
    <2> QED
      BY <1>0, <1>9, <2>1 DEF Deliver, Delivered, Shapes, tables, tokens
  <1>10. ASSUME NEW c \in Calls, Apply(c)
         PROVE  Shapes'
    <2>1. work[c].event \in Event
      BY <1>10 DEF Apply, Carrying
    <2>2. /\ applied' \subseteq Event /\ overtaken' \in BOOLEAN /\ due' \in {"free", "pro"}
          /\ user' \in [status : {"none", "active", "suspended"}, plan : {"free", "pro"}]
      BY <1>0, <1>10, <2>1, EventType DEF Apply, Shapes
    <2> QED
      BY <1>0, <1>10, <2>2 DEF Apply, Shapes, tables, tokens
  <1>11. ASSUME NEW c \in Calls, Record(c)
         PROVE  Shapes'
    <2>1. work[c].event \in Event
      BY <1>11 DEF Record, Carrying
    <2>2. recorded' \subseteq Event
      BY <1>0, <1>11, <2>1, EventType DEF Record, Shapes
    <2> QED
      BY <1>0, <1>11, <2>2 DEF Record, Shapes, tables, tokens
  <1>12. ASSUME NEW c \in Calls, Abort(c)
         PROVE  Shapes'
    BY <1>0, <1>12 DEF Abort, Shapes, tables, billing
  <1>13. ASSUME Suspend \/ Reactivate
         PROVE  Shapes'
    BY <1>0, <1>13 DEF Suspend, Reactivate, SetStatus, Shapes, tables, billing, tokens
  <1> QED
    BY <1>1, <1>2, <1>3, <1>4, <1>5, <1>6, <1>7, <1>8, <1>9, <1>10, <1>11, <1>12, <1>13
    DEF Next

LEMMA RequestsStep ==
  ASSUME TypeOK, Carrying, Next
  PROVE  Carrying' /\ work' \in [Calls -> Call]
  <1> USE ControlAssumption
  <1>1. ASSUME NEW c \in Calls,
               \/ MintBySession(c) \/ MintByToken(c) \/ \E x \in BOOLEAN : Provision(c, x)
               \/ Revoke(c) \/ WipeByUser(c) \/ WipeByAdmin(c) \/ DeleteAccount(c)
        PROVE  Carrying' /\ work' \in [Calls -> Call]
    BY <1>1, BeginTokens, CarryingMoves
  <1>2. ASSUME NEW c \in Calls, NEW step \in Places, Go(c, step), step \notin {"publish", "bill"},
               step = "record" => work[c].at = "bill"
        PROVE  Carrying' /\ work' \in [Calls -> Call]
    <2>1. step = "record" => work[c].event \in Event
      BY <1>2 DEF Carrying
    <2> DEFINE call == [work[c] EXCEPT !.at = step]
    <2>2. /\ Moves(c, call) /\ call.at = step
          /\ call.event = work[c].event /\ call.token = work[c].token
      BY <1>2, GoMoves
    <2> HIDE DEF call
    <2> QED
      BY <1>2, <2>1, <2>2, CarryingMoves
  <1>3. ASSUME NEW c \in Calls, End(c)
        PROVE  Carrying' /\ work' \in [Calls -> Call]
    BY <1>3, EndMoves, IdleType, CarryingMoves
  <1>4. ASSUME NEW c \in Calls, MintShard(c)
        PROVE  Carrying' /\ work' \in [Calls -> Call]
    <2> DEFINE call == [work[c] EXCEPT !.at = "publish", !.token = drawn + 1]
    <2>1. /\ work' = [work EXCEPT ![c] = call]
          /\ drawn + 1 \in Token
      BY <1>4 DEF MintShard, TypeOK
    <2>2. call \in Call /\ call.at = "publish" /\ call.token = drawn + 1
      BY <2>1 DEF TypeOK, Call
    <2> HIDE DEF call
    <2> QED
      BY <2>1, <2>2, CarryingMoves DEF Moves
  <1>5. ASSUME NEW c \in Calls, NEW e \in Event, Deliver(c, e)
        PROVE  Carrying' /\ work' \in [Calls -> Call]
    <2>1. CASE work' = work
      BY <2>1 DEF Carrying, TypeOK, Call
    <2>2. CASE work' = [work EXCEPT ![c] = [At("bill") EXCEPT !.event = e]]
      BY <2>2, AtType, CarryingMoves DEF Steps, Moves
    <2> QED
      BY <1>5, <2>1, <2>2 DEF Deliver, Delivered
  <1>6. ASSUME NEW c \in Calls, Ensure(c) \/ Register(c) \/ WipeShard(c) \/ Apply(c)
        PROVE  Carrying' /\ work' \in [Calls -> Call]
    BY <1>2, <1>6 DEF Ensure, Register, WipeShard, Apply, Places
  <1>7. ASSUME NEW c \in Calls, RevokeShard(c) \/ WipeIndex(c)
        PROVE  Carrying' /\ work' \in [Calls -> Call]
    BY <1>2, <1>3, <1>7 DEF RevokeShard, WipeIndex, Places
  <1>8. ASSUME NEW c \in Calls, \/ MintIndex(c) \/ RevokeIndex(c) \/ MarkDeleted(c)
                                \/ Record(c) \/ Abort(c)
        PROVE  Carrying' /\ work' \in [Calls -> Call]
    BY <1>3, <1>8 DEF MintIndex, RevokeIndex, MarkDeleted, Record, Abort
  <1>9. ASSUME Suspend \/ Reactivate
        PROVE  Carrying' /\ work' \in [Calls -> Call]
    BY <1>9 DEF Suspend, Reactivate, SetStatus, Carrying, TypeOK, Call
  <1> QED
    BY <1>1, <1>4, <1>5, <1>6, <1>7, <1>8, <1>9 DEF Next

-----------------------------------------------------------------------------
(***************************************************************************)
(* Tokens                                                                  *)
(***************************************************************************)
TokenInv == Turns /\ Halfway /\ Listed /\ Known

\* A step that touches no token leaves them as they were, if the request that
\* moves is not halfway through an operation, before or after.
LEMMA TokensStay ==
  ASSUME TypeOK, TokenInv, NEW c \in Calls, NEW call, Moves(c, call),
         shard' = shard, index' = index, current' = current, spare' = spare,
         torn' = torn, raced' = raced,
         call.at \in {"idle", "bill", "record"} \/ OnTokens(c),
         call.at \notin {"publish", "unlist", "forget"}, work[c].at # "forget"
  PROVE  TokenInv'
  <1>1. work'[c] = call /\ \A d \in Calls \ {c} : work'[d] = work[d]
    BY MovesType
  <1>2. Turns'
    BY <1>1 DEF TokenInv, Turns, OnTokens
  <1>3. Halfway'
    BY <1>1 DEF TokenInv, Halfway
  <1>4. Listed' /\ Known'
    BY <1>1 DEF TokenInv, Listed, Known, Valid
  <1> QED
    BY <1>2, <1>3, <1>4 DEF TokenInv

LEMMA TokensBegin ==
  ASSUME TypeOK, TokenInv, NEW c \in Calls,
         \/ MintBySession(c) \/ MintByToken(c) \/ \E x \in BOOLEAN : Provision(c, x)
         \/ Revoke(c) \/ WipeByUser(c) \/ WipeByAdmin(c) \/ DeleteAccount(c)
  PROVE  TokenInv'
  <1>1. PICK call \in Call : /\ Begin(c, call) /\ Moves(c, call)
                             /\ call.at \in {"ensure", "mint", "register", "revoke", "wipe"}
    BY BeginTokens
  <1>2. work'[c] = call /\ \A d \in Calls \ {c} : work'[d] = work[d]
    BY <1>1, MovesType
  <1>3. /\ shard' = shard /\ index' = index /\ current' = current /\ spare' = spare
        /\ torn' = torn /\ raced' = (raced \/ \E d \in Calls : OnTokens(d))
        /\ work[c].at = "idle"
    BY <1>1 DEF Begin, tables, tokens
  <1>4. Turns'
    BY <1>2, <1>3 DEF TokenInv, Turns, OnTokens
  <1>5. Halfway'
    BY <1>1, <1>2, <1>3 DEF TokenInv, Halfway
  <1>6. Listed' /\ Known'
    BY <1>2, <1>3 DEF TokenInv, Listed, Known, Valid
  <1> QED
    BY <1>4, <1>5, <1>6 DEF TokenInv

\* The request that is on tokens is alone there, as long as none overlapped.
LEMMA Alone ==
  ASSUME TokenInv, ~raced, NEW c \in Calls, OnTokens(c), NEW d \in Calls \ {c}
  PROVE  work[d].at \notin {"publish", "unlist", "forget"}
  BY DEF TokenInv, Turns, OnTokens

LEMMA TokensMint ==
  ASSUME TypeOK, Carrying, TokenInv, NEW c \in Calls, MintShard(c) \/ MintIndex(c)
  PROVE  TokenInv'
  <1> USE ControlAssumption
  <1>1. CASE MintShard(c)
    <2> DEFINE call == [work[c] EXCEPT !.at = "publish", !.token = drawn + 1]
    <2>1. /\ work' = [work EXCEPT ![c] = call] /\ drawn + 1 \in Token /\ work[c].at = "mint"
          /\ shard' = Row(drawn + 1) /\ spare' = drawn + 1
          /\ index' = index /\ current' = current /\ torn' = torn /\ raced' = raced
      BY <1>1 DEF MintShard
    <2>2. call \in Call /\ call.at = "publish" /\ call.token = drawn + 1
      BY <2>1 DEF TypeOK, Call
    <2> HIDE DEF call
    <2>3. work'[c] = call /\ \A d \in Calls \ {c} : work'[d] = work[d]
      BY <2>1, <2>2, MovesType DEF Moves
    <2>4. OnTokens(c)
      BY <2>1 DEF OnTokens
    <2>5. Turns'
      BY <2>1, <2>3, <2>4 DEF TokenInv, Turns, OnTokens
    <2>6. Halfway'
      BY <2>1, <2>2, <2>3, <2>4, Alone DEF Halfway
    <2>7. shard'.token = drawn + 1 /\ drawn + 1 # NoToken /\ ~shard'.revoked
      BY <2>1 DEF Row, Token, NoToken
    <2>8. Listed' /\ Known'
      BY <2>1, <2>3, <2>7 DEF TokenInv, Listed, Known, Valid
    <2> QED
      BY <2>5, <2>6, <2>8 DEF TokenInv
  <1>2. CASE MintIndex(c)
    <2> DEFINE t == work[c].token
    <2>1. /\ work[c].at = "publish" /\ t \in Token /\ t # NoToken
          /\ index' = Row(t) /\ current' = t /\ spare' = NoToken /\ torn' = FALSE
          /\ shard' = shard /\ raced' = raced
      BY <1>2 DEF MintIndex, Carrying, Token, NoToken
    <2>2. work'[c] = Idle /\ \A d \in Calls \ {c} : work'[d] = work[d]
      BY <1>2, EndMoves, MovesType DEF MintIndex
    <2>3. OnTokens(c)
      BY <2>1 DEF OnTokens
    <2>4. Turns'
      BY <2>1, <2>2, <2>3, IdleType DEF TokenInv, Turns, OnTokens
    <2>5. Halfway'
      BY <2>1, <2>2, <2>3, IdleType, Alone DEF Halfway
    <2>6. ~raced => shard = Row(t)
      BY <2>1 DEF TokenInv, Halfway
    <2>7. Row(t).token = t /\ ~Row(t).revoked
      BY DEF Row
    <2> HIDE DEF t
    <2>8. Listed' /\ Known'
      BY <2>1, <2>6, <2>7 DEF Listed, Known, Valid
    <2> QED
      BY <2>4, <2>5, <2>8 DEF TokenInv
  <1> QED
    BY <1>1, <1>2

LEMMA TokensRevoke ==
  ASSUME TypeOK, Carrying, TokenInv, NEW c \in Calls, RevokeShard(c) \/ RevokeIndex(c)
  PROVE  TokenInv'
  <1>1. CASE RevokeShard(c) /\ shard.token = NoToken
    <2>1. /\ work[c].at = "revoke" /\ shard' = shard /\ index' = index
          /\ current' = NoToken /\ spare' = NoToken /\ torn' = torn /\ raced' = raced
      BY <1>1 DEF RevokeShard
    <2>2. work'[c] = Idle /\ \A d \in Calls \ {c} : work'[d] = work[d]
      BY <1>1, EndMoves, MovesType DEF RevokeShard
    <2>3. OnTokens(c)
      BY <2>1 DEF OnTokens
    <2>4. Turns' /\ Halfway'
      BY <2>1, <2>2, <2>3, IdleType DEF TokenInv, Turns, Halfway, OnTokens
    <2>5. ~raced /\ ~torn => \A t \in Token : ~Valid(index, t) /\ ~Valid(shard, t)
      BY <1>1, <2>1, <2>3, Alone DEF TokenInv, Known, Valid
    <2>6. Listed' /\ Known'
      BY <2>1, <2>5 DEF Listed, Known, Valid
    <2> QED
      BY <2>4, <2>6 DEF TokenInv
  <1>2. CASE RevokeShard(c) /\ shard.token # NoToken
    <2> DEFINE call == [work[c] EXCEPT !.at = "unlist"]
    <2>1. /\ work[c].at = "revoke" /\ shard' = [shard EXCEPT !.revoked = TRUE] /\ index' = index
          /\ current' = current /\ spare' = spare /\ torn' = torn /\ raced' = raced
          /\ Go(c, "unlist")
      BY <1>2 DEF RevokeShard
    <2>2. Moves(c, call) /\ call.at = "unlist"
      BY <2>1, GoMoves DEF Places
    <2> HIDE DEF call
    <2>3. work'[c] = call /\ \A d \in Calls \ {c} : work'[d] = work[d]
      BY <2>2, MovesType
    <2>4. OnTokens(c)
      BY <2>1 DEF OnTokens
    <2>5. shard'.revoked /\ shard'.token = shard.token
      BY <2>1, RevokedType DEF TypeOK
    <2>6. Turns'
      BY <2>1, <2>3, <2>4 DEF TokenInv, Turns, OnTokens
    <2>7. Halfway'
      BY <2>1, <2>2, <2>3, <2>4, <2>5, Alone DEF Halfway
    <2>8. Listed' /\ Known'
      BY <1>2, <2>1, <2>5 DEF TokenInv, Listed, Known, Valid
    <2> QED
      BY <2>6, <2>7, <2>8 DEF TokenInv
  <1>3. CASE RevokeIndex(c)
    <2>1. /\ work[c].at = "unlist" /\ index' = [index EXCEPT !.revoked = (index.token # NoToken)]
          /\ current' = NoToken /\ spare' = NoToken /\ torn' = FALSE
          /\ shard' = shard /\ raced' = raced
      BY <1>3 DEF RevokeIndex
    <2>2. work'[c] = Idle /\ \A d \in Calls \ {c} : work'[d] = work[d]
      BY <1>3, EndMoves, MovesType DEF RevokeIndex
    <2>3. OnTokens(c)
      BY <2>1 DEF OnTokens
    <2>4. Turns' /\ Halfway'
      BY <2>1, <2>2, <2>3, IdleType, Alone DEF TokenInv, Turns, Halfway, OnTokens
    <2>5. index'.revoked = (index'.token # NoToken)
      BY <2>1, RevokedType DEF TypeOK
    <2>6. ~raced => shard.revoked
      BY <2>1 DEF TokenInv, Halfway
    <2>7. \A t \in Token : ~Valid(index', t)
      BY <2>5 DEF Valid
    <2>8. Listed' /\ Known'
      BY <2>1, <2>6, <2>7 DEF Listed, Known, Valid
    <2> QED
      BY <2>4, <2>8 DEF TokenInv
  <1> QED
    BY <1>1, <1>2, <1>3

LEMMA TokensWipe ==
  ASSUME TypeOK, Carrying, TokenInv, NEW c \in Calls, WipeShard(c) \/ WipeIndex(c)
  PROVE  TokenInv'
  <1>1. CASE WipeShard(c)
    <2> DEFINE call == [work[c] EXCEPT !.at = "forget"]
    <2>1. /\ work[c].at = "wipe" /\ shard' = NoRow /\ index' = index
          /\ current' = current /\ spare' = spare /\ torn' = torn /\ raced' = raced
          /\ Go(c, "forget")
      BY <1>1 DEF WipeShard, tokens
    <2>2. Moves(c, call) /\ call.at = "forget"
      BY <2>1, GoMoves DEF Places
    <2> HIDE DEF call
    <2>3. work'[c] = call /\ \A d \in Calls \ {c} : work'[d] = work[d]
      BY <2>2, MovesType
    <2>4. OnTokens(c)
      BY <2>1 DEF OnTokens
    <2>5. Turns'
      BY <2>1, <2>3, <2>4 DEF TokenInv, Turns, OnTokens
    <2>6. Halfway'
      BY <2>1, <2>2, <2>3, <2>4, Alone DEF Halfway
    <2>7. Listed' /\ Known'
      BY <2>1, <2>2, <2>3 DEF TokenInv, Listed, Known, Valid, NoRow
    <2> QED
      BY <2>5, <2>6, <2>7 DEF TokenInv
  <1>2. CASE WipeIndex(c)
    <2> DEFINE call == IF work[c].mark THEN [work[c] EXCEPT !.at = "mark"] ELSE Idle
    <2>1. /\ work[c].at = "forget" /\ index' = NoRow
          /\ current' = NoToken /\ spare' = NoToken /\ torn' = FALSE
          /\ shard' = shard /\ raced' = raced
      BY <1>2 DEF WipeIndex
    <2>2. Moves(c, call) /\ call.at \in {"idle", "mark"}
      <3>1. CASE work[c].mark
        BY <1>2, <3>1, GoMoves DEF WipeIndex, Places
      <3>2. CASE ~work[c].mark
        BY <1>2, <3>2, EndMoves, IdleType DEF WipeIndex
      <3> QED
        BY <3>1, <3>2
    <2> HIDE DEF call
    <2>3. work'[c] = call /\ \A d \in Calls \ {c} : work'[d] = work[d]
      BY <2>2, MovesType
    <2>4. OnTokens(c)
      BY <2>1 DEF OnTokens
    <2>5. Turns'
      BY <2>1, <2>3, <2>4 DEF TokenInv, Turns, OnTokens
    <2>6. Halfway'
      BY <2>1, <2>2, <2>3, <2>4, Alone DEF Halfway
    <2>7. ~raced => shard = NoRow
      BY <2>1 DEF TokenInv, Halfway
    <2>8. Listed' /\ Known'
      BY <2>1, <2>7 DEF Listed, Known, Valid, NoRow
    <2> QED
      BY <2>5, <2>6, <2>8 DEF TokenInv
  <1> QED
    BY <1>1, <1>2

LEMMA TokensAbort ==
  ASSUME TypeOK, TokenInv, NEW c \in Calls, Abort(c)
  PROVE  TokenInv'
  <1>1. /\ work[c].at # "idle" /\ torn' = (torn \/ work[c].at = "forget")
        /\ shard' = shard /\ index' = index /\ current' = current /\ spare' = spare
        /\ raced' = raced
    BY DEF Abort, tables
  <1>2. work'[c] = Idle /\ \A d \in Calls \ {c} : work'[d] = work[d]
    BY EndMoves, MovesType DEF Abort
  <1>3. Turns' /\ Halfway'
    BY <1>1, <1>2, IdleType DEF TokenInv, Turns, Halfway, OnTokens
  <1>4. Listed' /\ Known'
    BY <1>1, <1>2 DEF TokenInv, Listed, Known, Valid
  <1> QED
    BY <1>3, <1>4 DEF TokenInv

LEMMA TokensStep ==
  ASSUME TypeOK, Carrying, TokenInv, Next
  PROVE  TokenInv'
  <1>1. ASSUME NEW c \in Calls, Ensure(c) \/ Register(c) \/ Apply(c)
        PROVE  TokenInv'
    <2>1. PICK step \in Places : /\ Go(c, step) /\ step \in {"register", "mint", "record"}
                                 /\ step = "record" \/ OnTokens(c)
                                 /\ work[c].at # "forget"
      BY <1>1 DEF Ensure, Register, Apply, Places, OnTokens
    <2> DEFINE call == [work[c] EXCEPT !.at = step]
    <2>2. Moves(c, call) /\ call.at = step
      BY <2>1, GoMoves
    <2> HIDE DEF call
    <2>3. /\ shard' = shard /\ index' = index /\ current' = current /\ spare' = spare
          /\ torn' = torn /\ raced' = raced
      BY <1>1 DEF Ensure, Register, Apply, tables, tokens
    <2> QED
      BY <2>1, <2>2, <2>3, TokensStay
  <1>2. ASSUME NEW c \in Calls, MarkDeleted(c) \/ Record(c)
        PROVE  TokenInv'
    <2>1. Moves(c, Idle) /\ work[c].at # "forget"
      BY <1>2, EndMoves DEF MarkDeleted, Record
    <2>2. /\ shard' = shard /\ index' = index /\ current' = current /\ spare' = spare
          /\ torn' = torn /\ raced' = raced
      BY <1>2 DEF MarkDeleted, Record, tables, tokens
    <2> QED
      BY <2>1, <2>2, IdleType, TokensStay
  <1>3. ASSUME work' = work, shard' = shard, index' = index, current' = current,
               spare' = spare, torn' = torn, raced' = raced
        PROVE  TokenInv'
    BY <1>3 DEF TokenInv, Turns, Halfway, Listed, Known, Valid, OnTokens
  <1>4. ASSUME NEW c \in Calls, NEW e \in Event, Deliver(c, e)
        PROVE  TokenInv'
    <2>1. /\ shard' = shard /\ index' = index /\ current' = current /\ spare' = spare
          /\ torn' = torn /\ raced' = raced /\ work[c].at = "idle"
      BY <1>4 DEF Deliver, Delivered, tables, tokens
    <2>2. CASE work' = [work EXCEPT ![c] = [At("bill") EXCEPT !.event = e]]
      BY <2>1, <2>2, AtType, TokensStay DEF Steps, Moves
    <2> QED
      BY <1>3, <1>4, <2>1, <2>2 DEF Deliver, Delivered
  <1>5. ASSUME Suspend \/ Reactivate
        PROVE  TokenInv'
    BY <1>3, <1>5 DEF Suspend, Reactivate, SetStatus, tables, tokens
  <1> QED
    BY <1>1, <1>2, <1>4, <1>5, TokensBegin, TokensMint, TokensRevoke, TokensWipe, TokensAbort
    DEF Next

-----------------------------------------------------------------------------
(***************************************************************************)
(* Billing                                                                 *)
(***************************************************************************)
\* A request that is no delivery, before and after, and what it may do to the
\* plan: nothing, as long as the user is registered.
LEMMA OrderStays ==
  ASSUME TypeOK, InOrder, NEW c \in Calls, NEW call, Moves(c, call),
         recorded' = recorded, crossed' = crossed, overtaken' = overtaken,
         call.at \notin {"bill", "record"},
         user'.status # "none" /\ user.plan = due /\ user.status # "none" => user'.plan = due',
         user'.status # "none" /\ user.status = "none" => user'.plan = due'
  PROVE  InOrder'
  <1>1. work'[c] = call /\ \A d \in Calls \ {c} : work'[d] = work[d]
    BY MovesType
  <1>2. \A d \in Calls : Billing(d)' => Billing(d) /\ work'[d] = work[d]
    BY <1>1 DEF Billing
  <1>3. \A d \in Calls : work'[d].at = "bill" => work[d].at = "bill" /\ work'[d] = work[d]
    BY <1>1
  <1> QED
    BY <1>2, <1>3 DEF InOrder

LEMMA OrderStep ==
  ASSUME TypeOK, Carrying, InOrder, Next
  PROVE  InOrder'
  <1> USE ControlAssumption
  <1>1. ASSUME NEW c \in Calls,
               \/ MintBySession(c) \/ MintByToken(c) \/ \E x \in BOOLEAN : Provision(c, x)
               \/ Revoke(c) \/ WipeByUser(c) \/ WipeByAdmin(c) \/ DeleteAccount(c)
        PROVE  InOrder'
    BY <1>1, BeginTokens, OrderStays DEF Begin, billing
  <1>2. ASSUME NEW c \in Calls, NEW step \in Places, Go(c, step), step \notin {"bill", "record"},
               recorded' = recorded, crossed' = crossed, overtaken' = overtaken,
               user'.status # "none" /\ user.plan = due /\ user.status # "none" => user'.plan = due',
               user'.status # "none" /\ user.status = "none" => user'.plan = due'
        PROVE  InOrder'
    <2> DEFINE call == [work[c] EXCEPT !.at = step]
    <2>1. Moves(c, call) /\ call.at = step
      BY <1>2, GoMoves
    <2> HIDE DEF call
    <2> QED
      BY <1>2, <2>1, OrderStays
  <1>3. ASSUME NEW c \in Calls, End(c),
               recorded' = recorded, crossed' = crossed, overtaken' = overtaken,
               user'.status # "none" /\ user.plan = due /\ user.status # "none" => user'.plan = due',
               user'.status # "none" /\ user.status = "none" => user'.plan = due'
        PROVE  InOrder'
    BY <1>3, EndMoves, IdleType, OrderStays
  <1>4. ASSUME NEW c \in Calls, Ensure(c) \/ WipeShard(c)
        PROVE  InOrder'
    BY <1>2, <1>4 DEF Ensure, WipeShard, Places, billing
  <1>5. ASSUME NEW c \in Calls, Register(c)
        PROVE  InOrder'
    BY <1>2, <1>5 DEF Register, Places
  <1>6. ASSUME NEW c \in Calls, MintShard(c)
        PROVE  InOrder'
    <2> DEFINE call == [work[c] EXCEPT !.at = "publish", !.token = drawn + 1]
    <2>1. /\ work' = [work EXCEPT ![c] = call] /\ drawn + 1 \in Token
          /\ user' = user /\ due' = due
          /\ recorded' = recorded /\ crossed' = crossed /\ overtaken' = overtaken
      BY <1>6 DEF MintShard, billing
    <2>2. call \in Call /\ call.at = "publish"
      BY <2>1 DEF TypeOK, Call
    <2> HIDE DEF call
    <2> QED
      BY <2>1, <2>2, OrderStays DEF Moves
  <1>7. ASSUME NEW c \in Calls, MintIndex(c) \/ RevokeIndex(c) \/ MarkDeleted(c) \/ Abort(c)
        PROVE  InOrder'
    BY <1>3, <1>7 DEF MintIndex, RevokeIndex, MarkDeleted, Abort, billing
  <1>8. ASSUME NEW c \in Calls, RevokeShard(c)
        PROVE  InOrder'
    BY <1>2, <1>3, <1>8 DEF RevokeShard, Places, billing
  <1>9. ASSUME NEW c \in Calls, WipeIndex(c)
        PROVE  InOrder'
    BY <1>2, <1>3, <1>9 DEF WipeIndex, Places, billing, NoUser
  <1>10. ASSUME NEW c \in Calls, NEW e \in Event, Deliver(c, e)
         PROVE  InOrder'
    <2>1. /\ work[c].at = "idle" /\ recorded' = recorded /\ overtaken' = overtaken
          /\ user' = user /\ due' = due
      BY <1>10 DEF Deliver, Delivered
    <2>2. CASE e \in recorded
      <3>1. work' = work /\ crossed' = crossed
        BY <1>10, <2>2 DEF Deliver, Delivered
      <3> QED
        BY <2>1, <3>1 DEF InOrder, Billing
    <2>3. CASE e \notin recorded
      <3> DEFINE call == [At("bill") EXCEPT !.event = e]
      <3>1. /\ work' = [work EXCEPT ![c] = call]
            /\ crossed' = (crossed \/ \E d \in Calls : work[d].event = e)
        BY <1>10, <2>3 DEF Deliver, Delivered
      <3>2. call \in Call /\ call.event = e
        BY AtType DEF Steps
      <3> HIDE DEF call
      <3>3. work'[c] = call /\ \A d \in Calls \ {c} : work'[d] = work[d]
        BY <3>1, <3>2, MovesType DEF Moves
      <3>4. ~crossed' => ~crossed /\ \A d \in Calls : work[d].event # e
        BY <3>1
      <3>5. ~crossed' => \A d, f \in Calls :
                Billing(d)' /\ Billing(f)' /\ work'[d].event = work'[f].event => d = f
        BY <3>2, <3>3, <3>4 DEF InOrder, Billing
      <3>6. ~crossed' => \A d \in Calls : work'[d].at = "bill" => work'[d].event \notin recorded'
        BY <2>1, <2>3, <3>2, <3>3, <3>4 DEF InOrder
      <3> QED
        BY <2>1, <3>4, <3>5, <3>6 DEF InOrder
    <2> QED
      BY <2>2, <2>3
  <1>11. ASSUME NEW c \in Calls, Apply(c)
         PROVE  InOrder'
    <2> DEFINE e == work[c].event
               call == [work[c] EXCEPT !.at = "record"]
    <2>1. /\ recorded' = recorded /\ crossed' = crossed
          /\ work[c].at = "bill" /\ Go(c, "record")
      BY <1>11 DEF Apply
    <2>2. Moves(c, call) /\ call.event = e /\ call.at = "record"
      BY <2>1, GoMoves DEF Places
    <2> HIDE DEF call
    <2>3. work'[c] = call /\ \A d \in Calls \ {c} : work'[d] = work[d]
      BY <2>2, MovesType
    <2>4. ~crossed => e \notin recorded
      BY <2>1 DEF InOrder
    <2>5. ~crossed /\ ~overtaken' /\ user'.status # "none" => user'.plan = due'
      <3>1. CASE user.status = "none"
        BY <1>11, <3>1 DEF Apply
      <3>2. CASE user.status # "none"
        <4>1. /\ user'.plan = PlanOf(e)
              /\ overtaken' = (overtaken \/ (~(\A f \in applied : f <= e) /\ e \notin recorded))
              /\ due' = (IF \A f \in applied : f <= e THEN PlanOf(e) ELSE due)
          BY <1>11, <3>2 DEF Apply, TypeOK
        <4> HIDE DEF e
        <4> QED
          BY <2>4, <4>1
      <3> QED
        BY <3>1, <3>2
    <2>6. \A d \in Calls : Billing(d)' => Billing(d) /\ work'[d].event = work[d].event
      BY <2>1, <2>2, <2>3 DEF Billing
    <2>7. \A d \in Calls : work'[d].at = "bill" => work[d].at = "bill" /\ work'[d].event = work[d].event
      BY <2>2, <2>3
    <2> HIDE DEF e
    <2> QED
      BY <2>1, <2>5, <2>6, <2>7 DEF InOrder
  <1>12. ASSUME NEW c \in Calls, Record(c)
         PROVE  InOrder'
    <2> DEFINE e == work[c].event
    <2>1. /\ recorded' = recorded \cup {e} /\ crossed' = crossed /\ overtaken' = overtaken
          /\ user' = user /\ due' = due /\ Billing(c)
      BY <1>12 DEF Record, Billing
    <2>2. work'[c] = Idle /\ \A d \in Calls \ {c} : work'[d] = work[d]
      BY <1>12, EndMoves, MovesType DEF Record
    <2>3. \A d \in Calls : Billing(d)' => d # c /\ Billing(d) /\ work'[d] = work[d]
      BY <2>2, IdleType DEF Billing
    <2>4. ~crossed => \A d \in Calls : work'[d].at = "bill" => work'[d].event \notin recorded'
      BY <2>1, <2>2, <2>3, IdleType DEF InOrder, Billing
    <2> HIDE DEF e
    <2> QED
      BY <2>1, <2>3, <2>4 DEF InOrder
  <1>13. ASSUME Suspend \/ Reactivate
         PROVE  InOrder'
    <2>1. /\ work' = work /\ user'.status # "none" /\ user.status # "none" /\ user'.plan = user.plan
          /\ UNCHANGED billing
      BY <1>13 DEF Suspend, Reactivate, SetStatus, TypeOK
    <2> QED
      BY <2>1 DEF InOrder, Billing, billing
  <1> QED
    BY <1>1, <1>4, <1>5, <1>6, <1>7, <1>8, <1>9, <1>10, <1>11, <1>12, <1>13 DEF Next

-----------------------------------------------------------------------------
(***************************************************************************)
(* The results                                                             *)
(***************************************************************************)
\* The strengthening of the properties below is an invariant of every behaviour
\* of the control plane (sharding.py, main.py).
THEOREM InvCorrect == Spec => []IInv
  <1>1. Init => IInv
    BY InitInv
  <1>2. IInv /\ [Next]_vars => IInv'
    <2>1. ASSUME IInv, Next
          PROVE  IInv'
      <3>1. TypeOK'
        BY <2>1, ShapesStep, RequestsStep, TypePartsNext DEF IInv
      <3> QED
        BY <2>1, <3>1, RequestsStep, TokensStep, OrderStep DEF IInv, TokenInv
    <2>2. ASSUME IInv, UNCHANGED vars
          PROVE  IInv'
      BY <2>2 DEF IInv, vars, TypeOK, Carrying, Turns, Halfway, Listed, Known, InOrder,
                  OnTokens, Valid, Billing
    <2> QED
      BY <2>1, <2>2
  <1> QED
    BY <1>1, <1>2, PTL DEF Spec

\* The rows of both databases and the requests keep the shape of their tables.
THEOREM TypeCorrect == Spec => []TypeOK
  <1>1. IInv => TypeOK
    BY DEF IInv
  <1> QED
    BY <1>1, InvCorrect, PTL

\* Of requests that take turns none leaves an old token alive: what a mint
\* replaced, a revocation ended or a deletion swept is accepted no more, however
\* many requests died between the two databases (TokenControlIndex.upsert and
\* revoke, delete_user_data), but for a deletion that reached the shard alone.
THEOREM OldTokensDead == Spec => []OnlyCurrentWorks
  <1>1. IInv => OnlyCurrentWorks
    BY DEF IInv, Known, OnlyCurrentWorks, Accepted
  <1> QED
    BY <1>1, InvCorrect, PTL

\* The token last returned works until its replacement is returned, its
\* revocation is answered, or the user is suspended.
THEOREM CurrentAccepted == Spec => []CurrentWorks
  <1>1. IInv => CurrentWorks
    BY DEF IInv, TypeOK, Listed, CurrentWorks, Accepted
  <1> QED
    BY <1>1, InvCorrect, PTL

\* The plan of a registered user is that of the newest billing event that found
\* it registered, in whatever order events are delivered, together, again and
\* again, or die on the way, as long as none is delivered twice at once, and none
\* that is older and not recorded is applied (billing_webhook,
\* apply_billing_event, record_billing_event).
THEOREM PlanIsNewest == Spec => []PlanFollows
  <1>1. IInv => PlanFollows
    BY DEF IInv, InOrder, PlanFollows
  <1> QED
    BY <1>1, InvCorrect, PTL

=============================================================================
