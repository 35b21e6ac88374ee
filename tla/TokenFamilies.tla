---------------------------- MODULE TokenFamilies ----------------------------
(***************************************************************************)
(* What the sessions of an account promise about refresh tokens, whatever  *)
(* the requests that present them do at the same time: the tokens of a     *)
(* family follow one another, each is given up for one successor, and a    *)
(* family that has ended gives no token any more.                          *)
(***************************************************************************)
EXTENDS Naturals

CONSTANTS
    Families,
    Tokens,
    NoToken,   \* not in Tokens
    NoFamily   \* not in Families

VARIABLES
    current,   \* the token that can be exchanged in each family
    spentIn,   \* the family in which each token has been exchanged
    ended      \* the families that have been revoked

vars == <<current, spentIn, ended>>

TypeOK ==
    /\ current \in [Families -> Tokens \cup {NoToken}]
    /\ spentIn \in [Tokens -> Families \cup {NoFamily}]
    /\ ended \subseteq Families

Init ==
    /\ current = [f \in Families |-> NoToken]
    /\ spentIn = [t \in Tokens |-> NoFamily]
    /\ ended = {}

\* Nobody has held the token before.
Fresh(t) == spentIn[t] = NoFamily /\ \A f \in Families : current[f] # t

\* A login opens a family.
Open(f, t) ==
    /\ current[f] = NoToken
    /\ f \notin ended
    /\ Fresh(t)
    /\ current' = [current EXCEPT ![f] = t]
    /\ UNCHANGED <<spentIn, ended>>

\* A refresh exchanges the current token of a family that has not ended.
Exchange(f, t) ==
    /\ current[f] # NoToken
    /\ f \notin ended
    /\ Fresh(t)
    /\ current' = [current EXCEPT ![f] = t]
    /\ spentIn' = [spentIn EXCEPT ![current[f]] = f]
    /\ UNCHANGED ended

\* A logout, an expiry, a reuse or a change of password ends families that
\* have been opened.
End(S) ==
    /\ \A f \in S : current[f] # NoToken
    /\ ended' = ended \cup S
    /\ UNCHANGED <<current, spentIn>>

Next ==
    \/ \E f \in Families, t \in Tokens : Open(f, t) \/ Exchange(f, t)
    \/ \E S \in SUBSET Families : End(S)

Spec == Init /\ [][Next]_vars
=============================================================================
