------------------------------- MODULE Accounts -------------------------------
(***************************************************************************)
(* Accounts, the ways into them, and sessions.  The control store executes *)
(* one transaction at a time; a request is a sequence of transactions, so  *)
(* requests interleave between them and what a request has read may be out *)
(* of date when it writes.                                                 *)
(*                                                                         *)
(* A session is one row with a pair of tokens (access and refresh) that a  *)
(* refresh replaces; pairs are numbered as they are minted.  A row is its  *)
(* own refresh family: every login opens a new one.  A flow is a one-time  *)
(* secret: an e-mailed token, a link challenge or an app login.  Hashes    *)
(* and secrets are left out: a request presents a pair or a flow.  Only    *)
(* attempts that present the right password are modelled: a wrong one      *)
(* writes nothing.                                                         *)
(***************************************************************************)
EXTENDS Naturals, FiniteSets

CONSTANTS
    AccountIds,
    Emails,
    Subjects,      \* what an OAuth provider calls its users
    SessionIds,
    FlowIds,
    Requests,      \* requests served at the same time
    Instances,     \* sets of operations: users perform those of one set
    NoAccount, NoEmail, NoSession, NoFlow,
    MaxPairs,      \* bound of the model: pairs minted
    MaxPasswords,  \* bound of the model: passwords ever set
    MaxUses,       \* bound of the model: how often a refresh token is presented
    MaxCrashes     \* bound of the model: requests that die

\* The subject of a password identity is the e-mail address.
Keys == Subjects \cup Emails
NoKey == NoEmail

ASSUME AccountsAssumption ==
    /\ NoAccount \notin AccountIds
    /\ NoEmail \notin Keys
    /\ NoSession \notin SessionIds
    /\ NoFlow \notin FlowIds
    /\ Subjects \cap Emails = {}
    /\ MaxPairs \in Nat /\ MaxPasswords \in Nat /\ MaxUses \in Nat /\ MaxCrashes \in Nat

VARIABLES
    accounts,    \* accounts and account_password_credentials
    identities,  \* account_identities: the account of each key
    sessions,    \* auth_sessions
    spent,       \* refresh_token_history: the family of each pair given up
    flows,       \* auth_flows
    lapsed,      \* pairs whose refresh token has expired
    work,        \* what each request has read and does next
    minted,      \* pairs minted
    passwords,   \* passwords set
    uses,        \* history: how often each refresh token was presented
    entered,     \* history: accounts that have had a way in
    overlapped,  \* history: accounts of which two unlinks overlapped
    crashes,
    operations   \* the operations that the users of this behaviour perform

vars == <<accounts, identities, sessions, spent, flows, lapsed, work, minted,
          passwords, uses, entered, overlapped, crashes, operations>>

Pairs == 1 .. MaxPairs

\* password 0: no credential.  Nothing in the code suspends an account.
\* closed (history): it was marked deleted, whatever has been written since.
Account == [status : {"none", "pending_verification", "active", "deleted"},
            email : Emails \cup {NoEmail}, password : 0 .. MaxPasswords, closed : BOOLEAN]
NoRow == [status |-> "none", email |-> NoEmail, password |-> 0, closed |-> FALSE]

\* pair 0: no such session.  login: the app login that it answers.
Reasons == {"refresh_expired", "refresh_reuse", "logout", "revoke_all",
            "password_change", "password_reset", "account_deleted"}
Session == [account : AccountIds \cup {NoAccount}, pair : 0 .. MaxPairs,
            revoked : Reasons \cup {"no"}, login : FlowIds \cup {NoFlow}]
NoSessionRow == [account |-> NoAccount, pair |-> 0, revoked |-> "no", login |-> NoFlow]

\* result: the companion row of a completed app login, with its own consumed_at.
Flow == [kind : {"none", "email_verify", "password_reset", "link_challenge", "app_login"},
         account : AccountIds \cup {NoAccount}, key : Keys \cup {NoKey},
         consumed : BOOLEAN, result : {"none", "ready", "consumed"}]
NoFlowRow == [kind |-> "none", account |-> NoAccount, key |-> NoKey,
              consumed |-> FALSE, result |-> "none"]

\* stale: another unlink has deleted an identity since the list was read.
Work == [at : {"idle", "signup.identity", "signup.credential", "signup.flow",
               "verify.read", "verify.write", "reset.read", "reset.set", "reset.revoke",
               "login.verify", "login.rehash", "mint", "oauth.identity", "oauth.app",
               "app.consume", "app.finish", "app.read", "link.read", "link.create",
               "unlink", "refresh.check", "refresh.rotate", "refresh.reuse", "logout",
               "change.set", "change.identity", "change.revoke", "delete.revoke"},
         account : AccountIds \cup {NoAccount}, session : SessionIds \cup {NoSession},
         pair : 0 .. MaxPairs, flow : FlowIds \cup {NoFlow}, key : Keys \cup {NoKey},
         status : {"none", "pending_verification", "active"},
         password : 0 .. MaxPasswords, stale : BOOLEAN]
Idle == [at |-> "idle", account |-> NoAccount, session |-> NoSession, pair |-> 0,
         flow |-> NoFlow, key |-> NoKey, status |-> "none", password |-> 0, stale |-> FALSE]

-----------------------------------------------------------------------------
Live(s)     == sessions[s].pair > 0 /\ sessions[s].revoked = "no"
Exists(a)   == accounts[a].status # "none"
Usable(a)   == accounts[a].status \in {"pending_verification", "active"}
SignedIn(a) == Usable(a) /\ \E s \in SessionIds : Live(s) /\ sessions[s].account = a   \* session_auth
WayIn(a)    == accounts[a].password > 0 \/ \E k \in Subjects : identities[k] = a
HasEmail(e) == \E a \in AccountIds : Exists(a) /\ accounts[a].email = e

Init ==
    /\ accounts = [a \in AccountIds |-> NoRow]
    /\ identities = [k \in Keys |-> NoAccount]
    /\ sessions = [s \in SessionIds |-> NoSessionRow]
    /\ spent = [p \in Pairs |-> NoSession]
    /\ flows = [f \in FlowIds |-> NoFlowRow]
    /\ lapsed = {}
    /\ work = [w \in Requests |-> Idle]
    /\ minted = 0
    /\ passwords = 0
    /\ uses = [p \in Pairs |-> 0]
    /\ entered = {}
    /\ overlapped = {}
    /\ crashes = 0
    /\ operations \in Instances

(***************************************************************************)
(* A request goes on, begins or ends                                       *)
(***************************************************************************)
Goes(w, next)  == work' = [work EXCEPT ![w] = next]
Ends(w)        == Goes(w, Idle)
At(w, label)   == work[w].at = label
Then(w, label) == Goes(w, [work[w] EXCEPT !.at = label])
Begins(w, op)  == At(w, "idle") /\ op \in operations

TheSessions == <<sessions, spent, lapsed, minted, uses>>
TheAccounts == <<accounts, identities, passwords, entered, overlapped>>

(***************************************************************************)
(* One transaction of the control store                                    *)
(***************************************************************************)
\* create_account: the e-mail address is unique.
CreateAccount(a, email, status) ==
    /\ ~Exists(a)
    /\ email = NoEmail \/ ~HasEmail(email)
    /\ accounts' = [accounts EXCEPT ![a] = [status |-> status, email |-> email, password |-> 0,
                                            closed |-> FALSE]]

\* create_identity: UNIQUE(provider, provider_subject).
CreateIdentity(a, k) ==
    /\ identities[k] = NoAccount
    /\ identities' = [identities EXCEPT ![k] = a]
    /\ entered' = IF k \in Subjects THEN entered \cup {a} ELSE entered

SetPassword(a, number) ==
    /\ accounts' = [accounts EXCEPT ![a].password = number]
    /\ entered' = entered \cup {a}

NewPassword(a) ==
    /\ passwords < MaxPasswords
    /\ passwords' = passwords + 1
    /\ SetPassword(a, passwords + 1)

SetStatus(a, status) == accounts' = [accounts EXCEPT ![a].status = status]

CreateFlow(f, kind, a, k) ==
    /\ flows[f].kind = "none"
    /\ flows' = [flows EXCEPT ![f] = [kind |-> kind, account |-> a, key |-> k,
                                      consumed |-> FALSE, result |-> "none"]]

\* consume_flow: UPDATE ... WHERE consumed_at IS NULL.
ConsumeFlow(f) ==
    /\ ~flows[f].consumed
    /\ flows' = [flows EXCEPT ![f].consumed = TRUE]

\* UPDATE auth_sessions SET revoked_at ... WHERE revoked_at IS NULL.
Revoke(S, reason) ==
    sessions' = [s \in SessionIds |-> IF s \in S /\ Live(s)
                                      THEN [sessions[s] EXCEPT !.revoked = reason]
                                      ELSE sessions[s]]

SessionsOf(a) == {s \in SessionIds : sessions[s].account = a}

(***************************************************************************)
(* Signup and verification of the e-mail address                           *)
(***************************************************************************)
SignupAccount(w, e, a) ==
    /\ Begins(w, "signup")
    /\ CreateAccount(a, e, "pending_verification")
    /\ Goes(w, [Idle EXCEPT !.at = "signup.identity", !.account = a, !.key = e])
    /\ UNCHANGED <<identities, passwords, entered, overlapped, TheSessions, flows, crashes, operations>>

\* A key that is taken raises, and the request ends there.
SignupIdentity(w) ==
    /\ At(w, "signup.identity")
    /\ IF identities[work[w].key] = NoAccount
       THEN CreateIdentity(work[w].account, work[w].key) /\ Then(w, "signup.credential")
       ELSE Ends(w) /\ UNCHANGED <<identities, entered>>
    /\ UNCHANGED <<accounts, passwords, overlapped, TheSessions, flows, crashes, operations>>

SignupCredential(w) ==
    /\ At(w, "signup.credential")
    /\ NewPassword(work[w].account)
    /\ Then(w, "signup.flow")
    /\ UNCHANGED <<identities, overlapped, TheSessions, flows, crashes, operations>>

\* _send_email_verification: the flow is made and its token delivered.
SignupFlow(w, f) ==
    /\ At(w, "signup.flow")
    /\ CreateFlow(f, "email_verify", work[w].account, NoKey)
    /\ Ends(w)
    /\ UNCHANGED <<TheAccounts, TheSessions, crashes, operations>>

\* _consume_flow_token: kind, secret and expiry are read before the flow is
\* consumed; an expired flow is one that nobody presents.
UseFlow(w, f, kind, next) ==
    /\ flows[f].kind = kind
    /\ ConsumeFlow(f)
    /\ Goes(w, [Idle EXCEPT !.at = next, !.account = flows[f].account,
                            !.key = flows[f].key, !.flow = f])
    /\ UNCHANGED <<TheAccounts, TheSessions, crashes, operations>>

VerifyConsume(w, f) == Begins(w, "verify") /\ UseFlow(w, f, "email_verify", "verify.read")

VerifyRead(w) ==
    LET a == work[w].account
    IN  /\ At(w, "verify.read")
        /\ IF Usable(a)
           THEN Goes(w, [work[w] EXCEPT !.at = "verify.write", !.status = accounts[a].status])
           ELSE Ends(w)
        /\ UNCHANGED <<TheAccounts, TheSessions, flows, crashes, operations>>

\* pending_verification becomes active; any other status is written back.
VerifyWrite(w) ==
    /\ At(w, "verify.write")
    /\ SetStatus(work[w].account, "active")
    /\ Ends(w)
    /\ UNCHANGED <<identities, passwords, entered, overlapped, TheSessions, flows, crashes, operations>>

(***************************************************************************)
(* Passwords                                                               *)
(***************************************************************************)
ResetRequest(w, a, f) ==
    /\ Begins(w, "reset")
    /\ Usable(a) /\ accounts[a].email # NoEmail
    /\ CreateFlow(f, "password_reset", a, NoKey)
    /\ UNCHANGED <<TheAccounts, TheSessions, work, crashes, operations>>

ResetConsume(w, f) == Begins(w, "reset") /\ UseFlow(w, f, "password_reset", "reset.read")

ResetRead(w) ==
    /\ At(w, "reset.read")
    /\ IF Usable(work[w].account) THEN Then(w, "reset.set") ELSE Ends(w)
    /\ UNCHANGED <<TheAccounts, TheSessions, flows, crashes, operations>>

ResetSet(w) ==
    /\ At(w, "reset.set")
    /\ NewPassword(work[w].account)
    /\ Then(w, "reset.revoke")
    /\ UNCHANGED <<identities, overlapped, TheSessions, flows, crashes, operations>>

ResetRevoke(w) ==
    /\ At(w, "reset.revoke")
    /\ Revoke(SessionsOf(work[w].account), "password_reset")
    /\ Ends(w)
    /\ UNCHANGED <<TheAccounts, spent, lapsed, minted, uses, flows, crashes, operations>>

\* keep: the session of the caller, NoSession when it passes none.
ChangeRead(w, a, keep) ==
    /\ Begins(w, "change")
    /\ SignedIn(a)
    /\ keep # NoSession => (Live(keep) /\ sessions[keep].account = a)
    /\ Goes(w, [Idle EXCEPT !.at = "change.set", !.account = a, !.session = keep])
    /\ UNCHANGED <<TheAccounts, TheSessions, flows, crashes, operations>>

ChangeSet(w) ==
    /\ At(w, "change.set")
    /\ NewPassword(work[w].account)
    /\ Then(w, "change.identity")
    /\ UNCHANGED <<identities, overlapped, TheSessions, flows, crashes, operations>>

\* _ensure_password_identity
ChangeIdentity(w) ==
    LET a == work[w].account
        e == accounts[a].email
    IN  /\ At(w, "change.identity")
        /\ IF e # NoEmail /\ identities[e] = NoAccount
           THEN CreateIdentity(a, e)
           ELSE UNCHANGED <<identities, entered>>
        /\ Then(w, "change.revoke")
        /\ UNCHANGED <<accounts, passwords, overlapped, TheSessions, flows, crashes, operations>>

ChangeRevoke(w) ==
    /\ At(w, "change.revoke")
    /\ Revoke(SessionsOf(work[w].account) \ {work[w].session}, "password_change")
    /\ Ends(w)
    /\ UNCHANGED <<TheAccounts, spent, lapsed, minted, uses, flows, crashes, operations>>

(***************************************************************************)
(* Login with a password                                                   *)
(***************************************************************************)
LoginAccount(w, a) ==
    /\ Begins(w, "login")
    /\ Usable(a) /\ accounts[a].email # NoEmail
    /\ Goes(w, [Idle EXCEPT !.at = "login.verify", !.account = a])
    /\ UNCHANGED <<TheAccounts, TheSessions, flows, crashes, operations>>

\* The status that was read before is the one that is checked.
LoginVerify(w, rehash) ==
    LET a == work[w].account
    IN  /\ At(w, "login.verify")
        /\ rehash => "rehash" \in operations
        /\ IF accounts[a].password > 0
           THEN Goes(w, [work[w] EXCEPT !.at = IF rehash THEN "login.rehash" ELSE "mint",
                                        !.password = accounts[a].password])
           ELSE Ends(w)
        /\ UNCHANGED <<TheAccounts, TheSessions, flows, crashes, operations>>

\* needs_rehash: the password that was verified is hashed again and stored.
LoginRehash(w) ==
    /\ At(w, "login.rehash")
    /\ SetPassword(work[w].account, work[w].password)
    /\ Then(w, "mint")
    /\ UNCHANGED <<identities, passwords, overlapped, TheSessions, flows, crashes, operations>>

\* mint_session with the account that the request has read before.
Mint(w, s) ==
    /\ At(w, "mint")
    /\ sessions[s].pair = 0
    /\ minted < MaxPairs
    /\ minted' = minted + 1
    /\ sessions' = [sessions EXCEPT ![s] = [account |-> work[w].account, pair |-> minted + 1,
                                            revoked |-> "no", login |-> work[w].flow]]
    /\ Ends(w)
    /\ UNCHANGED <<TheAccounts, spent, lapsed, uses, flows, crashes, operations>>

(***************************************************************************)
(* Login with a provider, for the browser or for an app that polls         *)
(***************************************************************************)
\* find_or_challenge_identity of a subject that is linked.
OAuthLogin(w, k, app) ==
    LET a == identities[k]
    IN  /\ Begins(w, "oauth")
        /\ a # NoAccount
        /\ Usable(a)
        /\ app # NoFlow => flows[app].kind = "app_login"
        /\ Goes(w, [Idle EXCEPT !.at = IF app = NoFlow THEN "mint" ELSE "oauth.app",
                                !.account = a, !.flow = app])
        /\ UNCHANGED <<TheAccounts, TheSessions, flows, crashes, operations>>

\* The address belongs to an account: never a silent link.
OAuthChallenge(w, k, e, f) ==
    /\ Begins(w, "challenge")
    /\ identities[k] = NoAccount
    /\ \E a \in AccountIds : /\ Exists(a) /\ accounts[a].email = e
                             /\ CreateFlow(f, "link_challenge", a, k)
    /\ UNCHANGED <<TheAccounts, TheSessions, work, crashes, operations>>

\* A fresh account; only an address that the provider has verified is kept.
OAuthSignup(w, k, e, a, app) ==
    /\ Begins(w, "oauth")
    /\ identities[k] = NoAccount
    /\ app # NoFlow => flows[app].kind = "app_login"
    /\ CreateAccount(a, e, IF e = NoEmail THEN "pending_verification" ELSE "active")
    /\ Goes(w, [Idle EXCEPT !.at = "oauth.identity", !.account = a, !.key = k, !.flow = app])
    /\ UNCHANGED <<identities, passwords, entered, overlapped, TheSessions, flows, crashes, operations>>

OAuthIdentity(w) ==
    LET next == IF work[w].flow = NoFlow THEN "mint" ELSE "oauth.app"
    IN  /\ At(w, "oauth.identity")
        /\ IF identities[work[w].key] = NoAccount
           THEN CreateIdentity(work[w].account, work[w].key) /\ Then(w, next)
           ELSE Ends(w) /\ UNCHANGED <<identities, entered>>
        /\ UNCHANGED <<accounts, passwords, overlapped, TheSessions, flows, crashes, operations>>

AppStart(w, f) ==
    /\ Begins(w, "app")
    /\ CreateFlow(f, "app_login", NoAccount, NoKey)
    /\ UNCHANGED <<TheAccounts, TheSessions, work, crashes, operations>>

\* _complete_app_login_flow: the companion row, unless there is one.
OAuthApp(w) ==
    LET f == work[w].flow
    IN  /\ At(w, "oauth.app")
        /\ flows' = IF ~flows[f].consumed /\ flows[f].result = "none"
                    THEN [flows EXCEPT ![f].account = work[w].account, ![f].result = "ready"]
                    ELSE flows
        /\ Ends(w)
        /\ UNCHANGED <<TheAccounts, TheSessions, crashes, operations>>

AppPoll(w, f) ==
    /\ Begins(w, "app")
    /\ flows[f].kind = "app_login" /\ ~flows[f].consumed /\ flows[f].result # "none"
    /\ Goes(w, [Idle EXCEPT !.at = "app.consume", !.flow = f])
    /\ UNCHANGED <<TheAccounts, TheSessions, flows, crashes, operations>>

\* Mutant: the companion row that was read is believed to be ready still.
AppConsumeRead(w) ==
    LET f == work[w].flow
    IN  /\ At(w, "app.consume")
        /\ flows' = [flows EXCEPT ![f].result = "consumed"]
        /\ Goes(w, [work[w] EXCEPT !.at = "app.finish", !.account = flows[f].account])
        /\ UNCHANGED <<TheAccounts, TheSessions, crashes, operations>>

\* The companion row is consumed first: one poll wins.
AppConsume(w) ==
    LET f == work[w].flow
    IN  /\ At(w, "app.consume")
        /\ IF flows[f].result = "ready"
           THEN /\ flows' = [flows EXCEPT ![f].result = "consumed"]
                /\ Goes(w, [work[w] EXCEPT !.at = "app.finish", !.account = flows[f].account])
           ELSE Ends(w) /\ UNCHANGED flows
        /\ UNCHANGED <<TheAccounts, TheSessions, crashes, operations>>

AppFinish(w) ==
    /\ At(w, "app.finish")
    /\ flows' = [flows EXCEPT ![work[w].flow].consumed = TRUE]
    /\ Then(w, "app.read")
    /\ UNCHANGED <<TheAccounts, TheSessions, crashes, operations>>

AppRead(w) ==
    /\ At(w, "app.read")
    /\ IF Usable(work[w].account) THEN Then(w, "mint") ELSE Ends(w)
    /\ UNCHANGED <<TheAccounts, TheSessions, flows, crashes, operations>>

(***************************************************************************)
(* Linking and unlinking a provider                                        *)
(***************************************************************************)
\* complete_link_challenge by a caller signed in to the account that collided.
LinkConsume(w, f) ==
    /\ Begins(w, "link")
    /\ flows[f].kind = "link_challenge" => SignedIn(flows[f].account)
    /\ UseFlow(w, f, "link_challenge", "link.read")

LinkRead(w) ==
    /\ At(w, "link.read")
    /\ IF Usable(work[w].account) THEN Then(w, "link.create") ELSE Ends(w)
    /\ UNCHANGED <<TheAccounts, TheSessions, flows, crashes, operations>>

LinkCreate(w) ==
    /\ At(w, "link.create")
    /\ IF identities[work[w].key] = NoAccount
       THEN CreateIdentity(work[w].account, work[w].key)
       ELSE UNCHANGED <<identities, entered>>
    /\ Ends(w)
    /\ UNCHANGED <<accounts, passwords, overlapped, TheSessions, flows, crashes, operations>>

\* Mutant: the last identity is unlinked without a look at the credential.
UnlinkReadAny(w, a, k) ==
    /\ Begins(w, "unlink")
    /\ SignedIn(a)
    /\ identities[k] = a
    /\ Goes(w, [Idle EXCEPT !.at = "unlink", !.account = a, !.key = k])
    /\ UNCHANGED <<TheAccounts, TheSessions, flows, crashes, operations>>

\* unlink_identity lists the identities and looks for a credential.
UnlinkRead(w, a, k) ==
    /\ Begins(w, "unlink")
    /\ SignedIn(a)
    /\ identities[k] = a
    /\ (\E j \in Keys \ {k} : identities[j] = a) \/ accounts[a].password > 0
    /\ Goes(w, [Idle EXCEPT !.at = "unlink", !.account = a, !.key = k])
    /\ UNCHANGED <<TheAccounts, TheSessions, flows, crashes, operations>>

UnlinkDelete(w) ==
    LET a == work[w].account
        k == work[w].key
    IN  /\ At(w, "unlink")
        /\ identities' = IF identities[k] = a THEN [identities EXCEPT ![k] = NoAccount]
                         ELSE identities
        /\ work' = [v \in Requests |->
                      IF v = w THEN Idle
                      ELSE IF At(v, "unlink") /\ work[v].account = a
                           THEN [work[v] EXCEPT !.stale = TRUE] ELSE work[v]]
        /\ overlapped' = IF work[w].stale THEN overlapped \cup {a} ELSE overlapped
        /\ UNCHANGED <<accounts, passwords, entered, TheSessions, flows, crashes, operations>>

(***************************************************************************)
(* Sessions                                                                *)
(***************************************************************************)
\* A client presents the refresh token of a pair that it was given.
RefreshFind(w, p) ==
    LET match == {s \in SessionIds : Live(s) /\ sessions[s].pair = p}
    IN  /\ Begins(w, "refresh")
        /\ p <= minted
        /\ uses[p] < MaxUses
        /\ uses' = [uses EXCEPT ![p] = @ + 1]
        /\ IF match = {}
           THEN Goes(w, [Idle EXCEPT !.at = "refresh.reuse", !.pair = p])
           ELSE \E s \in match :
                   Goes(w, [Idle EXCEPT !.at = "refresh.check", !.pair = p, !.session = s])
        /\ UNCHANGED <<TheAccounts, sessions, spent, lapsed, minted, flows, crashes, operations>>

\* The clock is read after the row.
RefreshExpired(w) ==
    /\ At(w, "refresh.check")
    /\ work[w].pair \in lapsed
    /\ Revoke({work[w].session}, "refresh_expired")
    /\ Ends(w)
    /\ UNCHANGED <<TheAccounts, spent, lapsed, minted, uses, flows, crashes, operations>>

RefreshAccount(w) ==
    /\ At(w, "refresh.check")
    /\ work[w].pair \notin lapsed
    /\ IF Usable(sessions[work[w].session].account) THEN Then(w, "refresh.rotate") ELSE Ends(w)
    /\ UNCHANGED <<TheAccounts, TheSessions, flows, crashes, operations>>

\* Mutant: the row is rotated whatever pair it has.
RotateAny(s, p) ==
    /\ Live(s)
    /\ minted < MaxPairs
    /\ minted' = minted + 1
    /\ sessions' = [sessions EXCEPT ![s].pair = minted + 1]
    /\ spent' = IF spent[p] = NoSession THEN [spent EXCEPT ![p] = s] ELSE spent

\* rotate_session: the old pair into the history and the new pair into the
\* row, if the row is live and still has the old pair.
Rotate(s, p) ==
    /\ Live(s) /\ sessions[s].pair = p
    /\ minted < MaxPairs
    /\ minted' = minted + 1
    /\ sessions' = [sessions EXCEPT ![s].pair = minted + 1]
    /\ spent' = IF spent[p] = NoSession THEN [spent EXCEPT ![p] = s] ELSE spent

RefreshRotate(w) ==
    /\ At(w, "refresh.rotate")
    /\ Rotate(work[w].session, work[w].pair)
    /\ Ends(w)
    /\ UNCHANGED <<TheAccounts, lapsed, uses, flows, crashes, operations>>

\* Mutant: a request that lost the race is only refused.
RefreshRefused(w) ==
    /\ At(w, "refresh.rotate")
    /\ ~(Live(work[w].session) /\ sessions[work[w].session].pair = work[w].pair)
    /\ Ends(w)
    /\ UNCHANGED <<TheAccounts, TheSessions, flows, crashes, operations>>

RefreshLost(w) ==
    /\ At(w, "refresh.rotate")
    /\ ~(Live(work[w].session) /\ sessions[work[w].session].pair = work[w].pair)
    /\ Then(w, "refresh.reuse")
    /\ UNCHANGED <<TheAccounts, TheSessions, flows, crashes, operations>>

\* Mutant: every session of the account is revoked.
RefreshReuseAll(w) ==
    LET family == {spent[work[w].pair]} \ {NoSession}
    IN  /\ At(w, "refresh.reuse")
        /\ Revoke({s \in SessionIds : \E t \in family :
                       sessions[s].account = sessions[t].account}, "refresh_reuse")
        /\ Ends(w)
        /\ UNCHANGED <<TheAccounts, spent, lapsed, minted, uses, flows, crashes, operations>>

\* _revoke_family_on_reuse: only a pair that has been rotated.
RefreshReuse(w) ==
    /\ At(w, "refresh.reuse")
    /\ Revoke({spent[work[w].pair]}, "refresh_reuse")
    /\ Ends(w)
    /\ UNCHANGED <<TheAccounts, spent, lapsed, minted, uses, flows, crashes, operations>>

LogoutFind(w, s) ==
    /\ Begins(w, "logout")
    /\ Live(s)
    /\ Goes(w, [Idle EXCEPT !.at = "logout", !.session = s])
    /\ UNCHANGED <<TheAccounts, TheSessions, flows, crashes, operations>>

Logout(w) ==
    /\ At(w, "logout")
    /\ Revoke({work[w].session}, "logout")
    /\ Ends(w)
    /\ UNCHANGED <<TheAccounts, spent, lapsed, minted, uses, flows, crashes, operations>>

RevokeAll(w, a) ==
    /\ Begins(w, "revoke_all")
    /\ SignedIn(a)
    /\ Revoke(SessionsOf(a), "revoke_all")
    /\ UNCHANGED <<TheAccounts, spent, lapsed, minted, uses, flows, work, crashes, operations>>

MarkDeleted(w, a) ==
    /\ Begins(w, "delete")
    /\ Exists(a)
    /\ accounts' = [accounts EXCEPT ![a].status = "deleted", ![a].closed = TRUE]
    /\ Goes(w, [Idle EXCEPT !.at = "delete.revoke", !.account = a])
    /\ UNCHANGED <<identities, passwords, entered, overlapped, TheSessions, flows, crashes, operations>>

DeleteRevoke(w) ==
    /\ At(w, "delete.revoke")
    /\ Revoke(SessionsOf(work[w].account), "account_deleted")
    /\ Ends(w)
    /\ UNCHANGED <<TheAccounts, spent, lapsed, minted, uses, flows, crashes, operations>>

\* The idle window of a refresh token passes, or the absolute one.
Lapse(p) ==
    /\ "lapse" \in operations
    /\ p <= minted
    /\ p \notin lapsed
    /\ lapsed' = lapsed \cup {p}
    /\ UNCHANGED <<TheAccounts, sessions, spent, minted, uses, flows, work, crashes, operations>>

\* The server stops in the middle of a request.
Crash(w) ==
    /\ ~At(w, "idle")
    /\ "crash" \in operations
    /\ crashes < MaxCrashes
    /\ crashes' = crashes + 1
    /\ Ends(w)
    /\ UNCHANGED <<TheAccounts, TheSessions, flows, operations>>

-----------------------------------------------------------------------------
Apps == FlowIds \cup {NoFlow}

\* The transaction that a request executes next.
Continue(w) ==
    \/ SignupIdentity(w) \/ SignupCredential(w) \/ \E f \in FlowIds : SignupFlow(w, f)
    \/ VerifyRead(w) \/ VerifyWrite(w)
    \/ ResetRead(w) \/ ResetSet(w) \/ ResetRevoke(w)
    \/ ChangeSet(w) \/ ChangeIdentity(w) \/ ChangeRevoke(w)
    \/ \E rehash \in BOOLEAN : LoginVerify(w, rehash)
    \/ LoginRehash(w) \/ \E s \in SessionIds : Mint(w, s)
    \/ OAuthIdentity(w) \/ OAuthApp(w)
    \/ AppConsume(w) \/ AppFinish(w) \/ AppRead(w)
    \/ LinkRead(w) \/ LinkCreate(w) \/ UnlinkDelete(w)
    \/ RefreshExpired(w) \/ RefreshAccount(w) \/ RefreshRotate(w)
    \/ RefreshLost(w) \/ RefreshReuse(w)
    \/ Logout(w) \/ DeleteRevoke(w)

Begin(w) ==
    \/ \E e \in Emails, a \in AccountIds : SignupAccount(w, e, a)
    \/ \E f \in FlowIds : \/ VerifyConsume(w, f) \/ ResetConsume(w, f)
                          \/ LinkConsume(w, f) \/ AppStart(w, f) \/ AppPoll(w, f)
    \/ \E a \in AccountIds, f \in FlowIds : ResetRequest(w, a, f)
    \/ \E a \in AccountIds, s \in SessionIds \cup {NoSession} : ChangeRead(w, a, s)
    \/ \E a \in AccountIds : LoginAccount(w, a) \/ RevokeAll(w, a) \/ MarkDeleted(w, a)
    \/ \E k \in Subjects, app \in Apps : OAuthLogin(w, k, app)
    \/ \E k \in Subjects, e \in Emails, f \in FlowIds : OAuthChallenge(w, k, e, f)
    \/ \E k \in Subjects, e \in Emails \cup {NoEmail}, a \in AccountIds, app \in Apps :
          OAuthSignup(w, k, e, a, app)
    \/ \E a \in AccountIds, k \in Keys : UnlinkRead(w, a, k)
    \/ \E p \in Pairs : RefreshFind(w, p)
    \/ \E s \in SessionIds : LogoutFind(w, s)

Next ==
    \/ \E w \in Requests : Begin(w) \/ Continue(w) \/ Crash(w)
    \/ \E p \in Pairs : Lapse(p)

Spec == Init /\ [][Next]_vars

-----------------------------------------------------------------------------
(***************************************************************************)
(* Properties                                                              *)
(***************************************************************************)
TypeOK ==
    /\ accounts \in [AccountIds -> Account]
    /\ identities \in [Keys -> AccountIds \cup {NoAccount}]
    /\ sessions \in [SessionIds -> Session]
    /\ spent \in [Pairs -> SessionIds \cup {NoSession}]
    /\ flows \in [FlowIds -> Flow]
    /\ lapsed \subseteq Pairs
    /\ work \in [Requests -> Work]
    /\ minted \in 0 .. MaxPairs
    /\ passwords \in 0 .. MaxPasswords
    /\ uses \in [Pairs -> 0 .. MaxUses]
    /\ entered \subseteq AccountIds
    /\ overlapped \subseteq AccountIds
    /\ crashes \in 0 .. MaxCrashes
    /\ operations \in Instances

\* The tokens of a session follow one another and end with it, whatever the
\* refreshes, logouts and revocations of the account do at the same time.
Families == INSTANCE TokenFamilies WITH
    Families <- SessionIds,
    Tokens <- Pairs,
    NoToken <- 0,
    NoFamily <- NoSession,
    current <- [s \in SessionIds |-> sessions[s].pair],
    spentIn <- spent,
    ended <- {s \in SessionIds : sessions[s].revoked # "no"}

Chain == Families!Spec

\* A session ends for reuse only when one of its refresh tokens was presented
\* more than once: a client whose requests never repeat a token and whose
\* other devices log out, change the password or let a token expire is not
\* taken for one that repeats it (authn.py, refresh and _revoke_family_on_reuse).
ReuseOnlyIfRepeated ==
    \A s \in SessionIds : sessions[s].revoked = "refresh_reuse" =>
        \E p \in Pairs : spent[p] = s /\ uses[p] > 1

\* A token that was exchanged and is presented twice, even at the same moment,
\* has ended its family when the requests that present it are answered, unless
\* the account was deleted meanwhile or the server stopped (authn.py, "Reuse of
\* an already-rotated token ... revokes the ENTIRE family").
RepeatEndsFamily ==
    \A p \in Pairs, s \in SessionIds :
        (uses[p] > 1 /\ spent[p] = s /\ \A w \in Requests : work[w].pair # p) =>
            (~Live(s) \/ accounts[sessions[s].account].closed \/ crashes > 0)

\* An app login gives one session, however many polls run at the same time
\* (main.py, "only the first successful poll wins").
OneSessionPerAppLogin ==
    \A s, t \in SessionIds :
        sessions[s].login = sessions[t].login /\ sessions[s].login # NoFlow => s = t

\* An account that has had a way in keeps one, unless two unlinks overlapped:
\* neither a link that is refused, a deletion nor a change of password takes
\* the last one away (authn.py, unlink_identity).
WayInKept ==
    \A a \in entered : WayIn(a) \/ a \in overlapped

\* "an account must always keep at least one way in" (authn.py, unlink_identity).
AlwaysAWayIn == \A a \in entered : WayIn(a)
=============================================================================
