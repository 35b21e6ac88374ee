---------------------------- MODULE AccountsProofs ----------------------------
(***************************************************************************)
(* Proofs about accounts and sessions, for any sets of accounts, sessions, *)
(* flows and requests, any sets of operations and any bounds: refresh      *)
(* tokens form chains that end with their session, a repeated token ends   *)
(* its family and nothing else does, an app login gives one session, and   *)
(* an account keeps a way in unless two unlinks overlapped.                *)
(***************************************************************************)
EXTENDS Accounts, TLAPS

-----------------------------------------------------------------------------
(***************************************************************************)
(* What a request carries from one transaction to the next                 *)
(***************************************************************************)
Presenting == {"refresh.check", "refresh.rotate", "refresh.reuse"}

\* Steps that write for an account, and those of them whose account has, or has
\* had, a way in.
OfAccount == {"signup.identity", "signup.credential", "signup.flow", "verify.read",
              "verify.write", "reset.read", "reset.set", "reset.revoke", "login.verify",
              "login.rehash", "oauth.identity", "delete.revoke"}
OfEntered == {"mint", "oauth.app", "app.finish", "app.read", "link.read", "link.create",
              "unlink", "change.set", "change.identity", "change.revoke"}
OfApp     == {"app.consume", "app.finish", "app.read", "oauth.app"}

Registered(a) == a \in AccountIds /\ Exists(a)

CarryingOf(r) ==
    /\ IF r.at \in Presenting THEN r.pair \in Pairs /\ r.pair <= minted ELSE r.pair = 0
    /\ r.at \in {"refresh.check", "refresh.rotate"} => r.session \in SessionIds
    /\ r.at \in OfAccount => Registered(r.account)
    /\ r.at \in OfEntered => r.account \in entered
    /\ r.at \in OfApp \/ (r.at = "oauth.identity" /\ r.flow # NoFlow)
          => r.flow \in FlowIds /\ flows[r.flow].kind = "app_login"
    /\ r.at \in {"oauth.identity", "link.read", "link.create"} => r.key \in Subjects
    /\ r.at = "signup.identity" => r.key \in Emails
    /\ r.at = "unlink" => r.key \in Keys
    /\ r.at \in {"login.verify", "login.rehash"} => r.flow = NoFlow
    /\ r.at = "login.rehash" => r.password > 0
    /\ r.at = "change.identity" => accounts[r.account].password > 0

Carrying == \A w \in Requests : CarryingOf(work[w])

\* What the rows of accounts, identities, sessions and flows have in common.
Rooted ==
    /\ \A a \in AccountIds : accounts[a].password > 0 => a \in entered
    /\ \A a \in AccountIds : accounts[a].status = "deleted" => accounts[a].closed
    /\ \A a \in AccountIds : accounts[a].closed => Exists(a)
    /\ \A a \in entered : Exists(a)
    /\ \A k \in Keys : identities[k] # NoAccount => Registered(identities[k])
    /\ \A k \in Subjects : identities[k] # NoAccount => identities[k] \in entered
    /\ \A s \in SessionIds : sessions[s].pair > 0 => sessions[s].account \in entered

Offered ==
    \A f \in FlowIds :
        /\ flows[f].kind \in {"email_verify", "password_reset", "link_challenge"}
              => Registered(flows[f].account)
        /\ flows[f].kind = "link_challenge" => flows[f].key \in Subjects
        /\ flows[f].result # "none" => flows[f].kind = "app_login" /\ flows[f].account \in entered

-----------------------------------------------------------------------------
(***************************************************************************)
(* Refresh tokens                                                          *)
(***************************************************************************)
\* Pairs are handed out once: those of the sessions differ, and none is spent.
Paired ==
    /\ \A s \in SessionIds : sessions[s].pair <= minted
    /\ \A s \in SessionIds : sessions[s].revoked # "no" => sessions[s].pair > 0
    /\ \A s, t \in SessionIds : sessions[s].pair > 0 /\ sessions[s].pair = sessions[t].pair => s = t
    /\ \A p \in Pairs : spent[p] # NoSession =>
          p <= minted /\ sessions[spent[p]].pair > 0 /\ \A s \in SessionIds : sessions[s].pair # p
    /\ \A p \in Pairs : uses[p] > 0 => p <= minted

\* A token that is spent, or that a request is presenting, was presented; one
\* that two present, or that one presents when it is spent, more than once.
Counted ==
    /\ \A p \in Pairs : spent[p] # NoSession => uses[p] > 0
    /\ \A w \in Requests : work[w].pair # 0 => uses[work[w].pair] > 0
    /\ \A w \in Requests : work[w].pair # 0 /\ spent[work[w].pair] # NoSession
                           => uses[work[w].pair] > 1
    /\ \A v, w \in Requests : v # w /\ work[v].pair # 0 /\ work[v].pair = work[w].pair
                              => uses[work[v].pair] > 1

\* The session that a request has found is the one of its token, or was; a
\* request is on the way to a reuse only with a token of no live session.
Found ==
    \A w \in Requests :
        /\ At(w, "refresh.check") \/ At(w, "refresh.rotate") =>
              \/ sessions[work[w].session].pair = work[w].pair
              \/ spent[work[w].pair] = work[w].session
        /\ At(w, "refresh.reuse") =>
              \A s \in SessionIds : sessions[s].pair = work[w].pair => ~Live(s)

Standing(s) == Live(s) /\ ~accounts[sessions[s].account].closed /\ crashes = 0

\* Of a session that still stands, each presentation of the current token is
\* under way, and of a spent one the last that will find it out.
Pending ==
    \A s \in SessionIds, p \in Pairs : Standing(s) =>
        /\ sessions[s].pair = p /\ uses[p] > 0 => \E w \in Requests : work[w].pair = p
        /\ sessions[s].pair = p /\ uses[p] > 1
              => \E v, w \in Requests : v # w /\ work[v].pair = p /\ work[w].pair = p
        /\ spent[p] = s /\ uses[p] > 1 => \E w \in Requests : work[w].pair = p

-----------------------------------------------------------------------------
(***************************************************************************)
(* App logins                                                              *)
(***************************************************************************)
\* The poll that has consumed the companion row of f and will mint its session.
Winner(w, f) == work[w].flow = f /\ work[w].at \in {"app.finish", "app.read", "mint"}

OneWinner ==
    \A f \in FlowIds :
        /\ \A w \in Requests : Winner(w, f) =>
              /\ flows[f].result = "consumed"
              /\ \A s \in SessionIds : sessions[s].login # f
              /\ \A v \in Requests : Winner(v, f) => v = w
        /\ \A s \in SessionIds : sessions[s].login = f =>
              /\ flows[f].result = "consumed"
              /\ \A t \in SessionIds : sessions[t].login = f => t = s

-----------------------------------------------------------------------------
(***************************************************************************)
(* Ways in                                                                 *)
(***************************************************************************)
\* The account has an identity of its e-mail address, or is about to.
Mailed(a) ==
    \/ \E e \in Emails : identities[e] = a
    \/ \E w \in Requests : At(w, "signup.identity") /\ work[w].account = a

\* Who has an e-mail identity and no password has no other way in, so that the
\* identity is none that an unlink may count on; and nobody opens one.
MailedOnly ==
    \A a \in AccountIds : Mailed(a) =>
        \/ accounts[a].password > 0
        \/ a \notin entered /\ \A w \in Requests : ~(At(w, "oauth.identity") /\ work[w].account = a)

\* What an unlink has found is there still, unless another was faster.
Unlinking ==
    \A w \in Requests : At(w, "unlink") =>
        \/ work[w].stale
        \/ accounts[work[w].account].password > 0
        \/ \E j \in Keys \ {work[w].key} : identities[j] = work[w].account

IInv ==
    /\ TypeOK
    /\ Carrying /\ Rooted /\ Offered
    /\ Paired /\ Counted /\ Found /\ Pending /\ ReuseOnlyIfRepeated
    /\ OneWinner
    /\ MailedOnly /\ Unlinking /\ WayInKept

-----------------------------------------------------------------------------
(***************************************************************************)
(* The shape of a state, and how requests move                             *)
(***************************************************************************)
Labels == {"idle", "signup.identity", "signup.credential", "signup.flow",
           "verify.read", "verify.write", "reset.read", "reset.set", "reset.revoke",
           "login.verify", "login.rehash", "mint", "oauth.identity", "oauth.app",
           "app.consume", "app.finish", "app.read", "link.read", "link.create",
           "unlink", "refresh.check", "refresh.rotate", "refresh.reuse", "logout",
           "change.set", "change.identity", "change.revoke", "delete.revoke"}

AccountShapes ==
    /\ accounts \in [AccountIds -> Account]
    /\ identities \in [Keys -> AccountIds \cup {NoAccount}]
    /\ passwords \in 0 .. MaxPasswords
    /\ entered \subseteq AccountIds
    /\ overlapped \subseteq AccountIds

SessionShapes ==
    /\ sessions \in [SessionIds -> Session]
    /\ spent \in [Pairs -> SessionIds \cup {NoSession}]
    /\ lapsed \subseteq Pairs
    /\ minted \in 0 .. MaxPairs
    /\ uses \in [Pairs -> 0 .. MaxUses]

FlowShapes == flows \in [FlowIds -> Flow]
WorkShapes == work \in [Requests -> Work]
RestShapes == crashes \in 0 .. MaxCrashes /\ operations \in Instances

LEMMA TypeParts ==
  TypeOK <=> AccountShapes /\ SessionShapes /\ FlowShapes /\ WorkShapes /\ RestShapes
  BY DEF TypeOK, AccountShapes, SessionShapes, FlowShapes, WorkShapes, RestShapes

LEMMA TypePartsNext ==
  AccountShapes' /\ SessionShapes' /\ FlowShapes' /\ WorkShapes' /\ RestShapes' => TypeOK'
  BY DEF TypeOK, AccountShapes, SessionShapes, FlowShapes, WorkShapes, RestShapes

\* What a record of work says of the request.
Is(r, label, a, s, p, f, k) ==
    /\ r \in Work /\ r.at = label /\ r.account = a /\ r.session = s /\ r.pair = p
    /\ r.flow = f /\ r.key = k

LEMMA IdleIs == Is(Idle, "idle", NoAccount, NoSession, 0, NoFlow, NoKey)
  BY AccountsAssumption DEF Is, Idle, Work

\* Records with the fields of Work, whatever their ranges.
Fields(L, A, S, P, F, K, T, N) ==
    [at : L, account : A, session : S, pair : P, flow : F, key : K, status : T,
     password : N, stale : BOOLEAN]

LEMMA WorkFields ==
  Work = Fields(Labels, AccountIds \cup {NoAccount}, SessionIds \cup {NoSession}, 0 .. MaxPairs,
                FlowIds \cup {NoFlow}, Keys \cup {NoKey},
                {"none", "pending_verification", "active"}, 0 .. MaxPasswords)
  BY DEF Work, Labels, Fields

\* Every request starts from an idle record.
LEMMA StartFields ==
  ASSUME NEW label \in Labels, NEW a \in AccountIds \cup {NoAccount},
         NEW s \in SessionIds \cup {NoSession}, NEW p \in 0 .. MaxPairs,
         NEW f \in FlowIds \cup {NoFlow}, NEW k \in Keys \cup {NoKey}
  PROVE  /\ Is([Idle EXCEPT !.at = label, !.account = a, !.key = k],
               label, a, NoSession, 0, NoFlow, k)
         /\ Is([Idle EXCEPT !.at = label, !.account = a, !.key = k, !.flow = f],
               label, a, NoSession, 0, f, k)
         /\ Is([Idle EXCEPT !.at = label, !.account = a, !.session = s],
               label, a, s, 0, NoFlow, NoKey)
         /\ Is([Idle EXCEPT !.at = label, !.account = a], label, a, NoSession, 0, NoFlow, NoKey)
         /\ Is([Idle EXCEPT !.at = label, !.account = a, !.flow = f],
               label, a, NoSession, 0, f, NoKey)
         /\ Is([Idle EXCEPT !.at = label, !.flow = f], label, NoAccount, NoSession, 0, f, NoKey)
         /\ Is([Idle EXCEPT !.at = label, !.pair = p], label, NoAccount, NoSession, p, NoFlow, NoKey)
         /\ Is([Idle EXCEPT !.at = label, !.pair = p, !.session = s],
               label, NoAccount, s, p, NoFlow, NoKey)
         /\ Is([Idle EXCEPT !.at = label, !.session = s], label, NoAccount, s, 0, NoFlow, NoKey)
  <1> DEFINE A == AccountIds \cup {NoAccount}
             S == SessionIds \cup {NoSession}
             P == 0 .. MaxPairs
             F == FlowIds \cup {NoFlow}
             K == Keys \cup {NoKey}
             T == {"none", "pending_verification", "active"}
             N == 0 .. MaxPasswords
  <1>1. /\ Work = Fields(Labels, A, S, P, F, K, T, N)
        /\ a \in A /\ s \in S /\ p \in P /\ f \in F /\ k \in K /\ "none" \in T /\ 0 \in N
    BY WorkFields, AccountsAssumption
  <1> HIDE DEF A, S, P, F, K, T, N
  <1>2. Idle \in Fields(Labels, A, S, P, F, K, T, N)
    BY <1>1, IdleIs DEF Is
  <1> QED
    BY <1>1, <1>2, IdleIs DEF Is, Fields

LEMMA StepFields ==
  ASSUME NEW r \in Work, NEW label \in Labels, NEW a \in AccountIds \cup {NoAccount},
         NEW t \in {"none", "pending_verification", "active"}, NEW n \in 0 .. MaxPasswords
  PROVE  /\ Is([r EXCEPT !.at = label], label, r.account, r.session, r.pair, r.flow, r.key)
         /\ [r EXCEPT !.at = label].password = r.password
         /\ Is([r EXCEPT !.at = label, !.password = n],
               label, r.account, r.session, r.pair, r.flow, r.key)
         /\ [r EXCEPT !.at = label, !.password = n].password = n
         /\ Is([r EXCEPT !.at = label, !.status = t],
               label, r.account, r.session, r.pair, r.flow, r.key)
         /\ Is([r EXCEPT !.at = label, !.account = a], label, a, r.session, r.pair, r.flow, r.key)
  <1> DEFINE A == AccountIds \cup {NoAccount}
             S == SessionIds \cup {NoSession}
             P == 0 .. MaxPairs
             F == FlowIds \cup {NoFlow}
             K == Keys \cup {NoKey}
             T == {"none", "pending_verification", "active"}
             N == 0 .. MaxPasswords
  <1>1. /\ Work = Fields(Labels, A, S, P, F, K, T, N)
        /\ a \in A /\ NoSession \in S /\ 0 \in P /\ NoFlow \in F /\ NoKey \in K /\ t \in T /\ n \in N
    BY WorkFields, AccountsAssumption
  <1> HIDE DEF A, S, P, F, K, T, N
  <1>2. r \in Fields(Labels, A, S, P, F, K, T, N)
    BY <1>1
  <1> QED
    BY <1>1, <1>2 DEF Is, Fields

\* The same, for the fields that are given.
LEMMA StartIs ==
  ASSUME NEW label \in Labels
  PROVE  /\ \A a \in AccountIds \cup {NoAccount} :
               Is([Idle EXCEPT !.at = label, !.account = a], label, a, NoSession, 0, NoFlow, NoKey)
         /\ \A a \in AccountIds \cup {NoAccount}, k \in Keys \cup {NoKey} :
               Is([Idle EXCEPT !.at = label, !.account = a, !.key = k],
                  label, a, NoSession, 0, NoFlow, k)
         /\ \A a \in AccountIds \cup {NoAccount}, k \in Keys \cup {NoKey}, f \in FlowIds \cup {NoFlow} :
               Is([Idle EXCEPT !.at = label, !.account = a, !.key = k, !.flow = f],
                  label, a, NoSession, 0, f, k)
         /\ \A a \in AccountIds \cup {NoAccount}, s \in SessionIds \cup {NoSession} :
               Is([Idle EXCEPT !.at = label, !.account = a, !.session = s],
                  label, a, s, 0, NoFlow, NoKey)
         /\ \A a \in AccountIds \cup {NoAccount}, f \in FlowIds \cup {NoFlow} :
               Is([Idle EXCEPT !.at = label, !.account = a, !.flow = f],
                  label, a, NoSession, 0, f, NoKey)
         /\ \A f \in FlowIds \cup {NoFlow} :
               Is([Idle EXCEPT !.at = label, !.flow = f], label, NoAccount, NoSession, 0, f, NoKey)
         /\ \A p \in 0 .. MaxPairs :
               Is([Idle EXCEPT !.at = label, !.pair = p], label, NoAccount, NoSession, p, NoFlow, NoKey)
         /\ \A p \in 0 .. MaxPairs, s \in SessionIds \cup {NoSession} :
               Is([Idle EXCEPT !.at = label, !.pair = p, !.session = s],
                  label, NoAccount, s, p, NoFlow, NoKey)
         /\ \A s \in SessionIds \cup {NoSession} :
               Is([Idle EXCEPT !.at = label, !.session = s], label, NoAccount, s, 0, NoFlow, NoKey)
  <1>1. /\ NoAccount \in AccountIds \cup {NoAccount} /\ NoSession \in SessionIds \cup {NoSession}
        /\ 0 \in 0 .. MaxPairs /\ NoFlow \in FlowIds \cup {NoFlow} /\ NoKey \in Keys \cup {NoKey}
    BY AccountsAssumption
  <1> QED
    BY <1>1, StartFields

LEMMA ThenIs ==
  ASSUME NEW r \in Work, NEW label \in Labels
  PROVE  Is([r EXCEPT !.at = label], label, r.account, r.session, r.pair, r.flow, r.key)
  <1>1. /\ NoAccount \in AccountIds \cup {NoAccount} /\ 0 \in 0 .. MaxPasswords
        /\ "none" \in {"none", "pending_verification", "active"}
    BY AccountsAssumption
  <1> QED
    BY <1>1, StepFields

LEMMA StepIs ==
  ASSUME NEW r \in Work, NEW label \in Labels
  PROVE  /\ \A n \in 0 .. MaxPasswords :
               /\ Is([r EXCEPT !.at = label, !.password = n],
                     label, r.account, r.session, r.pair, r.flow, r.key)
               /\ [r EXCEPT !.at = label, !.password = n].password = n
         /\ \A t \in {"none", "pending_verification", "active"} :
               Is([r EXCEPT !.at = label, !.status = t],
                  label, r.account, r.session, r.pair, r.flow, r.key)
         /\ \A a \in AccountIds \cup {NoAccount} :
               Is([r EXCEPT !.at = label, !.account = a], label, a, r.session, r.pair, r.flow, r.key)
  <1>1. /\ NoAccount \in AccountIds \cup {NoAccount} /\ 0 \in 0 .. MaxPasswords
        /\ "none" \in {"none", "pending_verification", "active"}
    BY AccountsAssumption
  <1>2. ASSUME NEW n \in 0 .. MaxPasswords
        PROVE  /\ Is([r EXCEPT !.at = label, !.password = n],
                     label, r.account, r.session, r.pair, r.flow, r.key)
               /\ [r EXCEPT !.at = label, !.password = n].password = n
    <2>1. Is([r EXCEPT !.at = label, !.password = n],
             label, r.account, r.session, r.pair, r.flow, r.key)
      BY <1>1, StepFields
    <2>2. [r EXCEPT !.at = label, !.password = n].password = n
      BY WorkFields DEF Fields
    <2> QED
      BY <2>1, <2>2
  <1>3. \A t \in {"none", "pending_verification", "active"} :
           Is([r EXCEPT !.at = label, !.status = t],
              label, r.account, r.session, r.pair, r.flow, r.key)
    BY <1>1, StepFields
  <1>4. \A a \in AccountIds \cup {NoAccount} :
           Is([r EXCEPT !.at = label, !.account = a], label, a, r.session, r.pair, r.flow, r.key)
    BY <1>1, StepFields
  <1> QED
    BY <1>2, <1>3, <1>4

\* One request goes on; the others stay.
LEMMA GoesOn ==
  ASSUME WorkShapes, NEW w \in Requests, NEW r \in Work, Goes(w, r)
  PROVE  WorkShapes' /\ work'[w] = r /\ \A v \in Requests \ {w} : work'[v] = work[v]
  BY DEF WorkShapes, Goes

-----------------------------------------------------------------------------
(***************************************************************************)
(* What the steps do to the tables of accounts                             *)
(***************************************************************************)
\* The row of a is written: it exists then, stays closed if it was, and either
\* keeps its password or gets one.
AccountChange(a) ==
    /\ accounts' \in [AccountIds -> Account] /\ passwords' \in 0 .. MaxPasswords
    /\ \A b \in AccountIds \ {a} : accounts'[b] = accounts[b]
    /\ accounts'[a].status # "none"
    /\ accounts[a].closed => accounts'[a].closed
    /\ accounts'[a].status = "deleted" => accounts'[a].closed
    /\ \/ accounts'[a].password = accounts[a].password /\ entered' = entered
       \/ accounts'[a].password > 0 /\ entered' = entered \cup {a}
    /\ UNCHANGED <<identities, overlapped>>

LEMMA CreateAccountDoes ==
  ASSUME TypeOK, Rooted, NEW a \in AccountIds, NEW email \in Emails \cup {NoEmail},
         NEW status \in {"pending_verification", "active"}, CreateAccount(a, email, status),
         UNCHANGED <<identities, passwords, entered, overlapped>>
  PROVE  AccountChange(a) /\ ~Exists(a) /\ Exists(a)'
  <1> DEFINE row == [status |-> status, email |-> email, password |-> 0, closed |-> FALSE]
  <1>1. row \in Account /\ row.status = status /\ row.password = 0 /\ row.closed = FALSE
    BY AccountsAssumption DEF Account
  <1>2. accounts' = [accounts EXCEPT ![a] = row] /\ ~Exists(a)
    BY DEF CreateAccount
  <1> HIDE DEF row
  <1>3. /\ accounts' \in [AccountIds -> Account] /\ accounts'[a] = row
        /\ \A b \in AccountIds \ {a} : accounts'[b] = accounts[b]
    BY <1>1, <1>2 DEF TypeOK
  <1>4. accounts[a].password = 0 /\ ~accounts[a].closed
    <2>1. accounts[a].password \in 0 .. MaxPasswords /\ a \notin entered
      BY <1>2 DEF Rooted, TypeOK, Account
    <2> QED
      BY <1>2, <2>1, AccountsAssumption DEF Rooted
  <1> QED
    BY <1>1, <1>2, <1>3, <1>4 DEF AccountChange, TypeOK, Exists

LEMMA SetPasswordDoes ==
  ASSUME TypeOK, Rooted, NEW a \in AccountIds, Exists(a), NEW n \in 1 .. MaxPasswords,
         SetPassword(a, n), passwords' \in 0 .. MaxPasswords, UNCHANGED <<identities, overlapped>>
  PROVE  AccountChange(a) /\ accounts'[a].password > 0
  <1> DEFINE row == [accounts[a] EXCEPT !.password = n]
  <1>1. n \in 0 .. MaxPasswords /\ n > 0
    BY AccountsAssumption
  <1>2. /\ row \in Account /\ row.status = accounts[a].status /\ row.password = n
        /\ row.closed = accounts[a].closed
    BY <1>1 DEF Account, TypeOK
  <1>3. accounts' = [accounts EXCEPT ![a] = row] /\ entered' = entered \cup {a}
    BY DEF SetPassword
  <1> HIDE DEF row
  <1>4. /\ accounts' \in [AccountIds -> Account] /\ accounts'[a] = row
        /\ \A b \in AccountIds \ {a} : accounts'[b] = accounts[b]
    BY <1>2, <1>3 DEF TypeOK
  <1>5. accounts[a].status = "deleted" => accounts[a].closed
    BY DEF Rooted, TypeOK, Account
  <1> QED
    BY <1>1, <1>2, <1>3, <1>4, <1>5 DEF AccountChange, Exists

LEMMA NewPasswordDoes ==
  ASSUME TypeOK, Rooted, NEW a \in AccountIds, Exists(a), NewPassword(a),
         UNCHANGED <<identities, overlapped>>
  PROVE  AccountChange(a) /\ accounts'[a].password > 0
  <1>1. passwords + 1 \in 1 .. MaxPasswords /\ passwords' \in 0 .. MaxPasswords
    BY AccountsAssumption DEF TypeOK, NewPassword
  <1> QED
    BY <1>1, SetPasswordDoes DEF NewPassword

LEMMA VerifiedDoes ==
  ASSUME TypeOK, Rooted, NEW a \in AccountIds, Exists(a), SetStatus(a, "active"),
         UNCHANGED <<identities, passwords, entered, overlapped>>
  PROVE  AccountChange(a)
  <1> DEFINE row == [accounts[a] EXCEPT !.status = "active"]
  <1>1. /\ row \in Account /\ row.status = "active" /\ row.password = accounts[a].password
        /\ row.closed = accounts[a].closed
    BY DEF Account, TypeOK
  <1>2. accounts' = [accounts EXCEPT ![a] = row]
    BY DEF SetStatus
  <1> HIDE DEF row
  <1>3. /\ accounts' \in [AccountIds -> Account] /\ accounts'[a] = row
        /\ \A b \in AccountIds \ {a} : accounts'[b] = accounts[b]
    BY <1>1, <1>2 DEF TypeOK
  <1> QED
    BY <1>1, <1>3 DEF AccountChange, TypeOK

LEMMA MarkDeletedDoes ==
  ASSUME TypeOK, Rooted, NEW w \in Requests, NEW a \in AccountIds, MarkDeleted(w, a)
  PROVE  AccountChange(a) /\ Exists(a)'
  <1> DEFINE row == [accounts[a] EXCEPT !.status = "deleted", !.closed = TRUE]
  <1>1. /\ row \in Account /\ row.status = "deleted" /\ row.password = accounts[a].password
        /\ row.closed = TRUE
    BY DEF Account, TypeOK
  <1>2. accounts' = [accounts EXCEPT ![a] = row]
    BY DEF MarkDeleted, TypeOK
  <1> HIDE DEF row
  <1>3. /\ accounts' \in [AccountIds -> Account] /\ accounts'[a] = row
        /\ \A b \in AccountIds \ {a} : accounts'[b] = accounts[b]
    BY <1>1, <1>2 DEF TypeOK
  <1> QED
    BY <1>1, <1>3 DEF MarkDeleted, AccountChange, TypeOK, Exists

\* A key gets its account: an e-mail address that of a signup or one that has a
\* password; a subject that of an OAuth signup or one that has a way in.
IdentityChange(w, a, k) ==
    /\ Registered(a) /\ k \in Keys
    /\ CreateIdentity(a, k)
    /\ UNCHANGED <<accounts, passwords, overlapped>>
    /\ \/ k \in Emails /\ (Mailed(a) \/ accounts[a].password > 0)
       \/ k \in Subjects /\ At(w, "oauth.identity") /\ work[w].account = a
       \/ k \in Subjects /\ a \in entered

OnAccounts(w) ==
    \/ \E e \in Emails, a \in AccountIds : SignupAccount(w, e, a)
    \/ \E k \in Subjects, e \in Emails \cup {NoEmail}, a \in AccountIds, app \in Apps :
          OAuthSignup(w, k, e, a, app)
    \/ SignupCredential(w) \/ ResetSet(w) \/ ChangeSet(w) \/ LoginRehash(w) \/ VerifyWrite(w)
    \/ \E a \in AccountIds : MarkDeleted(w, a)

LEMMA AccountsChanged ==
  ASSUME TypeOK, Carrying, Rooted, NEW w \in Requests, OnAccounts(w)
  PROVE  \E a \in AccountIds : AccountChange(a)
  <1>0. At(w, "login.rehash") => work[w].password \in 1 .. MaxPasswords
    BY DEF At, Carrying, CarryingOf, TypeOK, Work
  <1>1. ASSUME NEW e \in Emails, NEW a \in AccountIds, SignupAccount(w, e, a)
        PROVE  AccountChange(a)
    BY <1>1, CreateAccountDoes DEF SignupAccount
  <1>2. ASSUME NEW k \in Subjects, NEW e \in Emails \cup {NoEmail}, NEW a \in AccountIds,
               NEW app \in Apps, OAuthSignup(w, k, e, a, app)
        PROVE  AccountChange(a)
    <2>1. (IF e = NoEmail THEN "pending_verification" ELSE "active")
             \in {"pending_verification", "active"}
      OBVIOUS
    <2> QED
      BY <1>2, <2>1, CreateAccountDoes DEF OAuthSignup
  <1>3. ASSUME SignupCredential(w) \/ ResetSet(w) \/ ChangeSet(w)
        PROVE  \E a \in AccountIds : AccountChange(a)
    <2>1. NewPassword(work[w].account) /\ UNCHANGED <<identities, overlapped>>
      BY <1>3 DEF SignupCredential, ResetSet, ChangeSet
    <2>2. Registered(work[w].account)
      BY <1>3 DEF SignupCredential, ResetSet, ChangeSet, At, Carrying, CarryingOf, OfAccount, OfEntered,
                  Rooted, Registered, TypeOK
    <2> QED
      BY <2>1, <2>2, NewPasswordDoes DEF Registered
  <1>4. ASSUME LoginRehash(w)
        PROVE  \E a \in AccountIds : AccountChange(a)
    <2>1. Registered(work[w].account)
      BY <1>4 DEF LoginRehash, At, Carrying, CarryingOf, OfAccount
    <2>2. passwords' \in 0 .. MaxPasswords /\ UNCHANGED <<identities, overlapped>>
      BY <1>4 DEF LoginRehash, TypeOK
    <2> QED
      BY <1>0, <1>4, <2>1, <2>2, SetPasswordDoes DEF LoginRehash, Registered
  <1>5. ASSUME VerifyWrite(w)
        PROVE  \E a \in AccountIds : AccountChange(a)
    <2>1. Registered(work[w].account)
      BY <1>5 DEF VerifyWrite, At, Carrying, CarryingOf, OfAccount
    <2> QED
      BY <1>5, <2>1, VerifiedDoes DEF VerifyWrite, Registered
  <1>6. ASSUME NEW a \in AccountIds, MarkDeleted(w, a)
        PROVE  AccountChange(a)
    BY <1>6, MarkDeletedDoes
  <1> QED
    BY <1>1, <1>2, <1>3, <1>4, <1>5, <1>6 DEF OnAccounts

OnIdentities(w) == SignupIdentity(w) \/ ChangeIdentity(w) \/ OAuthIdentity(w) \/ LinkCreate(w)

LEMMA IdentitiesChanged ==
  ASSUME TypeOK, Carrying, Rooted, NEW w \in Requests, OnIdentities(w)
  PROVE  UNCHANGED TheAccounts \/ \E a \in AccountIds, k \in Keys : IdentityChange(w, a, k)
  <1> DEFINE a == work[w].account
             k == work[w].key
  <1>1. CASE SignupIdentity(w)
    <2>1. Registered(a) /\ k \in Emails /\ k \in Keys /\ Mailed(a)
      BY <1>1 DEF SignupIdentity, At, Carrying, CarryingOf, OfAccount, Keys, Mailed
    <2> QED
      BY <1>1, <2>1 DEF SignupIdentity, IdentityChange, TheAccounts, Registered
  <1>2. CASE ChangeIdentity(w)
    <2> DEFINE e == accounts[a].email
    <2>1. Registered(a) /\ accounts[a].password > 0
      BY <1>2 DEF ChangeIdentity, At, Carrying, CarryingOf, OfEntered, Rooted, Registered, TypeOK
    <2>2. e \in Emails \cup {NoEmail}
      BY <2>1 DEF Registered, TypeOK, Account
    <2>3. CASE e # NoEmail /\ identities[e] = NoAccount
      BY <1>2, <2>1, <2>2, <2>3 DEF ChangeIdentity, IdentityChange, Registered, Keys
    <2> QED
      BY <1>2, <2>1, <2>3 DEF ChangeIdentity, TheAccounts
  <1>3. CASE OAuthIdentity(w)
    <2>1. Registered(a) /\ k \in Subjects /\ k \in Keys /\ At(w, "oauth.identity")
      BY <1>3 DEF OAuthIdentity, At, Carrying, CarryingOf, OfAccount, Keys
    <2> QED
      BY <1>3, <2>1 DEF OAuthIdentity, IdentityChange, TheAccounts, Registered
  <1>4. CASE LinkCreate(w)
    <2>1. Registered(a) /\ k \in Subjects /\ k \in Keys /\ a \in entered
      BY <1>4 DEF LinkCreate, At, Carrying, CarryingOf, OfEntered, Rooted, Registered, TypeOK, Keys
    <2> QED
      BY <1>4, <2>1 DEF LinkCreate, IdentityChange, TheAccounts, Registered
  <1> QED
    BY <1>1, <1>2, <1>3, <1>4 DEF OnIdentities

-----------------------------------------------------------------------------
(***************************************************************************)
(* What the steps do to flows                                              *)
(***************************************************************************)
\* The flow f is written: it is made, one that has a use; or consumed; or its
\* app login is answered, or handed out.
FlowChange(w, f) ==
    /\ flows' \in [FlowIds -> Flow]
    /\ \A g \in FlowIds \ {f} : flows'[g] = flows[g]
    /\ \/ /\ flows[f].kind = "none" /\ flows'[f].kind # "none" /\ flows'[f].result = "none"
          /\ flows'[f].kind # "app_login" => Registered(flows'[f].account)
          /\ flows'[f].kind = "link_challenge" => flows'[f].key \in Subjects
       \/ /\ flows'[f].kind = flows[f].kind /\ flows'[f].account = flows[f].account
          /\ flows'[f].key = flows[f].key
          /\ \/ flows'[f].result = flows[f].result
             \/ At(w, "app.consume") /\ flows[f].result = "ready" /\ flows'[f].result = "consumed"
       \/ /\ flows'[f].kind = flows[f].kind /\ flows'[f].kind = "app_login"
          /\ flows[f].result = "none" /\ flows'[f].result = "ready"
          /\ flows'[f].account \in entered

OnFlows(w) ==
    \/ \E f \in FlowIds : \/ SignupFlow(w, f) \/ AppStart(w, f) \/ VerifyConsume(w, f)
                          \/ ResetConsume(w, f) \/ LinkConsume(w, f)
    \/ \E a \in AccountIds, f \in FlowIds : ResetRequest(w, a, f)
    \/ \E k \in Subjects, e \in Emails, f \in FlowIds : OAuthChallenge(w, k, e, f)
    \/ OAuthApp(w) \/ AppConsume(w) \/ AppFinish(w)

LEMMA CreateFlowDoes ==
  ASSUME TypeOK, NEW w \in Requests, NEW f \in FlowIds,
         NEW kind \in {"email_verify", "password_reset", "link_challenge", "app_login"},
         NEW a \in AccountIds \cup {NoAccount}, NEW k \in Keys \cup {NoKey},
         kind # "app_login" => Registered(a), kind = "link_challenge" => k \in Subjects,
         CreateFlow(f, kind, a, k)
  PROVE  FlowChange(w, f)
  <1> DEFINE row == [kind |-> kind, account |-> a, key |-> k, consumed |-> FALSE, result |-> "none"]
  <1>1. row \in Flow /\ row.kind = kind /\ row.account = a /\ row.key = k /\ row.result = "none"
    BY DEF Flow
  <1>2. flows' = [flows EXCEPT ![f] = row] /\ flows[f].kind = "none"
    BY DEF CreateFlow
  <1> HIDE DEF row
  <1>3. /\ flows' \in [FlowIds -> Flow] /\ flows'[f] = row
        /\ \A g \in FlowIds \ {f} : flows'[g] = flows[g]
    BY <1>1, <1>2 DEF TypeOK
  <1> QED
    BY <1>1, <1>2, <1>3 DEF FlowChange

\* consumed and result are the fields that later steps write.
LEMMA WriteFlowDoes ==
  ASSUME TypeOK, NEW f \in FlowIds, NEW a \in AccountIds,
         NEW result \in {"none", "ready", "consumed"}
  PROVE  /\ [flows EXCEPT ![f].consumed = TRUE] = [flows EXCEPT ![f] = [flows[f] EXCEPT !.consumed = TRUE]]
         /\ [flows EXCEPT ![f].result = result] = [flows EXCEPT ![f] = [flows[f] EXCEPT !.result = result]]
         /\ [flows EXCEPT ![f].account = a, ![f].result = result]
               = [flows EXCEPT ![f] = [flows[f] EXCEPT !.account = a, !.result = result]]
  BY DEF TypeOK

LEMMA FlowRows ==
  ASSUME NEW row \in Flow, NEW a \in AccountIds, NEW result \in {"none", "ready", "consumed"}
  PROVE  /\ [row EXCEPT !.consumed = TRUE] \in Flow
         /\ [row EXCEPT !.consumed = TRUE].kind = row.kind
         /\ [row EXCEPT !.consumed = TRUE].account = row.account
         /\ [row EXCEPT !.consumed = TRUE].key = row.key
         /\ [row EXCEPT !.consumed = TRUE].result = row.result
         /\ [row EXCEPT !.result = result] \in Flow
         /\ [row EXCEPT !.result = result].kind = row.kind
         /\ [row EXCEPT !.result = result].account = row.account
         /\ [row EXCEPT !.result = result].key = row.key
         /\ [row EXCEPT !.result = result].result = result
         /\ [row EXCEPT !.account = a, !.result = result] \in Flow
         /\ [row EXCEPT !.account = a, !.result = result].kind = row.kind
         /\ [row EXCEPT !.account = a, !.result = result].account = a
         /\ [row EXCEPT !.account = a, !.result = result].result = result
  BY DEF Flow

LEMMA FlowsChanged ==
  ASSUME TypeOK, Carrying, Rooted, Offered, NEW w \in Requests, OnFlows(w)
  PROVE  UNCHANGED flows \/ \E f \in FlowIds : FlowChange(w, f)
  <1>0. ASSUME NEW f \in FlowIds, NEW row \in Flow, flows' = [flows EXCEPT ![f] = row]
        PROVE  /\ flows' \in [FlowIds -> Flow] /\ flows'[f] = row
               /\ \A g \in FlowIds \ {f} : flows'[g] = flows[g]
    BY <1>0 DEF TypeOK
  <1>1. ASSUME NEW f \in FlowIds, SignupFlow(w, f)
        PROVE  FlowChange(w, f)
    <2>1. Registered(work[w].account)
      BY <1>1 DEF SignupFlow, At, Carrying, CarryingOf, OfAccount
    <2> QED
      BY <1>1, <2>1, CreateFlowDoes DEF SignupFlow, Registered
  <1>2. ASSUME NEW f \in FlowIds, AppStart(w, f)
        PROVE  FlowChange(w, f)
    BY <1>2, CreateFlowDoes DEF AppStart
  <1>3. ASSUME NEW f \in FlowIds, ConsumeFlow(f) \/ flows' = [flows EXCEPT ![f].consumed = TRUE]
        PROVE  FlowChange(w, f)
    <2> DEFINE row == [flows[f] EXCEPT !.consumed = TRUE]
    <2>1. flows[f] \in Flow
      BY DEF TypeOK
    <2>2. /\ row \in Flow /\ row.kind = flows[f].kind /\ row.account = flows[f].account
          /\ row.key = flows[f].key /\ row.result = flows[f].result
      BY <2>1, FlowRows DEF Flow
    <2>3. flows' = [flows EXCEPT ![f] = row]
      BY <1>3, WriteFlowDoes DEF ConsumeFlow, TypeOK
    <2> HIDE DEF row
    <2> QED
      BY <1>0, <2>2, <2>3 DEF FlowChange
  <1>4. ASSUME NEW f \in FlowIds, VerifyConsume(w, f) \/ ResetConsume(w, f) \/ LinkConsume(w, f)
        PROVE  FlowChange(w, f)
    BY <1>3, <1>4 DEF VerifyConsume, ResetConsume, LinkConsume, UseFlow
  <1>5. ASSUME NEW a \in AccountIds, NEW f \in FlowIds, ResetRequest(w, a, f)
        PROVE  FlowChange(w, f)
    <2>1. Registered(a)
      BY <1>5 DEF ResetRequest, Usable, Registered, Exists
    <2> QED
      BY <1>5, <2>1, CreateFlowDoes DEF ResetRequest
  <1>6. ASSUME NEW k \in Subjects, NEW e \in Emails, NEW f \in FlowIds, OAuthChallenge(w, k, e, f)
        PROVE  FlowChange(w, f)
    <2>1. PICK a \in AccountIds : Exists(a) /\ CreateFlow(f, "link_challenge", a, k)
      BY <1>6 DEF OAuthChallenge
    <2> QED
      BY <2>1, CreateFlowDoes DEF Registered, Keys
  <1>7. CASE OAuthApp(w)
    <2> DEFINE f == work[w].flow
               a == work[w].account
               row == [flows[f] EXCEPT !.account = a, !.result = "ready"]
    <2>1. f \in FlowIds /\ flows[f].kind = "app_login" /\ a \in entered /\ a \in AccountIds
      BY <1>7 DEF OAuthApp, At, Carrying, CarryingOf, OfApp, OfEntered, TypeOK
    <2>2. CASE ~flows[f].consumed /\ flows[f].result = "none"
      <3>1. flows[f] \in Flow
        BY <2>1 DEF TypeOK
      <3>2. row \in Flow /\ row.kind = flows[f].kind /\ row.account = a /\ row.result = "ready"
        BY <2>1, <3>1 DEF Flow
      <3>3. flows' = [flows EXCEPT ![f] = row]
        BY <1>7, <2>1, <2>2 DEF OAuthApp, TypeOK
      <3> HIDE DEF row
      <3>4. FlowChange(w, f)
        BY <1>0, <2>1, <2>2, <3>2, <3>3 DEF FlowChange
      <3> QED
        BY <2>1, <3>4
    <2> QED
      BY <1>7, <2>2 DEF OAuthApp
  <1>8. CASE AppConsume(w)
    <2> DEFINE f == work[w].flow
               row == [flows[f] EXCEPT !.result = "consumed"]
    <2>1. f \in FlowIds /\ flows[f].kind = "app_login"
      BY <1>8 DEF AppConsume, At, Carrying, CarryingOf, OfApp
    <2>2. CASE flows[f].result = "ready"
      <3>1. flows[f] \in Flow
        BY <2>1 DEF TypeOK
      <3>2. /\ row \in Flow /\ row.kind = flows[f].kind /\ row.account = flows[f].account
            /\ row.key = flows[f].key /\ row.result = "consumed"
        BY <3>1 DEF Flow
      <3>3. flows' = [flows EXCEPT ![f] = row]
        BY <1>8, <2>1, <2>2 DEF AppConsume, TypeOK
      <3> HIDE DEF row
      <3>4. FlowChange(w, f)
        BY <1>0, <1>8, <2>1, <2>2, <3>2, <3>3 DEF FlowChange, AppConsume
      <3> QED
        BY <2>1, <3>4
    <2> QED
      BY <1>8, <2>2 DEF AppConsume
  <1>9. CASE AppFinish(w)
    <2>1. work[w].flow \in FlowIds
      BY <1>9 DEF AppFinish, At, Carrying, CarryingOf, OfApp
    <2> QED
      BY <1>3, <1>9, <2>1 DEF AppFinish
  <1> QED
    BY <1>1, <1>2, <1>4, <1>5, <1>6, <1>7, <1>8, <1>9 DEF OnFlows

-----------------------------------------------------------------------------
(***************************************************************************)
(* What the steps do to sessions                                           *)
(***************************************************************************)
Kept(s) == /\ sessions'[s].pair = sessions[s].pair
           /\ sessions'[s].account = sessions[s].account
           /\ sessions'[s].login = sessions[s].login

\* The live sessions of S end for a reason.
Ended(S, reason) ==
    /\ sessions' \in [SessionIds -> Session]
    /\ \A s \in SessionIds :
          /\ Kept(s)
          /\ s \in S /\ Live(s) => sessions'[s].revoked = reason
          /\ ~(s \in S /\ Live(s)) => sessions'[s].revoked = sessions[s].revoked

LEMMA RevokeDoes ==
  ASSUME TypeOK, NEW S, NEW reason \in Reasons, Revoke(S, reason)
  PROVE  Ended(S, reason)
  <1>1. ASSUME NEW row \in Session
        PROVE  /\ [row EXCEPT !.revoked = reason] \in Session
               /\ [row EXCEPT !.revoked = reason].pair = row.pair
               /\ [row EXCEPT !.revoked = reason].account = row.account
               /\ [row EXCEPT !.revoked = reason].login = row.login
               /\ [row EXCEPT !.revoked = reason].revoked = reason
    BY DEF Session
  <1>2. \A s \in SessionIds : sessions[s] \in Session
    BY DEF TypeOK
  <1>3. ASSUME NEW s \in SessionIds
        PROVE  /\ sessions'[s] \in Session /\ Kept(s)
               /\ s \in S /\ Live(s) => sessions'[s].revoked = reason
               /\ ~(s \in S /\ Live(s)) => sessions'[s].revoked = sessions[s].revoked
    <2>1. CASE s \in S /\ Live(s)
      <3>1. sessions'[s] = [sessions[s] EXCEPT !.revoked = reason]
        BY <2>1 DEF Revoke
      <3> QED
        BY <1>1, <1>2, <2>1, <3>1 DEF Kept
    <2>2. CASE ~(s \in S /\ Live(s))
      <3>1. sessions'[s] = sessions[s]
        BY <2>2 DEF Revoke
      <3> QED
        BY <1>2, <2>2, <3>1 DEF Kept
    <2> QED
      BY <2>1, <2>2
  <1>4. sessions' = [s \in SessionIds |-> sessions'[s]]
    BY DEF Revoke
  <1>5. sessions' \in [SessionIds -> Session]
    BY <1>3, <1>4
  <1> QED
    BY <1>3, <1>5 DEF Ended

\* A login opens the session s, and the next pair is its first.
Opened(w, s) ==
    /\ sessions' \in [SessionIds -> Session]
    /\ \A t \in SessionIds \ {s} : sessions'[t] = sessions[t]
    /\ sessions[s].pair = 0 /\ sessions'[s].pair = minted + 1
    /\ sessions'[s].account = work[w].account /\ sessions'[s].login = work[w].flow
    /\ sessions'[s].revoked = "no"
    /\ minted < MaxPairs /\ minted' = minted + 1

LEMMA MintDoes ==
  ASSUME TypeOK, NEW w \in Requests, NEW s \in SessionIds, Mint(w, s)
  PROVE  Opened(w, s)
  <1> DEFINE row == [account |-> work[w].account, pair |-> minted + 1,
                     revoked |-> "no", login |-> work[w].flow]
  <1>1. minted + 1 \in 0 .. MaxPairs
    BY AccountsAssumption DEF Mint, TypeOK
  <1>2. work[w].account \in AccountIds \cup {NoAccount} /\ work[w].flow \in FlowIds \cup {NoFlow}
    BY DEF TypeOK, Work
  <1>3. row \in Session
    BY <1>1, <1>2 DEF Session
  <1>4. /\ row.pair = minted + 1 /\ row.account = work[w].account
        /\ row.login = work[w].flow /\ row.revoked = "no"
    OBVIOUS
  <1>5. sessions' = [sessions EXCEPT ![s] = row]
    BY DEF Mint
  <1> HIDE DEF row
  <1> QED
    BY <1>3, <1>4, <1>5 DEF Opened, Mint, TypeOK

\* A refresh gives the session s the next pair in the place of p.
Rotated(s, p) ==
    /\ sessions' \in [SessionIds -> Session]
    /\ \A t \in SessionIds \ {s} : sessions'[t] = sessions[t]
    /\ Live(s) /\ sessions[s].pair = p /\ sessions'[s].pair = minted + 1
    /\ sessions'[s].account = sessions[s].account /\ sessions'[s].login = sessions[s].login
    /\ sessions'[s].revoked = "no"
    /\ minted < MaxPairs /\ minted' = minted + 1
    /\ spent' \in [Pairs -> SessionIds \cup {NoSession}]
    /\ \A q \in Pairs : spent'[q] = IF q = p /\ spent[p] = NoSession THEN s ELSE spent[q]

LEMMA RotateDoes ==
  ASSUME TypeOK, NEW s \in SessionIds, NEW p \in Pairs, Rotate(s, p)
  PROVE  Rotated(s, p)
  <1> DEFINE row == [sessions[s] EXCEPT !.pair = minted + 1]
  <1>1. minted + 1 \in 0 .. MaxPairs
    BY AccountsAssumption DEF Rotate, TypeOK
  <1>2. sessions[s] \in Session
    BY DEF TypeOK
  <1>3. /\ row \in Session /\ row.pair = minted + 1 /\ row.account = sessions[s].account
        /\ row.login = sessions[s].login /\ row.revoked = sessions[s].revoked
    BY <1>1, <1>2 DEF Session
  <1>4. sessions' = [sessions EXCEPT ![s] = row]
    BY DEF Rotate
  <1>5. /\ spent' \in [Pairs -> SessionIds \cup {NoSession}]
        /\ \A q \in Pairs : spent'[q] = IF q = p /\ spent[p] = NoSession THEN s ELSE spent[q]
    BY DEF Rotate, TypeOK
  <1> HIDE DEF row
  <1>6. /\ sessions' \in [SessionIds -> Session]
        /\ \A t \in SessionIds \ {s} : sessions'[t] = sessions[t]
        /\ sessions'[s] = row
    BY <1>3, <1>4 DEF TypeOK
  <1> QED
    BY <1>3, <1>5, <1>6 DEF Rotated, Rotate, Live

\* Transactions that revoke, for a reason that is not reuse.
Revoking(w) ==
    \/ ResetRevoke(w) \/ ChangeRevoke(w) \/ Logout(w) \/ DeleteRevoke(w)
    \/ \E a \in AccountIds : RevokeAll(w, a)

LEMMA RevokingDoes ==
  ASSUME TypeOK, NEW w \in Requests, Revoking(w)
  PROVE  \E S, reason : reason \in Reasons \ {"refresh_reuse"} /\ Ended(S, reason)
  <1>1. CASE ResetRevoke(w)
    BY <1>1, RevokeDoes DEF ResetRevoke, Reasons
  <1>2. CASE ChangeRevoke(w)
    BY <1>2, RevokeDoes DEF ChangeRevoke, Reasons
  <1>3. CASE Logout(w)
    BY <1>3, RevokeDoes DEF Logout, Reasons
  <1>4. CASE DeleteRevoke(w)
    BY <1>4, RevokeDoes DEF DeleteRevoke, Reasons
  <1>5. CASE \E a \in AccountIds : RevokeAll(w, a)
    BY <1>5, RevokeDoes DEF RevokeAll, Reasons
  <1> QED
    BY <1>1, <1>2, <1>3, <1>4, <1>5 DEF Revoking

-----------------------------------------------------------------------------
(***************************************************************************)
(* The steps by the tables that they write                                 *)
(***************************************************************************)
OnSessions(w) ==
    \/ \E s \in SessionIds : Mint(w, s)
    \/ Revoking(w) \/ RefreshExpired(w) \/ RefreshReuse(w) \/ RefreshRotate(w)
    \/ \E p \in Pairs : RefreshFind(w, p)

OnWork(w) ==
    \/ VerifyRead(w) \/ ResetRead(w) \/ AppRead(w) \/ LinkRead(w)
    \/ \E rehash \in BOOLEAN : LoginVerify(w, rehash)
    \/ \E f \in FlowIds : AppPoll(w, f)
    \/ \E a \in AccountIds, s \in SessionIds \cup {NoSession} : ChangeRead(w, a, s)
    \/ \E a \in AccountIds : LoginAccount(w, a)
    \/ \E k \in Subjects, app \in Apps : OAuthLogin(w, k, app)
    \/ \E a \in AccountIds, k \in Keys : UnlinkRead(w, a, k)
    \/ \E s \in SessionIds : LogoutFind(w, s)
    \/ RefreshAccount(w) \/ RefreshLost(w)

LEMMA StepsByTable ==
  ASSUME Next
  PROVE  \/ \E w \in Requests : \/ OnAccounts(w) \/ OnIdentities(w) \/ UnlinkDelete(w)
                                \/ OnFlows(w) \/ OnSessions(w) \/ OnWork(w) \/ Crash(w)
         \/ \E p \in Pairs : Lapse(p)
  <1>1. ASSUME NEW w \in Requests, Begin(w)
        PROVE  OnAccounts(w) \/ OnFlows(w) \/ OnSessions(w) \/ OnWork(w)
    BY <1>1 DEF Begin, OnAccounts, OnFlows, OnSessions, OnWork, Revoking
  <1>2. ASSUME NEW w \in Requests, Continue(w)
        PROVE  \/ OnAccounts(w) \/ OnIdentities(w) \/ UnlinkDelete(w)
               \/ OnFlows(w) \/ OnSessions(w) \/ OnWork(w)
    BY <1>2 DEF Continue, OnAccounts, OnIdentities, OnFlows, OnSessions, OnWork, Revoking
  <1> QED
    BY <1>1, <1>2 DEF Next

\* What each of them leaves alone.
LEMMA Untouched ==
  ASSUME NEW w \in Requests
  PROVE  /\ OnAccounts(w) \/ OnIdentities(w) \/ UnlinkDelete(w)
               => UNCHANGED <<TheSessions, flows, crashes, operations>>
         /\ OnFlows(w) => UNCHANGED <<TheAccounts, TheSessions, crashes, operations>>
         /\ OnSessions(w) => UNCHANGED <<TheAccounts, flows, crashes, operations>>
         /\ OnWork(w) => UNCHANGED <<TheAccounts, TheSessions, flows, crashes, operations>>
         /\ Crash(w) => UNCHANGED <<TheAccounts, TheSessions, flows, operations>>
  <1>1. OnAccounts(w) => UNCHANGED <<TheSessions, flows, crashes, operations>>
    BY DEF OnAccounts, SignupAccount, OAuthSignup, SignupCredential, ResetSet, ChangeSet,
           LoginRehash, VerifyWrite, MarkDeleted
  <1>2. OnIdentities(w) \/ UnlinkDelete(w) => UNCHANGED <<TheSessions, flows, crashes, operations>>
    BY DEF OnIdentities, SignupIdentity, ChangeIdentity, OAuthIdentity, LinkCreate, UnlinkDelete
  <1>3. OnFlows(w) => UNCHANGED <<TheAccounts, TheSessions, crashes, operations>>
    BY DEF OnFlows, SignupFlow, AppStart, VerifyConsume, ResetConsume, LinkConsume, UseFlow,
           ResetRequest, OAuthChallenge, OAuthApp, AppConsume, AppFinish
  <1>4. OnSessions(w) => UNCHANGED <<TheAccounts, flows, crashes, operations>>
    BY DEF OnSessions, Revoking, Mint, ResetRevoke, ChangeRevoke, Logout, DeleteRevoke, RevokeAll,
           RefreshExpired, RefreshReuse, RefreshRotate, RefreshFind
  <1>5. OnWork(w) => UNCHANGED <<TheAccounts, TheSessions, flows, crashes, operations>>
    BY DEF OnWork, VerifyRead, ResetRead, AppRead, LinkRead, LoginVerify, AppPoll, ChangeRead,
           LoginAccount, OAuthLogin, UnlinkRead, LogoutFind, RefreshAccount, RefreshLost
  <1>6. Crash(w) => UNCHANGED <<TheAccounts, TheSessions, flows, operations>>
    BY DEF Crash
  <1> QED
    BY <1>1, <1>2, <1>3, <1>4, <1>5, <1>6

-----------------------------------------------------------------------------
(***************************************************************************)
(* Shapes, and what no step takes back                                     *)
(***************************************************************************)
LEMMA AccountsStep ==
  ASSUME TypeOK, Carrying, Rooted, Next
  PROVE  \/ UNCHANGED TheAccounts
         \/ \E a \in AccountIds : AccountChange(a)
         \/ \E w \in Requests, a \in AccountIds, k \in Keys : OnIdentities(w) /\ IdentityChange(w, a, k)
         \/ \E w \in Requests : UnlinkDelete(w)
  <1>1. ASSUME NEW w \in Requests, OnFlows(w) \/ OnSessions(w) \/ OnWork(w) \/ Crash(w)
        PROVE  UNCHANGED TheAccounts
    BY <1>1, Untouched
  <1>2. ASSUME NEW p \in Pairs, Lapse(p)
        PROVE  UNCHANGED TheAccounts
    BY <1>2 DEF Lapse
  <1> QED
    BY <1>1, <1>2, StepsByTable, AccountsChanged, IdentitiesChanged

LEMMA AccountShapesStep ==
  ASSUME TypeOK, Carrying, Rooted, Next
  PROVE  AccountShapes'
  <1>1. CASE UNCHANGED TheAccounts
    BY <1>1 DEF TypeOK, TheAccounts, AccountShapes
  <1>2. ASSUME NEW a \in AccountIds, AccountChange(a)
        PROVE  AccountShapes'
    BY <1>2 DEF TypeOK, AccountChange, AccountShapes
  <1>3. ASSUME NEW w \in Requests, NEW a \in AccountIds, NEW k \in Keys, IdentityChange(w, a, k)
        PROVE  AccountShapes'
    BY <1>3 DEF TypeOK, IdentityChange, CreateIdentity, AccountShapes
  <1>4. ASSUME NEW w \in Requests, UnlinkDelete(w)
        PROVE  AccountShapes'
    <2>1. work[w].account \in entered
      BY <1>4 DEF UnlinkDelete, At, Carrying, CarryingOf, OfEntered
    <2>2. identities' \in [Keys -> AccountIds \cup {NoAccount}]
      BY <1>4 DEF UnlinkDelete, TypeOK
    <2> QED
      BY <1>4, <2>1, <2>2 DEF TypeOK, UnlinkDelete, AccountShapes
  <1> QED
    BY <1>1, <1>2, <1>3, <1>4, AccountsStep

LEMMA SessionShapesStep ==
  ASSUME TypeOK, Carrying, Next
  PROVE  SessionShapes' /\ RestShapes'
  <1>1. ASSUME NEW w \in Requests,
               OnAccounts(w) \/ OnIdentities(w) \/ UnlinkDelete(w) \/ OnFlows(w) \/ OnWork(w)
        PROVE  SessionShapes' /\ RestShapes'
    <2>1. UNCHANGED <<TheSessions, crashes, operations>>
      BY <1>1, Untouched
    <2> QED
      BY <2>1 DEF TypeOK, TheSessions, SessionShapes, RestShapes
  <1>2. ASSUME NEW w \in Requests, Crash(w)
        PROVE  SessionShapes' /\ RestShapes'
    <2>1. crashes' \in 0 .. MaxCrashes
      BY <1>2, AccountsAssumption DEF Crash, TypeOK
    <2> QED
      BY <1>2, <2>1 DEF Crash, TypeOK, TheSessions, SessionShapes, RestShapes
  <1>3. ASSUME NEW p \in Pairs, Lapse(p)
        PROVE  SessionShapes' /\ RestShapes'
    BY <1>3 DEF Lapse, TypeOK, SessionShapes, RestShapes
  <1>4. ASSUME NEW w \in Requests, OnSessions(w)
        PROVE  SessionShapes'
    <2>1. ASSUME NEW s \in SessionIds, Mint(w, s)
          PROVE  SessionShapes'
      <3>1. minted' \in 0 .. MaxPairs
        BY <2>1, AccountsAssumption DEF Mint, TypeOK
      <3> QED
        BY <2>1, <3>1, MintDoes DEF Mint, Opened, TypeOK, SessionShapes
    <2>2. CASE Revoking(w)
      BY <2>2, RevokingDoes DEF Ended, Revoking, ResetRevoke, ChangeRevoke, Logout, DeleteRevoke,
                                RevokeAll, TypeOK, SessionShapes
    <2>3. CASE RefreshExpired(w) \/ RefreshReuse(w)
      BY <2>3, RevokeDoes DEF Ended, RefreshExpired, RefreshReuse, Reasons, TypeOK, SessionShapes
    <2>4. CASE RefreshRotate(w)
      <3>1. work[w].session \in SessionIds /\ work[w].pair \in Pairs
        BY <2>4 DEF RefreshRotate, At, Carrying, CarryingOf, Presenting
      <3>2. minted' \in 0 .. MaxPairs
        BY <2>4, AccountsAssumption DEF RefreshRotate, Rotate, TypeOK
      <3> QED
        BY <2>4, <3>1, <3>2, RotateDoes DEF RefreshRotate, Rotated, TypeOK, SessionShapes
    <2>5. ASSUME NEW p \in Pairs, RefreshFind(w, p)
          PROVE  SessionShapes'
      <3>1. uses[p] \in 0 .. MaxUses
        BY DEF TypeOK
      <3>2. uses[p] < MaxUses
        BY <2>5 DEF RefreshFind
      <3>3. uses[p] + 1 \in 0 .. MaxUses
        BY <3>1, <3>2, AccountsAssumption
      <3>4. uses' = [uses EXCEPT ![p] = uses[p] + 1]
        BY <2>5 DEF RefreshFind, TypeOK
      <3>5. uses' \in [Pairs -> 0 .. MaxUses]
        BY <3>3, <3>4 DEF TypeOK
      <3> QED
        BY <2>5, <3>5 DEF RefreshFind, TypeOK, SessionShapes
    <2> QED
      BY <1>4, <2>1, <2>2, <2>3, <2>4, <2>5 DEF OnSessions
  <1>5. ASSUME NEW w \in Requests, OnSessions(w)
        PROVE  RestShapes'
    BY <1>5, Untouched DEF TypeOK, RestShapes
  <1> QED
    BY <1>1, <1>2, <1>3, <1>4, <1>5, StepsByTable

LEMMA FlowsStep ==
  ASSUME TypeOK, Carrying, Rooted, Offered, Next
  PROVE  UNCHANGED flows \/ \E w \in Requests, f \in FlowIds : OnFlows(w) /\ FlowChange(w, f)
  <1>1. ASSUME NEW w \in Requests, \/ OnAccounts(w) \/ OnIdentities(w) \/ UnlinkDelete(w)
                                   \/ OnSessions(w) \/ OnWork(w) \/ Crash(w)
        PROVE  UNCHANGED flows
    BY <1>1, Untouched
  <1>2. ASSUME NEW p \in Pairs, Lapse(p)
        PROVE  UNCHANGED flows
    BY <1>2 DEF Lapse
  <1> QED
    BY <1>1, <1>2, StepsByTable, FlowsChanged

\* Accounts, ways in, pairs and the kinds of flows are not taken back.
Steady ==
    /\ \A a \in AccountIds : /\ Exists(a) => accounts'[a].status # "none"
                             /\ accounts[a].closed => accounts'[a].closed
                             /\ accounts[a].password > 0 => accounts'[a].password > 0
    /\ entered \subseteq entered'
    /\ minted <= minted'
    /\ \A f \in FlowIds : flows[f].kind # "none" => flows'[f].kind = flows[f].kind

LEMMA MintedGrows ==
  ASSUME TypeOK, Next
  PROVE  minted <= minted'
  <1>1. ASSUME NEW w \in Requests, OnSessions(w)
        PROVE  minted' \in {minted, minted + 1}
    BY <1>1 DEF OnSessions, Revoking, Mint, ResetRevoke, ChangeRevoke, Logout, DeleteRevoke, RevokeAll,
                RefreshExpired, RefreshReuse, RefreshRotate, Rotate, RefreshFind
  <1>2. ASSUME NEW w \in Requests, \/ OnAccounts(w) \/ OnIdentities(w) \/ UnlinkDelete(w)
                                   \/ OnFlows(w) \/ OnWork(w) \/ Crash(w)
        PROVE  minted' = minted
    BY <1>2, Untouched DEF TheSessions
  <1>3. ASSUME NEW p \in Pairs, Lapse(p)
        PROVE  minted' = minted
    BY <1>3 DEF Lapse
  <1>4. minted' \in {minted, minted + 1}
    BY <1>1, <1>2, <1>3, StepsByTable
  <1>5. minted \in Nat
    BY AccountsAssumption DEF TypeOK
  <1> QED
    BY <1>4, <1>5

LEMMA SteadyStep ==
  ASSUME TypeOK, Carrying, Rooted, Offered, Next
  PROVE  Steady
  <1>1. /\ \A a \in AccountIds : /\ Exists(a) => accounts'[a].status # "none"
                                 /\ accounts[a].closed => accounts'[a].closed
                                 /\ accounts[a].password > 0 => accounts'[a].password > 0
        /\ entered \subseteq entered'
    <2>1. CASE UNCHANGED TheAccounts
      BY <2>1 DEF TheAccounts, Exists
    <2>2. ASSUME NEW a \in AccountIds, AccountChange(a)
          PROVE  <1>1!1 /\ <1>1!2
      BY <2>2 DEF AccountChange, Exists
    <2>3. ASSUME NEW w \in Requests, NEW a \in AccountIds, NEW k \in Keys, IdentityChange(w, a, k)
          PROVE  <1>1!1 /\ <1>1!2
      BY <2>3 DEF IdentityChange, CreateIdentity, Exists
    <2>4. ASSUME NEW w \in Requests, UnlinkDelete(w)
          PROVE  <1>1!1 /\ <1>1!2
      BY <2>4 DEF UnlinkDelete, Exists
    <2> QED
      BY <2>1, <2>2, <2>3, <2>4, AccountsStep
  <1>2. ASSUME NEW f \in FlowIds, flows[f].kind # "none"
        PROVE  flows'[f].kind = flows[f].kind
    BY <1>2, FlowsStep DEF FlowChange
  <1> QED
    BY <1>1, <1>2, MintedGrows DEF Steady

-----------------------------------------------------------------------------
(***************************************************************************)
(* How requests go on                                                      *)
(***************************************************************************)
Winning == {"app.finish", "app.read", "mint"}

Remains(a) == a \in AccountIds /\ accounts'[a].status # "none"

\* CarryingOf after the step, of a record that the step gives to a request.
Carries(n) ==
    /\ IF n.at \in Presenting THEN n.pair \in Pairs /\ n.pair <= minted' ELSE n.pair = 0
    /\ n.at \in {"refresh.check", "refresh.rotate"} => n.session \in SessionIds
    /\ n.at \in OfAccount => Remains(n.account)
    /\ n.at \in OfEntered => n.account \in entered'
    /\ n.at \in OfApp \/ (n.at = "oauth.identity" /\ n.flow # NoFlow)
          => n.flow \in FlowIds /\ flows'[n.flow].kind = "app_login"
    /\ n.at \in {"oauth.identity", "link.read", "link.create"} => n.key \in Subjects
    /\ n.at = "signup.identity" => n.key \in Emails
    /\ n.at = "unlink" => n.key \in Keys
    /\ n.at \in {"login.verify", "login.rehash"} => n.flow = NoFlow
    /\ n.at = "login.rehash" => n.password > 0
    /\ n.at = "change.identity" => accounts'[n.account].password > 0

LEMMA CarriesNext == \A n : Carries(n) => CarryingOf(n)'
  BY DEF Carries, CarryingOf, Remains, Registered, Exists

\* What is not taken back is carried on.
LEMMA CarriesOn ==
  ASSUME TypeOK, SessionShapes', Steady, Rooted, NEW w \in Requests, CarryingOf(work[w])
  PROVE  Carries(work[w])
  <1> DEFINE r == work[w]
  <1>1. minted \in Nat /\ minted' \in Nat /\ minted <= minted' /\ r.pair \in Nat
    BY AccountsAssumption DEF TypeOK, Work, SessionShapes, Steady
  <1>2. \A a \in AccountIds : Exists(a) => Remains(a)
    BY DEF Steady, Remains
  <1>3. r.account \in entered => r.account \in entered' /\ r.account \in AccountIds
    BY DEF Steady, TypeOK
  <1>4. r.at = "change.identity" => accounts'[r.account].password > 0
    BY <1>3 DEF CarryingOf, OfEntered, Steady
  <1>5. r.flow \in FlowIds /\ flows[r.flow].kind = "app_login" => flows'[r.flow].kind = "app_login"
    BY DEF Steady
  <1> HIDE DEF r
  <1>6. CarryingOf(r)
    BY DEF r
  <1>7. Carries(r)
    BY <1>1, <1>2, <1>3, <1>4, <1>5, <1>6 DEF Carries, CarryingOf, Registered
  <1> QED
    BY <1>7 DEF r

\* The request w goes on with n, and n is no step of a refresh.  A poll wins,
\* and an unlink begins, in one way; a step that gives an account its first key
\* is one for an account that did not exist.
Plain(w, n) ==
    /\ n \in Work /\ Goes(w, n)
    /\ work[w].at \notin Presenting /\ n.at \notin Presenting
    /\ n.at = "unlink" => \E a \in AccountIds, k \in Keys :
                             UnlinkRead(w, a, k) /\ n.account = a /\ n.key = k
    /\ n.at \in Winning /\ n.flow # NoFlow =>
          /\ n.flow = work[w].flow
          /\ work[w].at \in Winning \/ (AppConsume(w) /\ flows[n.flow].result = "ready")
    /\ n.at \in {"signup.identity", "oauth.identity"} => ~Exists(n.account)

LEMMA IdleCarries == Carries(Idle) /\ Idle \in Work /\ Idle.at = "idle" /\ Idle.pair = 0
  BY IdleIs DEF Is, Carries, Presenting, OfAccount, OfEntered, OfApp

LEMMA EndsPlain ==
  ASSUME NEW w \in Requests, Ends(w), work[w].at \notin Presenting
  PROVE  \E n : Plain(w, n) /\ Carries(n)
  BY IdleCarries DEF Plain, Ends, Presenting, Winning

\* A request that goes on as it is.
LEMMA ThenPlain ==
  ASSUME TypeOK, Carrying, Steady, NEW w \in Requests,
         NEW label \in {"signup.credential", "signup.flow", "reset.set", "reset.revoke",
                        "change.identity", "change.revoke", "mint", "oauth.app", "app.read",
                        "link.create"},
         Then(w, label), work[w].at \notin Presenting,
         label \in OfAccount => Registered(work[w].account),
         label \in OfEntered => work[w].account \in entered',
         label \in OfApp => work[w].flow \in FlowIds /\ flows[work[w].flow].kind = "app_login",
         label \in Winning /\ work[w].flow # NoFlow => work[w].at \in Winning,
         label = "link.create" => work[w].key \in Subjects,
         label = "change.identity" => accounts'[work[w].account].password > 0
  PROVE  \E n : Plain(w, n) /\ Carries(n)
  <1> DEFINE r == work[w]
  <1>1. r \in Work /\ CarryingOf(r) /\ label \in Labels
    BY DEF TypeOK, Carrying, Labels
  <1>2. PICK n : n = [r EXCEPT !.at = label]
    OBVIOUS
  <1>3. Is(n, label, r.account, r.session, r.pair, r.flow, r.key)
    BY <1>1, <1>2, ThenIs
  <1>4. Goes(w, n) /\ r.pair = 0
    BY <1>1, <1>2 DEF Then, CarryingOf
  <1>5. label \in OfAccount => Remains(r.account)
    BY DEF Registered, Steady, Remains
  <1>6. label \in OfApp => r.flow \in FlowIds /\ flows'[r.flow].kind = "app_login"
    BY DEF Steady
  <1> HIDE DEF r
  <1>7. Carries(n)
    BY <1>3, <1>4, <1>5, <1>6 DEF Is, Carries, Presenting, r
  <1>8. n.at = label /\ n \in Work /\ n.flow = r.flow
    BY <1>3 DEF Is
  <1>9. label \notin Presenting \cup {"unlink", "signup.identity", "oauth.identity"}
    BY DEF Presenting
  <1>10. Plain(w, n)
    BY <1>4, <1>8, <1>9 DEF Plain, r
  <1> QED
    BY <1>7, <1>10

LEMMA AccountsMove ==
  ASSUME TypeOK, Carrying, Rooted, Offered, Steady, NEW w \in Requests, OnAccounts(w)
  PROVE  \E n : Plain(w, n) /\ Carries(n)
  <1> DEFINE r == work[w]
  <1>0. r \in Work /\ CarryingOf(r)
    BY DEF TypeOK, Carrying
  <1>1. \A a \in AccountIds : Exists(a) => Remains(a)
    BY DEF Steady, Remains
  <1>2. ASSUME NEW e \in Emails, NEW a \in AccountIds, SignupAccount(w, e, a)
        PROVE  \E n : Plain(w, n) /\ Carries(n)
    <2>1. PICK n : n = [Idle EXCEPT !.at = "signup.identity", !.account = a, !.key = e]
      OBVIOUS
    <2>2. Is(n, "signup.identity", a, NoSession, 0, NoFlow, e)
      BY <2>1, StartIs, AccountsAssumption DEF Labels, Keys
    <2>3. Goes(w, n) /\ At(w, "idle") /\ ~Exists(a)
      BY <1>2, <2>1 DEF SignupAccount, Begins, CreateAccount
    <2>4. Remains(a)
      BY <1>2, CreateAccountDoes DEF SignupAccount, AccountChange, Remains
    <2> QED
      BY <2>2, <2>3, <2>4 DEF Is, Plain, Carries, At, Presenting, Winning, OfAccount, OfEntered, OfApp
  <1>3. ASSUME NEW k \in Subjects, NEW e \in Emails \cup {NoEmail}, NEW a \in AccountIds,
               NEW app \in Apps, OAuthSignup(w, k, e, a, app)
        PROVE  \E n : Plain(w, n) /\ Carries(n)
    <2>1. PICK n : n = [Idle EXCEPT !.at = "oauth.identity", !.account = a, !.key = k, !.flow = app]
      OBVIOUS
    <2>2. Is(n, "oauth.identity", a, NoSession, 0, app, k)
      BY <2>1, StartIs, AccountsAssumption DEF Labels, Keys, Apps
    <2>3. /\ Goes(w, n) /\ At(w, "idle") /\ ~Exists(a)
          /\ app # NoFlow => app \in FlowIds /\ flows[app].kind = "app_login"
      BY <1>3, <2>1 DEF OAuthSignup, Begins, CreateAccount, Apps
    <2>4. Remains(a)
      <3>1. (IF e = NoEmail THEN "pending_verification" ELSE "active")
               \in {"pending_verification", "active"}
        OBVIOUS
      <3> QED
        BY <1>3, <3>1, CreateAccountDoes DEF OAuthSignup, AccountChange, Remains
    <2>5. app # NoFlow => app \in FlowIds /\ flows'[app].kind = "app_login"
      BY <2>3 DEF Steady
    <2> QED
      BY <2>2, <2>3, <2>4, <2>5
      DEF Is, Plain, Carries, At, Presenting, Winning, OfAccount, OfEntered, OfApp
  <1>4. CASE SignupCredential(w)
    BY <1>0, <1>4, ThenPlain DEF SignupCredential, At, CarryingOf, Presenting, OfAccount, OfEntered, OfApp, Winning
  <1>5. CASE ResetSet(w)
    BY <1>0, <1>5, ThenPlain DEF ResetSet, At, CarryingOf, Presenting, OfAccount, OfEntered, OfApp, Winning
  <1>6. CASE ChangeSet(w)
    <2>1. r.account \in entered /\ Registered(r.account) /\ r.account \in entered'
      BY <1>0, <1>6 DEF ChangeSet, At, CarryingOf, OfEntered, Rooted, Registered, TypeOK, Steady
    <2>2. accounts'[r.account].password > 0
      BY <1>6, <2>1, NewPasswordDoes DEF ChangeSet, Registered
    <2> QED
      BY <1>6, <2>1, <2>2, ThenPlain DEF ChangeSet, At, Presenting, OfAccount, OfApp, Winning
  <1>7. CASE LoginRehash(w)
    <2>1. r.account \in entered' /\ r.flow = NoFlow
      BY <1>0, <1>7 DEF LoginRehash, SetPassword, At, CarryingOf
    <2> QED
      BY <1>7, <2>1, ThenPlain DEF LoginRehash, At, Presenting, OfAccount, OfApp, Winning
  <1>8. CASE VerifyWrite(w)
    BY <1>8, EndsPlain DEF VerifyWrite, At, Presenting
  <1>9. ASSUME NEW a \in AccountIds, MarkDeleted(w, a)
         PROVE  \E n : Plain(w, n) /\ Carries(n)
    <2>1. PICK n : n = [Idle EXCEPT !.at = "delete.revoke", !.account = a]
      OBVIOUS
    <2>2. Is(n, "delete.revoke", a, NoSession, 0, NoFlow, NoKey)
      BY <2>1, StartIs, AccountsAssumption DEF Labels
    <2>3. Goes(w, n) /\ At(w, "idle") /\ Remains(a)
      BY <1>1, <1>9, <2>1 DEF MarkDeleted, Begins
    <2> QED
      BY <2>2, <2>3 DEF Is, Plain, Carries, At, Presenting, Winning, OfAccount, OfEntered, OfApp
  <1> QED
    BY <1>2, <1>3, <1>4, <1>5, <1>6, <1>7, <1>8, <1>9 DEF OnAccounts

LEMMA IdentitiesMove ==
  ASSUME TypeOK, Carrying, Rooted, Steady, NEW w \in Requests, OnIdentities(w)
  PROVE  \E n : Plain(w, n) /\ Carries(n)
  <1> DEFINE r == work[w]
  <1>0. r \in Work /\ CarryingOf(r)
    BY DEF TypeOK, Carrying
  <1>1. CASE SignupIdentity(w)
    <2>1. Registered(r.account) /\ r.at \notin Presenting
      BY <1>0, <1>1 DEF SignupIdentity, At, CarryingOf, OfAccount, Presenting
    <2> QED
      BY <1>1, <2>1, ThenPlain, EndsPlain DEF SignupIdentity, OfEntered, OfApp, Winning
  <1>2. CASE ChangeIdentity(w)
    <2>1. r.account \in entered' /\ r.at \notin Presenting
      BY <1>0, <1>2 DEF ChangeIdentity, At, CarryingOf, OfEntered, Presenting, Steady
    <2> QED
      BY <1>2, <2>1, ThenPlain DEF ChangeIdentity, OfAccount, OfApp, Winning
  <1>3. CASE OAuthIdentity(w)
    <2>1. /\ r.at \notin Presenting /\ r.key \in Subjects
          /\ r.flow # NoFlow => r.flow \in FlowIds /\ flows[r.flow].kind = "app_login"
      BY <1>0, <1>3 DEF OAuthIdentity, At, CarryingOf, Presenting
    <2>2. CASE identities[r.key] = NoAccount
      <3>1. r.account \in entered'
        BY <1>3, <2>1, <2>2 DEF OAuthIdentity, CreateIdentity
      <3>2. CASE r.flow = NoFlow
        <4>1. Then(w, "mint")
          BY <1>3, <2>2, <3>2 DEF OAuthIdentity
        <4> QED
          BY <2>1, <3>1, <3>2, <4>1, ThenPlain DEF OfAccount, OfApp
      <3>3. CASE r.flow # NoFlow
        <4>1. Then(w, "oauth.app")
          BY <1>3, <2>2, <3>3 DEF OAuthIdentity
        <4> QED
          BY <2>1, <3>1, <3>3, <4>1, ThenPlain DEF OfAccount, Winning
      <3> QED
        BY <3>2, <3>3
    <2>3. CASE identities[r.key] # NoAccount
      BY <1>3, <2>1, <2>3, EndsPlain DEF OAuthIdentity
    <2> QED
      BY <2>2, <2>3
  <1>4. CASE LinkCreate(w)
    BY <1>4, EndsPlain DEF LinkCreate, At, Presenting
  <1> QED
    BY <1>1, <1>2, <1>3, <1>4 DEF OnIdentities

\* Who uses a flow starts with its account and key.
LEMMA UsePlain ==
  ASSUME TypeOK, Steady, NEW w \in Requests, NEW f \in FlowIds, NEW kind,
         NEW next \in {"verify.read", "reset.read", "link.read"}, At(w, "idle"),
         UseFlow(w, f, kind, next),
         next \in OfAccount => Registered(flows[f].account),
         next = "link.read" => flows[f].account \in entered /\ flows[f].key \in Subjects
  PROVE  \E n : Plain(w, n) /\ Carries(n)
  <1>1. /\ flows[f].account \in AccountIds \cup {NoAccount} /\ flows[f].key \in Keys \cup {NoKey}
        /\ f \in FlowIds \cup {NoFlow} /\ next \in Labels
    BY DEF TypeOK, Flow, Labels
  <1>2. PICK n : n = [Idle EXCEPT !.at = next, !.account = flows[f].account,
                                  !.key = flows[f].key, !.flow = f]
    OBVIOUS
  <1>3. Is(n, next, flows[f].account, NoSession, 0, f, flows[f].key)
    BY <1>1, <1>2, StartIs
  <1>4. Goes(w, n)
    BY <1>2 DEF UseFlow
  <1>5. /\ next \in OfAccount => Remains(flows[f].account)
        /\ next = "link.read" => flows[f].account \in entered'
    BY DEF Registered, Steady, Remains
  <1>6. Carries(n)
    BY <1>3, <1>5 DEF Is, Carries, Presenting, OfEntered, OfApp
  <1>7. Plain(w, n)
    BY <1>3, <1>4 DEF Is, Plain, At, Presenting, Winning
  <1> QED
    BY <1>6, <1>7

\* A caller who is signed in has had a way in.
LEMMA SignedInEntered ==
  ASSUME Rooted, NEW a, SignedIn(a)
  PROVE  a \in entered
  BY DEF Rooted, SignedIn, Live

LEMMA FlowsMove ==
  ASSUME TypeOK, Carrying, Rooted, Offered, Steady, NEW w \in Requests, OnFlows(w)
  PROVE  UNCHANGED work \/ \E n : Plain(w, n) /\ Carries(n)
  <1> DEFINE r == work[w]
  <1>0. r \in Work /\ CarryingOf(r)
    BY DEF TypeOK, Carrying
  <1>1. ASSUME NEW f \in FlowIds, SignupFlow(w, f)
        PROVE  \E n : Plain(w, n) /\ Carries(n)
    BY <1>1, EndsPlain DEF SignupFlow, At, Presenting
  <1>2. ASSUME NEW f \in FlowIds, AppStart(w, f) \/ \E a \in AccountIds : ResetRequest(w, a, f)
        PROVE  UNCHANGED work
    BY <1>2 DEF AppStart, ResetRequest
  <1>3. ASSUME NEW k \in Subjects, NEW e \in Emails, NEW f \in FlowIds, OAuthChallenge(w, k, e, f)
        PROVE  UNCHANGED work
    BY <1>3 DEF OAuthChallenge
  <1>4. ASSUME NEW f \in FlowIds, VerifyConsume(w, f)
        PROVE  \E n : Plain(w, n) /\ Carries(n)
    <2>1. Registered(flows[f].account)
      BY <1>4 DEF VerifyConsume, UseFlow, Offered
    <2> QED
      BY <1>4, <2>1, UsePlain DEF VerifyConsume, Begins
  <1>5. ASSUME NEW f \in FlowIds, ResetConsume(w, f)
        PROVE  \E n : Plain(w, n) /\ Carries(n)
    <2>1. Registered(flows[f].account)
      BY <1>5 DEF ResetConsume, UseFlow, Offered
    <2> QED
      BY <1>5, <2>1, UsePlain DEF ResetConsume, Begins
  <1>6. ASSUME NEW f \in FlowIds, LinkConsume(w, f)
        PROVE  \E n : Plain(w, n) /\ Carries(n)
    <2>1. flows[f].kind = "link_challenge"
      BY <1>6 DEF LinkConsume, UseFlow
    <2>2. flows[f].account \in entered /\ flows[f].key \in Subjects
      BY <1>6, <2>1, SignedInEntered DEF LinkConsume, Offered
    <2> QED
      BY <1>6, <2>2, UsePlain DEF LinkConsume, Begins, OfAccount
  <1>7. CASE OAuthApp(w)
    BY <1>7, EndsPlain DEF OAuthApp, At, Presenting
  <1>8. CASE AppConsume(w)
    <2> DEFINE f == r.flow
    <2>1. f \in FlowIds /\ flows[f].kind = "app_login" /\ r.pair = 0 /\ r.at = "app.consume"
      BY <1>0, <1>8 DEF AppConsume, At, CarryingOf, OfApp, Presenting
    <2>2. CASE flows[f].result = "ready"
      <3>1. flows[f].account \in entered /\ flows[f].account \in AccountIds \cup {NoAccount}
        BY <2>1, <2>2 DEF Offered, TypeOK
      <3>2. PICK n : n = [r EXCEPT !.at = "app.finish", !.account = flows[f].account]
        OBVIOUS
      <3>3. Is(n, "app.finish", flows[f].account, r.session, r.pair, f, r.key)
        <4>1. "app.finish" \in Labels
          BY DEF Labels
        <4> QED
          BY <1>0, <3>1, <3>2, <4>1, StepIs
      <3>4. Goes(w, n)
        BY <1>8, <2>2, <3>2 DEF AppConsume
      <3>5. flows[f].account \in entered' /\ flows'[f].kind = "app_login"
        BY <2>1, <3>1 DEF Steady
      <3>6. Carries(n)
        BY <2>1, <3>3, <3>5 DEF Is, Carries, Presenting, OfAccount
      <3>7. Plain(w, n)
        BY <1>8, <2>1, <2>2, <3>3, <3>4 DEF Is, Plain, Presenting
      <3> QED
        BY <3>6, <3>7
    <2> QED
      BY <1>8, <2>1, <2>2, EndsPlain DEF AppConsume, Presenting
  <1>9. CASE AppFinish(w)
    <2>1. /\ r.at \notin Presenting /\ r.at \in Winning /\ r.account \in entered'
          /\ r.flow \in FlowIds /\ flows[r.flow].kind = "app_login"
      BY <1>0, <1>9 DEF AppFinish, At, CarryingOf, OfApp, OfEntered, Presenting, Winning, Steady
    <2> QED
      BY <1>9, <2>1, ThenPlain DEF AppFinish, OfAccount
  <1> QED
    BY <1>1, <1>2, <1>3, <1>4, <1>5, <1>6, <1>7, <1>8, <1>9 DEF OnFlows

Refreshing(w) ==
    \/ \E p \in Pairs : RefreshFind(w, p)
    \/ RefreshExpired(w) \/ RefreshAccount(w) \/ RefreshRotate(w) \/ RefreshLost(w) \/ RefreshReuse(w)

LEMMA SessionsMove ==
  ASSUME TypeOK, Carrying, NEW w \in Requests, OnSessions(w), ~Refreshing(w)
  PROVE  UNCHANGED work \/ \E n : Plain(w, n) /\ Carries(n)
  <1>1. ASSUME NEW s \in SessionIds, Mint(w, s)
        PROVE  \E n : Plain(w, n) /\ Carries(n)
    BY <1>1, EndsPlain DEF Mint, At, Presenting
  <1>2. CASE ResetRevoke(w) \/ ChangeRevoke(w) \/ Logout(w) \/ DeleteRevoke(w)
    BY <1>2, EndsPlain DEF ResetRevoke, ChangeRevoke, Logout, DeleteRevoke, At, Presenting
  <1>3. CASE \E a \in AccountIds : RevokeAll(w, a)
    BY <1>3 DEF RevokeAll
  <1> QED
    BY <1>1, <1>2, <1>3 DEF OnSessions, Revoking, Refreshing

LEMMA WorkMove ==
  ASSUME TypeOK, Carrying, Rooted, Offered, Steady, NEW w \in Requests, OnWork(w), ~Refreshing(w)
  PROVE  \E n : Plain(w, n) /\ Carries(n)
  <1> DEFINE r == work[w]
  <1>0. r \in Work /\ CarryingOf(r)
    BY DEF TypeOK, Carrying
  <1>1. CASE VerifyRead(w)
    <2>1. r.at = "verify.read" /\ Registered(r.account) /\ r.pair = 0
      BY <1>0, <1>1 DEF VerifyRead, At, CarryingOf, OfAccount, Presenting
    <2>2. CASE Usable(r.account)
      <3>1. accounts[r.account].status \in {"none", "pending_verification", "active"}
        BY <2>2 DEF Usable
      <3>2. PICK n : n = [r EXCEPT !.at = "verify.write", !.status = accounts[r.account].status]
        OBVIOUS
      <3>3. "verify.write" \in Labels
        BY DEF Labels
      <3>4. Is(n, "verify.write", r.account, r.session, r.pair, r.flow, r.key)
        BY <1>0, <3>1, <3>2, <3>3, StepIs
      <3>5. Goes(w, n)
        BY <1>1, <2>2, <3>2 DEF VerifyRead
      <3>6. Remains(r.account)
        BY <2>1 DEF Registered, Steady, Remains
      <3>7. Carries(n)
        BY <2>1, <3>4, <3>6 DEF Is, Carries, Presenting, OfEntered, OfApp
      <3>8. Plain(w, n)
        BY <2>1, <3>4, <3>5 DEF Is, Plain, Presenting, Winning
      <3> QED
        BY <3>7, <3>8
    <2> QED
      BY <1>1, <2>1, <2>2, EndsPlain DEF VerifyRead, Presenting
  <1>2. CASE ResetRead(w)
    <2>1. Registered(r.account) /\ r.at \notin Presenting
      BY <1>0, <1>2 DEF ResetRead, At, CarryingOf, OfAccount, Presenting
    <2> QED
      BY <1>2, <2>1, ThenPlain, EndsPlain DEF ResetRead, OfEntered, OfApp, Winning
  <1>3. CASE AppRead(w)
    <2>1. r.account \in entered' /\ r.at \notin Presenting /\ r.at \in Winning
      BY <1>0, <1>3 DEF AppRead, At, CarryingOf, OfEntered, Presenting, Winning, Steady
    <2> QED
      BY <1>3, <2>1, ThenPlain, EndsPlain DEF AppRead, OfAccount, OfApp
  <1>4. CASE LinkRead(w)
    <2>1. r.account \in entered' /\ r.at \notin Presenting /\ r.key \in Subjects
      BY <1>0, <1>4 DEF LinkRead, At, CarryingOf, OfEntered, Presenting, Steady
    <2> QED
      BY <1>4, <2>1, ThenPlain, EndsPlain DEF LinkRead, OfAccount, OfApp, Winning
  <1>5. ASSUME NEW rehash \in BOOLEAN, LoginVerify(w, rehash)
        PROVE  \E n : Plain(w, n) /\ Carries(n)
    <2> DEFINE a == r.account
               label == IF rehash THEN "login.rehash" ELSE "mint"
    <2>1. r.at = "login.verify" /\ Registered(a) /\ r.pair = 0 /\ r.flow = NoFlow
      BY <1>0, <1>5 DEF LoginVerify, At, CarryingOf, OfAccount, Presenting
    <2>2. CASE accounts[a].password > 0
      <3>1. /\ accounts[a].password \in 0 .. MaxPasswords
            /\ a \in entered' /\ Remains(a)
        BY <2>1, <2>2 DEF Registered, TypeOK, Account, Rooted, Steady, Remains
      <3>2. PICK n : n = [r EXCEPT !.at = label, !.password = accounts[a].password]
        OBVIOUS
      <3>3. label \in Labels /\ label \in {"login.rehash", "mint"}
        BY DEF Labels
      <3>4. Goes(w, n)
        BY <1>5, <2>2, <3>2 DEF LoginVerify
      <3> HIDE DEF label
      <3>5. /\ Is(n, label, a, r.session, r.pair, r.flow, r.key)
            /\ n.password = accounts[a].password
        <4>1. PICK m \in 0 .. MaxPasswords : m = accounts[a].password
          BY <3>1
        <4>2. n = [r EXCEPT !.at = label, !.password = m]
          BY <3>2, <4>1
        <4>3. /\ Is([r EXCEPT !.at = label, !.password = m],
                    label, r.account, r.session, r.pair, r.flow, r.key)
              /\ [r EXCEPT !.at = label, !.password = m].password = m
          BY <1>0, <3>3, StepIs
        <4> QED
          BY <4>1, <4>2, <4>3
      <3>6. Carries(n)
        BY <2>1, <2>2, <3>1, <3>3, <3>5 DEF Is, Carries, Presenting, OfApp
      <3>7. Plain(w, n)
        BY <2>1, <3>3, <3>4, <3>5 DEF Is, Plain, Presenting
      <3> QED
        BY <3>6, <3>7
    <2> QED
      BY <1>5, <2>1, <2>2, EndsPlain DEF LoginVerify, Presenting
  <1>6. ASSUME NEW f \in FlowIds, AppPoll(w, f)
        PROVE  \E n : Plain(w, n) /\ Carries(n)
    <2>1. PICK n : n = [Idle EXCEPT !.at = "app.consume", !.flow = f]
      OBVIOUS
    <2>2. Is(n, "app.consume", NoAccount, NoSession, 0, f, NoKey)
      BY <2>1, StartIs DEF Labels
    <2>3. Goes(w, n) /\ At(w, "idle") /\ flows'[f].kind = "app_login"
      BY <1>6, <2>1 DEF AppPoll, Begins
    <2> QED
      BY <2>2, <2>3 DEF Is, Plain, Carries, At, Presenting, Winning, OfAccount, OfEntered
  <1>7. ASSUME NEW a \in AccountIds, NEW s \in SessionIds \cup {NoSession}, ChangeRead(w, a, s)
        PROVE  \E n : Plain(w, n) /\ Carries(n)
    <2>1. PICK n : n = [Idle EXCEPT !.at = "change.set", !.account = a, !.session = s]
      OBVIOUS
    <2>2. Is(n, "change.set", a, s, 0, NoFlow, NoKey)
      BY <2>1, StartIs DEF Labels
    <2>3. Goes(w, n) /\ At(w, "idle") /\ a \in entered'
      BY <1>7, <2>1, SignedInEntered DEF ChangeRead, Begins, Steady
    <2> QED
      BY <2>2, <2>3 DEF Is, Plain, Carries, At, Presenting, Winning, OfAccount, OfApp
  <1>8. ASSUME NEW a \in AccountIds, LoginAccount(w, a)
        PROVE  \E n : Plain(w, n) /\ Carries(n)
    <2>1. PICK n : n = [Idle EXCEPT !.at = "login.verify", !.account = a]
      OBVIOUS
    <2>2. Is(n, "login.verify", a, NoSession, 0, NoFlow, NoKey)
      BY <2>1, StartIs DEF Labels
    <2>3. Goes(w, n) /\ At(w, "idle") /\ Remains(a)
      BY <1>8, <2>1 DEF LoginAccount, Begins, Usable, Exists, Steady, Remains
    <2> QED
      BY <2>2, <2>3 DEF Is, Plain, Carries, At, Presenting, Winning, OfEntered, OfApp
  <1>9. ASSUME NEW k \in Subjects, NEW app \in Apps, OAuthLogin(w, k, app)
        PROVE  \E n : Plain(w, n) /\ Carries(n)
    <2> DEFINE a == identities[k]
               label == IF app = NoFlow THEN "mint" ELSE "oauth.app"
    <2>1. /\ a \in entered' /\ a \in AccountIds \cup {NoAccount}
          /\ app # NoFlow => app \in FlowIds /\ flows'[app].kind = "app_login"
      BY <1>9 DEF OAuthLogin, Rooted, Steady, Apps, Keys, TypeOK
    <2>2. PICK n : n = [Idle EXCEPT !.at = label, !.account = a, !.flow = app]
      OBVIOUS
    <2>3. /\ label \in Labels /\ app \in FlowIds \cup {NoFlow}
          /\ app = NoFlow => label = "mint"
          /\ app # NoFlow => label = "oauth.app"
      BY DEF Labels, Apps
    <2>4. Goes(w, n) /\ At(w, "idle")
      BY <1>9, <2>2 DEF OAuthLogin, Begins
    <2> HIDE DEF label
    <2>5. Is(n, label, a, NoSession, 0, app, NoKey)
      BY <2>1, <2>2, <2>3, StartIs
    <2>6. Carries(n)
      BY <2>1, <2>3, <2>5 DEF Is, Carries, Presenting, OfAccount, OfApp
    <2>7. Plain(w, n)
      BY <2>3, <2>4, <2>5 DEF Is, Plain, At, Presenting, Winning
    <2> QED
      BY <2>6, <2>7
  <1>10. ASSUME NEW a \in AccountIds, NEW k \in Keys, UnlinkRead(w, a, k)
         PROVE  \E n : Plain(w, n) /\ Carries(n)
    <2>1. PICK n : n = [Idle EXCEPT !.at = "unlink", !.account = a, !.key = k]
      OBVIOUS
    <2>2. Is(n, "unlink", a, NoSession, 0, NoFlow, k)
      BY <2>1, StartIs DEF Labels
    <2>3. Goes(w, n) /\ At(w, "idle") /\ a \in entered'
      BY <1>10, <2>1, SignedInEntered DEF UnlinkRead, Begins, Steady
    <2>4. Carries(n)
      BY <2>2, <2>3 DEF Is, Carries, Presenting, OfAccount, OfApp
    <2>5. Plain(w, n)
      BY <1>10, <2>2, <2>3 DEF Is, Plain, At, Presenting, Winning
    <2> QED
      BY <2>4, <2>5
  <1>11. ASSUME NEW s \in SessionIds, LogoutFind(w, s)
         PROVE  \E n : Plain(w, n) /\ Carries(n)
    <2>1. PICK n : n = [Idle EXCEPT !.at = "logout", !.session = s]
      OBVIOUS
    <2>2. Is(n, "logout", NoAccount, s, 0, NoFlow, NoKey)
      BY <2>1, StartIs DEF Labels
    <2>3. Goes(w, n) /\ At(w, "idle")
      BY <1>11, <2>1 DEF LogoutFind, Begins
    <2> QED
      BY <2>2, <2>3 DEF Is, Plain, Carries, At, Presenting, Winning, OfAccount, OfEntered, OfApp
  <1> QED
    BY <1>1, <1>2, <1>3, <1>4, <1>5, <1>6, <1>7, <1>8, <1>9, <1>10, <1>11 DEF OnWork, Refreshing

\* A request that presents a token goes on to present it, or ends; one that
\* dies ends.
Presented(w, n) ==
    /\ n \in Work /\ Goes(w, n)
    /\ n.at \in Presenting \cup {"idle"}

LEMMA RefreshMove ==
  ASSUME TypeOK, SessionShapes', Carrying, Steady, NEW w \in Requests, Refreshing(w) \/ Crash(w)
  PROVE  \E n : Presented(w, n) /\ Carries(n)
  <1> DEFINE r == work[w]
  <1>0. r \in Work /\ CarryingOf(r)
    BY DEF TypeOK, Carrying
  <1>1. ASSUME Ends(w)
        PROVE  \E n : Presented(w, n) /\ Carries(n)
    BY <1>1, IdleCarries DEF Presented, Ends
  <1>2. ASSUME NEW label \in {"refresh.rotate", "refresh.reuse"}, Then(w, label),
               r.at \in {"refresh.check", "refresh.rotate"}
        PROVE  \E n : Presented(w, n) /\ Carries(n)
    <2>1. PICK n : n = [r EXCEPT !.at = label]
      OBVIOUS
    <2>2. Is(n, label, r.account, r.session, r.pair, r.flow, r.key)
      BY <1>0, <1>2, <2>1, ThenIs DEF Labels
    <2>3. Goes(w, n)
      BY <1>2, <2>1 DEF Then
    <2>4. r.pair \in Pairs /\ r.pair <= minted /\ r.session \in SessionIds
      BY <1>0, <1>2 DEF CarryingOf, Presenting
    <2>5. minted \in Nat /\ minted' \in Nat /\ minted <= minted' /\ r.pair \in Nat
      BY <1>0, AccountsAssumption DEF TypeOK, Work, SessionShapes, Steady
    <2>6. r.pair <= minted'
      BY <2>4, <2>5
    <2> QED
      BY <1>2, <2>2, <2>3, <2>4, <2>6
      DEF Is, Presented, Carries, Presenting, OfAccount, OfEntered, OfApp
  <1>3. ASSUME NEW p \in Pairs, RefreshFind(w, p)
        PROVE  \E n : Presented(w, n) /\ Carries(n)
    <2> DEFINE match == {s \in SessionIds : Live(s) /\ sessions[s].pair = p}
    <2>1. p <= minted' /\ p \in 0 .. MaxPairs
      <3>1. p <= minted /\ minted' = minted
        BY <1>3 DEF RefreshFind
      <3> QED
        BY <3>1, AccountsAssumption DEF Pairs
    <2>2. CASE match = {}
      <3>1. PICK n : n = [Idle EXCEPT !.at = "refresh.reuse", !.pair = p]
        OBVIOUS
      <3>2. Is(n, "refresh.reuse", NoAccount, NoSession, p, NoFlow, NoKey)
        BY <2>1, <3>1, StartIs DEF Labels
      <3>3. Goes(w, n)
        BY <1>3, <2>2, <3>1 DEF RefreshFind
      <3> QED
        BY <2>1, <3>2, <3>3 DEF Is, Presented, Carries, Presenting, OfAccount, OfEntered, OfApp
    <2>3. CASE match # {}
      <3>1. PICK s \in match : Goes(w, [Idle EXCEPT !.at = "refresh.check", !.pair = p, !.session = s])
        BY <1>3, <2>3 DEF RefreshFind
      <3>2. PICK n : n = [Idle EXCEPT !.at = "refresh.check", !.pair = p, !.session = s]
        OBVIOUS
      <3>3. s \in SessionIds /\ "refresh.check" \in Labels
        BY DEF Labels
      <3>4. Is(n, "refresh.check", NoAccount, s, p, NoFlow, NoKey)
        BY <2>1, <3>2, <3>3, StartIs
      <3> QED
        BY <2>1, <3>1, <3>2, <3>3, <3>4
        DEF Is, Presented, Carries, Presenting, OfAccount, OfEntered, OfApp
    <2> QED
      BY <2>2, <2>3
  <1>4. CASE RefreshAccount(w)
    BY <1>1, <1>2, <1>4 DEF RefreshAccount, At
  <1>5. CASE RefreshLost(w)
    BY <1>2, <1>5 DEF RefreshLost, At
  <1>6. CASE RefreshExpired(w) \/ RefreshRotate(w) \/ RefreshReuse(w) \/ Crash(w)
    BY <1>1, <1>6 DEF RefreshExpired, RefreshRotate, RefreshReuse, Crash
  <1> QED
    BY <1>3, <1>4, <1>5, <1>6 DEF Refreshing

LEMMA StaleIs ==
  ASSUME NEW r \in Work
  PROVE  /\ Is([r EXCEPT !.stale = TRUE], r.at, r.account, r.session, r.pair, r.flow, r.key)
         /\ [r EXCEPT !.stale = TRUE].password = r.password
         /\ [r EXCEPT !.stale = TRUE].stale = TRUE
  BY DEF Work, Is

\* The other requests that are about to unlink an identity of the account learn
\* nothing of it; that they are behind is recorded.
LEMMA UnlinkMove ==
  ASSUME TypeOK, NEW w \in Requests, UnlinkDelete(w)
  PROVE  /\ WorkShapes' /\ work'[w] = Idle
         /\ \A v \in Requests \ {w} :
               /\ Is(work'[v], work[v].at, work[v].account, work[v].session, work[v].pair,
                     work[v].flow, work[v].key)
               /\ work'[v].password = work[v].password
               /\ work'[v] = work[v] \/ (At(v, "unlink") /\ work[v].account = work[w].account
                                         /\ work'[v].stale = TRUE)
               /\ At(v, "unlink") /\ work[v].account = work[w].account => work'[v].stale = TRUE
  <1>1. \A v \in Requests : Is(work[v], work[v].at, work[v].account, work[v].session, work[v].pair,
                               work[v].flow, work[v].key)
    BY DEF TypeOK, Is
  <1>2. ASSUME NEW v \in Requests \ {w}
        PROVE  /\ Is(work'[v], work[v].at, work[v].account, work[v].session, work[v].pair,
                     work[v].flow, work[v].key)
               /\ work'[v].password = work[v].password
               /\ work'[v] = work[v] \/ (At(v, "unlink") /\ work[v].account = work[w].account
                                         /\ work'[v].stale = TRUE)
               /\ At(v, "unlink") /\ work[v].account = work[w].account => work'[v].stale = TRUE
    <2>1. CASE At(v, "unlink") /\ work[v].account = work[w].account
      <3>1. work'[v] = [work[v] EXCEPT !.stale = TRUE]
        BY <2>1 DEF UnlinkDelete
      <3>2. work[v] \in Work
        BY DEF TypeOK
      <3>3. PICK r : r = work[v]
        OBVIOUS
      <3>4. work'[v] = [r EXCEPT !.stale = TRUE]
        BY <3>1, <3>3
      <3> QED
        BY <2>1, <3>2, <3>3, <3>4, StaleIs
    <2>2. CASE ~(At(v, "unlink") /\ work[v].account = work[w].account)
      <3>1. work'[v] = work[v]
        BY <2>2 DEF UnlinkDelete
      <3> QED
        BY <1>1, <2>2, <3>1
    <2> QED
      BY <2>1, <2>2
  <1>3. work'[w] = Idle /\ work' = [v \in Requests |-> work'[v]]
    BY DEF UnlinkDelete
  <1>4. \A v \in Requests : work'[v] \in Work
    BY <1>2, <1>3, IdleCarries DEF Is
  <1>5. WorkShapes'
    BY <1>3, <1>4 DEF WorkShapes
  <1> QED
    BY <1>2, <1>3, <1>5

LEMMA RequestsStep ==
  ASSUME TypeOK, SessionShapes', Carrying, Rooted, Offered, Steady, Next
  PROVE  \/ UNCHANGED work
         \/ \E w \in Requests : \E n : Plain(w, n) /\ Carries(n)
         \/ \E w \in Requests : \E n : Presented(w, n) /\ Carries(n) /\ (Refreshing(w) \/ Crash(w))
         \/ \E w \in Requests : UnlinkDelete(w)
  <1>1. ASSUME NEW w \in Requests, Refreshing(w) \/ Crash(w)
        PROVE  \E n : Presented(w, n) /\ Carries(n)
    BY <1>1, RefreshMove
  <1>2. ASSUME NEW w \in Requests, \/ OnAccounts(w) \/ OnIdentities(w) \/ OnFlows(w)
                                   \/ (OnSessions(w) /\ ~Refreshing(w))
                                   \/ (OnWork(w) /\ ~Refreshing(w))
        PROVE  UNCHANGED work \/ \E n : Plain(w, n) /\ Carries(n)
    BY <1>2, AccountsMove, IdentitiesMove, FlowsMove, SessionsMove, WorkMove
  <1>3. ASSUME NEW p \in Pairs, Lapse(p)
        PROVE  UNCHANGED work
    BY <1>3 DEF Lapse
  <1> QED
    BY <1>1, <1>2, <1>3, StepsByTable

LEMMA CarryingStep ==
  ASSUME TypeOK, SessionShapes', Carrying, Rooted, Offered, Steady, Next
  PROVE  WorkShapes' /\ Carrying'
  <1>1. \A v \in Requests : Carries(work[v])
    BY CarriesOn DEF Carrying
  <1>2. CASE UNCHANGED work
    <2>1. ASSUME NEW v \in Requests
          PROVE  CarryingOf(work[v])'
      <3>1. PICK n : n = work[v]
        OBVIOUS
      <3>2. CarryingOf(n)' /\ work'[v] = n
        BY <1>1, <1>2, <3>1, CarriesNext
      <3> QED
        BY <3>2 DEF CarryingOf, Registered, Exists
    <2> QED
      BY <1>2, <2>1 DEF Carrying, TypeOK, WorkShapes
  <1>3. ASSUME NEW w \in Requests, NEW n, n \in Work, Goes(w, n), Carries(n)
        PROVE  WorkShapes' /\ Carrying'
    <2>1. WorkShapes' /\ work'[w] = n /\ \A v \in Requests \ {w} : work'[v] = work[v]
      BY <1>3, GoesOn, TypeParts
    <2>2. ASSUME NEW v \in Requests
          PROVE  CarryingOf(work[v])'
      <3>1. PICK m : m = work'[v]
        OBVIOUS
      <3>2. Carries(m)
        BY <1>1, <1>3, <2>1, <3>1
      <3>3. CarryingOf(m)'
        BY <3>2, CarriesNext
      <3> QED
        BY <3>1, <3>3 DEF CarryingOf, Registered, Exists
    <2> QED
      BY <2>1, <2>2 DEF Carrying
  <1>4. ASSUME NEW w \in Requests, UnlinkDelete(w)
        PROVE  WorkShapes' /\ Carrying'
    <2>1. ASSUME NEW v \in Requests
          PROVE  CarryingOf(work[v])'
      <3>1. PICK m : m = work'[v]
        OBVIOUS
      <3>2. ASSUME v = w PROVE Carries(m)
        BY <1>4, <3>1, <3>2, UnlinkMove, IdleCarries
      <3>3. ASSUME v # w PROVE Carries(m)
        <4>1. /\ Is(m, work[v].at, work[v].account, work[v].session, work[v].pair,
                    work[v].flow, work[v].key)
              /\ m.password = work[v].password
          BY <1>4, <3>1, <3>3, UnlinkMove
        <4> QED
          BY <1>1, <4>1 DEF Is, Carries
      <3>4. Carries(m)
        BY <3>2, <3>3
      <3>5. CarryingOf(m)'
        BY <3>4, CarriesNext
      <3> QED
        BY <3>1, <3>5 DEF CarryingOf, Registered, Exists
    <2> QED
      BY <1>4, <2>1, UnlinkMove DEF Carrying
  <1> QED
    BY <1>2, <1>3, <1>4, RequestsStep DEF Plain, Presented

-----------------------------------------------------------------------------
(***************************************************************************)
(* What the rows have in common                                            *)
(***************************************************************************)
LEMMA RootedStep ==
  ASSUME TypeOK, Carrying, Rooted, Offered, Steady, Next
  PROVE  Rooted'
  <1>1. /\ \A a \in AccountIds : accounts'[a].password > 0 => a \in entered'
        /\ \A a \in AccountIds : accounts'[a].status = "deleted" => accounts'[a].closed
        /\ \A a \in AccountIds : accounts'[a].closed => accounts'[a].status # "none"
        /\ \A a \in entered' : accounts'[a].status # "none"
        /\ \A k \in Keys : identities'[k] # NoAccount => Remains(identities'[k])
        /\ \A k \in Subjects : identities'[k] # NoAccount => identities'[k] \in entered'
    <2>1. CASE UNCHANGED TheAccounts
      BY <2>1 DEF TheAccounts, Rooted, Exists, Registered, Remains
    <2>2. ASSUME NEW a \in AccountIds, AccountChange(a)
          PROVE  <1>1!1 /\ <1>1!2 /\ <1>1!3 /\ <1>1!4 /\ <1>1!5 /\ <1>1!6
      BY <2>2 DEF AccountChange, Rooted, Exists, Registered, Remains, TypeOK
    <2>3. ASSUME NEW w \in Requests, NEW a \in AccountIds, NEW k \in Keys, OnIdentities(w),
                 IdentityChange(w, a, k)
          PROVE  <1>1!1 /\ <1>1!2 /\ <1>1!3 /\ <1>1!4 /\ <1>1!5 /\ <1>1!6
      <3>1. /\ accounts' = accounts /\ Registered(a)
            /\ entered' = IF k \in Subjects THEN entered \cup {a} ELSE entered
            /\ \A j \in Keys : identities'[j] = IF j = k THEN a ELSE identities[j]
        BY <2>3 DEF IdentityChange, CreateIdentity, TypeOK
      <3> QED
        BY <3>1 DEF Rooted, Exists, Registered, Remains, Keys
    <2>4. ASSUME NEW w \in Requests, UnlinkDelete(w)
          PROVE  <1>1!1 /\ <1>1!2 /\ <1>1!3 /\ <1>1!4 /\ <1>1!5 /\ <1>1!6
      <3>1. /\ accounts' = accounts /\ entered' = entered
            /\ \A j \in Keys : identities'[j] \in {NoAccount, identities[j]}
        BY <2>4 DEF UnlinkDelete, TypeOK
      <3> QED
        BY <3>1 DEF Rooted, Exists, Registered, Remains, Keys
    <2> QED
      BY <2>1, <2>2, <2>3, <2>4, AccountsStep
  <1>2. \A s \in SessionIds : sessions'[s].pair > 0 => sessions'[s].account \in entered'
    <2>0. \A s \in SessionIds : sessions[s].pair > 0 => sessions[s].account \in entered'
      BY DEF Rooted, Steady
    <2>1. ASSUME NEW w \in Requests, \/ OnAccounts(w) \/ OnIdentities(w) \/ UnlinkDelete(w)
                                     \/ OnFlows(w) \/ OnWork(w) \/ Crash(w)
          PROVE  sessions' = sessions
      BY <2>1, Untouched DEF TheSessions
    <2>2. ASSUME NEW p \in Pairs, Lapse(p)
          PROVE  sessions' = sessions
      BY <2>2 DEF Lapse
    <2>3. ASSUME NEW w \in Requests, NEW s \in SessionIds, Mint(w, s)
          PROVE  <1>2
      <3>1. work[w].account \in entered'
        BY <2>3 DEF Mint, At, Carrying, CarryingOf, OfEntered, Steady
      <3>2. Opened(w, s)
        BY <2>3, MintDoes
      <3> QED
        BY <2>0, <3>1, <3>2 DEF Opened
    <2>4. ASSUME NEW w \in Requests, Revoking(w) \/ RefreshExpired(w) \/ RefreshReuse(w)
          PROVE  <1>2
      <3>1. \E S, reason : Ended(S, reason)
        BY <2>4, RevokingDoes, RevokeDoes DEF RefreshExpired, RefreshReuse, Reasons
      <3> QED
        BY <2>0, <3>1 DEF Ended, Kept
    <2>5. ASSUME NEW w \in Requests, RefreshRotate(w)
          PROVE  <1>2
      <3>1. work[w].session \in SessionIds /\ work[w].pair \in Pairs
        BY <2>5 DEF RefreshRotate, At, Carrying, CarryingOf, Presenting
      <3>2. Rotated(work[w].session, work[w].pair)
        BY <2>5, <3>1, RotateDoes DEF RefreshRotate
      <3> QED
        BY <2>0, <3>1, <3>2 DEF Rotated, Live
    <2>6. ASSUME NEW w \in Requests, NEW p \in Pairs, RefreshFind(w, p)
          PROVE  sessions' = sessions
      BY <2>6 DEF RefreshFind
    <2> QED
      BY <2>0, <2>1, <2>2, <2>3, <2>4, <2>5, <2>6, StepsByTable DEF OnSessions
  <1> QED
    BY <1>1, <1>2 DEF Rooted, Registered, Remains, Exists

LEMMA OfferedStep ==
  ASSUME TypeOK, Carrying, Rooted, Offered, Steady, Next
  PROVE  FlowShapes' /\ Offered'
  <1>1. \A a : Registered(a) => Remains(a)
    BY DEF Registered, Steady, Remains
  <1>2. ASSUME NEW f \in FlowIds
        PROVE  /\ flows'[f].kind \in {"email_verify", "password_reset", "link_challenge"}
                     => Remains(flows'[f].account)
               /\ flows'[f].kind = "link_challenge" => flows'[f].key \in Subjects
               /\ flows'[f].result # "none"
                     => flows'[f].kind = "app_login" /\ flows'[f].account \in entered'
    <2>1. CASE flows'[f] = flows[f]
      BY <1>1, <2>1 DEF Offered, Steady
    <2>2. ASSUME NEW w \in Requests, FlowChange(w, f)
          PROVE  <1>2!2
      BY <1>1, <2>2 DEF FlowChange, Offered, Steady, Registered, Remains
    <2> QED
      BY <2>1, <2>2, FlowsStep DEF FlowChange
  <1>3. FlowShapes'
    BY FlowsStep DEF FlowChange, FlowShapes, TypeOK
  <1> QED
    BY <1>2, <1>3 DEF Offered, Registered, Remains, Exists

-----------------------------------------------------------------------------
(***************************************************************************)
(* The steps as sessions see them                                          *)
(***************************************************************************)
\* The requests that present a token stay where they are, and no other comes.
Quiet ==
    \A v \in Requests :
        work[v].at \in Presenting \/ work'[v].at \in Presenting => work'[v] = work[v]

SessionState == <<sessions, spent, minted, uses>>

LEMMA QuietMoves ==
  ASSUME TypeOK, NEW w \in Requests,
         UNCHANGED work \/ (\E n : Plain(w, n)) \/ UnlinkDelete(w)
  PROVE  Quiet
  <1>1. CASE UNCHANGED work
    BY <1>1 DEF Quiet
  <1>2. ASSUME NEW n, Plain(w, n)
        PROVE  Quiet
    BY <1>2, GoesOn, TypeParts DEF Plain, Quiet
  <1>3. CASE UnlinkDelete(w)
    <2>1. work[w].at = "unlink" /\ work'[w].at = "idle"
      BY <1>3, UnlinkMove, IdleCarries DEF UnlinkDelete, At
    <2>2. ASSUME NEW v \in Requests \ {w}
          PROVE  work'[v].at = work[v].at /\ (work'[v] = work[v] \/ work[v].at = "unlink")
      BY <1>3, UnlinkMove DEF Is, At
    <2> QED
      BY <2>1, <2>2 DEF Quiet, Presenting
  <1> QED
    BY <1>1, <1>2, <1>3

LEMMA SessionsStep ==
  ASSUME TypeOK, SessionShapes', Carrying, Rooted, Offered, Steady, Next
  PROVE  \/ Quiet /\ UNCHANGED <<SessionState, crashes>>
         \/ Quiet /\ \E w \in Requests, s \in SessionIds : Mint(w, s)
         \/ Quiet /\ \E w \in Requests : Revoking(w)
         \/ \E w \in Requests : Refreshing(w)
         \/ \E w \in Requests : Crash(w)
  <1>1. ASSUME NEW w \in Requests, OnAccounts(w) \/ OnIdentities(w) \/ UnlinkDelete(w) \/ OnFlows(w)
        PROVE  Quiet /\ UNCHANGED <<SessionState, crashes>>
    BY <1>1, Untouched, AccountsMove, IdentitiesMove, FlowsMove, QuietMoves
    DEF TheSessions, SessionState
  <1>2. ASSUME NEW w \in Requests, OnWork(w), ~Refreshing(w)
        PROVE  Quiet /\ UNCHANGED <<SessionState, crashes>>
    BY <1>2, Untouched, WorkMove, QuietMoves DEF TheSessions, SessionState
  <1>3. ASSUME NEW w \in Requests, OnSessions(w), ~Refreshing(w)
        PROVE  Quiet /\ (Revoking(w) \/ \E s \in SessionIds : Mint(w, s))
    BY <1>3, SessionsMove, QuietMoves DEF OnSessions, Refreshing
  <1>4. ASSUME NEW p \in Pairs, Lapse(p)
        PROVE  (\A v \in Requests : work'[v] = work[v]) /\ UNCHANGED <<SessionState, crashes>>
    BY <1>4 DEF Lapse, SessionState
  <1> QED
    BY <1>1, <1>2, <1>3, <1>4, StepsByTable DEF Quiet

\* Only requests that present a token have one.
LEMMA QuietPairs ==
  ASSUME Carrying, Carrying', Quiet
  PROVE  \A v \in Requests : /\ work'[v].pair = work[v].pair
                             /\ work'[v].at \in Presenting => work'[v] = work[v]
  BY DEF Carrying, CarryingOf, Quiet


Others(w) == \A v \in Requests \ {w} : work'[v] = work[v]

\* What the steps of a refresh come to.
Finds(w, p) ==
    /\ p \in Pairs /\ p <= minted
    /\ work[w].pair = 0 /\ work'[w].pair = p
    /\ \/ /\ work'[w].at = "refresh.reuse"
          /\ \A s \in SessionIds : sessions[s].pair = p => ~Live(s)
       \/ /\ work'[w].at = "refresh.check"
          /\ work'[w].session \in SessionIds /\ sessions[work'[w].session].pair = p
    /\ uses'[p] = uses[p] + 1
    /\ \A q \in Pairs \ {p} : uses'[q] = uses[q]
    /\ UNCHANGED <<sessions, spent, minted, crashes>>

GoesToRotate(w) ==
    /\ work[w].at = "refresh.check"
    /\ work'[w].at = "refresh.rotate" /\ work'[w].pair = work[w].pair
    /\ work'[w].session = work[w].session
    /\ UNCHANGED <<SessionState, crashes>>

Loses(w) ==
    /\ work[w].at = "refresh.rotate"
    /\ work'[w].at = "refresh.reuse" /\ work'[w].pair = work[w].pair
    /\ ~(Live(work[w].session) /\ sessions[work[w].session].pair = work[w].pair)
    /\ UNCHANGED <<SessionState, crashes>>

Leaves(w) ==
    /\ work[w].at = "refresh.check" /\ work'[w] = Idle
    /\ \/ Ended({work[w].session}, "refresh_expired")
       \/ UNCHANGED sessions /\ ~Usable(sessions[work[w].session].account)
    /\ UNCHANGED <<spent, minted, uses, crashes>>

Rotates(w) ==
    /\ work[w].at = "refresh.rotate" /\ work'[w] = Idle
    /\ Rotated(work[w].session, work[w].pair)
    /\ UNCHANGED <<uses, crashes>>

FindsOut(w) ==
    /\ work[w].at = "refresh.reuse" /\ work'[w] = Idle
    /\ Ended({spent[work[w].pair]}, "refresh_reuse")
    /\ UNCHANGED <<spent, minted, uses, crashes>>

LEMMA RefreshingDoes ==
  ASSUME TypeOK, Carrying, NEW w \in Requests, Refreshing(w)
  PROVE  /\ Others(w)
         /\ \/ \E p \in Pairs : Finds(w, p)
            \/ GoesToRotate(w) \/ Loses(w) \/ Leaves(w) \/ Rotates(w) \/ FindsOut(w)
  <1> DEFINE r == work[w]
  <1>0. r \in Work /\ CarryingOf(r) /\ Idle \in Work
    BY IdleCarries DEF TypeOK, Carrying
  <1>1. ASSUME NEW n \in Work, Goes(w, n)
        PROVE  work'[w] = n /\ Others(w)
    BY <1>1, GoesOn, TypeParts DEF Others
  <1>2. ASSUME NEW p \in Pairs, RefreshFind(w, p)
        PROVE  Others(w) /\ Finds(w, p)
    <2> DEFINE match == {s \in SessionIds : Live(s) /\ sessions[s].pair = p}
    <2>1. /\ p <= minted /\ p \in 0 .. MaxPairs /\ r.pair = 0
          /\ UNCHANGED <<sessions, spent, minted, crashes>>
      <3>1. p <= minted /\ r.at = "idle" /\ UNCHANGED <<sessions, spent, minted, crashes>>
        BY <1>2 DEF RefreshFind, Begins, At
      <3>2. p \in 0 .. MaxPairs
        BY AccountsAssumption DEF Pairs
      <3>3. r.pair = 0
        BY <1>0, <3>1 DEF CarryingOf, Presenting
      <3> QED
        BY <3>1, <3>2, <3>3
    <2>2. uses'[p] = uses[p] + 1 /\ \A q \in Pairs \ {p} : uses'[q] = uses[q]
      <3>1. uses' = [uses EXCEPT ![p] = uses[p] + 1]
        BY <1>2 DEF RefreshFind, TypeOK
      <3> QED
        BY <3>1 DEF TypeOK
    <2>3. CASE match = {}
      <3>1. PICK n : n = [Idle EXCEPT !.at = "refresh.reuse", !.pair = p]
        OBVIOUS
      <3>2. Is(n, "refresh.reuse", NoAccount, NoSession, p, NoFlow, NoKey)
        BY <2>1, <3>1, StartIs DEF Labels
      <3>3. Goes(w, n)
        BY <1>2, <2>3, <3>1 DEF RefreshFind
      <3>4. work'[w] = n /\ Others(w)
        BY <1>1, <3>2, <3>3 DEF Is
      <3> QED
        BY <2>1, <2>2, <2>3, <3>2, <3>4 DEF Finds, Is
    <2>4. CASE match # {}
      <3>1. PICK s \in match : Goes(w, [Idle EXCEPT !.at = "refresh.check", !.pair = p, !.session = s])
        BY <1>2, <2>4 DEF RefreshFind
      <3>2. PICK n : n = [Idle EXCEPT !.at = "refresh.check", !.pair = p, !.session = s]
        OBVIOUS
      <3>3. s \in SessionIds /\ "refresh.check" \in Labels /\ sessions[s].pair = p
        BY DEF Labels
      <3>4. Is(n, "refresh.check", NoAccount, s, p, NoFlow, NoKey)
        BY <2>1, <3>2, <3>3, StartIs
      <3>5. work'[w] = n /\ Others(w)
        BY <1>1, <3>1, <3>2, <3>4 DEF Is
      <3> QED
        BY <2>1, <2>2, <3>3, <3>4, <3>5 DEF Finds, Is
    <2> QED
      BY <2>3, <2>4
  <1>3. ASSUME NEW label \in {"refresh.rotate", "refresh.reuse"}, Then(w, label)
        PROVE  /\ Others(w) /\ work'[w].at = label /\ work'[w].pair = r.pair
               /\ work'[w].session = r.session
    <2>1. PICK n : n = [r EXCEPT !.at = label]
      OBVIOUS
    <2>2. Is(n, label, r.account, r.session, r.pair, r.flow, r.key)
      BY <1>0, <1>3, <2>1, ThenIs DEF Labels
    <2>3. Goes(w, n)
      BY <1>3, <2>1 DEF Then
    <2> QED
      BY <1>1, <2>2, <2>3 DEF Is
  <1>4. Ends(w) => work'[w] = Idle /\ Others(w)
    BY <1>0, <1>1 DEF Ends
  <1>5. CASE RefreshAccount(w)
    <2>1. CASE Usable(sessions[r.session].account)
      BY <1>3, <1>5, <2>1 DEF RefreshAccount, GoesToRotate, At, TheSessions, SessionState
    <2>2. CASE ~Usable(sessions[r.session].account)
      BY <1>4, <1>5, <2>2 DEF RefreshAccount, Leaves, At, TheSessions
    <2> QED
      BY <2>1, <2>2
  <1>6. CASE RefreshLost(w)
    BY <1>3, <1>6 DEF RefreshLost, Loses, At, TheSessions, SessionState
  <1>7. CASE RefreshExpired(w)
    BY <1>4, <1>7, RevokeDoes DEF RefreshExpired, Leaves, At, Reasons
  <1>8. CASE RefreshRotate(w)
    <2>1. r.session \in SessionIds /\ r.pair \in Pairs
      BY <1>0, <1>8 DEF RefreshRotate, At, CarryingOf, Presenting
    <2> QED
      BY <1>4, <1>8, <2>1, RotateDoes DEF RefreshRotate, Rotates, At
  <1>9. CASE RefreshReuse(w)
    BY <1>4, <1>9, RevokeDoes DEF RefreshReuse, FindsOut, At, Reasons
  <1> QED
    BY <1>2, <1>5, <1>6, <1>7, <1>8, <1>9 DEF Refreshing

-----------------------------------------------------------------------------
(***************************************************************************)
(* The invariants of refresh tokens                                        *)
(***************************************************************************)
Silent == Quiet /\ UNCHANGED <<SessionState, crashes>>

Opens(w, s) == Quiet /\ Opened(w, s) /\ UNCHANGED <<spent, uses, crashes>>

Revokes(S, reason) ==
    /\ Quiet /\ Ended(S, reason) /\ reason \in Reasons \ {"refresh_reuse"}
    /\ UNCHANGED <<spent, minted, uses, crashes>>

Dies(w) == Others(w) /\ work'[w] = Idle /\ crashes' > 0 /\ UNCHANGED SessionState

RefreshesTo(w) ==
    /\ Others(w)
    /\ \/ \E p \in Pairs : Finds(w, p)
       \/ GoesToRotate(w) \/ Loses(w) \/ Leaves(w) \/ Rotates(w) \/ FindsOut(w)

TokensMove ==
    \/ Silent
    \/ \E w \in Requests, s \in SessionIds : Opens(w, s)
    \/ \E S, reason : Revokes(S, reason)
    \/ \E w \in Requests : RefreshesTo(w) \/ Dies(w)

LEMMA TokensStep ==
  ASSUME TypeOK, SessionShapes', Carrying, Rooted, Offered, Steady, Next
  PROVE  TokensMove
  <1>1. ASSUME Quiet, NEW w \in Requests, NEW s \in SessionIds, Mint(w, s)
        PROVE  Opens(w, s)
    <2>1. UNCHANGED <<spent, uses, crashes>>
      BY <1>1 DEF Mint
    <2> QED
      BY <1>1, <2>1, MintDoes DEF Opens
  <1>2. ASSUME Quiet, NEW w \in Requests, Revoking(w)
        PROVE  \E S, reason : Revokes(S, reason)
    <2>1. UNCHANGED <<spent, minted, uses, crashes>>
      BY <1>2 DEF Revoking, ResetRevoke, ChangeRevoke, Logout, DeleteRevoke, RevokeAll
    <2> QED
      BY <1>2, <2>1, RevokingDoes DEF Revokes
  <1>3. ASSUME NEW w \in Requests, Crash(w)
        PROVE  Dies(w)
    <2>1. UNCHANGED SessionState /\ crashes' = crashes + 1 /\ Goes(w, Idle)
      BY <1>3 DEF Crash, Ends, TheSessions, SessionState
    <2>2. work'[w] = Idle /\ Others(w)
      BY <2>1, GoesOn, TypeParts, IdleCarries DEF Others
    <2> QED
      BY <2>1, <2>2, AccountsAssumption DEF Dies, TypeOK
  <1>4. ASSUME NEW w \in Requests, Refreshing(w)
        PROVE  RefreshesTo(w)
    BY <1>4, RefreshingDoes DEF RefreshesTo
  <1> QED
    BY <1>1, <1>2, <1>3, <1>4, SessionsStep DEF TokensMove, Silent

\* What the next proofs take from the shape of a state.
LEMMA SessionFacts ==
  ASSUME TypeOK, Carrying
  PROVE  /\ minted \in Nat
         /\ \A s \in SessionIds : sessions[s].pair \in Nat
         /\ \A p \in Pairs : p \in Nat /\ p > 0 /\ uses[p] \in Nat
                             /\ spent[p] \in SessionIds \cup {NoSession}
         /\ NoSession \notin SessionIds
         /\ \A w \in Requests :
               /\ IF work[w].at \in Presenting THEN work[w].pair \in Pairs /\ work[w].pair <= minted
                                               ELSE work[w].pair = 0
               /\ work[w].at \in {"refresh.check", "refresh.rotate"} => work[w].session \in SessionIds
  <1>1. /\ minted \in 0 .. MaxPairs
        /\ \A s \in SessionIds : sessions[s].pair \in 0 .. MaxPairs
        /\ \A p \in Pairs : /\ p \in 1 .. MaxPairs /\ uses[p] \in 0 .. MaxUses
                            /\ spent[p] \in SessionIds \cup {NoSession}
    BY DEF TypeOK, Session, Pairs
  <1>2. \A w \in Requests : CarryingOf(work[w])
    BY DEF Carrying
  <1> QED
    BY <1>1, <1>2, AccountsAssumption DEF CarryingOf

LEMMA PairedStep ==
  ASSUME TypeOK, Carrying, Paired, TokensMove
  PROVE  Paired'
  <1>0. /\ minted \in Nat
        /\ \A s \in SessionIds : sessions[s].pair \in Nat
        /\ \A p \in Pairs : p \in Nat /\ p > 0 /\ uses[p] \in Nat
                            /\ spent[p] \in SessionIds \cup {NoSession}
        /\ NoSession \notin SessionIds
    BY SessionFacts
  <1>1. CASE Silent \/ \E w \in Requests : GoesToRotate(w) \/ Loses(w) \/ Dies(w)
    BY <1>1 DEF Silent, GoesToRotate, Loses, Dies, SessionState, Paired
  <1>2. ASSUME NEW w \in Requests, NEW s \in SessionIds, Opens(w, s)
        PROVE  Paired'
    BY <1>0, <1>2 DEF Opens, Opened, Paired
  <1>3. ASSUME NEW S, NEW reason \in Reasons, Ended(S, reason), UNCHANGED <<spent, minted, uses>>
        PROVE  Paired'
    BY <1>0, <1>3 DEF Ended, Kept, Live, Paired
  <1>4. ASSUME NEW w \in Requests, NEW p \in Pairs, Finds(w, p)
        PROVE  Paired'
    BY <1>0, <1>4 DEF Finds, Paired
  <1>5. ASSUME NEW w \in Requests, Rotates(w)
        PROVE  Paired'
    <2> DEFINE s == work[w].session
               p == work[w].pair
    <2>1. s \in SessionIds /\ p \in Pairs /\ p <= minted /\ Rotated(s, p) /\ UNCHANGED uses
      BY <1>5, SessionFacts DEF Rotates, Presenting
    <2> HIDE DEF s, p
    <2>2. spent[p] = NoSession /\ \A t \in SessionIds \ {s} : sessions[t].pair # p
      BY <1>0, <2>1 DEF Rotated, Paired, Live
    <2> QED
      BY <1>0, <2>1, <2>2 DEF Rotated, Paired, Live
  <1>6. ASSUME NEW w \in Requests, Leaves(w)
        PROVE  Paired'
    BY <1>1, <1>3, <1>6 DEF Leaves, Reasons, Paired
  <1>7. ASSUME NEW w \in Requests, FindsOut(w)
        PROVE  Paired'
    BY <1>3, <1>7 DEF FindsOut, Reasons
  <1> QED
    BY <1>1, <1>2, <1>3, <1>4, <1>5, <1>6, <1>7 DEF TokensMove, RefreshesTo, Revokes

LEMMA CountedStep ==
  ASSUME TypeOK, Carrying, Carrying', Paired, Counted, TokensMove
  PROVE  Counted'
  <1>0. /\ minted \in Nat
        /\ \A p \in Pairs : p \in Nat /\ p > 0 /\ uses[p] \in Nat
        /\ NoSession \notin SessionIds
        /\ \A v \in Requests : work[v].pair = 0 \/ work[v].pair \in Pairs
        /\ Idle.pair = 0
    BY SessionFacts, IdleCarries
  <1>1. ASSUME UNCHANGED <<spent, uses>>, \A v \in Requests : work'[v].pair \in {0, work[v].pair}
        PROVE  Counted'
    BY <1>1 DEF Counted
  <1>2. ASSUME Quiet, UNCHANGED <<spent, uses>>
        PROVE  Counted'
    BY <1>1, <1>2, QuietPairs
  <1>3. ASSUME NEW w \in Requests, Others(w), UNCHANGED <<spent, uses>>,
               work'[w] = Idle \/ work'[w].pair = work[w].pair
        PROVE  Counted'
    <2>1. \A v \in Requests : work'[v].pair \in {0, work[v].pair}
      BY <1>0, <1>3 DEF Others
    <2> QED
      BY <1>1, <1>3, <2>1
  <1>4. ASSUME NEW w \in Requests, Others(w), NEW p \in Pairs, Finds(w, p)
        PROVE  Counted'
    <2>1. /\ \A v \in Requests \ {w} : work'[v].pair = work[v].pair
          /\ work[w].pair = 0 /\ work'[w].pair = p /\ UNCHANGED spent
          /\ uses'[p] = uses[p] + 1 /\ \A q \in Pairs \ {p} : uses'[q] = uses[q]
      BY <1>4 DEF Others, Finds
    <2> QED
      BY <1>0, <2>1 DEF Counted
  <1>5. ASSUME NEW w \in Requests, Others(w), Rotates(w)
        PROVE  Counted'
    <2> DEFINE s == work[w].session
               p == work[w].pair
    <2>1. /\ p \in Pairs /\ UNCHANGED uses
          /\ \A q \in Pairs : spent'[q] = IF q = p /\ spent[p] = NoSession THEN s ELSE spent[q]
          /\ \A v \in Requests \ {w} : work'[v].pair = work[v].pair
          /\ work'[w].pair = 0
      BY <1>0, <1>5, SessionFacts DEF Rotates, Rotated, Presenting, Others
    <2>2. uses[p] > 0
      BY <1>0, <2>1 DEF Counted
    <2>3. \A v \in Requests \ {w} : work[v].pair = p => uses[p] > 1
      BY <1>0, <2>1 DEF Counted
    <2> HIDE DEF s, p
    <2>4. \A v \in Requests : work'[v].pair # 0 => v # w /\ work[v].pair = work'[v].pair
      BY <2>1
    <2> QED
      BY <1>0, <2>1, <2>2, <2>3, <2>4 DEF Counted
  <1>6. ASSUME NEW w \in Requests, RefreshesTo(w)
        PROVE  Counted'
    BY <1>3, <1>4, <1>5, <1>6 DEF RefreshesTo, GoesToRotate, Loses, Leaves, FindsOut, SessionState
  <1>7. ASSUME NEW w \in Requests, Dies(w)
        PROVE  Counted'
    BY <1>3, <1>7 DEF Dies, SessionState
  <1> QED
    BY <1>2, <1>6, <1>7 DEF TokensMove, Silent, Opens, Revokes, SessionState

LEMMA FoundStep ==
  ASSUME TypeOK, Carrying, Carrying', Paired, Found, TokensMove
  PROVE  Found'
  <1> DEFINE FoundBy(r) ==
               /\ r.at \in {"refresh.check", "refresh.rotate"} =>
                     sessions[r.session].pair = r.pair \/ spent[r.pair] = r.session
               /\ r.at = "refresh.reuse" =>
                     \A s \in SessionIds : sessions[s].pair = r.pair => ~Live(s)
             StaysFound(r) ==
               /\ r.at \in {"refresh.check", "refresh.rotate"} =>
                     sessions'[r.session].pair = r.pair \/ spent'[r.pair] = r.session
               /\ r.at = "refresh.reuse" =>
                     \A s \in SessionIds : sessions'[s].pair = r.pair =>
                        ~(sessions'[s].pair > 0 /\ sessions'[s].revoked = "no")
  <1>0. /\ minted \in Nat
        /\ \A p \in Pairs : p \in Nat /\ p > 0
        /\ NoSession \notin SessionIds
        /\ \A v \in Requests :
              /\ work[v].at \in Presenting => work[v].pair \in Pairs /\ work[v].pair <= minted
              /\ work[v].at \in {"refresh.check", "refresh.rotate"} => work[v].session \in SessionIds
        /\ Idle.at = "idle"
    BY SessionFacts, IdleCarries
  <1>1. \A v \in Requests : FoundBy(work[v])
    BY DEF Found, At
  <1>2. ASSUME \A v \in Requests : StaysFound(work'[v])
        PROVE  Found'
    BY <1>2 DEF Found, At, Live
  <1>3. StaysFound(Idle)
    BY <1>0
  <1>4. ASSUME UNCHANGED spent,
               UNCHANGED sessions \/ \E S, reason : reason \in Reasons /\ Ended(S, reason)
        PROVE  \A v \in Requests : StaysFound(work[v])
    <2>1. /\ \A s \in SessionIds : sessions'[s].pair = sessions[s].pair
          /\ \A s \in SessionIds : sessions'[s].revoked = "no" => sessions[s].revoked = "no"
      BY <1>4 DEF Ended, Kept, Reasons
    <2> QED
      BY <1>0, <1>1, <1>4, <2>1 DEF Live
  <1>5. ASSUME Quiet, \A v \in Requests : StaysFound(work[v])
        PROVE  Found'
    <2>1. \A v \in Requests : work'[v] = work[v] \/ work'[v].at \notin Presenting
      BY <1>5 DEF Quiet
    <2>2. \A v \in Requests : StaysFound(work'[v])
      BY <1>5, <2>1 DEF Presenting
    <2> QED
      BY <1>2, <2>2
  <1>6. ASSUME NEW w \in Requests, Others(w), StaysFound(work'[w]),
               \A v \in Requests \ {w} : StaysFound(work[v])
        PROVE  Found'
    BY <1>2, <1>6 DEF Others
  <1>7. ASSUME NEW w \in Requests, NEW s \in SessionIds, Opens(w, s)
        PROVE  Found'
    <2>1. /\ \A t \in SessionIds \ {s} : sessions'[t] = sessions[t]
          /\ sessions[s].pair = 0 /\ sessions'[s].pair = minted + 1 /\ UNCHANGED spent
      BY <1>7 DEF Opens, Opened
    <2>2. ASSUME NEW v \in Requests
          PROVE  StaysFound(work[v])
      BY <1>0, <1>1, <2>1 DEF Live, Presenting
    <2> QED
      BY <1>5, <1>7, <2>2 DEF Opens
  <1>8. ASSUME NEW w \in Requests, Others(w), NEW p \in Pairs, Finds(w, p)
        PROVE  Found'
    <2>1. StaysFound(work'[w])
      BY <1>8 DEF Finds, Live
    <2> QED
      BY <1>4, <1>6, <1>8, <2>1 DEF Finds
  <1>9. ASSUME NEW w \in Requests, Others(w), GoesToRotate(w) \/ Loses(w)
        PROVE  Found'
    <2>1. UNCHANGED <<sessions, spent>> /\ work'[w].pair = work[w].pair
      BY <1>9 DEF GoesToRotate, Loses, SessionState
    <2>2. ASSUME GoesToRotate(w)
          PROVE  StaysFound(work'[w])
      BY <1>1, <2>1, <2>2 DEF GoesToRotate
    <2>3. ASSUME Loses(w)
          PROVE  StaysFound(work'[w])
      <3>1. \A s \in SessionIds : sessions[s].pair = work[w].pair => ~Live(s)
        BY <1>0, <1>1, <2>3 DEF Loses, Paired, Live, Presenting
      <3> QED
        BY <2>1, <2>3, <3>1 DEF Loses, Live
    <2>4. StaysFound(work'[w])
      BY <1>9, <2>2, <2>3
    <2> QED
      BY <1>4, <1>6, <1>9, <2>1, <2>4
  <1>10. ASSUME NEW w \in Requests, Others(w), Leaves(w) \/ FindsOut(w) \/ Dies(w)
         PROVE  Found'
    <2>1. UNCHANGED spent /\ (UNCHANGED sessions \/ \E S, reason : reason \in Reasons /\ Ended(S, reason))
      BY <1>10 DEF Leaves, FindsOut, Dies, SessionState, Reasons
    <2>2. StaysFound(work'[w])
      BY <1>3, <1>10 DEF Leaves, FindsOut, Dies
    <2> QED
      BY <1>4, <1>6, <1>10, <2>1, <2>2
  <1>11. ASSUME NEW w \in Requests, Others(w), Rotates(w)
         PROVE  Found'
    <2> DEFINE s == work[w].session
               p == work[w].pair
    <2>1. s \in SessionIds /\ p \in Pairs /\ Rotated(s, p) /\ work'[w] = Idle
      BY <1>0, <1>11 DEF Rotates, Presenting
    <2>2. spent[p] = NoSession
      BY <1>0, <2>1 DEF Rotated, Paired
    <2> HIDE DEF s, p
    <2>3. /\ \A t \in SessionIds \ {s} : sessions'[t] = sessions[t]
          /\ sessions[s].pair = p /\ sessions'[s].pair = minted + 1
          /\ spent'[p] = s /\ \A q \in Pairs \ {p} : spent'[q] = spent[q]
      BY <2>1, <2>2 DEF Rotated
    <2>4. ASSUME NEW v \in Requests
          PROVE  StaysFound(work[v])
      BY <1>0, <1>1, <2>1, <2>2, <2>3 DEF Live, Presenting
    <2> QED
      BY <1>3, <1>6, <1>11, <2>1, <2>4
  <1>12. CASE Silent \/ \E S, reason : Revokes(S, reason)
    <2>1. Quiet /\ UNCHANGED spent
          /\ (UNCHANGED sessions \/ \E S, reason : reason \in Reasons /\ Ended(S, reason))
      BY <1>12 DEF Silent, Revokes, SessionState
    <2> QED
      BY <1>4, <1>5, <2>1
  <1> HIDE DEF FoundBy, StaysFound
  <1> QED
    BY <1>7, <1>8, <1>9, <1>10, <1>11, <1>12 DEF TokensMove, RefreshesTo, Dies

\* A session that stands after a step stood before it, or is opened by it.
LEMMA StoodBefore ==
  ASSUME TypeOK, RestShapes', Carrying, Rooted, Steady, TokensMove,
         NEW s \in SessionIds, Standing(s)'
  PROVE  Standing(s) \/ \E w \in Requests : Opens(w, s)
  <1>0. Live(s)' /\ ~accounts'[sessions'[s].account].closed /\ crashes' = 0
    BY DEF Standing
  <1>1. ASSUME sessions'[s].account = sessions[s].account, Live(s), crashes' = crashes
        PROVE  Standing(s)
    <2>1. sessions[s].account \in AccountIds
      BY <1>1 DEF Rooted, Live, TypeOK
    <2> QED
      BY <1>0, <1>1, <2>1 DEF Standing, Steady
  <1>2. ASSUME UNCHANGED <<sessions, crashes>>
        PROVE  Standing(s)
    BY <1>0, <1>1, <1>2 DEF Live
  <1>3. ASSUME NEW S, NEW reason \in Reasons, Ended(S, reason), UNCHANGED crashes
        PROVE  Standing(s)
    <2>1. Live(s) /\ sessions'[s].account = sessions[s].account
      BY <1>0, <1>3 DEF Live, Ended, Kept, Reasons
    <2> QED
      BY <1>1, <1>3, <2>1
  <1>4. ASSUME NEW w \in Requests, NEW t \in SessionIds, Opens(w, t)
        PROVE  Standing(s) \/ Opens(w, s)
    <2>1. CASE s # t
      <3>1. sessions'[s] = sessions[s] /\ UNCHANGED crashes
        BY <1>4, <2>1 DEF Opens, Opened
      <3> QED
        BY <1>0, <1>1, <3>1 DEF Live
    <2> QED
      BY <1>4, <2>1
  <1>5. ASSUME NEW w \in Requests, Rotates(w)
        PROVE  Standing(s)
    <2>1. Live(s) /\ sessions'[s].account = sessions[s].account /\ UNCHANGED crashes
      BY <1>0, <1>5 DEF Rotates, Rotated, Live
    <2> QED
      BY <1>1, <2>1
  <1>6. ASSUME NEW w \in Requests, RefreshesTo(w)
        PROVE  Standing(s)
    BY <1>2, <1>3, <1>5, <1>6 DEF RefreshesTo, Finds, GoesToRotate, Loses, Leaves, FindsOut, SessionState, Reasons
  <1>7. ASSUME NEW w \in Requests, Dies(w)
        PROVE  FALSE
    BY <1>0, <1>7 DEF Dies
  <1> QED
    BY <1>2, <1>3, <1>4, <1>6, <1>7 DEF TokensMove, Silent, Revokes, SessionState

\* Of a session, each presentation of its token is under way.
PendingOf(s, p) ==
    /\ sessions[s].pair = p /\ uses[p] > 0 => \E w \in Requests : work[w].pair = p
    /\ sessions[s].pair = p /\ uses[p] > 1
          => \E v, w \in Requests : v # w /\ work[v].pair = p /\ work[w].pair = p
    /\ spent[p] = s /\ uses[p] > 1 => \E w \in Requests : work[w].pair = p

LEMMA PendingStep ==
  ASSUME TypeOK, RestShapes', Carrying, Carrying', Rooted, Steady, TokensMove,
         Paired, Counted, Found, Pending
  PROVE  Pending'
  <1>0. /\ minted \in Nat
        /\ \A p \in Pairs : p \in Nat /\ p > 0 /\ uses[p] \in Nat
        /\ NoSession \notin SessionIds
        /\ \A v \in Requests :
              /\ work[v].pair = 0 \/ work[v].pair \in Pairs
              /\ work[v].at \in {"refresh.check", "refresh.rotate"} => work[v].session \in SessionIds
              /\ work[v].at \in Presenting => work[v].pair \in Pairs
    BY SessionFacts
  <1> SUFFICES ASSUME NEW s \in SessionIds, NEW q \in Pairs, Standing(s)'
               PROVE  PendingOf(s, q)'
    BY DEF Pending, PendingOf
  <1>1. Standing(s) => PendingOf(s, q)
    BY DEF Pending, PendingOf
  <1>2. Standing(s) \/ \E w \in Requests : Opens(w, s)
    BY StoodBefore
  <1>3. Live(s)' /\ crashes' = 0
    BY DEF Standing
  \* The token and what has been presented are the same, and so are the requests that present it.
  <1>4. ASSUME Standing(s), sessions'[s].pair = sessions[s].pair, spent'[q] = spent[q], uses'[q] = uses[q],
               \A v \in Requests : work[v].pair = q => work'[v].pair = q
        PROVE  PendingOf(s, q)'
    BY <1>1, <1>4 DEF PendingOf
  <1>5. CASE Silent \/ \E S, reason : Revokes(S, reason)
    <2>1. /\ sessions'[s].pair = sessions[s].pair /\ UNCHANGED <<spent, uses>> /\ Quiet
          /\ \A w \in Requests : ~Opens(w, s)
      BY <1>0, <1>5 DEF Silent, Revokes, SessionState, Ended, Kept, Opens, Opened
    <2> QED
      BY <1>2, <1>4, <2>1, QuietPairs
  <1>6. ASSUME NEW w \in Requests, NEW t \in SessionIds, Opens(w, t)
        PROVE  PendingOf(s, q)'
    <2>1. /\ sessions[t].pair = 0 /\ sessions'[t].pair = minted + 1
          /\ \A r \in SessionIds \ {t} : sessions'[r] = sessions[r]
          /\ UNCHANGED <<spent, uses>> /\ Quiet
      BY <1>6 DEF Opens, Opened
    <2>2. CASE s = t
      <3>1. spent[q] # s /\ (sessions'[s].pair = q => ~(uses[q] > 0))
        BY <1>0, <2>1, <2>2 DEF Paired
      <3> QED
        BY <1>0, <2>1, <3>1 DEF PendingOf
    <2>3. CASE s # t
      <3>1. \A v \in Requests : ~Opens(v, s)
        BY <1>0, <2>1, <2>3, <1>3 DEF Opens, Opened, Live
      <3> QED
        BY <1>2, <1>4, <2>1, <2>3, <3>1, QuietPairs
    <2> QED
      BY <2>2, <2>3
  <1>7. ASSUME NEW w \in Requests, Others(w), NEW p \in Pairs, Finds(w, p)
        PROVE  PendingOf(s, q)'
    <2>1. /\ Standing(s) /\ UNCHANGED <<sessions, spent>>
          /\ work[w].pair = 0 /\ work'[w].pair = p
          /\ \A v \in Requests \ {w} : work'[v].pair = work[v].pair
          /\ uses'[p] = uses[p] + 1 /\ \A r \in Pairs \ {p} : uses'[r] = uses[r]
      <3>1. UNCHANGED <<sessions, minted>>
        BY <1>7 DEF Finds
      <3>2. \A v \in Requests : ~Opens(v, s)
        BY <1>0, <3>1 DEF Opens, Opened
      <3> QED
        BY <1>2, <1>7, <3>2 DEF Finds, Others
    <2>2. CASE q # p
      BY <1>0, <1>4, <2>1, <2>2
    <2>3. CASE q = p
      <3>1. uses[p] > 0 /\ sessions[s].pair = p => \E v \in Requests : v # w /\ work'[v].pair = p
        BY <1>0, <1>1, <2>1, <2>3 DEF PendingOf
      <3> QED
        BY <1>0, <2>1, <2>3, <3>1 DEF PendingOf
    <2> QED
      BY <2>2, <2>3
  <1>8. ASSUME NEW w \in Requests, Others(w), GoesToRotate(w) \/ Loses(w)
        PROVE  PendingOf(s, q)'
    <2>1. /\ UNCHANGED <<sessions, spent, minted, uses>>
          /\ \A v \in Requests : work'[v].pair = work[v].pair
      BY <1>8 DEF Others, GoesToRotate, Loses, SessionState
    <2>2. \A v \in Requests : ~Opens(v, s)
      BY <1>0, <2>1 DEF Opens, Opened
    <2> QED
      BY <1>2, <1>4, <2>1, <2>2
  \* A request that leaves presented the token of a session that does not stand.
  <1>9. ASSUME NEW w \in Requests, Others(w), Leaves(w) \/ FindsOut(w)
        PROVE  PendingOf(s, q)'
    <2> DEFINE p == work[w].pair
    <2>1. /\ \A t \in SessionIds : sessions'[t].pair = sessions[t].pair
          /\ UNCHANGED <<spent, minted, uses>> /\ p \in Pairs
          /\ \A v \in Requests \ {w} : work'[v] = work[v]
      BY <1>0, <1>9 DEF Others, Leaves, FindsOut, Ended, Kept, Presenting
    <2>2. Standing(s)
      BY <1>0, <1>2, <2>1 DEF Opens, Opened
    <2>3. CASE q # p
      BY <1>4, <2>1, <2>2, <2>3
    <2>4. ASSUME Leaves(w), q = p
          PROVE  sessions[s].pair # p /\ spent[p] # s
      <3> DEFINE t == work[w].session
      <3>1. t \in SessionIds /\ (sessions[t].pair = p \/ spent[p] = t)
        BY <1>0, <2>4 DEF Leaves, Found, At
      <3>2. CASE s = t
        <4>1. ~Ended({t}, "refresh_expired")
          BY <1>3, <2>2, <3>2 DEF Ended, Standing, Live
        <4>2. ~Usable(sessions[s].account)
          BY <2>4, <3>2, <4>1 DEF Leaves
        <4>3. sessions[s].account \in AccountIds /\ Exists(sessions[s].account)
          BY <2>2 DEF Standing, Live, Rooted, TypeOK
        <4>4. accounts[sessions[s].account].status = "deleted"
          BY <4>2, <4>3 DEF Usable, Exists, TypeOK, Account
        <4> QED
          BY <2>2, <4>3, <4>4 DEF Standing, Rooted
      <3>3. CASE s # t
        BY <1>0, <2>1, <3>1, <3>3 DEF Paired
      <3> QED
        BY <3>2, <3>3
    <2>5. ASSUME FindsOut(w), q = p
          PROVE  sessions[s].pair # p /\ spent[p] # s
      <3>1. sessions[s].pair # p
        BY <2>2, <2>5 DEF FindsOut, Found, At, Standing
      <3>2. spent[p] # s
        BY <1>3, <2>2, <2>5 DEF FindsOut, Ended, Standing, Live
      <3> QED
        BY <3>1, <3>2
    <2>6. CASE q = p
      BY <1>9, <2>1, <2>4, <2>5, <2>6 DEF PendingOf
    <2> QED
      BY <2>3, <2>6
  <1>10. ASSUME NEW w \in Requests, Others(w), Rotates(w)
         PROVE  PendingOf(s, q)'
    <2> DEFINE t == work[w].session
               p == work[w].pair
    <2>1. t \in SessionIds /\ p \in Pairs /\ Rotated(t, p) /\ UNCHANGED uses
      BY <1>0, <1>10 DEF Rotates, Presenting
    <2>2. /\ spent[p] = NoSession
          /\ \A r \in SessionIds \ {t} : sessions[r].pair # p
      BY <1>0, <2>1 DEF Rotated, Paired, Live
    <2>3. /\ \A r \in SessionIds \ {t} : sessions'[r] = sessions[r]
          /\ sessions[t].pair = p /\ sessions'[t].pair = minted + 1
          /\ spent'[p] = t /\ \A r \in Pairs \ {p} : spent'[r] = spent[r]
          /\ \A v \in Requests \ {w} : work'[v].pair = work[v].pair
      BY <1>10, <2>1, <2>2 DEF Rotated, Others
    <2>4. Standing(s)
      BY <1>0, <1>2, <2>1 DEF Rotated, Opens, Opened, Live
    <2>5. work[w].pair = p
      OBVIOUS
    <2> HIDE DEF t, p
    <2>6. CASE q # p
      <3>1. CASE s = t
        <4>1. sessions'[s].pair = q => ~(uses[q] > 0)
          BY <1>0, <2>3, <3>1 DEF Paired
        <4>2. spent'[q] = s /\ uses[q] > 1 => \E v \in Requests : v # w /\ work'[v].pair = q
          BY <1>0, <1>1, <2>3, <2>4, <2>5, <2>6 DEF PendingOf
        <4> QED
          BY <1>0, <2>1, <4>1, <4>2 DEF PendingOf
      <3>2. CASE s # t
        BY <1>4, <2>1, <2>3, <2>4, <2>5, <2>6, <3>2
      <3> QED
        BY <3>1, <3>2
    <2>7. CASE q = p
      <3>1. CASE s = t
        <4>1. uses[q] > 1 => \E v \in Requests : v # w /\ work'[v].pair = q
          BY <1>1, <2>3, <2>4, <2>7, <3>1 DEF PendingOf
        <4>2. sessions'[s].pair # q
          BY <1>0, <2>1, <2>3, <2>7, <3>1 DEF Paired
        <4> QED
          BY <2>1, <4>1, <4>2 DEF PendingOf
      <3>2. CASE s # t
        <4>1. sessions'[s].pair # q /\ spent'[q] # s
          BY <2>2, <2>3, <2>7, <3>2
        <4> QED
          BY <4>1 DEF PendingOf
      <3> QED
        BY <3>1, <3>2
    <2> QED
      BY <2>6, <2>7
  <1>11. ASSUME NEW w \in Requests, RefreshesTo(w)
         PROVE  PendingOf(s, q)'
    BY <1>7, <1>8, <1>9, <1>10, <1>11 DEF RefreshesTo
  <1>12. ASSUME NEW w \in Requests, Dies(w)
         PROVE  PendingOf(s, q)'
    BY <1>3, <1>12 DEF Dies
  <1> QED
    BY <1>5, <1>6, <1>11, <1>12 DEF TokensMove

LEMMA ReuseStep ==
  ASSUME TypeOK, Carrying, Paired, Counted, ReuseOnlyIfRepeated, TokensMove
  PROVE  ReuseOnlyIfRepeated'
  <1>0. /\ NoSession \notin SessionIds
        /\ \A p \in Pairs : uses[p] \in Nat
        /\ \A v \in Requests : work[v].at \in Presenting => work[v].pair \in Pairs /\ work[v].pair # 0
    BY SessionFacts
  <1>1. ASSUME NEW s \in SessionIds, sessions'[s].revoked = "refresh_reuse"
        PROVE  \E p \in Pairs : spent'[p] = s /\ uses'[p] > 1
    <2>1. ASSUME sessions[s].revoked = "refresh_reuse",
                 \A p \in Pairs : spent[p] # NoSession => spent'[p] = spent[p],
                 \A p \in Pairs : uses[p] > 1 => uses'[p] > 1
          PROVE  \E p \in Pairs : spent'[p] = s /\ uses'[p] > 1
      BY <1>0, <2>1 DEF ReuseOnlyIfRepeated
    <2>2. ASSUME UNCHANGED <<sessions, spent, uses>>
          PROVE  \E p \in Pairs : spent'[p] = s /\ uses'[p] > 1
      BY <1>1, <2>1, <2>2
    <2>3. ASSUME NEW S, NEW reason \in Reasons \ {"refresh_reuse"}, Ended(S, reason),
                 UNCHANGED <<spent, uses>>
          PROVE  \E p \in Pairs : spent'[p] = s /\ uses'[p] > 1
      BY <1>1, <2>1, <2>3 DEF Ended
    <2>4. ASSUME NEW w \in Requests, NEW t \in SessionIds, Opens(w, t)
          PROVE  \E p \in Pairs : spent'[p] = s /\ uses'[p] > 1
      BY <1>1, <2>1, <2>4 DEF Opens, Opened
    <2>5. ASSUME NEW w \in Requests, NEW q \in Pairs, Finds(w, q)
          PROVE  \E p \in Pairs : spent'[p] = s /\ uses'[p] > 1
      <3>1. UNCHANGED <<sessions, spent>> /\ \A p \in Pairs : uses[p] > 1 => uses'[p] > 1
        BY <1>0, <2>5 DEF Finds
      <3> QED
        BY <1>1, <2>1, <3>1
    <2>6. ASSUME NEW w \in Requests, Rotates(w)
          PROVE  \E p \in Pairs : spent'[p] = s /\ uses'[p] > 1
      <3>1. /\ sessions[s].revoked = "refresh_reuse" /\ UNCHANGED uses
            /\ \A p \in Pairs : spent[p] # NoSession => spent'[p] = spent[p]
        BY <1>1, <2>6 DEF Rotates, Rotated
      <3> QED
        BY <2>1, <3>1
    <2>7. ASSUME NEW w \in Requests, FindsOut(w)
          PROVE  \E p \in Pairs : spent'[p] = s /\ uses'[p] > 1
      <3> DEFINE q == work[w].pair
      <3>1. q \in Pairs /\ q # 0 /\ UNCHANGED <<spent, uses>> /\ Ended({spent[q]}, "refresh_reuse")
        BY <1>0, <2>7 DEF FindsOut, Presenting
      <3>2. CASE s = spent[q]
        BY <1>0, <3>1, <3>2 DEF Counted
      <3>3. CASE s # spent[q]
        BY <1>1, <2>1, <3>1, <3>3 DEF Ended
      <3> QED
        BY <3>2, <3>3
    <2> QED
      BY <2>2, <2>3, <2>4, <2>5, <2>6, <2>7
      DEF TokensMove, Silent, Revokes, RefreshesTo, Dies, GoesToRotate, Loses, Leaves, SessionState, Reasons
  <1> QED
    BY <1>1 DEF ReuseOnlyIfRepeated

-----------------------------------------------------------------------------
(***************************************************************************)
(* The invariant of app logins                                             *)
(***************************************************************************)
\* A poll wins by going on as the winner, or by consuming a companion row that
\* is ready.
LEMMA WinnersStep ==
  ASSUME TypeOK, SessionShapes', Carrying, Rooted, Offered, Steady, Next
  PROVE  \/ \A v \in Requests, f \in FlowIds : Winner(v, f)' => Winner(v, f)
         \/ \E w \in Requests :
               /\ AppConsume(w) /\ flows[work[w].flow].result = "ready"
               /\ \A v \in Requests, f \in FlowIds :
                     Winner(v, f)' => Winner(v, f) \/ (v = w /\ f = work[w].flow)
  <1>0. NoFlow \notin FlowIds
    BY AccountsAssumption
  <1>1. CASE UNCHANGED work
    BY <1>1 DEF Winner
  <1>2. ASSUME NEW w \in Requests, NEW n, Plain(w, n)
        PROVE  \/ \A v \in Requests, f \in FlowIds : Winner(v, f)' => Winner(v, f)
               \/ /\ AppConsume(w) /\ flows[work[w].flow].result = "ready"
                  /\ \A v \in Requests, f \in FlowIds :
                        Winner(v, f)' => Winner(v, f) \/ (v = w /\ f = work[w].flow)
    <2>1. work'[w] = n /\ \A v \in Requests \ {w} : work'[v] = work[v]
      BY <1>2, GoesOn, TypeParts DEF Plain
    <2>2. \A v \in Requests \ {w}, f \in FlowIds : Winner(v, f)' => Winner(v, f)
      BY <2>1 DEF Winner
    <2>3. CASE n.at \in Winning /\ n.flow # NoFlow
      <3>1. /\ n.flow = work[w].flow
            /\ work[w].at \in Winning \/ (AppConsume(w) /\ flows[n.flow].result = "ready")
        BY <1>2, <2>3 DEF Plain
      <3>2. \A f \in FlowIds : Winner(w, f)' => f = work[w].flow
        BY <2>1, <3>1 DEF Winner
      <3>3. CASE work[w].at \in Winning
        <4>1. \A f \in FlowIds : Winner(w, f)' => Winner(w, f)
          BY <3>2, <3>3 DEF Winner, Winning
        <4> QED
          BY <2>2, <4>1
      <3>4. CASE AppConsume(w) /\ flows[n.flow].result = "ready"
        BY <2>2, <3>1, <3>2, <3>4
      <3> QED
        BY <3>1, <3>3, <3>4
    <2>4. CASE ~(n.at \in Winning /\ n.flow # NoFlow)
      <3>1. \A f \in FlowIds : ~Winner(w, f)'
        BY <1>0, <2>1, <2>4 DEF Winner, Winning
      <3> QED
        BY <2>2, <3>1
    <2> QED
      BY <2>3, <2>4
  <1>3. ASSUME NEW w \in Requests, NEW n, Presented(w, n)
        PROVE  \A v \in Requests, f \in FlowIds : Winner(v, f)' => Winner(v, f)
    <2>1. /\ work'[w] = n /\ \A v \in Requests \ {w} : work'[v] = work[v]
          /\ n.at \notin Winning
      BY <1>3, GoesOn, TypeParts DEF Presented, Presenting, Winning
    <2> QED
      BY <2>1 DEF Winner, Winning
  <1>4. ASSUME NEW w \in Requests, UnlinkDelete(w)
        PROVE  \A v \in Requests, f \in FlowIds : Winner(v, f)' => Winner(v, f)
    <2>1. /\ work'[w].at = "idle"
          /\ \A v \in Requests \ {w} : work'[v].at = work[v].at /\ work'[v].flow = work[v].flow
      BY <1>4, UnlinkMove, IdleCarries DEF Is
    <2> QED
      BY <2>1 DEF Winner
  <1> QED
    BY <1>1, <1>2, <1>3, <1>4, RequestsStep

\* Only a login opens a session, and it answers the flow of its request.
LEMMA MintOpens ==
  ASSUME TypeOK, SessionShapes', Carrying, Rooted, Offered, Steady, Next
  PROVE  \/ \A s \in SessionIds : sessions'[s].login = sessions[s].login
         \/ \E w \in Requests, s \in SessionIds : Mint(w, s)
  <1>1. ASSUME NEW w \in Requests, Revoking(w)
        PROVE  \A s \in SessionIds : sessions'[s].login = sessions[s].login
    BY <1>1, RevokingDoes DEF Ended, Kept
  <1>2. ASSUME NEW w \in Requests, Refreshing(w)
        PROVE  \A s \in SessionIds : sessions'[s].login = sessions[s].login
    <2>1. Refreshing(w) => RefreshesTo(w)
      BY RefreshingDoes DEF RefreshesTo
    <2> QED
      BY <1>2, <2>1 DEF RefreshesTo, Finds, GoesToRotate, Loses, Leaves, Rotates, Rotated, FindsOut,
                        Ended, Kept, SessionState
  <1>3. ASSUME NEW w \in Requests, Crash(w)
        PROVE  UNCHANGED sessions
    BY <1>3 DEF Crash, TheSessions
  <1> QED
    BY <1>1, <1>2, <1>3, SessionsStep DEF SessionState

LEMMA OneWinnerStep ==
  ASSUME TypeOK, SessionShapes', Carrying, Rooted, Offered, Steady, Next, OneWinner
  PROVE  OneWinner'
  \* A companion row that has been consumed stays so.
  <1>1. ASSUME NEW f \in FlowIds, flows[f].result = "consumed"
        PROVE  flows'[f].result = "consumed"
    BY <1>1, FlowsStep DEF FlowChange, Offered
  <1>2. ASSUME NEW w \in Requests, NEW s \in SessionIds, Mint(w, s)
        PROVE  OneWinner'
    <2>1. Opened(w, s) /\ UNCHANGED flows /\ work[w].at = "mint" /\ Ends(w)
      BY <1>2, MintDoes DEF Mint, At
    <2>2. work'[w].at = "idle" /\ \A v \in Requests \ {w} : work'[v] = work[v]
      BY <2>1, GoesOn, TypeParts, IdleCarries DEF Ends
    <2>3. /\ \A t \in SessionIds \ {s} : sessions'[t] = sessions[t]
          /\ sessions'[s].login = work[w].flow
      BY <2>1 DEF Opened
    <2>4. \A v \in Requests, f \in FlowIds : Winner(v, f)' => v # w /\ Winner(v, f)
      BY <2>2 DEF Winner
    <2>5. \A f \in FlowIds : f = work[w].flow => Winner(w, f)
      BY <2>1 DEF Winner
    <2> SUFFICES ASSUME NEW f \in FlowIds
                 PROVE  /\ \A v \in Requests : Winner(v, f)' =>
                              /\ flows'[f].result = "consumed"
                              /\ \A t \in SessionIds : sessions'[t].login # f
                              /\ \A u \in Requests : Winner(u, f)' => u = v
                        /\ \A t \in SessionIds : sessions'[t].login = f =>
                              /\ flows'[f].result = "consumed"
                              /\ \A r \in SessionIds : sessions'[r].login = f => r = t
      BY Zenon DEF OneWinner
    <2>6. CASE f = work[w].flow
      <3>1. /\ flows[f].result = "consumed" /\ \A t \in SessionIds : sessions[t].login # f
            /\ \A v \in Requests : Winner(v, f) => v = w
        BY <2>5, <2>6 DEF OneWinner
      <3>2. \A v \in Requests : ~Winner(v, f)'
        BY <2>4, <3>1
      <3>3. flows'[f].result = "consumed" /\ \A t \in SessionIds : sessions'[t].login = f => t = s
        BY <2>1, <2>3, <3>1
      <3> QED
        BY <3>2, <3>3
    <2>7. CASE f # work[w].flow
      <3>1. \A t \in SessionIds : sessions'[t].login = f => t # s /\ sessions[t].login = f
        BY <2>3, <2>7
      <3>2. flows'[f] = flows[f]
        BY <2>1
      <3> QED
        BY <2>4, <3>1, <3>2 DEF OneWinner
    <2> QED
      BY <2>6, <2>7
  <1>3. ASSUME \A s \in SessionIds : sessions'[s].login = sessions[s].login,
               \A v \in Requests, f \in FlowIds : Winner(v, f)' => Winner(v, f)
        PROVE  OneWinner'
    <2> SUFFICES ASSUME NEW f \in FlowIds
                 PROVE  /\ \A v \in Requests : Winner(v, f)' =>
                              /\ flows'[f].result = "consumed"
                              /\ \A t \in SessionIds : sessions'[t].login # f
                              /\ \A u \in Requests : Winner(u, f)' => u = v
                        /\ \A t \in SessionIds : sessions'[t].login = f =>
                              /\ flows'[f].result = "consumed"
                              /\ \A r \in SessionIds : sessions'[r].login = f => r = t
      BY Zenon DEF OneWinner
    <2> QED
      BY <1>1, <1>3 DEF OneWinner
  <1>4. ASSUME \A s \in SessionIds : sessions'[s].login = sessions[s].login,
               NEW w \in Requests, AppConsume(w), flows[work[w].flow].result = "ready",
               \A v \in Requests, f \in FlowIds :
                  Winner(v, f)' => Winner(v, f) \/ (v = w /\ f = work[w].flow)
        PROVE  OneWinner'
    <2> DEFINE g == work[w].flow
    <2>1. g \in FlowIds
      BY <1>4 DEF AppConsume, At, Carrying, CarryingOf, OfApp
    <2>2. flows'[g].result = "consumed"
      <3>1. flows' = [flows EXCEPT ![g].result = "consumed"]
        BY <1>4 DEF AppConsume
      <3> QED
        BY <2>1, <3>1, TypeParts DEF TypeOK, Flow
    <2>3. /\ \A v \in Requests : ~Winner(v, g)
          /\ \A s \in SessionIds : sessions[s].login # g
      BY <1>4, <2>1 DEF OneWinner
    <2> SUFFICES ASSUME NEW f \in FlowIds
                 PROVE  /\ \A v \in Requests : Winner(v, f)' =>
                              /\ flows'[f].result = "consumed"
                              /\ \A t \in SessionIds : sessions'[t].login # f
                              /\ \A u \in Requests : Winner(u, f)' => u = v
                        /\ \A t \in SessionIds : sessions'[t].login = f =>
                              /\ flows'[f].result = "consumed"
                              /\ \A r \in SessionIds : sessions'[r].login = f => r = t
      BY Zenon DEF OneWinner
    <2>4. CASE f = g
      <3>1. \A v \in Requests : Winner(v, f)' => v = w
        BY <1>4, <2>3, <2>4
      <3> QED
        BY <1>4, <2>2, <2>3, <2>4, <3>1
    <2>5. CASE f # g
      <3>1. \A v \in Requests : Winner(v, f)' => Winner(v, f)
        BY <1>4, <2>5
      <3> QED
        BY <1>1, <1>4, <3>1 DEF OneWinner
    <2> QED
      BY <2>4, <2>5
  <1> QED
    BY <1>2, <1>3, <1>4, WinnersStep, MintOpens

-----------------------------------------------------------------------------
(***************************************************************************)
(* The invariants of ways in                                               *)
(***************************************************************************)
\* Requests that are about to give an account its first key.
Naming(w, a) == At(w, "signup.identity") /\ work[w].account = a
Joining(w, a) == At(w, "oauth.identity") /\ work[w].account = a

\* One that begins to do so does it for an account that did not exist.
LEMMA NamesStep ==
  ASSUME TypeOK, SessionShapes', Carrying, Rooted, Offered, Steady, Next, NEW a \in AccountIds
  PROVE  \/ \A v \in Requests : (Naming(v, a)' => Naming(v, a)) /\ (Joining(v, a)' => Joining(v, a))
         \/ /\ ~Exists(a)
            /\ \E w \in Requests :
                  /\ ~(Naming(w, a)' /\ Joining(w, a)')
                  /\ \A v \in Requests \ {w} : /\ Naming(v, a)' => Naming(v, a)
                                               /\ Joining(v, a)' => Joining(v, a)
  <1>1. CASE UNCHANGED work
    BY <1>1 DEF Naming, Joining, At
  <1>2. ASSUME NEW w \in Requests, NEW n, Plain(w, n)
        PROVE  \/ \A v \in Requests : (Naming(v, a)' => Naming(v, a)) /\ (Joining(v, a)' => Joining(v, a))
               \/ /\ ~Exists(a) /\ ~(Naming(w, a)' /\ Joining(w, a)')
                  /\ \A v \in Requests \ {w} : /\ Naming(v, a)' => Naming(v, a)
                                               /\ Joining(v, a)' => Joining(v, a)
    <2>1. work'[w] = n /\ \A v \in Requests \ {w} : work'[v] = work[v]
      BY <1>2, GoesOn, TypeParts DEF Plain
    <2>2. \A v \in Requests \ {w} : /\ Naming(v, a)' => Naming(v, a)
                                    /\ Joining(v, a)' => Joining(v, a)
      BY <2>1 DEF Naming, Joining, At
    <2>3. Naming(w, a)' \/ Joining(w, a)' => ~Exists(a) /\ ~(Naming(w, a)' /\ Joining(w, a)')
      BY <1>2, <2>1 DEF Plain, Naming, Joining, At
    <2> QED
      BY <2>2, <2>3
  <1>3. ASSUME NEW w \in Requests, NEW n, Presented(w, n)
        PROVE  \A v \in Requests : (Naming(v, a)' => Naming(v, a)) /\ (Joining(v, a)' => Joining(v, a))
    <2>1. /\ work'[w] = n /\ \A v \in Requests \ {w} : work'[v] = work[v]
          /\ n.at \notin {"signup.identity", "oauth.identity"}
      BY <1>3, GoesOn, TypeParts DEF Presented, Presenting
    <2> QED
      BY <2>1 DEF Naming, Joining, At
  <1>4. ASSUME NEW w \in Requests, UnlinkDelete(w)
        PROVE  \A v \in Requests : (Naming(v, a)' => Naming(v, a)) /\ (Joining(v, a)' => Joining(v, a))
    <2>1. /\ work'[w].at = "idle"
          /\ \A v \in Requests \ {w} : work'[v].at = work[v].at /\ work'[v].account = work[v].account
      BY <1>4, UnlinkMove, IdleCarries DEF Is
    <2> QED
      BY <2>1 DEF Naming, Joining, At
  <1> QED
    BY <1>1, <1>2, <1>3, <1>4, RequestsStep

\* Where the e-mail identity of an account, and its way in, come from.
LEMMA KeysStep ==
  ASSUME TypeOK, Carrying, Rooted, Next, NEW a \in AccountIds
  PROVE  /\ \A e \in Emails : identities'[e] = a =>
               (identities[e] = a \/ (Exists(a) /\ (Mailed(a) \/ accounts[a].password > 0)))
         /\ a \in entered' =>
               \/ a \in entered \/ accounts'[a].password > 0
               \/ Exists(a) /\ \E w \in Requests : Joining(w, a)
  <1>0. Emails \subseteq Keys /\ Emails \cap Subjects = {}
    BY AccountsAssumption DEF Keys
  <1>1. CASE UNCHANGED TheAccounts
    BY <1>1 DEF TheAccounts
  <1>2. ASSUME NEW b \in AccountIds, AccountChange(b)
        PROVE  UNCHANGED identities /\ (a \in entered' => a \in entered \/ accounts'[a].password > 0)
    BY <1>2 DEF AccountChange
  <1>3. ASSUME NEW w \in Requests, NEW b \in AccountIds, NEW k \in Keys, IdentityChange(w, b, k)
        PROVE  /\ \A e \in Emails : identities'[e] = a =>
                     (identities[e] = a \/ (Exists(a) /\ (Mailed(a) \/ accounts[a].password > 0)))
               /\ a \in entered' => a \in entered \/ (Exists(a) /\ Joining(w, a))
    <2>1. /\ identities' = [identities EXCEPT ![k] = b] /\ Exists(b)
          /\ entered' = IF k \in Subjects THEN entered \cup {b} ELSE entered
          /\ \/ k \in Emails /\ (Mailed(b) \/ accounts[b].password > 0)
             \/ k \in Subjects /\ At(w, "oauth.identity") /\ work[w].account = b
             \/ k \in Subjects /\ b \in entered
      BY <1>3 DEF IdentityChange, CreateIdentity, Registered
    <2>2. \A e \in Emails : identities'[e] = IF e = k THEN b ELSE identities[e]
      BY <1>0, <2>1 DEF TypeOK
    <2>3. \A e \in Emails : identities'[e] = a =>
                     (identities[e] = a \/ (Exists(a) /\ (Mailed(a) \/ accounts[a].password > 0)))
      BY <1>0, <2>1, <2>2
    <2>4. a \in entered' => a \in entered \/ (Exists(a) /\ Joining(w, a))
      BY <1>0, <2>1 DEF Joining
    <2> QED
      BY <2>3, <2>4
  <1>4. ASSUME NEW w \in Requests, UnlinkDelete(w)
        PROVE  /\ \A e \in Emails : identities'[e] = a => identities[e] = a
               /\ entered' = entered
    <2>1. /\ identities' = identities \/ identities' = [identities EXCEPT ![work[w].key] = NoAccount]
          /\ entered' = entered
      BY <1>4 DEF UnlinkDelete
    <2> QED
      BY <1>0, <2>1, AccountsAssumption DEF TypeOK
  <1> QED
    BY <1>1, <1>2, <1>3, <1>4, AccountsStep

LEMMA MailedOnlyStep ==
  ASSUME TypeOK, SessionShapes', Carrying, Rooted, Offered, Steady, Next, MailedOnly
  PROVE  MailedOnly'
  <1> SUFFICES ASSUME NEW a \in AccountIds, Mailed(a)', ~(accounts'[a].password > 0)
               PROVE  a \notin entered' /\ \A w \in Requests : ~Joining(w, a)'
    BY DEF MailedOnly, Joining
  <1>0. ~(accounts[a].password > 0)
    BY DEF Steady
  <1>1. ASSUME NEW w \in Requests, Naming(w, a) \/ Joining(w, a)
        PROVE  Exists(a)
    BY <1>1 DEF Naming, Joining, At, Carrying, CarryingOf, OfAccount, Registered
  <1>2. ASSUME NEW e \in Emails, identities[e] = a
        PROVE  Exists(a)
    BY <1>2, AccountsAssumption DEF Rooted, Registered, Keys
  <1>3. (\E e \in Emails : identities'[e] = a) => Mailed(a) /\ Exists(a)
    BY <1>0, <1>2, KeysStep DEF Mailed
  <1>4. (\E e \in Emails : identities'[e] = a) \/ \E w \in Requests : Naming(w, a)'
    BY DEF Mailed, Naming, At
  <1>5. CASE \A v \in Requests : (Naming(v, a)' => Naming(v, a)) /\ (Joining(v, a)' => Joining(v, a))
    <2>1. Mailed(a)
      BY <1>3, <1>4, <1>5 DEF Mailed, Naming
    <2>2. a \notin entered /\ \A w \in Requests : ~Joining(w, a)
      BY <1>0, <2>1 DEF MailedOnly, Joining
    <2>3. a \notin entered'
      BY <2>2, KeysStep
    <2> QED
      BY <1>5, <2>2, <2>3
  <1>6. ASSUME ~Exists(a), NEW w \in Requests, ~(Naming(w, a)' /\ Joining(w, a)'),
               \A v \in Requests \ {w} : /\ Naming(v, a)' => Naming(v, a)
                                         /\ Joining(v, a)' => Joining(v, a)
        PROVE  a \notin entered' /\ \A v \in Requests : ~Joining(v, a)'
    <2>1. \A v \in Requests \ {w} : ~Naming(v, a)' /\ ~Joining(v, a)'
      BY <1>1, <1>6
    <2>2. Naming(w, a)' /\ ~Joining(w, a)'
      BY <1>3, <1>4, <1>6, <2>1
    <2>3. a \notin entered'
      BY <1>6, KeysStep DEF Rooted
    <2> QED
      BY <2>1, <2>2, <2>3
  <1> QED
    BY <1>5, <1>6, NamesStep

\* Only an unlink takes an identity away, and only the one it has found.
LEMMA IdentitiesKept ==
  ASSUME TypeOK, Carrying, Rooted, Next, NEW k \in Keys, NEW a \in AccountIds, identities[k] = a
  PROVE  \/ identities'[k] = a
         \/ \E w \in Requests : UnlinkDelete(w) /\ work[w].key = k /\ work[w].account = a
  <1>1. CASE UNCHANGED TheAccounts
    BY <1>1 DEF TheAccounts
  <1>2. ASSUME NEW b \in AccountIds, AccountChange(b)
        PROVE  identities'[k] = a
    BY <1>2 DEF AccountChange
  <1>3. ASSUME NEW w \in Requests, NEW b \in AccountIds, NEW j \in Keys, IdentityChange(w, b, j)
        PROVE  identities'[k] = a
    <2>1. identities' = [identities EXCEPT ![j] = b] /\ identities[j] = NoAccount
      BY <1>3 DEF IdentityChange, CreateIdentity
    <2> QED
      BY <2>1, AccountsAssumption DEF TypeOK
  <1>4. ASSUME NEW w \in Requests, UnlinkDelete(w)
        PROVE  identities'[k] = a \/ (work[w].key = k /\ work[w].account = a)
    <2>1. identities' = IF identities[work[w].key] = work[w].account
                        THEN [identities EXCEPT ![work[w].key] = NoAccount] ELSE identities
      BY <1>4 DEF UnlinkDelete
    <2> QED
      BY <2>1 DEF TypeOK
  <1> QED
    BY <1>1, <1>2, <1>3, <1>4, AccountsStep

\* What an unlink counts on: the password of the account, or another identity.
CountsOn(a, k) ==
    accounts[a].password > 0 \/ \E j \in Keys \ {k} : identities[j] = a

LEMMA UnlinkingStep ==
  ASSUME TypeOK, SessionShapes', Carrying, Carrying', Rooted, Offered, Steady, Next, Unlinking
  PROVE  Unlinking'
  <1> SUFFICES ASSUME NEW v \in Requests, At(v, "unlink")'
               PROVE  work'[v].stale \/ CountsOn(work[v].account, work[v].key)'
    BY DEF Unlinking, CountsOn
  <1>1. ASSUME NEW a \in AccountIds, NEW k \in Keys, CountsOn(a, k),
               ~\E w \in Requests : UnlinkDelete(w) /\ work[w].account = a
        PROVE  CountsOn(a, k)'
    BY <1>1, IdentitiesKept DEF CountsOn, Steady
  <1>2. ASSUME At(v, "unlink"), work'[v] = work[v] \/ work'[v].stale = TRUE,
               ~\E w \in Requests : UnlinkDelete(w) /\ work[w].account = work[v].account
        PROVE  work'[v].stale \/ CountsOn(work[v].account, work[v].key)'
    <2>1. work[v].account \in AccountIds /\ work[v].key \in Keys
      BY <1>2 DEF At, Carrying, CarryingOf, OfEntered, TypeOK
    <2>2. work[v].stale \/ CountsOn(work[v].account, work[v].key)
      BY <1>2 DEF Unlinking, CountsOn
    <2>3. CASE work'[v] = work[v]
      <3>1. PICK a \in AccountIds, k \in Keys : a = work[v].account /\ k = work[v].key
        BY <2>1
      <3>2. work[v].stale \/ CountsOn(a, k)'
        BY <1>1, <1>2, <2>2, <3>1
      <3> QED
        BY <2>3, <3>1, <3>2 DEF CountsOn
    <2> QED
      BY <1>2, <2>3
  <1>3. ASSUME NEW w \in Requests, UnlinkDelete(w)
        PROVE  work'[v].stale \/ CountsOn(work[v].account, work[v].key)'
    <2>1. /\ v # w /\ At(v, "unlink") /\ (work'[v] = work[v] \/ work'[v].stale = TRUE)
          /\ work[v].account = work[w].account => work'[v].stale = TRUE
      BY <1>3, UnlinkMove, IdleCarries DEF At, Is
    <2>2. ASSUME work[v].account # work[w].account, NEW u \in Requests, UnlinkDelete(u)
          PROVE  work[u].account # work[v].account
      <3>1. work'[u].at = "idle" /\ work'[w].at = "idle" /\ work[u].at = "unlink"
        BY <1>3, <2>2, UnlinkMove, IdleCarries DEF UnlinkDelete, At
      <3>2. u # w => work'[u].at = "unlink"
        BY <1>3, <3>1, UnlinkMove DEF Is
      <3> QED
        BY <2>2, <3>1, <3>2
    <2> QED
      BY <1>2, <2>1, <2>2
  <1>4. ASSUME ~\E w \in Requests : UnlinkDelete(w), work'[v] = work[v]
        PROVE  work'[v].stale \/ CountsOn(work[v].account, work[v].key)'
    BY <1>2, <1>4 DEF At
  <1>5. ASSUME ~\E w \in Requests : UnlinkDelete(w), NEW n, Plain(v, n)
        PROVE  work'[v].stale \/ CountsOn(work[v].account, work[v].key)'
    <2>1. work'[v] = n
      BY <1>5, GoesOn, TypeParts DEF Plain
    <2>2. PICK a \in AccountIds, k \in Keys : UnlinkRead(v, a, k) /\ n.account = a /\ n.key = k
      BY <1>5, <2>1 DEF Plain, At
    <2>3. CountsOn(a, k)
      BY <2>2 DEF UnlinkRead, CountsOn
    <2>4. CountsOn(a, k)'
      BY <1>1, <1>5, <2>3
    <2> QED
      BY <2>1, <2>2, <2>4 DEF CountsOn
  <1>6. ASSUME ~\E w \in Requests : UnlinkDelete(w),
               NEW w \in Requests, NEW n, Plain(w, n) \/ Presented(w, n)
        PROVE  work'[v].stale \/ CountsOn(work[v].account, work[v].key)'
    <2>1. work'[w] = n /\ \A u \in Requests \ {w} : work'[u] = work[u]
      BY <1>6, GoesOn, TypeParts DEF Plain, Presented
    <2>2. v = w => Plain(w, n)
      BY <1>6, <2>1 DEF Presented, Presenting, At
    <2> QED
      BY <1>4, <1>5, <1>6, <2>1, <2>2
  <1> QED
    BY <1>3, <1>4, <1>6, RequestsStep

LEMMA WayInKeptStep ==
  ASSUME TypeOK, Carrying, Rooted, Offered, Steady, Next, MailedOnly, Unlinking, WayInKept
  PROVE  WayInKept'
  <1>0. Subjects \subseteq Keys /\ Keys = Subjects \cup Emails /\ entered \subseteq AccountIds
    BY DEF Keys, TypeOK
  <1>1. overlapped \subseteq overlapped'
    <2>1. ASSUME NEW w \in Requests, UnlinkDelete(w)
          PROVE  overlapped \subseteq overlapped'
      BY <2>1 DEF UnlinkDelete
    <2> QED
      BY <2>1, AccountsStep DEF TheAccounts, AccountChange, IdentityChange
  <1>2. ASSUME NEW a \in entered
        PROVE  WayIn(a)' \/ a \in overlapped'
    <2>1. CASE a \in overlapped \/ accounts[a].password > 0
      BY <1>0, <1>1, <2>1 DEF WayIn, Steady
    <2>2. ASSUME NEW k \in Subjects, identities[k] = a, ~(accounts[a].password > 0)
          PROVE  WayIn(a)' \/ a \in overlapped'
      <3>1. CASE identities'[k] = a
        BY <3>1 DEF WayIn
      <3>2. ASSUME NEW w \in Requests, UnlinkDelete(w), work[w].key = k, work[w].account = a
            PROVE  WayIn(a)' \/ a \in overlapped'
        <4>1. work[w].stale \/ \E j \in Keys \ {k} : identities[j] = a
          BY <2>2, <3>2 DEF Unlinking, UnlinkDelete
        <4>2. CASE work[w].stale
          BY <3>2, <4>2 DEF UnlinkDelete
        <4>3. ASSUME NEW j \in Keys \ {k}, identities[j] = a
              PROVE  WayIn(a)'
          <5>1. j \in Subjects
            BY <1>0, <2>2, <4>3 DEF MailedOnly, Mailed
          <5>2. identities' = [identities EXCEPT ![k] = NoAccount]
            BY <2>2, <3>2 DEF UnlinkDelete
          <5>3. identities'[j] = a
            BY <1>0, <4>3, <5>2 DEF TypeOK
          <5> QED
            BY <5>1, <5>3 DEF WayIn
        <4> QED
          BY <4>1, <4>2, <4>3
      <3> QED
        BY <1>0, <2>2, <3>1, <3>2, IdentitiesKept
    <2> QED
      BY <2>1, <2>2 DEF WayInKept, WayIn
  <1>3. ASSUME NEW a \in entered', a \notin entered
        PROVE  WayIn(a)'
    <2>1. ASSUME NEW b \in AccountIds, AccountChange(b)
          PROVE  WayIn(a)'
      BY <1>3, <2>1 DEF AccountChange, WayIn
    <2>2. ASSUME NEW w \in Requests, NEW b \in AccountIds, NEW k \in Keys, IdentityChange(w, b, k)
          PROVE  WayIn(a)'
      <3>1. /\ identities' = [identities EXCEPT ![k] = b]
            /\ entered' = IF k \in Subjects THEN entered \cup {b} ELSE entered
        BY <2>2 DEF IdentityChange, CreateIdentity
      <3>2. k \in Subjects /\ a = b /\ identities'[k] = a
        BY <1>3, <3>1 DEF TypeOK
      <3> QED
        BY <3>2 DEF WayIn
    <2>3. ASSUME NEW w \in Requests, UnlinkDelete(w)
          PROVE  FALSE
      BY <1>3, <2>3 DEF UnlinkDelete
    <2> QED
      BY <1>3, <2>1, <2>2, <2>3, AccountsStep DEF TheAccounts
  <1> QED
    BY <1>2, <1>3 DEF WayInKept

-----------------------------------------------------------------------------
(***************************************************************************)
(* The invariant                                                           *)
(***************************************************************************)
LEMMA InitInv == Init => IInv
  <1> SUFFICES ASSUME Init
               PROVE  IInv
    OBVIOUS
  <1>0. /\ MaxPairs \in Nat /\ MaxPasswords \in Nat /\ MaxUses \in Nat /\ MaxCrashes \in Nat
        /\ NoFlow \notin FlowIds /\ NoAccount \notin AccountIds /\ NoSession \notin SessionIds
    BY AccountsAssumption
  <1>1. /\ NoRow \in Account /\ NoRow.status = "none" /\ NoRow.password = 0 /\ ~NoRow.closed
        /\ NoSessionRow \in Session /\ NoSessionRow.pair = 0 /\ NoSessionRow.revoked = "no"
        /\ NoSessionRow.login = NoFlow
        /\ NoFlowRow \in Flow /\ NoFlowRow.kind = "none" /\ NoFlowRow.result = "none"
    BY <1>0 DEF NoRow, NoSessionRow, NoFlowRow, Account, Session, Flow, NoKey
  <1>2. Idle \in Work /\ Idle.at = "idle" /\ Idle.pair = 0 /\ Idle.flow = NoFlow
    BY IdleIs DEF Is
  <1>3. /\ \A a \in AccountIds : accounts[a] = NoRow
        /\ \A k \in Keys : identities[k] = NoAccount
        /\ \A s \in SessionIds : sessions[s] = NoSessionRow
        /\ \A p \in Pairs : spent[p] = NoSession /\ uses[p] = 0
        /\ \A f \in FlowIds : flows[f] = NoFlowRow
        /\ \A w \in Requests : work[w] = Idle
        /\ minted = 0 /\ entered = {} /\ overlapped = {}
    BY DEF Init
  <1>4. TypeOK
    <2>1. /\ accounts \in [AccountIds -> Account] /\ sessions \in [SessionIds -> Session]
          /\ flows \in [FlowIds -> Flow] /\ work \in [Requests -> Work]
      BY <1>1, <1>2 DEF Init
    <2>2. /\ identities \in [Keys -> AccountIds \cup {NoAccount}]
          /\ spent \in [Pairs -> SessionIds \cup {NoSession}]
          /\ lapsed \subseteq Pairs /\ entered \subseteq AccountIds /\ overlapped \subseteq AccountIds
          /\ operations \in Instances
      BY DEF Init
    <2>3. /\ minted \in 0 .. MaxPairs /\ passwords \in 0 .. MaxPasswords
          /\ uses \in [Pairs -> 0 .. MaxUses] /\ crashes \in 0 .. MaxCrashes
      BY <1>0 DEF Init
    <2> QED
      BY <2>1, <2>2, <2>3 DEF TypeOK
  <1>5. Carrying
    BY <1>2, <1>3 DEF Carrying, CarryingOf, Presenting, OfAccount, OfEntered, OfApp
  <1>6. Rooted /\ Offered
    BY <1>1, <1>3 DEF Rooted, Offered, Keys
  <1>7. Paired /\ Counted /\ ReuseOnlyIfRepeated
    BY <1>1, <1>2, <1>3 DEF Paired, Counted, ReuseOnlyIfRepeated
  <1>8. Found /\ Pending
    BY <1>1, <1>2, <1>3 DEF Found, Pending, Standing, Live, At
  <1>9. OneWinner
    BY <1>0, <1>1, <1>2, <1>3 DEF OneWinner, Winner
  <1>10. MailedOnly /\ Unlinking /\ WayInKept
    BY <1>0, <1>2, <1>3, AccountsAssumption DEF MailedOnly, Mailed, Unlinking, WayInKept, At, Keys
  <1> QED
    BY <1>4, <1>5, <1>6, <1>7, <1>8, <1>9, <1>10 DEF IInv

LEMMA NextInv ==
  ASSUME IInv, Next
  PROVE  IInv'
  <1>0. /\ TypeOK /\ Carrying /\ Rooted /\ Offered /\ Paired /\ Counted /\ Found /\ Pending
        /\ ReuseOnlyIfRepeated /\ OneWinner /\ MailedOnly /\ Unlinking /\ WayInKept
    BY DEF IInv
  <1>1. AccountShapes' /\ SessionShapes' /\ RestShapes' /\ Steady
    BY <1>0, AccountShapesStep, SessionShapesStep, SteadyStep
  <1>2. WorkShapes' /\ Carrying' /\ Rooted' /\ FlowShapes' /\ Offered'
    BY <1>0, <1>1, CarryingStep, RootedStep, OfferedStep
  <1>3. TypeOK'
    BY <1>1, <1>2, TypePartsNext
  <1>4. TokensMove
    BY <1>0, <1>1, TokensStep
  <1>5. Paired' /\ Counted' /\ Found' /\ Pending' /\ ReuseOnlyIfRepeated'
    BY <1>0, <1>1, <1>2, <1>4, PairedStep, CountedStep, FoundStep, PendingStep, ReuseStep
  <1>6. OneWinner'
    BY <1>0, <1>1, OneWinnerStep
  <1>7. MailedOnly' /\ Unlinking' /\ WayInKept'
    BY <1>0, <1>1, <1>2, MailedOnlyStep, UnlinkingStep, WayInKeptStep
  <1> QED
    BY <1>2, <1>3, <1>5, <1>6, <1>7 DEF IInv

LEMMA StutterInv ==
  ASSUME IInv, UNCHANGED vars
  PROVE  IInv'
  <1>0. /\ TypeOK /\ Carrying /\ Rooted /\ Offered /\ Paired /\ Counted /\ Found /\ Pending
        /\ ReuseOnlyIfRepeated /\ OneWinner /\ MailedOnly /\ Unlinking /\ WayInKept
    BY DEF IInv
  <1>1. TypeOK'
    BY <1>0 DEF vars, TypeOK
  <1>2. Carrying' /\ Rooted' /\ Offered'
    BY <1>0 DEF vars, Carrying, CarryingOf, Rooted, Offered, Registered, Exists
  <1>3. Paired' /\ Counted' /\ Found' /\ ReuseOnlyIfRepeated'
    BY <1>0 DEF vars, Paired, Counted, Found, ReuseOnlyIfRepeated, At, Live
  <1>4. Pending'
    BY <1>0 DEF vars, Pending, Standing, Live
  <1>5. OneWinner'
    BY <1>0 DEF vars, OneWinner, Winner
  <1>6. MailedOnly' /\ Unlinking' /\ WayInKept'
    BY <1>0 DEF vars, MailedOnly, Mailed, Unlinking, WayInKept, WayIn, At
  <1> QED
    BY <1>1, <1>2, <1>3, <1>4, <1>5, <1>6 DEF IInv

\* What is known of accounts, requests, tokens, app logins and ways in holds in
\* every state that the control store can reach (authn.py, control_store.py).
THEOREM InvCorrect == Spec => []IInv
  <1>1. Init => IInv
    BY InitInv
  <1>2. IInv /\ [Next]_vars => IInv'
    BY NextInv, StutterInv
  <1> QED
    BY <1>1, <1>2, PTL DEF Spec

\* Every table and every request has the shape that the code gives it, in every
\* state: a token number stays below those minted, a status is one the code writes.
THEOREM TypeCorrect == Spec => []TypeOK
  <1>1. IInv => TypeOK
    BY DEF IInv
  <1> QED
    BY <1>1, InvCorrect, PTL

\* A session ends for reuse only when one of its refresh tokens was presented
\* more than once, whatever races with the refreshes (_revoke_family_on_reuse).
THEOREM ReuseIsRepeated == Spec => []ReuseOnlyIfRepeated
  <1>1. IInv => ReuseOnlyIfRepeated
    BY DEF IInv
  <1> QED
    BY <1>1, InvCorrect, PTL

\* A token that was exchanged and is presented again has ended its family when
\* those requests are answered, unless the account was deleted or the server
\* stopped (authn.py, refresh): of a family that stands, the presentation that
\* finds the repetition out is under way.
THEOREM RepeatsEnd == Spec => []RepeatEndsFamily
  <1>1. IInv => RepeatEndsFamily
    <2> SUFFICES ASSUME IInv, NEW p \in Pairs, NEW s \in SessionIds,
                        uses[p] > 1, spent[p] = s, \A w \in Requests : work[w].pair # p,
                        Live(s), ~accounts[sessions[s].account].closed
                 PROVE  crashes > 0
      BY DEF RepeatEndsFamily
    <2>1. crashes # 0
      BY DEF IInv, Pending, Standing
    <2>2. crashes \in Nat
      BY AccountsAssumption DEF IInv, TypeOK
    <2> QED
      BY <2>1, <2>2
  <1> QED
    BY <1>1, InvCorrect, PTL

\* However many polls of an app login run at the same time, one session answers
\* it (main.py, "only the first successful poll wins").
THEOREM AppLoginsOnce == Spec => []OneSessionPerAppLogin
  <1>1. IInv => OneSessionPerAppLogin
    BY DEF IInv, OneWinner, OneSessionPerAppLogin, TypeOK, Session
  <1> QED
    BY <1>1, InvCorrect, PTL

\* An account that has had a way in has one, unless two unlinks of it overlapped
\* (authn.py, unlink_identity).
THEOREM WaysInKept == Spec => []WayInKept
  <1>1. IInv => WayInKept
    BY DEF IInv
  <1> QED
    BY <1>1, InvCorrect, PTL

-----------------------------------------------------------------------------
(***************************************************************************)
(* Refresh tokens implement token families                                 *)
(***************************************************************************)
\* Nobody has had the next pair.
LEMMA NextIsFresh ==
  ASSUME TypeOK, Paired, minted < MaxPairs
  PROVE  minted + 1 \in Pairs /\ Families!Fresh(minted + 1)
  <1>1. minted \in Nat /\ minted + 1 \in Pairs
    BY AccountsAssumption DEF TypeOK, Pairs
  <1>2. \A s \in SessionIds : sessions[s].pair \in Nat
    BY AccountsAssumption DEF TypeOK, Session
  <1> QED
    BY <1>1, <1>2 DEF Paired, Families!Fresh

\* A login opens a family, a refresh exchanges its token, and whatever revokes
\* sessions ends families.
LEMMA ChainStep ==
  ASSUME TypeOK, Carrying, Paired, TokensMove
  PROVE  Families!Next \/ UNCHANGED Families!vars
  <1>0. /\ \A s \in SessionIds : sessions[s].pair \in Nat /\ sessions[s] \in Session
        /\ minted \in Nat /\ NoSession \notin SessionIds
    BY SessionFacts DEF TypeOK
  <1>1. ASSUME UNCHANGED <<sessions, spent>>
        PROVE  UNCHANGED Families!vars
    BY <1>1 DEF Families!vars
  <1>2. ASSUME NEW w \in Requests, NEW s \in SessionIds, Opens(w, s)
        PROVE  \E q \in Pairs : Families!Open(s, q)
    <2> PICK q : q = minted + 1
      OBVIOUS
    <2>1. Opened(w, s) /\ UNCHANGED spent
      BY <1>2 DEF Opens
    <2>2. sessions[s].revoked = "no" /\ sessions'[s].revoked = "no"
      BY <2>1 DEF Opened, Paired
    <2>3. [t \in SessionIds |-> sessions'[t].pair]
             = [[t \in SessionIds |-> sessions[t].pair] EXCEPT ![s] = q]
      BY <2>1 DEF Opened
    <2>4. {t \in SessionIds : sessions'[t].revoked # "no"} = {t \in SessionIds : sessions[t].revoked # "no"}
      BY <2>1, <2>2 DEF Opened
    <2> QED
      <3>1. Families!Fresh(q) /\ q \in Pairs
        BY <2>1, NextIsFresh DEF Opened
      <3>2. [t \in SessionIds |-> sessions[t].pair][s] = 0
        BY <2>1 DEF Opened
      <3> QED
        BY <2>1, <2>2, <2>3, <2>4, <3>1, <3>2 DEF Families!Open
  <1>3. ASSUME NEW w \in Requests, Rotates(w)
        PROVE  \E s \in SessionIds, q \in Pairs : Families!Exchange(s, q)
    <2> PICK q : q = minted + 1
      OBVIOUS
    <2> DEFINE s == work[w].session
               p == work[w].pair
    <2>1. s \in SessionIds /\ p \in Pairs /\ Rotated(s, p)
      BY <1>3, SessionFacts DEF Rotates, Presenting
    <2> HIDE DEF s, p
    <2>2. spent[p] = NoSession
      BY <1>0, <2>1 DEF Rotated, Paired
    <2>3. [t \in SessionIds |-> sessions'[t].pair]
             = [[t \in SessionIds |-> sessions[t].pair] EXCEPT ![s] = q]
      BY <2>1 DEF Rotated
    <2>4. {t \in SessionIds : sessions'[t].revoked # "no"} = {t \in SessionIds : sessions[t].revoked # "no"}
      BY <2>1 DEF Rotated, Live
    <2>5. spent' = [spent EXCEPT ![p] = s]
      BY <2>1, <2>2 DEF Rotated, TypeOK
    <2>6. [t \in SessionIds |-> sessions[t].pair][s] = p /\ p # 0
      BY <2>1 DEF Rotated, Live
    <2> QED
      <3>1. Families!Fresh(q) /\ q \in Pairs
        BY <2>1, NextIsFresh DEF Rotated
      <3>2. sessions[s].revoked = "no"
        BY <2>1 DEF Rotated, Live
      <3> QED
        BY <2>1, <2>3, <2>4, <2>5, <2>6, <3>1, <3>2 DEF Families!Exchange
  <1>4. ASSUME NEW S, NEW reason \in Reasons, Ended(S, reason), UNCHANGED spent
        PROVE  \E E \in SUBSET SessionIds : Families!End(E)
    <2>1. PICK E : E = {t \in SessionIds : t \in S /\ Live(t)}
      OBVIOUS
    <2>2. [t \in SessionIds |-> sessions'[t].pair] = [t \in SessionIds |-> sessions[t].pair]
      BY <1>4 DEF Ended, Kept
    <2>3. {t \in SessionIds : sessions'[t].revoked # "no"}
             = {t \in SessionIds : sessions[t].revoked # "no"} \cup E
      BY <1>4, <2>1 DEF Ended, Live, Reasons
    <2>4. \A t \in E : [r \in SessionIds |-> sessions[r].pair][t] # 0
      BY <1>0, <2>1 DEF Live
    <2>5. Families!End(E)
      BY <1>4, <2>2, <2>3, <2>4 DEF Families!End
    <2> QED
      BY <2>1, <2>5
  <1>5. ASSUME NEW S, NEW reason \in Reasons, Ended(S, reason), UNCHANGED spent
        PROVE  Families!Next
    BY <1>4, <1>5 DEF Families!Next
  <1>6. ASSUME NEW w \in Requests, RefreshesTo(w)
        PROVE  Families!Next \/ UNCHANGED Families!vars
    <2>1. CASE Leaves(w) \/ FindsOut(w)
      BY <1>1, <1>5, <2>1 DEF Leaves, FindsOut, Reasons
    <2>2. CASE Rotates(w)
      BY <1>3, <2>2 DEF Families!Next
    <2>3. CASE GoesToRotate(w) \/ Loses(w) \/ \E p \in Pairs : Finds(w, p)
      BY <1>1, <2>3 DEF GoesToRotate, Loses, Finds, SessionState
    <2> QED
      BY <1>6, <2>1, <2>2, <2>3 DEF RefreshesTo
  <1>7. ASSUME NEW w \in Requests, NEW s \in SessionIds, Opens(w, s)
        PROVE  Families!Next
    BY <1>2, <1>7 DEF Families!Next
  <1>8. CASE Silent \/ \E w \in Requests : Dies(w)
    BY <1>1, <1>8 DEF Silent, Dies, SessionState
  <1>9. ASSUME NEW S, NEW reason, Revokes(S, reason)
        PROVE  Families!Next
    BY <1>5, <1>9 DEF Revokes
  <1> QED
    BY <1>6, <1>7, <1>8, <1>9 DEF TokensMove

\* The tokens of a session follow one another and end with it, whatever the
\* refreshes, logouts and revocations do at the same time: sessions implement
\* token families (authn.py, refresh; control_store.py, rotate_session).
THEOREM SessionsAreFamilies == Spec => Chain
  <1>1. Init => Families!Init
    BY DEF Init, Families!Init, NoSessionRow
  <1>2. IInv /\ [Next]_vars => [Families!Next]_(Families!vars)
    <2>1. ASSUME IInv, Next
          PROVE  Families!Next \/ UNCHANGED Families!vars
      <3>1. TypeOK /\ Carrying /\ Rooted /\ Offered /\ Paired
        BY <2>1 DEF IInv
      <3>2. SessionShapes' /\ Steady
        BY <2>1, <3>1, SessionShapesStep, SteadyStep
      <3> QED
        BY <2>1, <3>1, <3>2, TokensStep, ChainStep
    <2>2. ASSUME UNCHANGED vars
          PROVE  UNCHANGED Families!vars
      BY <2>2 DEF vars, Families!vars
    <2> QED
      BY <2>1, <2>2
  <1> QED
    BY <1>1, <1>2, InvCorrect, PTL DEF Spec, Chain, Families!Spec
=============================================================================
