--------------------------- MODULE IdentityProofs ---------------------------
(***************************************************************************)
(* Theorems about Identity, for any number of actors, people, accounts,    *)
(* tokens and sessions, and any number of requests.                        *)
(***************************************************************************)
EXTENDS Identity, TLAPS

----------------------------------------------------------------------------
(* Types. A request is sound when what it holds is what its step needs.    *)

Credentials == Tokens \cup Sessions

Requests ==
    [step : Steps, key : Credentials \cup {Null},
     row : APITokenRows \cup BrowserSessionRows \cup {Null},
     user : Users \cup {Null}, account : Accounts \cup {Null}, role : Roles \cup {Null},
     subject : Subjects \cup {Null}, email : Emails \cup {Null}, known : BOOLEAN,
     secret : SUBSET Users, dead : SUBSET (Credentials \cup Accounts)]

\* What a person was found by still holds when the sign-in is reconciled.
Sound(r) ==
    /\ r \in Requests
    /\ r.step = "touch" => r.key \in Sessions /\ r.row \in BrowserSessionRows
    /\ r.step \in {"load_account", "stamp"} => r.key \in Tokens /\ r.row \in APITokenRows
    /\ r.step \in {"load_account", "stamp"} => accounts[r.row.account] # Null
    /\ r.step \in {"touch", "load_account"} => r.account = Null
    /\ r.step \in {"register", "bootstrap", "exchanged", "reconcile"} => r.email \in Emails
    /\ r.step \in {"exchanged", "reconcile"} => r.subject \in Subjects
    /\ r.step \in {"attribute", "issue"} => r.user \in Users
    /\ r.step = "reconcile" /\ r.user # Null => users[r.user] = r.email
    /\ r.step = "reconcile" /\ r.role # Null => r.user # Null /\ members[r.user] # Null

LocalInv ==
    /\ request \in [Actors -> Requests]
    /\ \A a \in Actors : Sound(request[a])
    /\ \A t \in Tokens : tokens[t] # Null => accounts[tokens[t].account] # Null

TypeInv == TypeOK /\ LocalInv

\* No handler takes a user, a membership or a service account away, or gives a user
\* another email.
Lasting ==
    /\ \A u \in Users : users[u] # Null => users'[u] = users[u]
    /\ \A u \in Users : members[u] # Null => members'[u] # Null
    /\ \A c \in Accounts : accounts[c] # Null => accounts'[c] # Null

LEMMA SameRows == UNCHANGED <<users, members, accounts>> => Lasting
BY DEF Lasting

LEMMA SoundStays ==
    ASSUME Lasting, NEW r, Sound(r)
    PROVE Sound(r)'
<1> USE DEF Sound
<1>1. r.step \in {"load_account", "stamp"} => accounts'[r.row.account] # Null
    BY DEF Lasting, APITokenRows
<1>2. r.step = "reconcile" /\ r.user # Null => users'[r.user] = r.email
    BY IdentityValues DEF Lasting, Requests
<1>3. r.step = "reconcile" /\ r.role # Null => r.user # Null /\ members'[r.user] # Null
    BY DEF Lasting, Requests
<1> QED BY <1>1, <1>2, <1>3

\* One request took a step, the others hold what they held.
LEMMA RequestTypes ==
    ASSUME TypeInv, Lasting, NEW a \in Actors, NEW r, Sound(r),
           request' = [request EXCEPT ![a] = r]
    PROVE request' \in [Actors -> Requests] /\ \A b \in Actors : Sound(request[b])'
<1>1. request' \in [Actors -> Requests]
    BY DEF TypeInv, LocalInv, Sound
<1>2. ASSUME NEW b \in Actors PROVE Sound(request[b])'
    <2>1. Sound(request'[b])
        BY DEF TypeInv, LocalInv
    <2>2. ASSUME NEW q, q = request'[b] PROVE Sound(q)'
        BY <2>1, <2>2, SoundStays
    <2> QED BY <2>2
<1> QED BY <1>1, <1>2

LEMMA SameRequests ==
    ASSUME TypeInv, Lasting, UNCHANGED request
    PROVE request' \in [Actors -> Requests] /\ \A b \in Actors : Sound(request[b])'
<1>1. ASSUME NEW b \in Actors PROVE Sound(request[b])'
    <2>1. ASSUME NEW q, q = request[b] PROVE Sound(q)'
        BY <2>1, SoundStays DEF TypeInv, LocalInv
    <2> QED BY <2>1 
<1> QED BY <1>1 DEF TypeInv, LocalInv

LEMMA IdleSound == Sound(Idle) /\ Idle.step = "idle"
BY DEF Sound, Idle, Requests, Steps

LEMMA BeginTypes ==
    ASSUME TypeInv, Lasting, NEW a \in Actors, NEW r, Sound(r), Begin(a, r)
    PROVE /\ request' \in [Actors -> Requests] /\ budget' \in 0..MaxRequests
          /\ \A b \in Actors : Sound(request[b])'
<1> DEFINE q == [r EXCEPT !.dead = withdrawn]
<1>1. withdrawn \in SUBSET (Credentials \cup Accounts)
    BY DEF TypeInv, TypeOK, Credentials
<1>2. Sound(q)
    BY <1>1 DEF Sound, Requests
<1>3. request' = [request EXCEPT ![a] = q] /\ budget' \in 0..MaxRequests
    BY IdentityAssumption DEF Begin, TypeInv, TypeOK
<1> HIDE DEF q
<1> QED BY <1>2, <1>3, RequestTypes

LEMMA InitTypes == Init => TypeInv
<1> SUFFICES ASSUME Init PROVE TypeInv
    OBVIOUS
<1>1. Idle \in Requests
    BY IdleSound DEF Sound
<1>2. accounts \in [Accounts -> ServiceAccountRows \cup {Null}]
    BY IdentityAssumption DEF Init, ServiceAccountRows
<1>3. /\ tokens \in [Tokens -> APITokenRows \cup {Null}]
      /\ \A t \in Tokens : tokens[t] # Null => accounts[tokens[t].account] # Null
    BY IdentityValues DEF Init, APITokenRows, Fresh
<1>4. TypeOK
    BY <1>2, <1>3, IdentityAssumption DEF Init, TypeOK, Idle, Steps
<1> QED BY <1>1, <1>3, <1>4, IdleSound DEF Init, TypeInv, LocalInv

LEMMA AuthenticateTypes ==
    ASSUME TypeInv, NEW a \in Actors, Authenticate(a)
    PROVE TypeInv'
<1>t. TypeOK /\ LocalInv /\ Sound(request[a])
    BY DEF TypeInv, LocalInv
<1> USE DEF people, credentials
<1>1. ASSUME NEW s \in Sessions, ReadSession(a, s) PROVE TypeInv'
    <2> DEFINE r == [Idle EXCEPT !.step = "touch", !.key = s, !.row = sessions[s]]
    <2>1. sessions[s] \in BrowserSessionRows
        BY <1>1, <1>t DEF ReadSession, LiveSession, TypeOK
    <2>2. Sound(r) /\ Begin(a, r)
        BY <1>1, <2>1 DEF ReadSession, Sound, Idle, Requests, Steps, Credentials
    <2>3. Lasting
        BY <1>1, SameRows DEF ReadSession
    <2> HIDE DEF r
    <2>4. /\ request' \in [Actors -> Requests] /\ budget' \in 0..MaxRequests
          /\ \A b \in Actors : Sound(request[b])'
        BY <2>2, <2>3, BeginTypes
    <2> QED BY <1>1, <1>t, <2>4 DEF ReadSession, TypeInv, TypeOK, LocalInv, Requests
<1>2. ASSUME TouchSession(a) PROVE TypeInv'
    <2> DEFINE r == request[a]
               q == [r EXCEPT !.step = "admitted", !.user = r.row.user,
                              !.role = members[r.row.user], !.row = Null]
    <2>1. r \in Requests /\ r.key \in Sessions /\ r.row \in BrowserSessionRows
        BY <1>2, <1>t DEF TouchSession, At, Sound
    <2>2. r.row.user \in Users /\ members[r.row.user] \in Roles \cup {Null}
        BY <1>t, <2>1 DEF BrowserSessionRows, TypeOK
    <2>3. Sound(q)
        BY ZenonT(60), <2>1, <2>2 DEF Sound, Requests, Steps
    <2>4. request' = [request EXCEPT ![a] = q] /\ Lasting
        BY <1>2, SameRows DEF TouchSession, Advance
    <2>5. sessions' \in [Sessions -> BrowserSessionRows \cup {Null}]
        BY <1>2, <1>t, <2>1 DEF TouchSession, TypeOK
    <2> HIDE DEF q
    <2>6. /\ request' \in [Actors -> Requests]
          /\ \A b \in Actors : Sound(request[b])'
        BY <2>3, <2>4, RequestTypes
    <2> QED BY <1>2, <1>t, <2>5, <2>6
            DEF TouchSession, Advance, TypeInv, TypeOK, LocalInv, Requests
<1>3. ASSUME NEW t \in Tokens, ReadToken(a, t) PROVE TypeInv'
    <2> DEFINE r == [Idle EXCEPT !.step = "load_account", !.key = t, !.row = tokens[t]]
    <2>1. tokens[t] \in APITokenRows /\ accounts[tokens[t].account] # Null
        BY <1>3, <1>t DEF ReadToken, TypeOK, LocalInv
    <2>2. Sound(r) /\ Begin(a, r)
        BY <1>3, <2>1 DEF ReadToken, Sound, Idle, Requests, Steps, Credentials
    <2>3. Lasting
        BY <1>3, SameRows DEF ReadToken
    <2> HIDE DEF r
    <2>4. /\ request' \in [Actors -> Requests] /\ budget' \in 0..MaxRequests
          /\ \A b \in Actors : Sound(request[b])'
        BY <2>2, <2>3, BeginTypes
    <2> QED BY <1>3, <1>t, <2>4 DEF ReadToken, TypeInv, TypeOK, LocalInv, Requests
<1>4. ASSUME LoadAccount(a) PROVE TypeInv'
    <2> DEFINE r == request[a]
               c == r.row.account
               q == IF accounts[c].status = "active"
                    THEN [r EXCEPT !.step = "stamp", !.account = c, !.role = accounts[c].role]
                    ELSE Idle
    <2>1. r \in Requests /\ r.key \in Tokens /\ r.row \in APITokenRows /\ accounts[c] # Null
        BY <1>4, <1>t DEF LoadAccount, At, Sound
    <2>2. c \in Accounts /\ accounts[c].role \in Roles
        BY <1>t, <2>1 DEF APITokenRows, ServiceAccountRows, TypeOK
    <2>3. Sound([r EXCEPT !.step = "stamp", !.account = c, !.role = accounts[c].role])
        BY ZenonT(60), <2>1, <2>2 DEF Sound, Requests, Steps
    <2>4. request' = [request EXCEPT ![a] = q] /\ Lasting
        BY <1>4, SameRows DEF LoadAccount, Advance
    <2>5. Sound(q)
        BY <2>3, IdleSound
    <2> HIDE DEF q
    <2>6. /\ request' \in [Actors -> Requests]
          /\ \A b \in Actors : Sound(request[b])'
        BY <2>4, <2>5, RequestTypes
    <2> QED BY <1>4, <1>t, <2>6 DEF LoadAccount, Advance, TypeInv, TypeOK, LocalInv, Requests
<1>5. ASSUME StampToken(a) PROVE TypeInv'
    <2> DEFINE r == request[a]
               q == [r EXCEPT !.step = "admitted", !.row = Null]
    <2>1. /\ r \in Requests /\ r.key \in Tokens
          /\ r.row \in APITokenRows /\ accounts[r.row.account] # Null
        BY <1>5, <1>t DEF StampToken, At, Sound
    <2>2. Sound(q)
        <3>1. q \in Requests /\ q.step = "admitted"
            BY <2>1 DEF Requests, Steps
        <3> HIDE DEF q
        <3> QED BY <3>1 DEF Sound
    <2>3. request' = [request EXCEPT ![a] = q] /\ Lasting
        BY <1>5, SameRows DEF StampToken, StampedAccounts, Advance
    <2>4. tokens' \in [Tokens -> APITokenRows \cup {Null}]
        BY <1>5, <1>t, <2>1 DEF StampToken, TypeOK
    <2>5. \A t \in Tokens : tokens'[t] # Null => accounts'[tokens'[t].account] # Null
        <3>1. tokens' = [tokens EXCEPT ![r.key] = r.row] /\ accounts' = accounts
            BY <1>5 DEF StampToken, StampedAccounts
        <3> HIDE DEF r
        <3> QED BY <1>t, <2>1, <3>1 DEF TypeOK, LocalInv
    <2> HIDE DEF q
    <2>6. /\ request' \in [Actors -> Requests]
          /\ \A b \in Actors : Sound(request[b])'
        BY <2>2, <2>3, RequestTypes
    <2>7. UNCHANGED <<people, enabled, accounts, sessions, expired, withdrawn, budget>>
        BY <1>5 DEF StampToken, StampedAccounts, Advance
    <2> QED BY <1>t, <2>4, <2>5, <2>6, <2>7 DEF TypeInv, TypeOK, LocalInv, Requests
<1> QED BY <1>1, <1>2, <1>3, <1>4, <1>5 DEF Authenticate

\* A request that ends, or goes on with a sound record, while rows only get written.
LEMMA AdvanceTypes ==
    ASSUME TypeInv, Lasting, NEW a \in Actors, NEW r, Sound(r), Advance(a, r)
    PROVE /\ request' \in [Actors -> Requests] /\ \A b \in Actors : Sound(request[b])'
          /\ budget' \in 0..MaxRequests
BY RequestTypes DEF Advance, TypeInv, TypeOK

LEMMA WithdrawTypes ==
    ASSUME TypeInv, NEW key \in Credentials \cup Accounts, Withdraw(key)
    PROVE withdrawn' \subseteq Tokens \cup Sessions \cup Accounts /\ withdrawn \subseteq withdrawn'
BY DEF TypeInv, TypeOK, Withdraw, Credentials

LEMMA AdministerTypes ==
    ASSUME TypeInv, NEW a \in Actors, Administer(a)
    PROVE TypeInv'
<1>t. TypeOK /\ LocalInv /\ Sound(request[a])
    BY DEF TypeInv, LocalInv
<1> USE DEF people, credentials
<1>1. ASSUME NEW c \in Accounts, NEW role \in Roles, CreateServiceAccount(a, c, role)
      PROVE TypeInv'
    <2>1. [role |-> role, status |-> "active"] \in ServiceAccountRows
        BY DEF ServiceAccountRows
    <2>2. accounts' \in [Accounts -> ServiceAccountRows \cup {Null}]
        BY <1>1, <1>t, <2>1 DEF CreateServiceAccount, TypeOK
    <2>3. Lasting
        BY <1>1, <1>t, <2>1, IdentityValues DEF CreateServiceAccount, Lasting, TypeOK
    <2>4. \A t \in Tokens : tokens'[t] # Null => accounts'[tokens'[t].account] # Null
        BY <1>1, <1>t, <2>3 DEF CreateServiceAccount, LocalInv, Lasting, TypeOK, APITokenRows
    <2>5. /\ request' \in [Actors -> Requests] /\ \A b \in Actors : Sound(request[b])'
          /\ budget' \in 0..MaxRequests
        BY <1>1, <2>3, IdleSound, AdvanceTypes DEF CreateServiceAccount, Finish
    <2> QED BY <1>1, <1>t, <2>2, <2>4, <2>5
            DEF CreateServiceAccount, TypeInv, TypeOK, LocalInv, Requests
<1>2. ASSUME NEW c \in Accounts, DeactivateServiceAccount(a, c) PROVE TypeInv'
    <2>1. [accounts[c] EXCEPT !.status = "inactive"] \in ServiceAccountRows
        BY <1>2, <1>t DEF DeactivateServiceAccount, ServiceAccountRows, TypeOK
    <2>2. accounts' = [accounts EXCEPT ![c] = [accounts[c] EXCEPT !.status = "inactive"]]
        BY <1>2 DEF DeactivateServiceAccount
    <2>3. accounts' \in [Accounts -> ServiceAccountRows \cup {Null}]
        BY <1>t, <2>1, <2>2 DEF TypeOK
    <2>4. Lasting
        BY <1>2, <1>t, <2>1, <2>2, IdentityValues DEF DeactivateServiceAccount, Lasting, TypeOK
    <2>5. \A t \in Tokens : tokens'[t] # Null => accounts'[tokens'[t].account] # Null
        BY <1>2, <1>t, <2>4 DEF DeactivateServiceAccount, LocalInv, Lasting, TypeOK, APITokenRows
    <2>6. /\ request' \in [Actors -> Requests] /\ \A b \in Actors : Sound(request[b])'
          /\ budget' \in 0..MaxRequests
        BY <1>2, <2>4, IdleSound, AdvanceTypes DEF DeactivateServiceAccount, Finish
    <2>7. withdrawn' \subseteq Tokens \cup Sessions \cup Accounts
        BY <1>2, WithdrawTypes DEF DeactivateServiceAccount
    <2> QED BY <1>2, <1>t, <2>3, <2>5, <2>6, <2>7
            DEF DeactivateServiceAccount, TypeInv, TypeOK, LocalInv, Requests
<1>3. ASSUME NEW c \in Accounts, NEW t \in Tokens, IssueServiceAccountToken(a, c, t)
      PROVE TypeInv'
    <2>1. Fresh(c) \in APITokenRows /\ Fresh(c).account = c
        BY DEF Fresh, APITokenRows
    <2>2. tokens' = [tokens EXCEPT ![t] = Fresh(c)] /\ accounts[c] # Null /\ accounts' = accounts
        BY <1>3 DEF IssueServiceAccountToken
    <2>3. /\ tokens' \in [Tokens -> APITokenRows \cup {Null}]
          /\ \A k \in Tokens : tokens'[k] # Null => accounts'[tokens'[k].account] # Null
        BY <1>t, <2>1, <2>2 DEF TypeOK, LocalInv
    <2>4. /\ request' \in [Actors -> Requests] /\ \A b \in Actors : Sound(request[b])'
          /\ budget' \in 0..MaxRequests
        BY <1>3, SameRows, IdleSound, AdvanceTypes DEF IssueServiceAccountToken, Finish
    <2> QED BY <1>3, <1>t, <2>3, <2>4
            DEF IssueServiceAccountToken, TypeInv, TypeOK, LocalInv, Requests
<1>4. ASSUME NEW t \in Tokens, RevokeAPIToken(a, t) PROVE TypeInv'
    <2>1. /\ [tokens[t] EXCEPT !.status = "revoked"] \in APITokenRows
          /\ [tokens[t] EXCEPT !.status = "revoked"].account = tokens[t].account
          /\ tokens[t] # Null
        BY <1>4, <1>t DEF RevokeAPIToken, APITokenRows, TypeOK
    <2>2. /\ tokens' = [tokens EXCEPT ![t] = [tokens[t] EXCEPT !.status = "revoked"]]
          /\ accounts' = accounts
        BY <1>4 DEF RevokeAPIToken
    <2>3. /\ tokens' \in [Tokens -> APITokenRows \cup {Null}]
          /\ \A k \in Tokens : tokens'[k] # Null => accounts'[tokens'[k].account] # Null
        BY <1>t, <2>1, <2>2 DEF TypeOK, LocalInv
    <2>4. /\ request' \in [Actors -> Requests] /\ \A b \in Actors : Sound(request[b])'
          /\ budget' \in 0..MaxRequests
        BY <1>4, SameRows, IdleSound, AdvanceTypes DEF RevokeAPIToken, Finish
    <2>5. withdrawn' \subseteq Tokens \cup Sessions \cup Accounts
        BY <1>4, WithdrawTypes DEF RevokeAPIToken, Credentials
    <2> QED BY <1>4, <1>t, <2>3, <2>4, <2>5
            DEF RevokeAPIToken, TypeInv, TypeOK, LocalInv, Requests
<1>5. ASSUME NEW t \in Tokens, NEW next \in Tokens, RotateAPIToken(a, t, next) PROVE TypeInv'
    <2>1. /\ [tokens[t] EXCEPT !.status = "revoked"] \in APITokenRows
          /\ [tokens[t] EXCEPT !.status = "revoked"].account = tokens[t].account
          /\ tokens[t] # Null /\ tokens[t].account \in Accounts
        BY <1>5, <1>t DEF RotateAPIToken, APITokenRows, TypeOK
    <2>2. Fresh(tokens[t].account) \in APITokenRows
          /\ Fresh(tokens[t].account).account = tokens[t].account
        BY <2>1 DEF Fresh, APITokenRows
    <2>3. /\ tokens' = [tokens EXCEPT ![t] = [tokens[t] EXCEPT !.status = "revoked"],
                                      ![next] = Fresh(tokens[t].account)]
          /\ accounts' = accounts
        BY <1>5 DEF RotateAPIToken
    <2>4. /\ tokens' \in [Tokens -> APITokenRows \cup {Null}]
          /\ \A k \in Tokens : tokens'[k] # Null => accounts'[tokens'[k].account] # Null
        BY <1>t, <2>1, <2>2, <2>3 DEF TypeOK, LocalInv
    <2>5. /\ request' \in [Actors -> Requests] /\ \A b \in Actors : Sound(request[b])'
          /\ budget' \in 0..MaxRequests
        BY <1>5, SameRows, IdleSound, AdvanceTypes DEF RotateAPIToken, Finish
    <2>6. withdrawn' \subseteq Tokens \cup Sessions \cup Accounts
        BY <1>5, WithdrawTypes DEF RotateAPIToken, Credentials
    <2> QED BY <1>5, <1>t, <2>4, <2>5, <2>6
            DEF RotateAPIToken, TypeInv, TypeOK, LocalInv, Requests
<1>6. ASSUME NEW s \in Sessions, RevokeBrowserSessionByID(a, s) PROVE TypeInv'
    <2>1. [sessions[s] EXCEPT !.revoked = TRUE] \in BrowserSessionRows
        BY <1>6, <1>t DEF RevokeBrowserSessionByID, BrowserSessionRows, TypeOK
    <2>2. sessions' \in [Sessions -> BrowserSessionRows \cup {Null}]
        BY <1>6, <1>t, <2>1 DEF RevokeBrowserSessionByID, Revoked, TypeOK
    <2>3. /\ request' \in [Actors -> Requests] /\ \A b \in Actors : Sound(request[b])'
          /\ budget' \in 0..MaxRequests
        BY <1>6, SameRows, IdleSound, AdvanceTypes DEF RevokeBrowserSessionByID, Finish
    <2>4. withdrawn' \subseteq Tokens \cup Sessions \cup Accounts
        BY <1>6, WithdrawTypes DEF RevokeBrowserSessionByID, Revoked, Credentials
    <2> QED BY <1>6, <1>t, <2>2, <2>3, <2>4
            DEF RevokeBrowserSessionByID, TypeInv, TypeOK, LocalInv, Requests
<1>7. ASSUME NEW switch \in BOOLEAN, UpdateIdentityProvider(a, switch) PROVE TypeInv'
    <2>1. /\ request' \in [Actors -> Requests] /\ \A b \in Actors : Sound(request[b])'
          /\ budget' \in 0..MaxRequests
        BY <1>7, SameRows, IdleSound, AdvanceTypes DEF UpdateIdentityProvider, Finish
    <2> QED BY <1>7, <1>t, <2>1
            DEF UpdateIdentityProvider, TypeInv, TypeOK, LocalInv, Requests
<1>8. ASSUME TestIdentityProvider(a) PROVE TypeInv'
    <2> DEFINE r == [Idle EXCEPT !.step = "probe", !.known = enabled]
    <2>1. Sound(r)
        <3>1. r \in Requests /\ r.step = "probe"
            BY <1>t DEF Idle, Requests, Steps, TypeOK
        <3> HIDE DEF r
        <3> QED BY <3>1 DEF Sound
    <2>2. Advance(a, r) /\ Lasting
        BY <1>8, SameRows DEF TestIdentityProvider
    <2> HIDE DEF r
    <2>3. /\ request' \in [Actors -> Requests] /\ \A b \in Actors : Sound(request[b])'
          /\ budget' \in 0..MaxRequests
        BY <2>1, <2>2, AdvanceTypes
    <2> QED BY <1>8, <1>t, <2>3 DEF TestIdentityProvider, TypeInv, TypeOK, LocalInv, Requests
<1>9. ASSUME StoreProbe(a) PROVE TypeInv'
    <2>1. /\ request' \in [Actors -> Requests] /\ \A b \in Actors : Sound(request[b])'
          /\ budget' \in 0..MaxRequests
        BY <1>9, SameRows, IdleSound, AdvanceTypes DEF StoreProbe, Finish
    <2>2. request[a].known \in BOOLEAN
        BY <1>t DEF Sound, Requests
    <2> QED BY <1>9, <1>t, <2>1, <2>2 DEF StoreProbe, TypeInv, TypeOK, LocalInv, Requests
<1> QED BY <1>1, <1>2, <1>3, <1>4, <1>5, <1>6, <1>7, <1>8, <1>9 DEF Administer

\* What an insertion of a user does: it is refused, or the id gets the email.
LEMMA InsertFacts ==
    ASSUME TypeInv, NEW a \in Actors, NEW u \in Users, NEW step, Insert(a, u, step),
           request[a].email \in Emails
    PROVE \/ users' = users /\ Finish(a)
          \/ /\ UniqueEmail(request[a].email) /\ users[u] = Null
             /\ users' = [users EXCEPT ![u] = request[a].email] /\ users' # users
             /\ Advance(a, [request[a] EXCEPT !.step = step, !.user = u])
BY IdentityValues DEF Insert, TypeInv, TypeOK

LEMMA PasswordTypes ==
    ASSUME TypeInv, NEW a \in Actors, SignInByPassword(a)
    PROVE TypeInv'
<1>t. TypeOK /\ LocalInv /\ Sound(request[a])
    BY DEF TypeInv, LocalInv
<1> USE DEF people, credentials
<1>1. ASSUME NEW u \in Users, SignIn(a, u) PROVE TypeInv'
    <2> DEFINE r == [Idle EXCEPT !.step = "issue", !.user = u]
    <2>1. Sound(r) /\ Begin(a, r) /\ Lasting
        BY <1>1, SameRows DEF SignIn, Sound, Idle, Requests, Steps
    <2> HIDE DEF r
    <2>2. /\ request' \in [Actors -> Requests] /\ budget' \in 0..MaxRequests
          /\ \A b \in Actors : Sound(request[b])'
        BY <2>1, BeginTypes
    <2> QED BY <1>1, <1>t, <2>2 DEF SignIn, TypeInv, TypeOK, LocalInv, Requests
<1>2. ASSUME NEW email \in Emails, BeginSignUp(a, email) PROVE TypeInv'
    <2>1. PICK found \in Users \cup {Null} :
            Begin(a, [Idle EXCEPT !.step = "register", !.email = email, !.user = found])
        BY <1>2 DEF BeginSignUp, UsersOf
    <2> DEFINE r == [Idle EXCEPT !.step = "register", !.email = email, !.user = found]
    <2>2. Sound(r) /\ Begin(a, r) /\ Lasting
        BY <1>2, <2>1, SameRows DEF BeginSignUp, Sound, Idle, Requests, Steps
    <2> HIDE DEF r
    <2>3. /\ request' \in [Actors -> Requests] /\ budget' \in 0..MaxRequests
          /\ \A b \in Actors : Sound(request[b])'
        BY <2>2, BeginTypes
    <2> QED BY <1>2, <1>t, <2>3 DEF BeginSignUp, TypeInv, TypeOK, LocalInv, Requests
<1>3. ASSUME NEW u \in Users, Register(a, u) PROVE TypeInv'
    <2> DEFINE r == request[a]
               q == [r EXCEPT !.step = "issue"]
               n == [r EXCEPT !.step = "issue", !.user = u]
    <2>1. r \in Requests /\ r.email \in Emails
        BY <1>3, <1>t DEF Register, At, Sound
    <2>2. Sound(n)
        <3>1. n \in Requests /\ n.step = "issue" /\ n.user = u
            BY <2>1 DEF Requests, Steps
        <3> HIDE DEF n
        <3> QED BY <3>1 DEF Sound
    <2>3. r.user # Null => Sound(q)
        BY <2>1 DEF Sound, Requests, Steps
    <2>4. \/ users' = users /\ Finish(a)
          \/ users' = users /\ r.user # Null /\ Advance(a, q)
          \/ /\ users[u] = Null /\ users' = [users EXCEPT ![u] = r.email] /\ Advance(a, n)
        BY <1>3, <2>1, InsertFacts DEF Register
    <2>5. users' \in [Users -> Emails \cup {Null}] /\ passwords' \subseteq Users
        BY <1>3, <1>t, <2>1, <2>4 DEF Register, TypeOK
    <2>6. Lasting
        BY <1>3, <1>t, <2>4 DEF Register, Lasting, TypeOK
    <2> HIDE DEF q, n
    <2>7. /\ request' \in [Actors -> Requests] /\ \A b \in Actors : Sound(request[b])'
          /\ budget' \in 0..MaxRequests
        BY <2>2, <2>3, <2>4, <2>6, IdleSound, AdvanceTypes DEF Finish
    <2> QED BY <1>3, <1>t, <2>5, <2>7 DEF Register, TypeInv, TypeOK, LocalInv, Requests
<1>4. ASSUME NEW email \in Emails, BeginDevLogin(a, email) PROVE TypeInv'
    <2>1. PICK r : /\ Begin(a, r)
                   /\ \/ r = [Idle EXCEPT !.step = "bootstrap", !.email = email]
                      \/ \E u \in Users : r = [Idle EXCEPT !.step = "issue", !.user = u]
        BY <1>4 DEF BeginDevLogin, UsersOf
    <2>2. Sound(r) /\ Lasting
        BY <1>4, <2>1, SameRows DEF BeginDevLogin, Sound, Idle, Requests, Steps
    <2>3. /\ request' \in [Actors -> Requests] /\ budget' \in 0..MaxRequests
          /\ \A b \in Actors : Sound(request[b])'
        BY <2>1, <2>2, BeginTypes
    <2> QED BY <1>4, <1>t, <2>3 DEF BeginDevLogin, TypeInv, TypeOK, LocalInv, Requests
<1>5. ASSUME NEW u \in Users, NEW role \in Roles, Bootstrap(a, u, role) PROVE TypeInv'
    <2> DEFINE r == request[a]
               n == [r EXCEPT !.step = "issue", !.user = u]
    <2>1. r \in Requests /\ r.email \in Emails
        BY <1>5, <1>t DEF Bootstrap, At, Sound
    <2>2. Sound(n)
        <3>1. n \in Requests /\ n.step = "issue" /\ n.user = u
            BY <2>1 DEF Requests, Steps
        <3> HIDE DEF n
        <3> QED BY <3>1 DEF Sound
    <2>3. \/ users' = users /\ Finish(a)
          \/ /\ users[u] = Null /\ users' = [users EXCEPT ![u] = r.email] /\ Advance(a, n)
        BY <1>5, <2>1, InsertFacts DEF Bootstrap
    <2>4. members' = members \/ members' = [members EXCEPT ![u] = role]
        BY <1>5 DEF Bootstrap
    <2>5. users' \in [Users -> Emails \cup {Null}] /\ members' \in [Users -> Roles \cup {Null}]
        BY <1>t, <2>1, <2>3, <2>4 DEF TypeOK
    <2>6. Lasting
        BY <1>5, <1>t, <2>3, <2>4, IdentityValues DEF Bootstrap, Lasting, TypeOK
    <2> HIDE DEF n
    <2>7. /\ request' \in [Actors -> Requests] /\ \A b \in Actors : Sound(request[b])'
          /\ budget' \in 0..MaxRequests
        BY <2>2, <2>3, <2>6, IdleSound, AdvanceTypes DEF Finish
    <2> QED BY <1>5, <1>t, <2>5, <2>7 DEF Bootstrap, TypeInv, TypeOK, LocalInv, Requests
<1> QED BY <1>1, <1>2, <1>3, <1>4, <1>5 DEF SignInByPassword

\* What a reconciliation does: nothing, or all of its writes. A user that was found
\* has the email it was found by.
Reconciled(a, u, role) ==
    LET r == request[a] IN
    /\ users[u] = Null => UniqueEmail(r.email)
    /\ users[u] # Null => users[u] = r.email
    /\ UniqueLink(r.subject, u)
    /\ users' = [users EXCEPT ![u] = r.email]
    /\ \/ members' = members /\ members[u] # Null
       \/ members' = [members EXCEPT ![u] = role]
    /\ links' = links \cup {[subject |-> r.subject, user |-> u]}
    /\ Advance(a, [r EXCEPT !.step = "attribute", !.user = u])

LEMMA ReconcileFacts ==
    ASSUME TypeInv, NEW a \in Actors, NEW u \in Users, NEW role \in Roles, Reconcile(a, u, role)
    PROVE /\ Sound(request[a])
          /\ request[a].email \in Emails /\ request[a].subject \in Subjects
          /\ \/ UNCHANGED people /\ Finish(a)
             \/ Reconciled(a, u, role)
<1> DEFINE r == request[a]
<1>1. Sound(r) /\ r.step = "reconcile"
    BY DEF TypeInv, LocalInv, Reconcile, At
<1>2. r.email \in Emails /\ r.subject \in Subjects
    BY <1>1 DEF Sound
<1>3. r.user # Null => u = r.user /\ users[u] = r.email
    BY <1>1 DEF Reconcile, Sound
<1>4. r.role # Null => members[u] # Null
    BY <1>1, <1>3 DEF Sound
<1>5. r.user = Null => users[u] = Null
    BY DEF Reconcile
<1> QED BY <1>1, <1>2, <1>3, <1>4, <1>5, IdentityValues DEF Reconcile, Reconciled

\* What a look-up adds to a request.
Looked(r, u, role, secret) ==
    [r EXCEPT !.step = "reconcile", !.user = u, !.role = role, !.secret = secret]

LEMMA FoundTypes ==
    ASSUME NEW r \in Requests, NEW u \in Users \cup {Null}, NEW role \in Roles \cup {Null},
           NEW secret \in SUBSET Users
    PROVE /\ Looked(r, u, role, secret) \in Requests
          /\ Looked(r, u, role, secret).step = "reconcile"
          /\ Looked(r, u, role, secret).user = u
          /\ Looked(r, u, role, secret).role = role
          /\ Looked(r, u, role, secret).email = r.email
          /\ Looked(r, u, role, secret).subject = r.subject
<1>1. "reconcile" \in Steps
    BY DEF Steps
<1>2. Looked(r, u, role, secret) \in Requests
    BY <1>1 DEF Requests, Looked
<1> QED BY <1>2 DEF Requests, Looked

LEMMA ProviderTypes ==
    ASSUME TypeInv, NEW a \in Actors, SignInByProvider(a)
    PROVE TypeInv'
<1>t. TypeOK /\ LocalInv /\ Sound(request[a])
    BY DEF TypeInv, LocalInv
<1> USE DEF people, credentials
<1>1. ASSUME StartIdentityProviderSignIn(a) PROVE TypeInv'
    <2> DEFINE r == [Idle EXCEPT !.step = "started"]
    <2>1. Sound(r) /\ Begin(a, r) /\ Lasting
        BY <1>1, SameRows DEF StartIdentityProviderSignIn, Sound, Idle, Requests, Steps
    <2> HIDE DEF r
    <2>2. /\ request' \in [Actors -> Requests] /\ budget' \in 0..MaxRequests
          /\ \A b \in Actors : Sound(request[b])'
        BY <2>1, BeginTypes
    <2> QED BY <1>1, <1>t, <2>2
            DEF StartIdentityProviderSignIn, TypeInv, TypeOK, LocalInv, Requests
<1>2. ASSUME NEW subject \in Subjects, NEW email \in Emails,
             ExchangeIdentityProviderCode(a, subject, email)
      PROVE TypeInv'
    <2> DEFINE r == [request[a] EXCEPT !.step = "exchanged", !.subject = subject,
                                       !.email = email, !.known = enabled]
    <2>1. enabled \in BOOLEAN /\ request[a] \in Requests
        BY <1>t DEF TypeOK, Sound
    <2>2. Sound(r)
        <3>1. /\ r \in Requests /\ r.step = "exchanged"
              /\ r.email = email /\ r.subject = subject
            BY ZenonT(60), <2>1 DEF Requests, Steps
        <3> HIDE DEF r
        <3> QED BY <3>1 DEF Sound
    <2>3. Advance(a, r) /\ Lasting
        BY <1>2, SameRows DEF ExchangeIdentityProviderCode
    <2> HIDE DEF r
    <2>4. /\ request' \in [Actors -> Requests] /\ \A b \in Actors : Sound(request[b])'
          /\ budget' \in 0..MaxRequests
        BY <2>2, <2>3, AdvanceTypes
    <2> QED BY <1>2, <1>t, <2>4
            DEF ExchangeIdentityProviderCode, TypeInv, TypeOK, LocalInv, Requests
<1>3. ASSUME ExchangeFails(a) PROVE TypeInv'
    <2>1. /\ request' \in [Actors -> Requests] /\ \A b \in Actors : Sound(request[b])'
          /\ budget' \in 0..MaxRequests
        BY <1>3, SameRows, IdleSound, AdvanceTypes DEF ExchangeFails, Finish
    <2>2. request[a].known \in BOOLEAN
        BY <1>t DEF Sound, Requests
    <2> QED BY <1>3, <1>t, <2>1, <2>2 DEF ExchangeFails, TypeInv, TypeOK, LocalInv, Requests
<1>4. ASSUME FindPerson(a) PROVE TypeInv'
    <2> DEFINE r == request[a]
               Linked(u) == [r EXCEPT !.step = "attribute", !.user = u]
               Found(f) == [r EXCEPT !.step = "reconcile", !.user = f,
                                     !.role = IF f = Null THEN Null ELSE members[f],
                                     !.secret = passwords \cap {f}]
    <2>1. r \in Requests /\ r.email \in Emails /\ r.subject \in Subjects
        BY <1>4, <1>t DEF FindPerson, At, Sound
    <2>2. PICK q : /\ Advance(a, q)
                   /\ \/ q = Idle
                      \/ \E u \in LinkedTo(r.subject) : q = Linked(u)
                      \/ q = Found(Null)
                      \/ \E u \in UsersOf(r.email) : q = Found(u)
        BY <1>4 DEF FindPerson, Finish
    <2>3. ASSUME NEW u \in LinkedTo(r.subject) PROVE Sound(Linked(u))
        <3>1. u \in Users
            BY <1>t DEF LinkedTo, TypeOK, IdentityLinkRows
        <3> QED BY ZenonT(60), <2>1, <3>1 DEF Sound, Requests, Steps
    <2>4. Sound(Found(Null))
        <3>1. Found(Null) = Looked(r, Null, Null, passwords \cap {Null})
            BY DEF Looked
        <3>2. passwords \cap {Null} \in SUBSET Users
            BY <1>t DEF TypeOK
        <3> HIDE DEF Found, r
        <3>3. /\ Found(Null) \in Requests /\ Found(Null).step = "reconcile"
              /\ Found(Null).user = Null /\ Found(Null).role = Null
              /\ Found(Null).email = r.email /\ Found(Null).subject = r.subject
            BY <2>1, <3>1, <3>2, FoundTypes
        <3> QED BY <2>1, <3>3 DEF Sound
    <2>5. ASSUME NEW u \in UsersOf(r.email) PROVE Sound(Found(u))
        <3>1. u \in Users /\ users[u] = r.email /\ members[u] \in Roles \cup {Null}
            BY <1>t DEF UsersOf, TypeOK
        <3>2. Found(u) = Looked(r, u, members[u], passwords \cap {u})
            BY <3>1, IdentityValues DEF Looked
        <3>3. passwords \cap {u} \in SUBSET Users
            BY <1>t DEF TypeOK
        <3> HIDE DEF Found, r
        <3>4. /\ Found(u) \in Requests /\ Found(u).step = "reconcile" /\ Found(u).user = u
              /\ Found(u).role = members[u]
              /\ Found(u).email = r.email /\ Found(u).subject = r.subject
            BY <2>1, <3>1, <3>2, <3>3, FoundTypes
        <3> QED BY <2>1, <3>1, <3>4, IdentityValues DEF Sound
    <2>6. Sound(q)
        <3> HIDE DEF r, Found, Linked
        <3> QED BY <2>2, <2>3, <2>4, <2>5, IdleSound
    <2>7. Lasting
        BY <1>4, SameRows DEF FindPerson
    <2>8. /\ request' \in [Actors -> Requests] /\ \A b \in Actors : Sound(request[b])'
          /\ budget' \in 0..MaxRequests
        BY <2>2, <2>6, <2>7, AdvanceTypes
    <2> QED BY <1>4, <1>t, <2>8 DEF FindPerson, TypeInv, TypeOK, LocalInv, Requests
<1>5. ASSUME NEW u \in Users, NEW role \in Roles, Reconcile(a, u, role) PROVE TypeInv'
    <2> DEFINE r == request[a]
               q == [r EXCEPT !.step = "attribute", !.user = u]
    <2>1. r \in Requests /\ r.email \in Emails /\ r.subject \in Subjects
        BY <1>5, ReconcileFacts DEF Sound
    <2>2. Sound(q)
        BY ZenonT(60), <2>1 DEF Sound, Requests, Steps
    <2>3. CASE UNCHANGED people /\ Finish(a)
        <3>1. Lasting
            BY <1>5, <2>3 DEF Reconcile, Lasting
        <3>2. /\ request' \in [Actors -> Requests] /\ \A b \in Actors : Sound(request[b])'
              /\ budget' \in 0..MaxRequests
            BY <2>3, <3>1, IdleSound, AdvanceTypes DEF Finish
        <3> QED BY <1>5, <1>t, <2>3, <3>2 DEF Reconcile, TypeInv, TypeOK, LocalInv, Requests
    <2>4. CASE Reconciled(a, u, role)
        <3>0. /\ users[u] # Null => users[u] = r.email
              /\ users' = [users EXCEPT ![u] = r.email]
              /\ members' = members \/ members' = [members EXCEPT ![u] = role]
              /\ links' = links \cup {[subject |-> r.subject, user |-> u]}
              /\ Advance(a, q)
            BY <2>4 DEF Reconciled
        <3>1. Lasting
            BY <1>5, <1>t, <3>0, IdentityValues DEF Reconcile, Lasting, TypeOK
        <3>2. /\ users' \in [Users -> Emails \cup {Null}]
              /\ members' \in [Users -> Roles \cup {Null}]
              /\ links' \subseteq IdentityLinkRows
            BY <1>t, <2>1, <3>0 DEF TypeOK, IdentityLinkRows
        <3> HIDE DEF q
        <3>3. /\ request' \in [Actors -> Requests] /\ \A b \in Actors : Sound(request[b])'
              /\ budget' \in 0..MaxRequests
            BY <2>2, <3>0, <3>1, AdvanceTypes
        <3>4. /\ UNCHANGED <<enabled, accounts, tokens, sessions, expired, withdrawn>>
              /\ passwords' \subseteq Users
            BY <1>5, <1>t, <2>1 DEF Reconcile, people, TypeOK, Requests
        <3> QED BY <1>t, <3>2, <3>3, <3>4 DEF TypeInv, TypeOK, LocalInv, Requests
    <2> QED BY <1>5, <2>3, <2>4, ReconcileFacts
<1>6. ASSUME Attribute(a) PROVE TypeInv'
    <2> DEFINE q == [request[a] EXCEPT !.step = "issue"]
    <2>1. request[a] \in Requests /\ request[a].user \in Users
        BY <1>6, <1>t DEF Attribute, At, Sound
    <2>2. Sound(q) /\ request[a].known \in BOOLEAN
        BY <2>1 DEF Sound, Requests, Steps
    <2>3. Advance(a, q) /\ Lasting
        BY <1>6, SameRows DEF Attribute
    <2> HIDE DEF q
    <2>4. /\ request' \in [Actors -> Requests] /\ \A b \in Actors : Sound(request[b])'
          /\ budget' \in 0..MaxRequests
        BY <2>2, <2>3, AdvanceTypes
    <2> QED BY <1>6, <1>t, <2>2, <2>4 DEF Attribute, TypeInv, TypeOK, LocalInv, Requests
<1> QED BY <1>1, <1>2, <1>3, <1>4, <1>5, <1>6 DEF SignInByProvider

LEMMA NextTypes == TypeInv /\ [Next]_vars => TypeInv'
<1> SUFFICES ASSUME TypeInv, [Next]_vars PROVE TypeInv'
    OBVIOUS
<1>t. TypeOK /\ LocalInv
    BY DEF TypeInv
<1> USE DEF people, credentials
<1>1. ASSUME NEW a \in Actors, NEW s \in Sessions, IssueBrowserSession(a, s) PROVE TypeInv'
    <2>1. request[a].user \in Users
        BY <1>1, <1>t DEF IssueBrowserSession, At, LocalInv, Sound
    <2>2. sessions' \in [Sessions -> BrowserSessionRows \cup {Null}]
        BY <1>1, <1>t, <2>1 DEF IssueBrowserSession, TypeOK, BrowserSessionRows
    <2>3. /\ request' \in [Actors -> Requests] /\ \A b \in Actors : Sound(request[b])'
          /\ budget' \in 0..MaxRequests
        BY <1>1, SameRows, IdleSound, AdvanceTypes DEF IssueBrowserSession, Finish
    <2> QED BY <1>1, <1>t, <2>2, <2>3 DEF IssueBrowserSession, TypeInv, TypeOK, LocalInv, Requests
<1>2. ASSUME NEW a \in Actors, Abandon(a) PROVE TypeInv'
    <2>1. /\ request' \in [Actors -> Requests] /\ \A b \in Actors : Sound(request[b])'
          /\ budget' \in 0..MaxRequests
        BY <1>2, SameRows, IdleSound, AdvanceTypes DEF Abandon
    <2> QED BY <1>2, <1>t, <2>1 DEF Abandon, TypeInv, TypeOK, LocalInv, Requests
<1>3. ASSUME NEW s \in Sessions, RevokeBrowserSession(s) PROVE TypeInv'
    <2>1. [sessions[s] EXCEPT !.revoked = TRUE] \in BrowserSessionRows
        BY <1>3, <1>t DEF RevokeBrowserSession, BrowserSessionRows, TypeOK
    <2>2. sessions' \in [Sessions -> BrowserSessionRows \cup {Null}]
        BY <1>3, <1>t, <2>1 DEF RevokeBrowserSession, Revoked, TypeOK
    <2>3. request' \in [Actors -> Requests] /\ \A b \in Actors : Sound(request[b])'
        BY <1>3, SameRows, SameRequests DEF RevokeBrowserSession
    <2>4. withdrawn' \subseteq Tokens \cup Sessions \cup Accounts
        BY <1>3, WithdrawTypes DEF RevokeBrowserSession, Revoked, Credentials
    <2>5. budget' \in 0..MaxRequests
        BY <1>3, <1>t, IdentityAssumption DEF RevokeBrowserSession, TypeOK
    <2> QED BY <1>3, <1>t, <2>2, <2>3, <2>4, <2>5
            DEF RevokeBrowserSession, TypeInv, TypeOK, LocalInv, Requests
<1>4. ASSUME NEW key \in Tokens \cup Sessions, Expire(key) PROVE TypeInv'
    BY <1>4, <1>t, SameRows, SameRequests DEF Expire, TypeInv, TypeOK, LocalInv, Requests
<1>5. ASSUME UNCHANGED vars PROVE TypeInv'
    BY <1>5, <1>t, SameRows, SameRequests DEF vars, TypeInv, TypeOK, LocalInv, Requests
<1> QED BY <1>1, <1>2, <1>3, <1>4, <1>5,
           AuthenticateTypes, AdministerTypes, PasswordTypes, ProviderTypes DEF Next

\* Every row has its shape and every request holds what its step needs.
THEOREM TypeInvariance == Spec => [](TypeOK /\ LocalInv)
BY InitTypes, NextTypes, PTL DEF Spec, TypeInv

----------------------------------------------------------------------------
(* One account per person. Three handlers insert what they looked up in an *)
(* earlier statement; the unique keys decide at the insertion.             *)

LEMMA OtherStepsKeepPeople ==
    ASSUME [Next]_vars,
           ~\E a \in Actors, u \in Users :
               \/ Register(a, u)
               \/ \E role \in Roles : Bootstrap(a, u, role) \/ Reconcile(a, u, role)
    PROVE UNCHANGED <<users, members, links>>
<1> USE DEF people
<1>1. ASSUME NEW a \in Actors, Authenticate(a) PROVE UNCHANGED <<users, members, links>>
    BY <1>1 DEF Authenticate, ReadSession, TouchSession, ReadToken, LoadAccount, StampToken
<1>2. ASSUME NEW a \in Actors, Administer(a) PROVE UNCHANGED <<users, members, links>>
    BY <1>2 DEF Administer, CreateServiceAccount, DeactivateServiceAccount,
                IssueServiceAccountToken, RevokeAPIToken, RotateAPIToken, RevokeBrowserSessionByID,
                UpdateIdentityProvider, TestIdentityProvider, StoreProbe
<1>3. ASSUME NEW a \in Actors, SignInByPassword(a) PROVE UNCHANGED <<users, members, links>>
    BY <1>3 DEF SignInByPassword, SignIn, BeginSignUp, BeginDevLogin
<1>4. ASSUME NEW a \in Actors, SignInByProvider(a) PROVE UNCHANGED <<users, members, links>>
    BY <1>4 DEF SignInByProvider, StartIdentityProviderSignIn, ExchangeIdentityProviderCode,
                ExchangeFails, FindPerson, Attribute
<1> QED BY <1>1, <1>2, <1>3, <1>4
        DEF Next, IssueBrowserSession, Abandon, RevokeBrowserSession, Expire, vars

\* An email that is in no row goes into one.
LEMMA EmailsStayUnique ==
    ASSUME users \in [Users -> Emails \cup {Null}], OneAccountPerPerson,
           NEW u \in Users, NEW email, UniqueEmail(email),
           users' = [users EXCEPT ![u] = email]
    PROVE \A v, w \in Users : users'[v] # Null /\ users'[v] = users'[w] => v = w
BY DEF OneAccountPerPerson, UniqueEmail, UsersOf

LEMMA NextPeople == TypeInv /\ OneAccountPerPerson /\ [Next]_vars => OneAccountPerPerson'
<1> SUFFICES ASSUME TypeInv, OneAccountPerPerson, [Next]_vars PROVE OneAccountPerPerson'
    OBVIOUS
<1>t. /\ users \in [Users -> Emails \cup {Null}] /\ members \in [Users -> Roles \cup {Null}]
      /\ links \subseteq IdentityLinkRows
    BY DEF TypeInv, TypeOK
<1>1. ASSUME NEW a \in Actors, NEW u \in Users,
             Register(a, u) \/ \E role \in Roles : Bootstrap(a, u, role)
      PROVE OneAccountPerPerson'
    <2>1. request[a].email \in Emails
        BY <1>1 DEF Register, Bootstrap, At, TypeInv, LocalInv, Sound
    <2>2. \/ users' = users
          \/ /\ UniqueEmail(request[a].email) /\ users[u] = Null
             /\ users' = [users EXCEPT ![u] = request[a].email]
        BY <1>1, <2>1, InsertFacts DEF Register, Bootstrap
    <2>3. \A v, w \in Users : users'[v] # Null /\ users'[v] = users'[w] => v = w
        BY <1>t, <2>2, EmailsStayUnique DEF OneAccountPerPerson
    <2>4. links' = links
        BY <1>1 DEF Register, Bootstrap
    <2>5. \A v \in Users : /\ users[v] # Null => users'[v] # Null
                           /\ members[v] # Null => members'[v] # Null
        BY <1>1, <1>t, <2>2, IdentityValues DEF Register, Bootstrap
    <2> QED BY <1>t, <2>3, <2>4, <2>5 DEF OneAccountPerPerson, IdentityLinkRows
<1>2. ASSUME NEW a \in Actors, NEW u \in Users, NEW role \in Roles, Reconcile(a, u, role)
      PROVE OneAccountPerPerson'
    <2> DEFINE r == request[a]
               link == [subject |-> r.subject, user |-> u]
    <2>1. CASE Reconciled(a, u, role)
        <3>0. /\ \/ members' = members /\ members[u] # Null
                 \/ members' = [members EXCEPT ![u] = role]
              /\ r.email # Null
            BY <1>2, <2>1, ReconcileFacts, IdentityValues DEF Reconciled
        <3>1. /\ users[u] = Null => UniqueEmail(r.email)
              /\ users[u] # Null => users[u] = r.email
              /\ UniqueLink(r.subject, u)
              /\ users' = [users EXCEPT ![u] = r.email]
              /\ members'[u] # Null
              /\ \A v \in Users : members[v] # Null => members'[v] # Null
              /\ links' = links \cup {link}
              /\ r.email # Null
            BY <1>t, <2>1, <3>0, IdentityValues DEF Reconciled
        <3>2. users[u] # Null => users' = users
            BY <1>t, <3>1
        <3>3. \A v, w \in Users : users'[v] # Null /\ users'[v] = users'[w] => v = w
            BY <1>t, <3>1, <3>2, EmailsStayUnique DEF OneAccountPerPerson
        <3>4. link.subject = r.subject /\ link.user = u
            OBVIOUS
        <3>5. \A l, k \in links' : l.subject = k.subject \/ l.user = k.user => l = k
            <4> HIDE DEF link, r
            <4> QED BY <3>1, <3>4 DEF OneAccountPerPerson, UniqueLink
        <3>6. \A l \in links' : users'[l.user] # Null /\ members'[l.user] # Null
            <4>1. \A l \in links : l.user \in Users
                BY <1>t DEF IdentityLinkRows
            <4> HIDE DEF link, r
            <4> QED BY <1>t, <3>1, <3>4, <4>1 DEF OneAccountPerPerson
        <3> QED BY <3>3, <3>5, <3>6 DEF OneAccountPerPerson
    <2>2. CASE UNCHANGED people
        BY <2>2 DEF people, OneAccountPerPerson
    <2> QED BY <1>2, <2>1, <2>2, ReconcileFacts
<1>3. ASSUME UNCHANGED <<users, members, links>> PROVE OneAccountPerPerson'
    BY <1>3 DEF OneAccountPerPerson
<1> QED BY <1>1, <1>2, <1>3, OtherStepsKeepPeople

\* However sign-ups, development logins and callbacks of the provider interleave: one
\* user per email, one link per subject and per user, and members only are linked.
THEOREM OnePersonOneAccount == Spec => []OneAccountPerPerson
<1>1. Init => OneAccountPerPerson
    BY DEF Init, OneAccountPerPerson
<1> QED BY <1>1, InitTypes, NextTypes, NextPeople, PTL DEF Spec

----------------------------------------------------------------------------
(* Withdrawn credentials. A row that was withdrawn while nobody held it is *)
(* never live again, and a request never holds a credential that was dead  *)
(* when the request began.                                                 *)

HoldingSteps == {"touch", "load_account", "stamp"}

DeadRows ==
    /\ \A t \in Tokens \cap withdrawn :
          tokens[t] # Null /\ (tokens[t].status = "revoked" \/ t \in expired)
    /\ \A s \in Sessions \cap withdrawn :
          sessions[s] # Null /\ (sessions[s].revoked \/ s \in expired)
    /\ \A c \in Accounts \cap withdrawn : accounts[c] # Null /\ accounts[c].status = "inactive"

\* Nobody is about to write back a row of before its withdrawal.
NoLateCopies == \A key \in (Credentials \cap withdrawn) \ expired : ~Held(key)

Unspent(r) ==
    /\ r.dead \subseteq withdrawn
    /\ r.step \in HoldingSteps \cup {"admitted"} => {r.key, r.account} \cap r.dead = {}

WithdrawalInv ==
    /\ DeadRows
    /\ NoLateCopies
    /\ \A a \in Actors : Unspent(request[a])

\* A step keeps copies and admissions sound if it takes up no dead credential and
\* withdraws only rows nobody holds.
LEMMA CopiesStaySound ==
    ASSUME TypeInv, WithdrawalInv, NEW a \in Actors, NEW r, Unspent(r),
           request' = [request EXCEPT ![a] = r],
           withdrawn \subseteq withdrawn', expired \subseteq expired',
           \A key \in Credentials \cap (withdrawn' \ withdrawn) : ~Held(key) \/ key \in expired',
           r.step \in HoldingSteps =>
              \/ r.key \notin withdrawn'
              \/ r.key = request[a].key /\ request[a].step \in HoldingSteps
    PROVE NoLateCopies' /\ \A b \in Actors : Unspent(request[b])'
<1>1. ASSUME NEW b \in Actors PROVE Unspent(request[b])'
    <2>1. Unspent(request'[b])
        BY DEF WithdrawalInv, TypeInv, LocalInv
    <2> QED BY <2>1 DEF Unspent
<1>2. ASSUME NEW key \in (Credentials \cap withdrawn') \ expired', Held(key)' PROVE FALSE
    <2>1. PICK b \in Actors : request'[b].key = key /\ request'[b].step \in HoldingSteps
        BY <1>2 DEF Held, HoldingSteps
    <2>2. request[b].key = key /\ request[b].step \in HoldingSteps
        BY <1>2, <2>1 DEF TypeInv, LocalInv
    <2>3. Held(key)
        BY <2>2 DEF Held, HoldingSteps
    <2> QED BY <1>2, <2>3 DEF WithdrawalInv, NoLateCopies
<1> QED BY <1>1, <1>2 DEF NoLateCopies

\* The steps that have nothing to do with credentials, and those that end a request.
LEMMA QuietSteps ==
    ASSUME TypeInv, WithdrawalInv, NEW a \in Actors, NEW r,
           request' = [request EXCEPT ![a] = r],
           r.step \notin HoldingSteps \cup {"admitted"}, r.dead \subseteq withdrawn,
           UNCHANGED <<accounts, tokens, sessions, expired, withdrawn>>
    PROVE WithdrawalInv'
<1>1. Unspent(r)
    BY DEF Unspent
<1>2. NoLateCopies' /\ \A b \in Actors : Unspent(request[b])'
    BY <1>1, CopiesStaySound
<1>3. DeadRows'
    BY DEF WithdrawalInv, DeadRows
<1> QED BY <1>2, <1>3 DEF WithdrawalInv

LEMMA IdleIsUnspent ==
    Unspent(Idle) /\ Idle.step \notin HoldingSteps \cup {"admitted"} /\ Idle.dead = {}
BY DEF Unspent, Idle, HoldingSteps

\* What Withdraw adds, nobody holds.
LEMMA WithdrawFacts ==
    ASSUME NEW key, Withdraw(key)
    PROVE /\ withdrawn \subseteq withdrawn' /\ withdrawn' \subseteq withdrawn \cup {key}
          /\ \A k \in Credentials \cap (withdrawn' \ withdrawn) : ~Held(k)
BY DEF Withdraw, Credentials

LEMMA AuthenticateKeeps ==
    ASSUME TypeInv, WithdrawalInv, NEW a \in Actors, Authenticate(a)
    PROVE WithdrawalInv'
<1>t. /\ TypeOK /\ Sound(request[a]) /\ Unspent(request[a])
      /\ request \in [Actors -> Requests] /\ DeadRows /\ NoLateCopies
    BY DEF TypeInv, LocalInv, WithdrawalInv
<1> USE DEF people, credentials
<1>1. ASSUME NEW s \in Sessions, ReadSession(a, s) PROVE WithdrawalInv'
    <2> DEFINE r == [Idle EXCEPT !.step = "touch", !.key = s, !.row = sessions[s],
                                 !.dead = withdrawn]
    <2>1. s \notin withdrawn
        BY <1>1, <1>t DEF ReadSession, LiveSession, DeadRows
    <2>2. request' = [request EXCEPT ![a] = r]
        BY <1>1 DEF ReadSession, Begin
    <2>3. r.key = s /\ r.dead = withdrawn /\ r.account = Null
        BY DEF Idle
    <2>4. Unspent(r)
        <3> HIDE DEF r
        <3> QED BY <1>t, <2>1, <2>3, IdentityValues DEF Unspent, TypeOK
    <2>5. UNCHANGED <<accounts, tokens, sessions, expired, withdrawn>>
        BY <1>1 DEF ReadSession
    <2> HIDE DEF r
    <2>6. NoLateCopies' /\ \A b \in Actors : Unspent(request[b])'
        BY <2>1, <2>2, <2>3, <2>4, <2>5, CopiesStaySound
    <2> QED BY <1>t, <2>5, <2>6 DEF WithdrawalInv, DeadRows
<1>2. ASSUME NEW t \in Tokens, ReadToken(a, t) PROVE WithdrawalInv'
    <2> DEFINE r == [Idle EXCEPT !.step = "load_account", !.key = t, !.row = tokens[t],
                                 !.dead = withdrawn]
    <2>1. t \notin withdrawn
        BY <1>2, <1>t DEF ReadToken, DeadRows
    <2>2. request' = [request EXCEPT ![a] = r]
        BY <1>2 DEF ReadToken, Begin
    <2>3. r.key = t /\ r.dead = withdrawn /\ r.account = Null
        BY DEF Idle
    <2>4. Unspent(r)
        <3> HIDE DEF r
        <3> QED BY <1>t, <2>1, <2>3, IdentityValues DEF Unspent, TypeOK
    <2>5. UNCHANGED <<accounts, tokens, sessions, expired, withdrawn>>
        BY <1>2 DEF ReadToken
    <2> HIDE DEF r
    <2>6. NoLateCopies' /\ \A b \in Actors : Unspent(request[b])'
        BY <2>1, <2>2, <2>3, <2>4, <2>5, CopiesStaySound
    <2> QED BY <1>t, <2>5, <2>6 DEF WithdrawalInv, DeadRows
<1>3. ASSUME LoadAccount(a), accounts[request[a].row.account].status = "active"
      PROVE WithdrawalInv'
    <2> DEFINE q == request[a]
               c == q.row.account
               r == [q EXCEPT !.step = "stamp", !.account = c, !.role = accounts[c].role]
    <2>1. q.step = "load_account" /\ q \in Requests /\ c \in Accounts
        BY <1>3, <1>t DEF LoadAccount, At, Sound, APITokenRows
    <2>2. r.key = q.key /\ r.dead = q.dead /\ r.account = c /\ r.step = "stamp"
        BY <2>1 DEF Requests
    <2>3. c \notin q.dead
        BY <1>3, <1>t, <2>1 DEF DeadRows, Unspent
    <2>4. request' = [request EXCEPT ![a] = r]
        BY <1>3 DEF LoadAccount, Advance
    <2>5. UNCHANGED <<accounts, tokens, sessions, expired, withdrawn>>
        BY <1>3 DEF LoadAccount
    <2> HIDE DEF r, c
    <2>6. Unspent(r)
        BY <1>t, <2>1, <2>2, <2>3 DEF Unspent, HoldingSteps
    <2>7. NoLateCopies' /\ \A b \in Actors : Unspent(request[b])'
        BY <2>1, <2>2, <2>4, <2>5, <2>6, CopiesStaySound DEF HoldingSteps
    <2> QED BY <1>t, <2>5, <2>7 DEF WithdrawalInv, DeadRows
<1>4. ASSUME LoadAccount(a), accounts[request[a].row.account].status # "active"
      PROVE WithdrawalInv'
    <2>1. request' = [request EXCEPT ![a] = Idle]
        BY <1>4 DEF LoadAccount, Advance
    <2> QED BY <1>4, <2>1, IdleIsUnspent, QuietSteps DEF LoadAccount
<1>5. ASSUME TouchSession(a) PROVE WithdrawalInv'
    <2> DEFINE q == request[a]
               r == [q EXCEPT !.step = "admitted", !.user = q.row.user,
                              !.role = members[q.row.user], !.row = Null]
    <2>1. q.step = "touch" /\ q \in Requests /\ q.key \in Sessions /\ q.row \in BrowserSessionRows
        BY <1>5, <1>t DEF TouchSession, At, Sound
    <2>2. r.key = q.key /\ r.dead = q.dead /\ r.account = q.account /\ r.step = "admitted"
        BY <2>1 DEF Requests
    <2>3. Unspent(r)
        <3> HIDE DEF r
        <3> QED BY <1>t, <2>1, <2>2 DEF Unspent, HoldingSteps
    <2>4. request' = [request EXCEPT ![a] = r]
        BY <1>5 DEF TouchSession, Advance
    <2>5. UNCHANGED <<accounts, tokens, expired, withdrawn>>
        BY <1>5 DEF TouchSession
    <2>6. NoLateCopies' /\ \A b \in Actors : Unspent(request[b])'
        <3> HIDE DEF r
        <3> QED BY <2>2, <2>3, <2>4, <2>5, CopiesStaySound DEF HoldingSteps
    <2>7. q.key \notin withdrawn \ expired
        <3>1. Held(q.key)
            BY <2>1 DEF Held
        <3> QED BY <1>t, <2>1, <3>1 DEF NoLateCopies, Credentials
    <2>8. sessions' = sessions \/ sessions' = [sessions EXCEPT ![q.key] = q.row]
        BY <1>5 DEF TouchSession
    <2>9. q.row # Null
        BY <2>1, IdentityValues
    <2>10. DeadRows'
        <3> HIDE DEF q
        <3> QED BY <1>t, <2>1, <2>5, <2>7, <2>8, <2>9 DEF DeadRows, TypeOK
    <2> QED BY <2>6, <2>10 DEF WithdrawalInv
<1>6. ASSUME StampToken(a) PROVE WithdrawalInv'
    <2> DEFINE q == request[a]
               r == [q EXCEPT !.step = "admitted", !.row = Null]
    <2>1. q.step = "stamp" /\ q \in Requests /\ q.key \in Tokens /\ q.row \in APITokenRows
        BY <1>6, <1>t DEF StampToken, At, Sound
    <2>2. r.key = q.key /\ r.dead = q.dead /\ r.account = q.account /\ r.step = "admitted"
        BY <2>1 DEF Requests
    <2>3. Unspent(r)
        <3> HIDE DEF r
        <3> QED BY <1>t, <2>1, <2>2 DEF Unspent, HoldingSteps
    <2>4. request' = [request EXCEPT ![a] = r]
        BY <1>6 DEF StampToken, Advance
    <2>5. UNCHANGED <<accounts, sessions, expired, withdrawn>>
        BY <1>6 DEF StampToken, StampedAccounts
    <2>6. NoLateCopies' /\ \A b \in Actors : Unspent(request[b])'
        <3> HIDE DEF r
        <3> QED BY <2>2, <2>3, <2>4, <2>5, CopiesStaySound DEF HoldingSteps
    <2>7. q.key \notin withdrawn \ expired
        <3>1. Held(q.key)
            BY <2>1 DEF Held
        <3> QED BY <1>t, <2>1, <3>1 DEF NoLateCopies, Credentials
    <2>8. tokens' = [tokens EXCEPT ![q.key] = q.row] /\ q.row # Null
        BY <1>6, <2>1, IdentityValues DEF StampToken
    <2>9. DeadRows'
        <3> HIDE DEF q
        <3> QED BY <1>t, <2>1, <2>5, <2>7, <2>8 DEF DeadRows, TypeOK
    <2> QED BY <2>6, <2>9 DEF WithdrawalInv
<1> QED BY <1>1, <1>2, <1>3, <1>4, <1>5, <1>6 DEF Authenticate

\* A row of one table is withdrawn, and the request that does it ends.
LEMMA FinishKeepsCopies ==
    ASSUME TypeInv, WithdrawalInv, NEW a \in Actors, Finish(a), NEW key,
           Withdraw(key) \/ withdrawn' = withdrawn, UNCHANGED expired
    PROVE NoLateCopies' /\ \A b \in Actors : Unspent(request[b])'
<1>1. request' = [request EXCEPT ![a] = Idle]
    BY DEF Finish, Advance
<1>2. /\ withdrawn \subseteq withdrawn'
      /\ \A k \in Credentials \cap (withdrawn' \ withdrawn) : ~Held(k)
    BY WithdrawFacts
<1> QED BY <1>1, <1>2, IdleIsUnspent, CopiesStaySound

LEMMA AdministerKeeps ==
    ASSUME TypeInv, WithdrawalInv, NEW a \in Actors, Administer(a)
    PROVE WithdrawalInv'
<1>t. TypeOK /\ Sound(request[a]) /\ Unspent(request[a]) /\ DeadRows
    BY DEF TypeInv, LocalInv, WithdrawalInv
<1> USE DEF people, credentials
<1>1. ASSUME NEW c \in Accounts, NEW role \in Roles, CreateServiceAccount(a, c, role)
      PROVE WithdrawalInv'
    <2>1. c \notin withdrawn
        BY <1>1, <1>t DEF CreateServiceAccount, DeadRows
    <2>2. DeadRows'
        BY <1>1, <1>t, <2>1 DEF CreateServiceAccount, DeadRows, TypeOK
    <2>3. NoLateCopies' /\ \A b \in Actors : Unspent(request[b])'
        BY <1>1, FinishKeepsCopies DEF CreateServiceAccount
    <2> QED BY <2>2, <2>3 DEF WithdrawalInv
<1>2. ASSUME NEW c \in Accounts, DeactivateServiceAccount(a, c) PROVE WithdrawalInv'
    <2>1. /\ accounts' = [accounts EXCEPT ![c] = [accounts[c] EXCEPT !.status = "inactive"]]
          /\ accounts[c] \in ServiceAccountRows
        BY <1>2, <1>t DEF DeactivateServiceAccount, TypeOK
    <2>2. [accounts[c] EXCEPT !.status = "inactive"] \in ServiceAccountRows
          /\ [accounts[c] EXCEPT !.status = "inactive"].status = "inactive"
        BY <2>1 DEF ServiceAccountRows
    <2>3. accounts'[c] # Null /\ accounts'[c].status = "inactive"
        BY <1>t, <2>1, <2>2, IdentityValues DEF TypeOK
    <2>4. withdrawn' \subseteq withdrawn \cup {c}
        BY <1>2, WithdrawFacts DEF DeactivateServiceAccount
    <2>5. DeadRows'
        BY <1>2, <1>t, <2>1, <2>3, <2>4, IdentityValues
           DEF DeactivateServiceAccount, DeadRows, TypeOK
    <2>6. NoLateCopies' /\ \A b \in Actors : Unspent(request[b])'
        BY <1>2, FinishKeepsCopies DEF DeactivateServiceAccount
    <2> QED BY <2>5, <2>6 DEF WithdrawalInv
<1>3. ASSUME NEW c \in Accounts, NEW t \in Tokens, IssueServiceAccountToken(a, c, t)
      PROVE WithdrawalInv'
    <2>1. t \notin withdrawn
        BY <1>3, <1>t DEF IssueServiceAccountToken, DeadRows
    <2>2. DeadRows'
        BY <1>3, <1>t, <2>1 DEF IssueServiceAccountToken, DeadRows, TypeOK
    <2>3. NoLateCopies' /\ \A b \in Actors : Unspent(request[b])'
        BY <1>3, FinishKeepsCopies DEF IssueServiceAccountToken
    <2> QED BY <2>2, <2>3 DEF WithdrawalInv
<1>4. ASSUME NEW t \in Tokens,
             tokens[t] # Null, tokens'[t] = [tokens[t] EXCEPT !.status = "revoked"],
             \A k \in (Tokens \cap withdrawn) \ {t} : tokens'[k] = tokens[k],
             Withdraw(t), Finish(a), UNCHANGED <<accounts, sessions, expired>>
      PROVE WithdrawalInv'
    <2>1. tokens'[t] \in APITokenRows /\ tokens'[t].status = "revoked"
        BY <1>4, <1>t DEF TypeOK, APITokenRows
    <2>2. withdrawn' \subseteq withdrawn \cup {t}
        BY <1>4, WithdrawFacts
    <2>3. DeadRows'
        BY <1>4, <1>t, <2>1, <2>2, IdentityValues DEF DeadRows
    <2>4. NoLateCopies' /\ \A b \in Actors : Unspent(request[b])'
        BY <1>4, FinishKeepsCopies
    <2> QED BY <2>3, <2>4 DEF WithdrawalInv
<1>5. ASSUME NEW t \in Tokens, RevokeAPIToken(a, t) PROVE WithdrawalInv'
    <2>1. /\ tokens'[t] = [tokens[t] EXCEPT !.status = "revoked"]
          /\ \A k \in (Tokens \cap withdrawn) \ {t} : tokens'[k] = tokens[k]
        BY <1>5, <1>t DEF RevokeAPIToken, TypeOK
    <2>2. /\ tokens[t] # Null /\ Withdraw(t) /\ Finish(a)
          /\ UNCHANGED <<accounts, sessions, expired>>
        BY <1>5 DEF RevokeAPIToken
    <2> QED BY <1>4, <2>1, <2>2
<1>6. ASSUME NEW t \in Tokens, NEW next \in Tokens, RotateAPIToken(a, t, next)
      PROVE WithdrawalInv'
    <2>1. t # next /\ next \notin withdrawn
        BY <1>6, <1>t DEF RotateAPIToken, DeadRows
    <2>2. /\ tokens'[t] = [tokens[t] EXCEPT !.status = "revoked"]
          /\ \A k \in (Tokens \cap withdrawn) \ {t} : tokens'[k] = tokens[k]
        BY <1>6, <1>t, <2>1 DEF RotateAPIToken, TypeOK
    <2>3. /\ tokens[t] # Null /\ Withdraw(t) /\ Finish(a)
          /\ UNCHANGED <<accounts, sessions, expired>>
        BY <1>6 DEF RotateAPIToken
    <2> QED BY <1>4, <2>1, <2>2, <2>3
<1>7. ASSUME NEW s \in Sessions, RevokeBrowserSessionByID(a, s) PROVE WithdrawalInv'
    <2>1. sessions' = [sessions EXCEPT ![s] = [sessions[s] EXCEPT !.revoked = TRUE]]
          /\ sessions[s] \in BrowserSessionRows
        BY <1>7, <1>t DEF RevokeBrowserSessionByID, Revoked, TypeOK
    <2>2. [sessions[s] EXCEPT !.revoked = TRUE] \in BrowserSessionRows
          /\ [sessions[s] EXCEPT !.revoked = TRUE].revoked
        BY <2>1 DEF BrowserSessionRows
    <2>3. sessions'[s] # Null /\ sessions'[s].revoked
        BY <1>t, <2>1, <2>2, IdentityValues DEF TypeOK
    <2>4. withdrawn' \subseteq withdrawn \cup {s}
        BY <1>7, WithdrawFacts DEF RevokeBrowserSessionByID, Revoked
    <2>5. DeadRows'
        BY <1>7, <1>t, <2>1, <2>3, <2>4, IdentityValues
           DEF RevokeBrowserSessionByID, DeadRows, TypeOK
    <2>6. NoLateCopies' /\ \A b \in Actors : Unspent(request[b])'
        BY <1>7, FinishKeepsCopies DEF RevokeBrowserSessionByID, Revoked
    <2> QED BY <2>5, <2>6 DEF WithdrawalInv
<1>8. ASSUME TestIdentityProvider(a) PROVE WithdrawalInv'
    <2> DEFINE r == [Idle EXCEPT !.step = "probe", !.known = enabled]
    <2>1. r.step \notin HoldingSteps \cup {"admitted"} /\ r.dead = {}
        BY DEF Idle, HoldingSteps
    <2>2. /\ request' = [request EXCEPT ![a] = r]
          /\ UNCHANGED <<accounts, tokens, sessions, expired, withdrawn>>
        BY <1>8 DEF TestIdentityProvider, Advance
    <2> HIDE DEF r
    <2> QED BY <2>1, <2>2, QuietSteps
<1>9. ASSUME StoreProbe(a) \/ \E switch \in BOOLEAN : UpdateIdentityProvider(a, switch)
      PROVE WithdrawalInv'
    BY <1>9, IdleIsUnspent, QuietSteps DEF UpdateIdentityProvider, StoreProbe, Finish, Advance
<1> QED BY <1>1, <1>2, <1>3, <1>5, <1>6, <1>7, <1>8, <1>9 DEF Administer

\* Signing in takes up no credential before it issues one.
SignInSteps == {"idle", "register", "bootstrap", "started", "exchanged", "reconcile", "attribute",
                "issue"}

SignsIn(a, r) ==
    /\ request' = [request EXCEPT ![a] = r]
    /\ r.step \in SignInSteps
    /\ r.dead \subseteq withdrawn

LEMMA BeginSignsIn ==
    ASSUME NEW a \in Actors, NEW r, Sound(r), r.step \in SignInSteps, Begin(a, r)
    PROVE \E q : SignsIn(a, q)
<1> DEFINE q == [r EXCEPT !.dead = withdrawn]
<1>1. q.step = r.step /\ q.dead = withdrawn
    BY DEF Sound, Requests
<1>2. request' = [request EXCEPT ![a] = q]
    BY DEF Begin
<1> HIDE DEF q
<1> QED BY <1>1, <1>2 DEF SignsIn

LEMMA SignInRequests ==
    ASSUME TypeInv, WithdrawalInv, NEW a \in Actors, SignInByPassword(a) \/ SignInByProvider(a)
    PROVE \E q : SignsIn(a, q)
<1>t. request[a] \in Requests /\ Sound(request[a]) /\ request[a].dead \subseteq withdrawn
    BY DEF TypeInv, LocalInv, WithdrawalInv, Unspent
<1>1. ASSUME Finish(a) PROVE \E q : SignsIn(a, q)
    <2>1. SignsIn(a, Idle)
        BY <1>1, IdleIsUnspent, IdleSound DEF Finish, Advance, SignsIn, SignInSteps
    <2> QED BY <2>1
<1>2. ASSUME NEW u \in Users, SignIn(a, u) PROVE \E q : SignsIn(a, q)
    <2> DEFINE r == [Idle EXCEPT !.step = "issue", !.user = u]
    <2>1. Sound(r) /\ r.step \in SignInSteps /\ Begin(a, r)
        BY <1>2 DEF SignIn, Sound, Idle, Requests, Steps, SignInSteps
    <2> HIDE DEF r
    <2> QED BY <2>1, BeginSignsIn
<1>3. ASSUME NEW email \in Emails, BeginSignUp(a, email) PROVE \E q : SignsIn(a, q)
    <2>1. PICK found \in Users \cup {Null} :
            Begin(a, [Idle EXCEPT !.step = "register", !.email = email, !.user = found])
        BY <1>3 DEF BeginSignUp, UsersOf
    <2> DEFINE r == [Idle EXCEPT !.step = "register", !.email = email, !.user = found]
    <2>2. Sound(r) /\ r.step \in SignInSteps /\ Begin(a, r)
        BY <2>1 DEF Sound, Idle, Requests, Steps, SignInSteps
    <2> HIDE DEF r
    <2> QED BY <2>2, BeginSignsIn
<1>4. ASSUME NEW email \in Emails, BeginDevLogin(a, email) PROVE \E q : SignsIn(a, q)
    <2>1. PICK r : /\ Begin(a, r)
                   /\ \/ r = [Idle EXCEPT !.step = "bootstrap", !.email = email]
                      \/ \E u \in Users : r = [Idle EXCEPT !.step = "issue", !.user = u]
        BY <1>4 DEF BeginDevLogin, UsersOf
    <2>2. Sound(r) /\ r.step \in SignInSteps
        BY <2>1 DEF Sound, Idle, Requests, Steps, SignInSteps
    <2> QED BY <2>1, <2>2, BeginSignsIn
<1>5. ASSUME StartIdentityProviderSignIn(a) PROVE \E q : SignsIn(a, q)
    <2> DEFINE r == [Idle EXCEPT !.step = "started"]
    <2>1. Sound(r) /\ r.step \in SignInSteps /\ Begin(a, r)
        BY <1>5 DEF StartIdentityProviderSignIn, Sound, Idle, Requests, Steps, SignInSteps
    <2> HIDE DEF r
    <2> QED BY <2>1, BeginSignsIn
<1>6. ASSUME NEW q, Advance(a, q), q.step \in SignInSteps, q.dead = request[a].dead
      PROVE \E r : SignsIn(a, r)
    <2>1. SignsIn(a, q)
        BY <1>6, <1>t DEF Advance, SignsIn
    <2> QED BY <2>1
<1>7. ASSUME NEW u \in Users, NEW step \in SignInSteps, Insert(a, u, step)
      PROVE \E q : SignsIn(a, q)
    <2> DEFINE q == [request[a] EXCEPT !.step = step, !.user = u]
    <2>1. q.step = step /\ q.dead = request[a].dead
        BY <1>t DEF Requests
    <2>2. Finish(a) \/ Advance(a, q)
        BY <1>7 DEF Insert
    <2> HIDE DEF q
    <2> QED BY <1>1, <1>6, <2>1, <2>2
<1>8. ASSUME NEW u \in Users, Register(a, u) PROVE \E q : SignsIn(a, q)
    <2> DEFINE q == [request[a] EXCEPT !.step = "issue"]
    <2>1. q.step = "issue" /\ q.dead = request[a].dead
        BY <1>t DEF Requests
    <2>2. Insert(a, u, "issue") \/ Advance(a, q)
        BY <1>8 DEF Register
    <2> HIDE DEF q
    <2> QED BY <1>6, <1>7, <2>1, <2>2 DEF SignInSteps
<1>9. ASSUME NEW u \in Users, NEW role \in Roles, Bootstrap(a, u, role) PROVE \E q : SignsIn(a, q)
    BY <1>7, <1>9 DEF Bootstrap, SignInSteps
<1>10. ASSUME NEW subject, NEW email, ExchangeIdentityProviderCode(a, subject, email)
       PROVE \E q : SignsIn(a, q)
    <2> DEFINE q == [request[a] EXCEPT !.step = "exchanged", !.subject = subject,
                                       !.email = email, !.known = enabled]
    <2>1. q.step = "exchanged" /\ q.dead = request[a].dead
        BY <1>t DEF Requests
    <2>2. Advance(a, q)
        BY <1>10 DEF ExchangeIdentityProviderCode
    <2> HIDE DEF q
    <2> QED BY <1>6, <2>1, <2>2 DEF SignInSteps
<1>11. ASSUME FindPerson(a) PROVE \E q : SignsIn(a, q)
    <2> DEFINE r == request[a]
               Linked(u) == [r EXCEPT !.step = "attribute", !.user = u]
               Found(u) == [r EXCEPT !.step = "reconcile", !.user = u,
                                     !.role = IF u = Null THEN Null ELSE members[u],
                                     !.secret = passwords \cap {u}]
    <2>1. \A u : /\ Linked(u).step = "attribute" /\ Linked(u).dead = r.dead
                 /\ Found(u).step = "reconcile" /\ Found(u).dead = r.dead
        BY <1>t DEF Requests
    <2>2. Finish(a) \/ \E u : Advance(a, Linked(u)) \/ Advance(a, Found(u))
        BY <1>11 DEF FindPerson
    <2> HIDE DEF Linked, Found
    <2> QED BY <1>1, <1>6, <2>1, <2>2 DEF SignInSteps
<1>12. ASSUME NEW u \in Users, NEW role \in Roles, Reconcile(a, u, role)
       PROVE \E q : SignsIn(a, q)
    <2> DEFINE q == [request[a] EXCEPT !.step = "attribute", !.user = u]
    <2>1. q.step = "attribute" /\ q.dead = request[a].dead
        BY <1>t DEF Requests
    <2>2. Finish(a) \/ Advance(a, q)
        BY <1>12 DEF Reconcile
    <2> HIDE DEF q
    <2> QED BY <1>1, <1>6, <2>1, <2>2 DEF SignInSteps
<1>13. ASSUME Attribute(a) PROVE \E q : SignsIn(a, q)
    <2> DEFINE q == [request[a] EXCEPT !.step = "issue"]
    <2>1. q.step = "issue" /\ q.dead = request[a].dead
        BY <1>t DEF Requests
    <2>2. Advance(a, q)
        BY <1>13 DEF Attribute
    <2> HIDE DEF q
    <2> QED BY <1>6, <2>1, <2>2 DEF SignInSteps
<1> QED BY <1>1, <1>2, <1>3, <1>4, <1>5, <1>8, <1>9, <1>10, <1>11, <1>12, <1>13
        DEF SignInByPassword, SignInByProvider, ExchangeFails

LEMMA SignInKeeps ==
    ASSUME TypeInv, WithdrawalInv, NEW a \in Actors, SignInByPassword(a) \/ SignInByProvider(a)
    PROVE WithdrawalInv'
<1>1. PICK q : SignsIn(a, q)
    BY SignInRequests
<1>2. q.step \notin HoldingSteps \cup {"admitted"}
    BY <1>1 DEF SignsIn, SignInSteps, HoldingSteps
<1>3. UNCHANGED <<accounts, tokens, sessions, expired, withdrawn>>
    BY DEF SignInByPassword, SignIn, BeginSignUp, Register, BeginDevLogin, Bootstrap,
           SignInByProvider, StartIdentityProviderSignIn, ExchangeIdentityProviderCode,
           ExchangeFails, FindPerson, Reconcile, Attribute, credentials
<1> QED BY <1>1, <1>2, <1>3, QuietSteps DEF SignsIn

LEMMA NextWithdrawal == TypeInv /\ WithdrawalInv /\ [Next]_vars => WithdrawalInv'
<1> SUFFICES ASSUME TypeInv, WithdrawalInv, [Next]_vars PROVE WithdrawalInv'
    OBVIOUS
<1>t. TypeOK /\ DeadRows
    BY DEF TypeInv, WithdrawalInv
<1> USE DEF credentials
<1>1. ASSUME NEW a \in Actors, NEW s \in Sessions, IssueBrowserSession(a, s) PROVE WithdrawalInv'
    <2>1. s \notin withdrawn
        BY <1>1, <1>t DEF IssueBrowserSession, DeadRows
    <2>2. DeadRows'
        BY <1>1, <1>t, <2>1 DEF IssueBrowserSession, DeadRows, TypeOK
    <2>3. NoLateCopies' /\ \A b \in Actors : Unspent(request[b])'
        BY <1>1, FinishKeepsCopies DEF IssueBrowserSession
    <2> QED BY <2>2, <2>3 DEF WithdrawalInv
<1>2. ASSUME NEW a \in Actors, Abandon(a) PROVE WithdrawalInv'
    BY <1>2, IdleIsUnspent, QuietSteps DEF Abandon, Advance
<1>3. ASSUME NEW s \in Sessions, RevokeBrowserSession(s) PROVE WithdrawalInv'
    <2>1. sessions' = [sessions EXCEPT ![s] = [sessions[s] EXCEPT !.revoked = TRUE]]
          /\ sessions[s] \in BrowserSessionRows
        BY <1>3, <1>t DEF RevokeBrowserSession, Revoked, TypeOK
    <2>2. [sessions[s] EXCEPT !.revoked = TRUE] \in BrowserSessionRows
          /\ [sessions[s] EXCEPT !.revoked = TRUE].revoked
        BY <2>1 DEF BrowserSessionRows
    <2>3. sessions'[s] # Null /\ sessions'[s].revoked
        BY <1>t, <2>1, <2>2, IdentityValues DEF TypeOK
    <2>4. /\ withdrawn \subseteq withdrawn' /\ withdrawn' \subseteq withdrawn \cup {s}
          /\ \A k \in Credentials \cap (withdrawn' \ withdrawn) : ~Held(k)
        BY <1>3, WithdrawFacts DEF RevokeBrowserSession, Revoked
    <2>5. DeadRows'
        BY <1>3, <1>t, <2>1, <2>3, <2>4, IdentityValues
           DEF RevokeBrowserSession, DeadRows, TypeOK
    <2>6. UNCHANGED <<request, expired>>
        BY <1>3 DEF RevokeBrowserSession
    <2>7. NoLateCopies' /\ \A b \in Actors : Unspent(request[b])'
        BY <2>4, <2>6 DEF WithdrawalInv, NoLateCopies, Held, Unspent
    <2> QED BY <2>5, <2>7 DEF WithdrawalInv
<1>4. ASSUME NEW key \in Tokens \cup Sessions, Expire(key) PROVE WithdrawalInv'
    <2>1. /\ expired' = expired \cup {key} /\ withdrawn' = withdrawn \cup {key}
          /\ UNCHANGED <<accounts, tokens, sessions, request>>
          /\ key \in Tokens => tokens[key] # Null
          /\ key \in Sessions => sessions[key] # Null
        BY <1>4, IdentityValues DEF Expire
    <2>2. DeadRows'
        BY <1>t, <2>1, IdentityValues DEF DeadRows
    <2>3. NoLateCopies' /\ \A b \in Actors : Unspent(request[b])'
        BY <2>1 DEF WithdrawalInv, NoLateCopies, Held, Unspent
    <2> QED BY <2>2, <2>3 DEF WithdrawalInv
<1>5. ASSUME UNCHANGED vars PROVE WithdrawalInv'
    BY <1>5 DEF vars, WithdrawalInv, DeadRows, NoLateCopies, Held, Unspent
<1> QED BY <1>1, <1>2, <1>3, <1>4, <1>5, AuthenticateKeeps, AdministerKeeps, SignInKeeps DEF Next

\* No request that began after its credential expired, was revoked while nobody held
\* its row, or lost its service account, is admitted with it.
THEOREM WithdrawnCredentialsStayOut == Spec => []WithdrawalHolds
<1>1. Init => WithdrawalInv
    BY IdleIsUnspent DEF Init, WithdrawalInv, DeadRows, NoLateCopies
<1>2. WithdrawalInv => WithdrawalHolds
    BY DEF WithdrawalInv, Unspent, WithdrawalHolds, At
<1> QED BY <1>1, <1>2, InitTypes, NextTypes, NextWithdrawal, PTL DEF Spec

=============================================================================
