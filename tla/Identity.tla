------------------------------ MODULE Identity ------------------------------
(***************************************************************************)
(* Who a request speaks for: browser sessions, API tokens of service       *)
(* accounts, and the sign-ins that make users, memberships and identity    *)
(* links, in one organization with one identity provider.                  *)
(*                                                                         *)
(* Authenticating is a chain of statements: the credential's row is read,  *)
(* judged, and written back whole to note that it was used. Users are made *)
(* by handlers that look first and insert later; the unique indexes of the *)
(* schema decide between two of them.                                      *)
(*                                                                         *)
(*   users       the email of each user, or Null                           *)
(*   passwords   the users with a password                                 *)
(*   members     the role of each user in the organization, or Null        *)
(*   links       which external subject signs in as which user             *)
(*   enabled     the switch of the identity provider                       *)
(*   accounts    the status of each service account, or Null               *)
(*   tokens      the account and status of each API token, or Null         *)
(*   sessions    the user of each browser session and its revocation       *)
(*   expired     the credentials whose expiry has passed                   *)
(*   request     per actor: its step and the copies it holds               *)
(*   withdrawn   history: see Withdraw                                     *)
(*   budget      how many more requests may start                          *)
(***************************************************************************)
EXTENDS Naturals, FiniteSets, TLC

CONSTANTS
    Actors,         \* requests in flight
    Users,          \* ids of users
    Emails,         \* addresses users sign in with
    AllowedEmails,  \* those in the allowed domains of the provider
    Subjects,       \* persons the provider knows
    Roles,          \* roles in the organization
    Accounts,       \* ids of service accounts
    Tokens,         \* ids of API tokens
    Sessions,       \* ids of browser sessions
    Founder,        \* the user the demo seeding makes organization admin
    FounderEmail,
    Null,
    MaxRequests     \* bound on requests

ASSUME IdentityAssumption ==
    /\ AllowedEmails \subseteq Emails
    /\ Founder \in Users /\ FounderEmail \in Emails
    /\ {"org_admin", "viewer"} \subseteq Roles
    /\ MaxRequests \in Nat

VARIABLES users, passwords, members, links, enabled, accounts, tokens, sessions,
          expired, request, withdrawn, budget

people == <<users, passwords, members, links>>
credentials == <<accounts, tokens, sessions>>
vars == <<people, enabled, credentials, expired, request, withdrawn, budget>>

IdentityLinkRows == [subject : Subjects, user : Users]
ServiceAccountRows == [role : Roles, status : {"active", "inactive"}]
APITokenRows == [account : Accounts, status : {"active", "revoked"}]
BrowserSessionRows == [user : Users, revoked : BOOLEAN]

\* Ids of different tables are told apart, and Null is neither an id nor a value nor a row.
ASSUME IdentityValues ==
    /\ Tokens \cap Sessions = {} /\ Accounts \cap (Tokens \cup Sessions) = {}
    /\ Null \notin Users \cup Emails \cup Roles \cup Accounts \cup Tokens \cup Sessions
    /\ Null \notin ServiceAccountRows \cup APITokenRows \cup BrowserSessionRows

Steps == {"idle", "touch", "load_account", "stamp", "admitted", "probe",
          "register", "bootstrap", "started", "exchanged", "reconcile", "attribute", "issue"}

Idle ==
    [step |-> "idle", key |-> Null, row |-> Null, user |-> Null, account |-> Null,
     role |-> Null, subject |-> Null, email |-> Null, known |-> FALSE, secret |-> {},
     dead |-> {}]

Fresh(c) == [account |-> c, status |-> "active"]

\* ensureDemoAdminSeeded makes the founder of the organization; some service accounts
\* and tokens may have been made before.
Init ==
    /\ users = [u \in Users |-> IF u = Founder THEN FounderEmail ELSE Null]
    /\ passwords = {Founder}
    /\ members = [u \in Users |-> IF u = Founder THEN "org_admin" ELSE Null]
    /\ links = {}
    /\ enabled \in BOOLEAN
    /\ accounts \in [Accounts -> {Null, [role |-> "viewer", status |-> "active"]}]
    /\ tokens \in [Tokens -> {Null} \cup {Fresh(c) : c \in {d \in Accounts : accounts[d] # Null}}]
    /\ sessions = [s \in Sessions |-> Null]
    /\ expired = {} /\ withdrawn = {}
    /\ request = [a \in Actors |-> Idle]
    /\ budget = MaxRequests

----------------------------------------------------------------------------
(* Requests.                                                               *)

At(a, step) == request[a].step = step

Advance(a, r) == request' = [request EXCEPT ![a] = r] /\ UNCHANGED budget

Begin(a, r) ==
    /\ At(a, "idle") /\ budget > 0
    /\ budget' = budget - 1
    /\ request' = [request EXCEPT ![a] = [r EXCEPT !.dead = withdrawn]]

\* The process ends, the client goes away, a statement fails.
Abandon(a) ==
    /\ ~At(a, "idle")
    /\ Advance(a, Idle)
    /\ UNCHANGED <<people, enabled, credentials, expired, withdrawn>>

\* The users an email is stored for.
UsersOf(email) == {u \in Users : users[u] = email}

\* A row read by one statement and written whole by a later one of the same request.
Held(key) ==
    \E a \in Actors : request[a].key = key /\ request[a].step \in {"touch", "load_account", "stamp"}

\* History: the credentials withdrawn while no request held a copy of their row. A
\* service account's row is written by administrators only, an expiry is compared
\* with the clock: both are withdrawn whatever is in flight.
Withdraw(key) ==
    withdrawn' = IF key \in Tokens \cup Sessions /\ Held(key) THEN withdrawn
                 ELSE withdrawn \cup {key}

\* Time passes the expiry of an API token or a browser session.
Expire(key) ==
    /\ key \in {t \in Tokens : tokens[t] # Null} \cup {s \in Sessions : sessions[s] # Null}
    /\ key \notin expired
    /\ expired' = expired \cup {key}
    /\ withdrawn' = withdrawn \cup {key}
    /\ UNCHANGED <<people, enabled, credentials, request, budget>>

----------------------------------------------------------------------------
(* Authentication with a browser session.                                  *)

LiveSession(s) == sessions[s] # Null /\ ~sessions[s].revoked /\ s \notin expired

ReadSession(a, s) ==
    /\ LiveSession(s)
    /\ Begin(a, [Idle EXCEPT !.step = "touch", !.key = s, !.row = sessions[s]])
    /\ UNCHANGED <<people, enabled, credentials, expired, withdrawn>>

\* A session seen within five minutes is left alone; any other is written back as read.
TouchSession(a) ==
    LET r == request[a] IN
    /\ At(a, "touch")
    /\ \/ sessions' = [sessions EXCEPT ![r.key] = r.row]
       \/ UNCHANGED sessions
    /\ Advance(a, [r EXCEPT !.step = "admitted", !.user = r.row.user,
                            !.role = members[r.row.user], !.row = Null])
    /\ UNCHANGED <<people, enabled, accounts, tokens, expired, withdrawn>>

(* Authentication with an API token of a service account.                  *)

ReadToken(a, t) ==
    /\ tokens[t] # Null /\ tokens[t].status = "active" /\ t \notin expired
    /\ Begin(a, [Idle EXCEPT !.step = "load_account", !.key = t, !.row = tokens[t]])
    /\ UNCHANGED <<people, enabled, credentials, expired, withdrawn>>

LoadAccount(a) ==
    LET r == request[a] IN
    /\ At(a, "load_account")
    /\ Advance(a, IF accounts[r.row.account].status = "active"
                  THEN [r EXCEPT !.step = "stamp", !.account = r.row.account,
                                 !.role = accounts[r.row.account].role]
                  ELSE Idle)
    /\ UNCHANGED <<people, enabled, credentials, expired, withdrawn>>

\* Slip: the account's row is stored as well.
StampedAccountsStored(r) ==
    [accounts EXCEPT ![r.account] = [role |-> r.role, status |-> "active"]]

\* last_used_at of the token is stored with the rest of its row; the account's is
\* set on the copy of the request only.
StampedAccounts(r) == accounts

StampToken(a) ==
    LET r == request[a] IN
    /\ At(a, "stamp")
    /\ tokens' = [tokens EXCEPT ![r.key] = r.row]
    /\ accounts' = StampedAccounts(r)
    /\ Advance(a, [r EXCEPT !.step = "admitted", !.row = Null])
    /\ UNCHANGED <<people, enabled, sessions, expired, withdrawn>>

----------------------------------------------------------------------------
(* What an authenticated request does. Its role was read when it was       *)
(* authenticated.                                                          *)

ManagesOrganization(a) == At(a, "admitted") /\ request[a].role = "org_admin"

ManagesMachines(a) == ManagesOrganization(a) /\ request[a].user # Null

Finish(a) == Advance(a, Idle)

CreateServiceAccount(a, c, role) ==
    /\ ManagesMachines(a) /\ accounts[c] = Null
    /\ accounts' = [accounts EXCEPT ![c] = [role |-> role, status |-> "active"]]
    /\ Finish(a)
    /\ UNCHANGED <<people, enabled, tokens, sessions, expired, withdrawn>>

DeactivateServiceAccount(a, c) ==
    /\ ManagesMachines(a) /\ accounts[c] # Null
    /\ accounts' = [accounts EXCEPT ![c].status = "inactive"]
    /\ Withdraw(c)
    /\ Finish(a)
    /\ UNCHANGED <<people, enabled, tokens, sessions, expired>>

\* The status of the account is not looked at.
IssueServiceAccountToken(a, c, t) ==
    /\ ManagesMachines(a) /\ accounts[c] # Null /\ tokens[t] = Null
    /\ tokens' = [tokens EXCEPT ![t] = Fresh(c)]
    /\ Finish(a)
    /\ UNCHANGED <<people, enabled, accounts, sessions, expired, withdrawn>>

RevokeAPIToken(a, t) ==
    /\ ManagesMachines(a) /\ tokens[t] # Null
    /\ tokens' = [tokens EXCEPT ![t].status = "revoked"]
    /\ Withdraw(t)
    /\ Finish(a)
    /\ UNCHANGED <<people, enabled, accounts, sessions, expired>>

\* One transaction revokes the token, whatever its status, and stores its successor.
RotateAPIToken(a, t, next) ==
    /\ ManagesMachines(a) /\ tokens[t] # Null /\ tokens[next] = Null
    /\ tokens' = [tokens EXCEPT ![t].status = "revoked", ![next] = Fresh(tokens[t].account)]
    /\ Withdraw(t)
    /\ Finish(a)
    /\ UNCHANGED <<people, enabled, accounts, sessions, expired>>

\* A revoked session is left as it is.
Revoked(s) == sessions' = [sessions EXCEPT ![s].revoked = TRUE] /\ Withdraw(s)

\* An administrator ends a session of a member of the organization, or of a user whose
\* own organization it is: that column is set together with a membership only.
RevokeBrowserSessionByID(a, s) ==
    /\ ManagesMachines(a)
    /\ sessions[s] # Null /\ ~sessions[s].revoked /\ members[sessions[s].user] # Null
    /\ Revoked(s)
    /\ Finish(a)
    /\ UNCHANGED <<people, enabled, accounts, tokens, expired>>

\* Logout needs the cookie only, and answers alike when there is nothing to revoke.
RevokeBrowserSession(s) ==
    /\ budget > 0 /\ budget' = budget - 1
    /\ sessions[s] # Null /\ ~sessions[s].revoked
    /\ Revoked(s)
    /\ UNCHANGED <<people, enabled, accounts, tokens, expired, request>>

UpdateIdentityProvider(a, switch) ==
    /\ ManagesOrganization(a)
    /\ enabled' = switch
    /\ Finish(a)
    /\ UNCHANGED <<people, credentials, expired, withdrawn>>

\* The provider's row is read before its endpoints are probed, and written whole after.
TestIdentityProvider(a) ==
    /\ ManagesOrganization(a)
    /\ Advance(a, [Idle EXCEPT !.step = "probe", !.known = enabled])
    /\ UNCHANGED <<people, enabled, credentials, expired, withdrawn>>

StoreProbe(a) ==
    /\ At(a, "probe")
    /\ enabled' = request[a].known
    /\ Finish(a)
    /\ UNCHANGED <<people, credentials, expired, withdrawn>>

----------------------------------------------------------------------------
(* The schema: one user per email, one link per subject and per user, one  *)
(* membership per user.                                                    *)

\* Slip: emails are unique among the users of an organization only.
UniqueEmailOfMembers(email) == \A u \in UsersOf(email) : members[u] = Null

UniqueEmail(email) == UsersOf(email) = {}

UniqueLink(subject, u) ==
    ~\E l \in links : l.subject = subject \/ l.user = u

UniqueMember(u) == members[u] = Null

----------------------------------------------------------------------------
(* Password and development sign-in.                                       *)

SignIn(a, u) ==
    /\ u \in passwords
    /\ Begin(a, [Idle EXCEPT !.step = "issue", !.user = u])
    /\ UNCHANGED <<people, enabled, credentials, expired, withdrawn>>

\* SignUp is refused for an account with a password; one without is completed.
BeginSignUp(a, email) ==
    /\ UsersOf(email) \cap passwords = {}
    /\ \E found \in IF UsersOf(email) = {} THEN {Null} ELSE UsersOf(email) :
          Begin(a, [Idle EXCEPT !.step = "register", !.email = email, !.user = found])
    /\ UNCHANGED <<people, enabled, credentials, expired, withdrawn>>

\* Slip: the created user is a variable of the transaction's own, and whoever asked
\* stays nobody.
InsertShadowed(a, u, step) ==
    LET r == request[a] IN
    IF UniqueEmail(r.email)
    THEN /\ users[u] = Null
         /\ users' = [users EXCEPT ![u] = r.email]
         /\ Advance(a, [r EXCEPT !.step = step])
    ELSE UNCHANGED users /\ Finish(a)

\* The insertion of a user whose email was taken meanwhile fails, and the request with it.
Insert(a, u, step) ==
    LET r == request[a] IN
    IF UniqueEmail(r.email)
    THEN /\ users[u] = Null
         /\ users' = [users EXCEPT ![u] = r.email]
         /\ Advance(a, [r EXCEPT !.step = step, !.user = u])
    ELSE UNCHANGED users /\ Finish(a)

Register(a, u) ==
    /\ At(a, "register")
    /\ IF request[a].user = Null
       THEN /\ Insert(a, u, "issue")
            /\ passwords' = IF users' = users THEN passwords ELSE passwords \cup {u}
       ELSE /\ u = request[a].user
            /\ passwords' = passwords \cup {u}
            /\ Advance(a, [request[a] EXCEPT !.step = "issue"])
            /\ UNCHANGED users
    /\ UNCHANGED <<members, links, enabled, credentials, expired, withdrawn>>

BeginDevLogin(a, email) ==
    /\ IF UsersOf(email) = {}
       THEN Begin(a, [Idle EXCEPT !.step = "bootstrap", !.email = email])
       ELSE \E u \in UsersOf(email) : Begin(a, [Idle EXCEPT !.step = "issue", !.user = u])
    /\ UNCHANGED <<people, enabled, credentials, expired, withdrawn>>

\* The first login's transaction: the user and a membership with the role asked for.
Bootstrap(a, u, role) ==
    /\ At(a, "bootstrap")
    /\ Insert(a, u, "issue")
    /\ members' = IF users' = users THEN members ELSE [members EXCEPT ![u] = role]
    /\ UNCHANGED <<passwords, links, enabled, credentials, expired, withdrawn>>

----------------------------------------------------------------------------
(* Sign-in through the identity provider.                                  *)

StartIdentityProviderSignIn(a) ==
    /\ enabled
    /\ Begin(a, [Idle EXCEPT !.step = "started"])
    /\ UNCHANGED <<people, enabled, credentials, expired, withdrawn>>

\* The callback reads the provider's row, its switch included but not looked at, and
\* exchanges the code for the claims of a person.
ExchangeIdentityProviderCode(a, subject, email) ==
    /\ At(a, "started")
    /\ Advance(a, [request[a] EXCEPT !.step = "exchanged", !.subject = subject,
                                     !.email = email, !.known = enabled])
    /\ UNCHANGED <<people, enabled, credentials, expired, withdrawn>>

\* A failed exchange is noted on the row, which is written whole.
ExchangeFails(a) ==
    /\ At(a, "exchanged")
    /\ enabled' = request[a].known
    /\ Finish(a)
    /\ UNCHANGED <<people, credentials, expired, withdrawn>>

LinkedTo(subject) == {l.user : l \in {k \in links : k.subject = subject}}

\* The reads of the reconciling transaction: the link of the subject, else the user
\* with the email. Emails outside the allowed domains are refused before.
FindPerson(a) ==
    LET r == request[a] IN
    /\ At(a, "exchanged")
    /\ IF r.email \notin AllowedEmails THEN Finish(a)
       ELSE IF LinkedTo(r.subject) # {}
       THEN \E u \in LinkedTo(r.subject) :
               Advance(a, [r EXCEPT !.step = "attribute", !.user = u])
       ELSE \E found \in IF UsersOf(r.email) = {} THEN {Null} ELSE UsersOf(r.email) :
               Advance(a, [r EXCEPT !.step = "reconcile", !.user = found,
                                    !.role = IF found = Null THEN Null ELSE members[found],
                                    !.secret = passwords \cap {found}])
    /\ UNCHANGED <<people, enabled, credentials, expired, withdrawn>>

\* Its writes commit together: the user when there was none, a membership with the
\* mapped role when there was none, the link. A taken key undoes them all. A user that
\* was found is written whole, without the password a sign-up has set meanwhile.
Reconcile(a, u, role) ==
    LET r == request[a]
        new == r.user = Null
        joins == r.role = Null
    IN /\ At(a, "reconcile")
       /\ IF new THEN users[u] = Null ELSE u = r.user
       /\ IF /\ new => UniqueEmail(r.email)
             /\ joins => UniqueMember(u)
             /\ UniqueLink(r.subject, u)
          THEN /\ users' = [users EXCEPT ![u] = r.email]
               /\ members' = IF joins THEN [members EXCEPT ![u] = role] ELSE members
               /\ links' = links \cup {[subject |-> r.subject, user |-> u]}
               /\ passwords' = IF new THEN passwords ELSE (passwords \ {u}) \cup r.secret
               /\ Advance(a, [r EXCEPT !.step = "attribute", !.user = u])
          ELSE UNCHANGED people /\ Finish(a)
       /\ UNCHANGED <<enabled, credentials, expired, withdrawn>>

\* The sign-in is noted on the copy of the provider's row that the callback read.
Attribute(a) ==
    /\ At(a, "attribute")
    /\ enabled' = request[a].known
    /\ Advance(a, [request[a] EXCEPT !.step = "issue"])
    /\ UNCHANGED <<people, credentials, expired, withdrawn>>

\* Every sign-in ends with a new browser session.
IssueBrowserSession(a, s) ==
    /\ At(a, "issue") /\ sessions[s] = Null
    /\ sessions' = [sessions EXCEPT ![s] = [user |-> request[a].user, revoked |-> FALSE]]
    /\ Finish(a)
    /\ UNCHANGED <<people, enabled, accounts, tokens, expired, withdrawn>>

----------------------------------------------------------------------------
Authenticate(a) ==
    \/ \E s \in Sessions : ReadSession(a, s)
    \/ TouchSession(a)
    \/ \E t \in Tokens : ReadToken(a, t)
    \/ LoadAccount(a)
    \/ StampToken(a)

Administer(a) ==
    \/ \E c \in Accounts, role \in Roles : CreateServiceAccount(a, c, role)
    \/ \E c \in Accounts : DeactivateServiceAccount(a, c)
    \/ \E c \in Accounts, t \in Tokens : IssueServiceAccountToken(a, c, t)
    \/ \E t \in Tokens : RevokeAPIToken(a, t)
    \/ \E t, next \in Tokens : RotateAPIToken(a, t, next)
    \/ \E s \in Sessions : RevokeBrowserSessionByID(a, s)
    \/ \E switch \in BOOLEAN : UpdateIdentityProvider(a, switch)
    \/ TestIdentityProvider(a)
    \/ StoreProbe(a)

SignInByPassword(a) ==
    \/ \E u \in Users : SignIn(a, u)
    \/ \E email \in Emails : BeginSignUp(a, email)
    \/ \E u \in Users : Register(a, u)
    \/ \E email \in Emails : BeginDevLogin(a, email)
    \/ \E u \in Users, role \in Roles : Bootstrap(a, u, role)

SignInByProvider(a) ==
    \/ StartIdentityProviderSignIn(a)
    \/ \E subject \in Subjects, email \in Emails : ExchangeIdentityProviderCode(a, subject, email)
    \/ ExchangeFails(a)
    \/ FindPerson(a)
    \/ \E u \in Users, role \in Roles : Reconcile(a, u, role)
    \/ Attribute(a)

Next ==
    \/ \E a \in Actors :
          \/ Authenticate(a) \/ Administer(a)
          \/ SignInByPassword(a) \/ SignInByProvider(a)
          \/ \E s \in Sessions : IssueBrowserSession(a, s)
          \/ Abandon(a)
    \/ \E s \in Sessions : RevokeBrowserSession(s)
    \/ \E key \in Tokens \cup Sessions : Expire(key)

Spec == Init /\ [][Next]_vars

----------------------------------------------------------------------------
(* Properties.                                                             *)

\* Every row has its shape, and a request's step is one of the steps of its chain.
TypeOK ==
    /\ users \in [Users -> Emails \cup {Null}]
    /\ members \in [Users -> Roles \cup {Null}]
    /\ passwords \subseteq Users /\ links \subseteq IdentityLinkRows
    /\ enabled \in BOOLEAN
    /\ accounts \in [Accounts -> ServiceAccountRows \cup {Null}]
    /\ tokens \in [Tokens -> APITokenRows \cup {Null}]
    /\ sessions \in [Sessions -> BrowserSessionRows \cup {Null}]
    /\ expired \subseteq Tokens \cup Sessions
    /\ withdrawn \subseteq Tokens \cup Sessions \cup Accounts
    /\ \A a \in Actors : request[a].step \in Steps
    /\ budget \in 0..MaxRequests

\* LoadIdentity writes the credential it judged back whole, so a revocation between
\* its read and its write is undone. That is the only way: no request that began
\* after a credential expired, after its service account was deactivated, or after
\* it was revoked while no authentication held its row, is ever admitted with it,
\* through whatever rotations, touches and sign-ins came between.
WithdrawalHolds ==
    \A a \in Actors :
        At(a, "admitted") => {request[a].key, request[a].account} \cap request[a].dead = {}

\* Sign-up, development login and the provider's callback look a person up in one
\* statement and insert in a later one. However they interleave, an email has one
\* user, a subject of the provider signs in as one user and a user belongs to one
\* subject, and whoever is linked belongs to the organization of the provider.
OneAccountPerPerson ==
    /\ \A u, v \in Users : users[u] # Null /\ users[u] = users[v] => u = v
    /\ \A l, k \in links : l.subject = k.subject \/ l.user = k.user => l = k
    /\ \A l \in links : users[l.user] # Null /\ members[l.user] # Null
=============================================================================
