----------------------- MODULE ProviderConfiguration -----------------------
(***************************************************************************)
(* The data of an identity provider: its endpoints, what the claims of a   *)
(* person become, and the state that travels with the browser. Identity    *)
(* models what sign-ins do with the people and rows behind it.             *)
(*                                                                         *)
(* A provider is a record with id, name, kind, issuer, endpoints, client, *)
(* secretEnv, roles (from groups to roles), defaultRole and domains. The   *)
(* discovery document is [code, malformed] and its endpoints.              *)
(***************************************************************************)
EXTENDS Integers, Sequences

CONSTANT Blank      \* the empty text

Or(value, fallback) == IF value = Blank THEN fallback ELSE value

Endpoints == {"authorization", "token", "userinfo"}

Spellings == {Blank, "oidc", "oauth2", "google_workspace", "okta", "entra_id", "azure_ad"}

NormalKind(kind) == IF kind \in Spellings THEN "oidc" ELSE kind

NormalRole(role) ==
    CASE role \in {Blank, "member", "org_member"} -> "org_member"
      [] role \in {"admin", "org_admin"} -> "org_admin"
      [] OTHER -> role

Explicit(provider) == \A e \in Endpoints : provider.endpoints[e] # Blank

Valid(provider) ==
    /\ provider.name # Blank /\ provider.client # Blank /\ provider.secretEnv # Blank
    /\ NormalKind(provider.kind) = "oidc"
    /\ provider.issuer # Blank \/ Explicit(provider)

\* A row that is created, which is not reached for yet.
Created(request) ==
    [request EXCEPT !.kind = NormalKind(@), !.defaultRole = NormalRole(@)]

----------------------------------------------------------------------------
(* Endpoints. A set of at most one provider: none if the resolution fails. *)

Filled(provider, document) ==
    [provider EXCEPT !.endpoints =
        [e \in DOMAIN @ |-> Or(provider.endpoints[e], document.endpoints[e])]]

Resolve(provider, document) ==
    CASE ~Valid(provider) -> {}
      [] Valid(provider) /\ (provider.issuer = Blank \/ Explicit(provider)) -> {provider}
      [] OTHER -> IF document.code >= 400 \/ document.malformed THEN {}
                  ELSE {p \in {Filled(provider, document)} : Valid(p)}

\* A test resolves the endpoints and looks whether the secret has a value.
TestSucceeds(provider, document, secret) == Resolve(provider, document) # {} /\ secret

----------------------------------------------------------------------------
(* Claims *)

\* The first of the person's groups that is mapped, in the order of the claim.
MapOrganizationRole(provider, groups) ==
    LET mapped == {i \in DOMAIN groups : /\ groups[i] \in DOMAIN provider.roles
                                         /\ provider.roles[groups[i]] # Blank}
        first == CHOOSE i \in mapped : \A j \in mapped : i <= j
    IN NormalRole(IF mapped = {} THEN provider.defaultRole ELSE provider.roles[groups[first]])

\* An address is <<name, domain>>.
AllowedDomain(provider, email) == provider.domains = {} \/ email[2] \in provider.domains

\* The person the claims are about; none without a subject or an address.
Claimed(provider, claims) ==
    IF claims.subject = Blank \/ claims.email[1] = Blank \/ ~AllowedDomain(provider, claims.email)
    THEN {}
    ELSE {[subject |-> claims.subject, email |-> claims.email,
           name |-> Or(claims.name, claims.email[1]),
           role |-> MapOrganizationRole(provider, claims.groups)]}

----------------------------------------------------------------------------
(* The state: it comes back with its signature, until it is too old. *)

\* A target is [path, origin], Blank for no origin; other schemes than http and https, and
\* what cannot be parsed, are of the origin "none".
NormalizeReturnTo(target, allowed) ==
    IF target.origin \in allowed \cup {Blank} THEN target ELSE [path |-> "/", origin |-> Blank]

StartState(provider, target, allowed, now, lifetime) ==
    [provider |-> provider.id, returnTo |-> NormalizeReturnTo(target, allowed),
     expires |-> now + lifetime]

VerifyState(state, signed, now) == IF signed /\ now <= state.expires THEN {state} ELSE {}
=============================================================================
