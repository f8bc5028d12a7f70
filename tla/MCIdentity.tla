----------------------------- MODULE MCIdentity -----------------------------
(* The instance the run of Identity uses, and the bounded inputs on which the *)
(* data of an identity provider is evaluated.                                 *)
EXTENDS Identity, Sequences

\* The founder's id and the addresses are told apart, the rest is interchangeable.
Interchangeable == Permutations(Actors) \cup Permutations(Sessions) \cup Permutations(Tokens)
                     \cup Permutations(Users \ {Founder}) \cup Permutations(Subjects)

----------------------------------------------------------------------------
Configuration == INSTANCE ProviderConfiguration WITH Blank <- ""

Providers ==
    {[id |-> "p", name |-> "P", kind |-> k, issuer |-> i, endpoints |-> e, client |-> "c",
      secretEnv |-> v, roles |-> [ops |-> "admin", dev |-> "member", none |-> ""],
      defaultRole |-> r, domains |-> {"acme"}] :
        k \in {"okta", "saml"}, i \in {"", "issuer"}, v \in {"", "ENV"},
        e \in [Configuration!Endpoints -> {"", "own"}], r \in {"", "viewer"}}

Documents == [code : {200, 503}, malformed : BOOLEAN,
              endpoints : [Configuration!Endpoints -> {"", "found"}]]

\* An endpoint that was configured stays, and a kind that is not OpenID Connect by any of
\* its names resolves to nothing (enterprise_auth.go resolveIdentityProviderEndpoints).
ASSUME ConfiguredEndpointsStay ==
    \A p \in Providers, d \in Documents : \A q \in Configuration!Resolve(p, d) :
        /\ p.kind = "okta"
        /\ \A e \in Configuration!Endpoints :
              p.endpoints[e] # "" => q.endpoints[e] = p.endpoints[e]

\* A discovery document without an endpoint is good enough: the connection tests healthy,
\* and a sign-in fails later, for the second validation asks no more than the first.
ASSUME HealthyWithoutEndpoints ==
    \E p \in Providers, d \in Documents :
        /\ Configuration!TestSucceeds(p, d, TRUE)
        /\ \A q \in Configuration!Resolve(p, d) : q.endpoints["token"] = ""

\* Which of two mapped groups decides the role depends on the order in which the claim
\* lists them; whoever has no mapped group gets the default role, and it is never blank.
ASSUME FirstMappedGroupDecides ==
    /\ \A p \in Providers :
          /\ Configuration!MapOrganizationRole(p, <<"x", "ops", "dev">>) = "org_admin"
          /\ Configuration!MapOrganizationRole(p, <<"dev", "ops">>) = "org_member"
    /\ \A p \in Providers, groups \in {<< >>, <<"x">>, <<"none", "x">>} :
          Configuration!MapOrganizationRole(p, groups)
            = IF p.defaultRole = "" THEN "org_member" ELSE p.defaultRole
=============================================================================
