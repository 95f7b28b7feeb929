----------------------------- MODULE Admission -----------------------------
(***************************************************************************)
(* From an HTTP request to the decision on its tool call: the              *)
(* AuthenticationMiddleware of gateway/http_server.py, OIDCAuthenticator   *)
(* of gateway/auth.py with its cache of signing keys, the first writes of  *)
(* execute_tool_call to the control plane, and the policy.                 *)
(*                                                                         *)
(* The requests are concurrent; a step is the code between two awaits.     *)
(* The identity provider publishes key documents, one after the other, and *)
(* answers a fetch with the document of that moment; the answer may arrive *)
(* later, and answers may overtake each other.  Which signatures verify is *)
(* PyJWT's matter: a token is valid or not.  The steps of a call between   *)
(* its storage and the policy, and all later ones, are those of ToolCall;  *)
(* here the deployment has a control plane.                                *)
(***************************************************************************)
EXTENDS PolicyRules, ControlPlane, Naturals, Sequences

CONSTANTS
  Tokens,        \* kid, valid, subject, tenant, roles (as claimed), agent
  NoKid,         \* the kid of a token that is no RS256 token with a kid
  StaticToken,   \* the token of the settings, in mode static_token
  LocalPrincipal,\* principal_from_static_token()
  Inputs,        \* what the tools are called with: tool, risk, first, words
  Published,     \* the documents of the identity provider: sets of kids
  KnownPrincipals\* rows of principals that earlier requests may have stored

Token == [kid : STRING, valid : BOOLEAN, subject : STRING, tenant : STRING,
          roles : SUBSET STRING, agent : STRING]
Input == [tool : STRING, risk : STRING, first : STRING, words : SUBSET STRING]

ASSUME AdmissionAssumption ==
  /\ Tokens \subseteq Token
  /\ \A tok \in Tokens : tok.kid = NoKid => ~ tok.valid
  /\ StaticToken \in Tokens
  /\ LocalPrincipal \in Principal
  /\ KnownPrincipals \subseteq Principal
  /\ \A r, s \in KnownPrincipals : SameKey(r, s) => r = s
  /\ Inputs \subseteq Input
  /\ Published \in Seq(SUBSET STRING)
  /\ Published # << >>

VARIABLES
  mode,        \* http_auth_mode of the settings
  token,       \* token[c]: the bearer token, as a set of at most one
  request,     \* request[c]: the tool and its arguments
  pc,          \* where the request is
  principal,   \* the principal of the request's context: none or one
  answer,      \* how the request was answered, or the decision
  version,     \* the document the identity provider publishes
  keys,        \* _keys: the number of the cached document, 0 for none
  fetch,       \* fetch[c]: the document the provider answered c with
  since,       \* since[c]: the version when c arrived (history)
  unlucky,     \* the requests whose fetch failed (history)
  stored,      \* stored[c]: tenants and principals when c arrived (history)
  lost,        \* lost[c]: the table whose INSERT of c collided (history)
  mixed        \* keys of principals written by overlapping upserts (history)

keyVars     == << version, keys, fetch >>
historyVars == << since, unlucky, stored, lost, mixed >>
dbVars      == << tables, session >>
askedVars   == << mode, token, request >>
vars == << askedVars, pc, principal, answer, keyVars, historyVars, dbVars >>

Roles    == {"user", "operator", "admin"}
Verdicts == {"allow", "requires_approval", "deny", "unavailable"}
Answers  == {"none", "unauthorized", "error", "unpersisted"} \cup Verdicts
Database == {"tenant", "tenant_write", "principal", "principal_write", "call"}
Labels   == {"received", "fetch", "fetched", "policy", "done"} \cup Database

TypeOK ==
  /\ mode \in {"none", "static_token", "oidc"}
  /\ token \in [Calls -> SUBSET Tokens]
  /\ request \in [Calls -> Inputs]
  /\ pc \in [Calls -> Labels]
  /\ principal \in [Calls -> SUBSET Principal]
  /\ answer \in [Calls -> Answers]
  /\ version \in 1 .. Len(Published)
  /\ keys \in 0 .. version
  /\ fetch \in [Calls -> 0 .. version]
  /\ since \in [Calls -> 0 .. version]
  /\ unlucky \subseteq Calls
  /\ stored \in [Calls -> [tenants : SUBSET STRING, principals : SUBSET Principal]]
  /\ lost \in [Calls -> {"none", "tenants", "principals"}]
  /\ mixed \subseteq STRING \X STRING
  /\ tenants \subseteq STRING
  /\ principals \subseteq Principal
  /\ calls \subseteq Row
  /\ found \in [Calls -> BOOLEAN]
  /\ loaded \in [Calls -> SUBSET Principal]

Init ==
  /\ mode \in {"none", "static_token", "oidc"}
  /\ token \in [Calls -> {{}} \cup {{tok} : tok \in Tokens}]
  /\ request \in [Calls -> Inputs]
  /\ pc = [c \in Calls |-> "received"]
  /\ principal = [c \in Calls |-> {}]
  /\ answer = [c \in Calls |-> "none"]
  /\ version = 1
  /\ keys = 0
  /\ fetch = [c \in Calls |-> 0]
  /\ since = [c \in Calls |-> 0]
  /\ unlucky = {}
  /\ stored = [c \in Calls |-> [tenants |-> {}, principals |-> {}]]
  /\ lost = [c \in Calls |-> "none"]
  /\ mixed = {}
  /\ principals \in {{}, KnownPrincipals}
  /\ tenants = {row.tenant : row \in principals}
  /\ calls = {}
  /\ found = [c \in Calls |-> FALSE]
  /\ loaded = [c \in Calls |-> {}]

-----------------------------------------------------------------------------
(* Helpers                                                                 *)

Goto(c, label) == pc' = [pc EXCEPT ![c] = label]

Reply(c, a) == Goto(c, "done") /\ answer' = [answer EXCEPT ![c] = a]

Unauthorized(c) == Reply(c, "unauthorized") /\ UNCHANGED principal

Invalid(c) == Reply(c, "error") /\ UNCHANGED principal

(* The request goes on with a principal: set_current_principal().          *)
Continue(c, p) ==
  /\ principal' = [principal EXCEPT ![c] = {p}]
  /\ Goto(c, "tenant")
  /\ UNCHANGED answer

(* _principal_from_claims: unsupported roles are dropped, and none left is *)
(* an AuthenticationError.  An empty tenant_id is a ValidationError of     *)
(* Principal, which nothing catches: the request is answered with 500.     *)
Supported(tok) == tok.roles \cap Roles

FromClaims(tok) ==
  [tenant |-> tok.tenant, subject |-> tok.subject,
   roles |-> Supported(tok), agent |-> tok.agent]

(* authenticate(), once the key is known.                                  *)
Verify(c, tok) ==
  \/ ~ tok.valid /\ Unauthorized(c)
  \/ tok.valid /\ Supported(tok) = {} /\ Unauthorized(c)
  \/ /\ tok.valid /\ Supported(tok) # {}
     /\ IF tok.tenant = NoTenant THEN Invalid(c) ELSE Continue(c, FromClaims(tok))

HasKey(doc, tok) == doc > 0 /\ tok.kid \in Published[doc]

-----------------------------------------------------------------------------
(* AuthenticationMiddleware                                                *)

Arrive(c) ==
  /\ pc[c] = "received"
  /\ since' = [since EXCEPT ![c] = version]
  /\ stored' = [stored EXCEPT ![c] = [tenants |-> tenants, principals |-> principals]]
  /\ UNCHANGED << askedVars, keyVars, unlucky, lost, mixed, dbVars >>

(* Mode "none": no principal, and none is stored.                          *)
PassThrough(c) ==
  /\ Arrive(c)
  /\ mode = "none"
  /\ Goto(c, "call")
  /\ UNCHANGED << principal, answer >>

NoBearer(c) ==
  /\ Arrive(c)
  /\ mode # "none"
  /\ token[c] = {}
  /\ Unauthorized(c)

CheckStatic(c) ==
  /\ Arrive(c)
  /\ mode = "static_token"
  /\ token[c] # {}
  /\ \/ token[c] = {StaticToken} /\ Continue(c, LocalPrincipal)
     \/ token[c] # {StaticToken} /\ Unauthorized(c)

(* authenticate() looks at the header before it looks for a key.           *)
BadHeader(c) ==
  /\ Arrive(c)
  /\ mode = "oidc"
  /\ \E tok \in token[c] : tok.kid = NoKid
  /\ Unauthorized(c)

(* _get_key: a cached key is used as long as it is cached.                 *)
KeyCached(c) ==
  /\ Arrive(c)
  /\ mode = "oidc"
  /\ \E tok \in token[c] : tok.kid # NoKid /\ HasKey(keys, tok) /\ Verify(c, tok)

KeyMissing(c) ==
  /\ Arrive(c)
  /\ mode = "oidc"
  /\ \E tok \in token[c] : tok.kid # NoKid /\ ~ HasKey(keys, tok)
  /\ Goto(c, "fetch")
  /\ UNCHANGED << principal, answer >>

(* The identity provider answers.                                          *)
Served(c) ==
  /\ pc[c] = "fetch"
  /\ fetch' = [fetch EXCEPT ![c] = version]
  /\ Goto(c, "fetched")
  /\ UNCHANGED << askedVars, principal, answer, version, keys, historyVars, dbVars >>

FetchFails(c) ==
  /\ pc[c] \in {"fetch", "fetched"}
  /\ Unauthorized(c)
  /\ unlucky' = unlucky \cup {c}
  /\ UNCHANGED << askedVars, keyVars, since, stored, lost, mixed, dbVars >>

(* Mutant: a cache that holds keys is not replaced.                        *)
RefreshOnce(c) == IF keys = 0 THEN fetch[c] ELSE keys

(* The document that replaces _keys.                                       *)
Refreshed(c) == fetch[c]

(* The cache is replaced and the key looked up without an await between.   *)
Refresh(c) ==
  /\ pc[c] = "fetched"
  /\ keys' = Refreshed(c)
  /\ \E tok \in token[c] :
       \/ HasKey(Refreshed(c), tok) /\ Verify(c, tok)
       \/ ~ HasKey(Refreshed(c), tok) /\ Unauthorized(c)
  /\ UNCHANGED << askedVars, version, fetch, historyVars, dbVars >>

(* The identity provider replaces its keys.                                *)
Rotate ==
  /\ version < Len(Published)
  /\ version' = version + 1
  /\ UNCHANGED << askedVars, pc, principal, answer, keys, fetch, historyVars, dbVars >>

-----------------------------------------------------------------------------
(* execute_tool_call: the first writes to the control plane                *)

unchangedByDb == << askedVars, principal, keyVars, since, unlucky, stored >>

Tenant(c)    == {p.tenant : p \in principal[c]}

TenantRead(c) ==
  /\ pc[c] = "tenant"
  /\ \E t \in Tenant(c) : read_tenant(c, t)
  /\ Goto(c, "tenant_write")
  /\ UNCHANGED << unchangedByDb, answer, lost, mixed >>

TenantWrite(c) ==
  /\ pc[c] = "tenant_write"
  /\ \E t \in Tenant(c) : write_tenant(c, t)
  /\ Goto(c, "principal")
  /\ UNCHANGED << unchangedByDb, answer, lost, mixed >>

(* The upserts of the same principal that are open now.                    *)
OpenUpserts(c, p) ==
  {d \in Calls \ {c} : pc[d] = "principal_write" /\ \E q \in principal[d] : SameKey(p, q)}

PrincipalRead(c) ==
  /\ pc[c] = "principal"
  /\ \E p \in principal[c] :
       /\ read_principal(c, p)
       /\ mixed' = IF OpenUpserts(c, p) = {} THEN mixed
                   ELSE mixed \cup {<< p.tenant, p.subject >>}
  /\ Goto(c, "principal_write")
  /\ UNCHANGED << unchangedByDb, answer, lost >>

PrincipalWrite(c) ==
  /\ pc[c] = "principal_write"
  /\ \E p \in principal[c] : write_principal(c, p)
  /\ Goto(c, "call")
  /\ UNCHANGED << unchangedByDb, answer, lost, mixed >>

(* IntegrityError: the row was inserted after it was looked for.           *)
Collide(c) ==
  /\ \/ /\ pc[c] = "tenant_write"
        /\ \E t \in Tenant(c) : TenantCollides(c, t)
        /\ lost' = [lost EXCEPT ![c] = "tenants"]
     \/ /\ pc[c] = "principal_write"
        /\ \E p \in principal[c] : PrincipalCollides(c, p)
        /\ lost' = [lost EXCEPT ![c] = "principals"]
  /\ Reply(c, "unpersisted")
  /\ UNCHANGED << unchangedByDb, mixed, dbVars >>

CallWrite(c) ==
  /\ pc[c] = "call"
  /\ upsert_tool_call(c, Tenant(c))
  /\ Goto(c, "policy")
  /\ UNCHANGED << unchangedByDb, answer, lost, mixed >>

(* Mutant: the failure is logged and the call goes on.                     *)
DatabaseFailsSilently(c) ==
  /\ pc[c] \in Database
  /\ Goto(c, "policy")
  /\ UNCHANGED << unchangedByDb, answer, lost, mixed, dbVars >>

(* The database is unavailable: nothing of the transaction is stored, or   *)
(* all of it and only the confirmation is lost.                            *)
DatabaseFails(c) ==
  /\ pc[c] \in Database
  /\ Reply(c, "unpersisted")
  /\ \/ UNCHANGED dbVars
     \/ pc[c] = "tenant_write" /\ \E t \in Tenant(c) : write_tenant(c, t)
     \/ pc[c] = "principal_write" /\ \E p \in principal[c] : write_principal(c, p)
     \/ pc[c] = "call" /\ upsert_tool_call(c, Tenant(c))
  /\ UNCHANGED << unchangedByDb, lost, mixed >>

-----------------------------------------------------------------------------
(* execute_tool_call: the policy                                           *)

(* A call without a principal is evaluated as one of a local admin.        *)
PolicyInput(c) ==
  [tool |-> request[c].tool, risk |-> request[c].risk,
   first |-> request[c].first, words |-> request[c].words,
   principal |-> IF principal[c] = {}
                 THEN {[tenant |-> "local", roles |-> {"admin"}]}
                 ELSE {[tenant |-> p.tenant, roles |-> p.roles] : p \in principal[c]}]

Evaluate(c) ==
  /\ pc[c] = "policy"
  /\ \E reachable \in BOOLEAN : Reply(c, evaluate(PolicyInput(c), reachable))
  /\ UNCHANGED << askedVars, principal, keyVars, historyVars, dbVars >>

-----------------------------------------------------------------------------

Authenticate(c) ==
  \/ PassThrough(c) \/ NoBearer(c) \/ CheckStatic(c) \/ BadHeader(c)
  \/ KeyCached(c) \/ KeyMissing(c) \/ Served(c) \/ FetchFails(c) \/ Refresh(c)

Persist(c) ==
  \/ TenantRead(c) \/ TenantWrite(c) \/ PrincipalRead(c) \/ PrincipalWrite(c)
  \/ Collide(c) \/ CallWrite(c) \/ DatabaseFails(c)

Next ==
  \/ Rotate
  \/ \E c \in Calls : Authenticate(c) \/ Persist(c) \/ Evaluate(c)

Spec == Init /\ [][Next]_vars

-----------------------------------------------------------------------------
(* Properties                                                              *)

(* Two rules of the policy never answer for one call: OPA would report a   *)
(* conflict and every such call would fail as "policy unavailable".        *)
RulesAreExclusive ==
  \A c \in Calls : pc[c] = "policy" =>
    \A r, s \in Fired(PolicyInput(c)) : r = s

(* End to end: a call is allowed without a human only when its tool is     *)
(* declared read-only, its arguments show none of the texts the policy     *)
(* takes for destructive, and its caller was authenticated as the          *)
(* configured mode demands: with a token that verifies under a key its     *)
(* issuer had published by then, a tenant and a role the gateway knows.    *)
(* It does not say that the call only reads: a DELETE with a WHERE is      *)
(* allowed by the declared risk, as tools_test.rego:51-61 asserts.         *)
AllowedAsDeclaredAndVerified ==
  \A c \in Calls : answer[c] = "allow" =>
    /\ request[c].risk = "read_only"
    /\ ~ destructive(PolicyInput(c))
    /\ mode = "static_token" => token[c] = {StaticToken}
    /\ mode = "oidc" =>
         \E tok \in token[c] :
           /\ tok.valid
           /\ tok.tenant # NoTenant
           /\ Supported(tok) # {}
           /\ \E doc \in 1 .. version : tok.kid \in Published[doc]

(* docs/THREAT_MODEL.md:24-27: no decision is made about a call that is    *)
(* not stored, under a tenant and a principal that are stored as well,     *)
(* whatever collided or failed before.                                     *)
DecidedIsPersisted ==
  \A c \in Calls : answer[c] \in Verdicts =>
    /\ [call |-> c, owner |-> Tenant(c)] \in calls
    /\ Tenant(c) \subseteq tenants
    /\ \A p \in principal[c] : \E row \in principals : SameKey(p, row)

(* Only a first contact can collide: a request whose tenant and principal  *)
(* were stored when it arrived is never refused because of the other       *)
(* requests that are under way (get before add in the upserts).            *)
OnlyFirstContactCollides ==
  \A c \in Calls :
    /\ lost[c] = "tenants" => Tenant(c) \cap stored[c].tenants = {}
    /\ lost[c] = "principals" =>
         \A p \in principal[c], row \in stored[c].principals : ~ SameKey(p, row)

(* A stored principal is one that was verified as a whole, roles with      *)
(* agent.  It can be put together from two verified ones only when their   *)
(* upserts overlapped.                                                     *)
MixedRowNeedsOverlap ==
  \A row \in principals :
    \/ << row.tenant, row.subject >> \in mixed
    \/ row \in KnownPrincipals
    \/ \E c \in Calls : row \in principal[c]

(* A valid token is not refused for its key when the issuer published that *)
(* key all the time the request took, whatever rotations the cache missed  *)
(* and whatever refreshes of other requests overtook this one, unless its  *)
(* own fetch failed.                                                       *)
FreshKeyIsAccepted ==
  \A c \in Calls, tok \in Tokens :
    /\ mode = "oidc"
    /\ token[c] = {tok}
    /\ tok.valid /\ Supported(tok) # {}
    /\ answer[c] = "unauthorized"
    /\ c \notin unlucky
    => \E doc \in since[c] .. version : tok.kid \notin Published[doc]

=============================================================================
