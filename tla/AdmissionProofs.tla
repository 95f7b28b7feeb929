-------------------------- MODULE AdmissionProofs --------------------------
(***************************************************************************)
(* The safety properties of Admission, for every set of calls, tokens,     *)
(* inputs, stored principals and every sequence of key documents.          *)
(*                                                                         *)
(* The properties are about single requests, but none is inductive: each   *)
(* speaks of the end of a request and rests on what the request passed     *)
(* before.  CallInv(c) says, for every place a request can be at, which    *)
(* checks and writes are behind it.  A step of another request keeps it    *)
(* because tables, documents and keys only grow (Carried); an own step is  *)
(* OwnAuthenticate, OwnPersist or OwnEvaluate.  MixInv relates the rows of *)
(* the principals table with the upserts that are open.                    *)
(***************************************************************************)
EXTENDS Admission, TLAPS

(* The step of one request.                                                *)
Step(c) == Authenticate(c) \/ Persist(c) \/ Evaluate(c)

(* The parts of the state a step of another request leaves alone.          *)
Same(d) ==
  /\ pc'[d] = pc[d] /\ answer'[d] = answer[d] /\ principal'[d] = principal[d]
  /\ token'[d] = token[d] /\ request'[d] = request[d]
  /\ fetch'[d] = fetch[d] /\ since'[d] = since[d]
  /\ (d \in unlucky') = (d \in unlucky)
  /\ stored'[d] = stored[d] /\ lost'[d] = lost[d]
  /\ found'[d] = found[d] /\ loaded'[d] = loaded[d]

(* No step takes a document, a tenant, a call or the key of a principal    *)
(* away.                                                                   *)
Grow ==
  /\ mode' = mode
  /\ version' \in Nat /\ version <= version'
  /\ tenants \subseteq tenants'
  /\ calls \subseteq calls'
  /\ \A row \in principals : \E r \in principals' : SameKey(row, r)

-----------------------------------------------------------------------------
(* The inductive invariant                                                 *)

(* A request has at most one token and one principal, and no principal     *)
(* before it is verified; keys are fetched in mode oidc only; an answered  *)
(* request is over.                                                        *)
Flow(c) ==
  /\ answer[c] # "none" \/ lost[c] # "none" => pc[c] = "done"
  /\ pc[c] \in {"received", "fetch", "fetched"} => principal[c] = {}
  /\ pc[c] \in {"fetch", "fetched"} => mode = "oidc"
  /\ \A p, q \in principal[c] : p = q
  /\ \A a, b \in token[c] : a = b

(* Past the middleware the credentials of the request were checked.        *)
Auth(c) ==
  pc[c] \in Database \cup {"policy"} \/ answer[c] \in Verdicts =>
    /\ mode = "static_token" => token[c] = {StaticToken}
    /\ mode = "oidc" =>
         \E tok \in token[c] :
           /\ tok.valid
           /\ Supported(tok) # {}
           /\ principal[c] = {FromClaims(tok)}
           /\ \E doc \in 1 .. version : tok.kid \in Published[doc]

(* What is stored when, on the way to the decision.                        *)
Rows(c) ==
  /\ \/ pc[c] \in {"principal", "principal_write", "call", "policy"}
     \/ answer[c] \in Verdicts
     => Tenant(c) \subseteq tenants
  /\ pc[c] \in {"call", "policy"} \/ answer[c] \in Verdicts =>
       \A p \in principal[c] : \E row \in principals : SameKey(p, row)
  /\ pc[c] = "policy" \/ answer[c] \in Verdicts =>
       [call |-> c, owner |-> Tenant(c)] \in calls

Allowed(c) == answer[c] = "allow" => read_only_tool(PolicyInput(c))

(* The document a request was answered with is no older than the request.  *)
Fresh(c) ==
  /\ pc[c] = "fetch" => 1 <= since[c]
  /\ pc[c] = "fetched" => 1 <= since[c] /\ since[c] <= fetch[c]
  /\ mode = "oidc" /\ answer[c] = "unauthorized" /\ c \notin unlucky =>
       \A tok \in Tokens :
         token[c] = {tok} /\ tok.valid /\ Supported(tok) # {} =>
           \E doc \in since[c] .. version : tok.kid \notin Published[doc]

(* An upsert that found nothing is one of a key that was not stored when   *)
(* the request arrived.                                                    *)
First(c) ==
  /\ stored[c].tenants \subseteq tenants
  /\ \A row \in stored[c].principals : \E r \in principals : SameKey(row, r)
  /\ (pc[c] = "tenant_write" /\ ~ found[c]) \/ lost[c] = "tenants" =>
       Tenant(c) \cap stored[c].tenants = {}
  /\ (pc[c] = "principal_write" /\ loaded[c] = {}) \/ lost[c] = "principals" =>
       \A p \in principal[c], row \in stored[c].principals : ~ SameKey(p, row)

(* A row that was read is not deleted by anyone.                           *)
Held(c) ==
  pc[c] = "principal_write" /\ loaded[c] # {} =>
    \A p \in principal[c] : \E row \in principals : SameKey(p, row)

CallInv(c) ==
  /\ Flow(c) /\ Auth(c) /\ Rows(c) /\ Allowed(c)
  /\ Fresh(c) /\ First(c) /\ Held(c)

(* uq_principal_tenant_subject                                             *)
Unique == \A r, s \in principals : SameKey(r, s) => r = s

(* Two upserts of one principal that are open at the same time are noted.  *)
Overlaps ==
  \A c, d \in Calls :
    c # d /\ pc[c] = "principal_write" /\ pc[d] = "principal_write" =>
      \A p \in principal[c], q \in principal[d] :
        SameKey(p, q) => << p.tenant, p.subject >> \in mixed

(* Without an overlap, what an open upsert has read is what is stored.     *)
Current ==
  \A c \in Calls :
    pc[c] = "principal_write" =>
      \A p \in principal[c] :
        \/ << p.tenant, p.subject >> \in mixed
        \/ loaded[c] = {row \in principals : SameKey(p, row)}

MixInv == Unique /\ Overlaps /\ Current /\ MixedRowNeedsOverlap

IInv == TypeOK /\ (\A c \in Calls : CallInv(c)) /\ MixInv

-----------------------------------------------------------------------------
(* The policy                                                              *)

(* No input satisfies two rules of tools.rego.                             *)
LEMMA Exclusive ==
  ASSUME NEW i, NEW r \in Fired(i), NEW s \in Fired(i)
  PROVE  r = s
<1>1. caller_elevated(i) => caller_authorized(i)
  BY DEF caller_elevated, caller_authorized
<1> QED
  BY <1>1 DEF Fired, Rules, invalid_principal, read_only_tool,
              destructive_operation, mutating_tool, destructive_risk_class

(* Only the rule for read-only tools allows a call, and only while OPA     *)
(* answers.                                                                *)
LEMMA AllowNeedsRead ==
  ASSUME NEW i, NEW reachable \in BOOLEAN, evaluate(i, reachable) = "allow"
  PROVE  read_only_tool(i)
<1>1. reachable /\ decision(i) = "allow"
  BY DEF evaluate
<1>2. Fired(i) # {}
  BY <1>1 DEF decision, Outcome
<1>3. PICK rule \in Fired(i) : decision(i) = Outcome(rule)
  BY <1>1, <1>2 DEF decision
<1>4. rule = "read_only_tool"
  BY <1>1, <1>3 DEF Outcome
<1> QED BY <1>3, <1>4 DEF Fired

LEMMA VerdictLemma ==
  ASSUME NEW i, NEW reachable \in BOOLEAN
  PROVE  evaluate(i, reachable) \in Verdicts
BY DEF evaluate, decision, Outcome, Verdicts

-----------------------------------------------------------------------------
(* Types                                                                   *)

LEMMA ClaimsType ==
  ASSUME NEW tok \in Tokens PROVE FromClaims(tok) \in Principal
BY AdmissionAssumption DEF FromClaims, Supported, Principal, Token, Roles

LEMMA UpdatedType ==
  ASSUME NEW row \in Principal, NEW old, NEW p \in Principal
  PROVE  /\ Updated(row, old, p) \in Principal
         /\ Updated(row, old, p).tenant = row.tenant
         /\ Updated(row, old, p).subject = row.subject
BY DEF Updated, Principal

(* What a write of a principal does to the table: keys stay, rows of other *)
(* keys stay as they are, and a row of p is there.                         *)
LEMMA WriteFacts ==
  ASSUME NEW c \in Calls, NEW p \in Principal, principals \subseteq Principal,
         write_principal(c, p),
         loaded[c] # {} => \E row \in principals : SameKey(p, row)
  PROVE  /\ principals' \subseteq Principal
         /\ \A row \in principals : \E r \in principals' : SameKey(row, r)
         /\ \A r \in principals' :
              r = p \/ \E row \in principals : SameKey(row, r) /\ (r # row => SameKey(p, r))
         /\ \A row \in principals : ~ SameKey(p, row) => row \in principals'
         /\ \E r \in principals' : SameKey(p, r)
<1> DEFINE New(row) ==
      IF SameKey(p, row) THEN Updated(row, CHOOSE old \in loaded[c] : TRUE, p)
                         ELSE row
<1>1. \A row \in principals :
        New(row) \in Principal /\ SameKey(row, New(row)) /\ (New(row) # row => SameKey(p, New(row)))
  BY UpdatedType DEF SameKey
<1>2. CASE loaded[c] = {}
  BY <1>2 DEF write_principal, SameKey
<1>3. CASE loaded[c] # {}
  <2>1. principals' = {New(row) : row \in principals}
    BY <1>3 DEF write_principal
  <2> HIDE DEF New
  <2>2. \A row \in principals : ~ SameKey(p, row) => New(row) = row
    BY DEF New
  <2>3. principals' \subseteq Principal
    BY <1>1, <2>1
  <2>4. \A row \in principals : \E r \in principals' : SameKey(row, r)
    BY <1>1, <2>1
  <2>5. \A r \in principals' : \E row \in principals : SameKey(row, r) /\ (r # row => SameKey(p, r))
    BY <1>1, <2>1
  <2>6. \A row \in principals : ~ SameKey(p, row) => row \in principals'
    BY <2>1, <2>2
  <2>7. \E r \in principals' : SameKey(p, r)
    BY <1>3, <2>4 DEF SameKey
  <2> QED BY <2>3, <2>4, <2>5, <2>6, <2>7
<1> QED BY <1>2, <1>3

(* What the middleware sets when it lets a request pass or refuses it.     *)
AuthType ==
  /\ pc' \in [Calls -> Labels]
  /\ principal' \in [Calls -> SUBSET Principal]
  /\ answer' \in [Calls -> Answers]

LEMMA ContinueType ==
  ASSUME TypeOK, NEW c \in Calls, NEW p \in Principal, Continue(c, p)
  PROVE  AuthType
<1>1. {p} \in SUBSET Principal
  OBVIOUS
<1>2. principal' \in [Calls -> SUBSET Principal]
  BY <1>1 DEF Continue, TypeOK
<1>3. pc' \in [Calls -> Labels]
  BY DEF Continue, Goto, TypeOK, Labels, Database
<1> QED BY <1>2, <1>3 DEF Continue, TypeOK, AuthType

LEMMA UnauthorizedType ==
  ASSUME TypeOK, NEW c \in Calls, Unauthorized(c) \/ Invalid(c)
  PROVE  AuthType
BY DEF Unauthorized, Invalid, Reply, Goto, TypeOK, Labels, Answers, AuthType

LEMMA VerifyType ==
  ASSUME TypeOK, NEW c \in Calls, NEW tok \in Tokens, Verify(c, tok)
  PROVE  AuthType
BY ContinueType, UnauthorizedType, ClaimsType DEF Verify

LEMMA ArriveType ==
  ASSUME TypeOK, NEW c \in Calls, Arrive(c), AuthType
  PROVE  TypeOK'
<1>0. version \in Nat /\ 1 <= version /\ version <= Len(Published)
  BY AdmissionAssumption DEF TypeOK
<1>1. since' \in [Calls -> 0 .. version]
  BY <1>0 DEF TypeOK, Arrive
<1>2. stored' \in [Calls -> [tenants : SUBSET STRING, principals : SUBSET Principal]]
  BY DEF TypeOK, Arrive
<1> QED BY <1>1, <1>2
  DEF TypeOK, Arrive, AuthType, askedVars, keyVars, dbVars, tables, session

LEMMA TypeAuthenticate ==
  ASSUME TypeOK, NEW c \in Calls, Authenticate(c)
  PROVE  TypeOK'
<1> USE DEF TypeOK, askedVars, keyVars, historyVars, dbVars, tables, session
<1>0. /\ Len(Published) \in Nat /\ LocalPrincipal \in Principal
      /\ version \in Nat /\ 1 <= version /\ version <= Len(Published)
  BY AdmissionAssumption
<1>2. CASE PassThrough(c)
  BY <1>0, <1>2 DEF PassThrough, Arrive, Goto, Labels, Database
<1>3. CASE NoBearer(c) \/ BadHeader(c)
  BY <1>3, UnauthorizedType, ArriveType DEF NoBearer, BadHeader
<1>4. CASE CheckStatic(c)
  <2>1. AuthType
    BY <1>0, <1>4, ContinueType, UnauthorizedType DEF CheckStatic
  <2> QED BY <1>4, <2>1, ArriveType DEF CheckStatic
<1>5. CASE KeyCached(c)
  <2>1. PICK tok \in Tokens : Verify(c, tok)
    BY <1>5 DEF KeyCached
  <2> QED BY <1>5, <2>1, VerifyType, ArriveType DEF KeyCached
<1>6. CASE KeyMissing(c) BY <1>0, <1>6 DEF KeyMissing, Arrive, Goto, Labels
<1>7. CASE Served(c) BY <1>0, <1>7 DEF Served, Goto, Labels
<1>8. CASE FetchFails(c)
  BY <1>0, <1>8, UnauthorizedType DEF FetchFails, AuthType
<1>9. CASE Refresh(c)
  <2>1. AuthType
    BY <1>9, VerifyType, UnauthorizedType DEF Refresh
  <2>2. keys' \in 0 .. version
    BY <1>9 DEF Refresh, Refreshed
  <2> QED BY <1>0, <1>9, <2>1, <2>2 DEF Refresh, AuthType
<1> QED BY <1>2, <1>3, <1>4, <1>5, <1>6, <1>7, <1>8, <1>9 DEF Authenticate

LEMMA TypePersist ==
  ASSUME TypeOK, NEW c \in Calls, Persist(c) \/ Evaluate(c)
  PROVE  TypeOK'
<1> USE DEF TypeOK, askedVars, keyVars, historyVars, dbVars, tables, session,
            unchangedByDb
<1>1. Tenant(c) \in SUBSET STRING
  BY DEF Tenant, Principal
<1>2. ASSUME NEW t \in Tenant(c), write_tenant(c, t)
      PROVE  tenants' \subseteq STRING
  BY <1>1, <1>2 DEF write_tenant
<1>3. ASSUME NEW p \in principal[c], write_principal(c, p)
      PROVE  principals' \subseteq Principal
  <2>1. p \in Principal
    OBVIOUS
  <2>2. CASE loaded[c] = {}
    BY <1>3, <2>1, <2>2 DEF write_principal
  <2>3. CASE loaded[c] # {}
    <3>1. \A row \in principals :
            Updated(row, CHOOSE old \in loaded[c] : TRUE, p) \in Principal
      BY <2>1, UpdatedType
    <3>2. ASSUME NEW r \in principals' PROVE r \in Principal
      <4>1. PICK row \in principals :
              r = IF SameKey(p, row)
                  THEN Updated(row, CHOOSE old \in loaded[c] : TRUE, p) ELSE row
        BY <1>3, <2>3, <3>2 DEF write_principal
      <4> QED BY <3>1, <4>1
    <3> QED BY <3>2
  <2> QED BY <2>2, <2>3
<1>4. ASSUME upsert_tool_call(c, Tenant(c))
      PROVE  calls' \subseteq Row
  BY <1>1, <1>4 DEF upsert_tool_call, Row
<1>5. CASE TenantRead(c)
  BY <1>5 DEF TenantRead, read_tenant, Goto, Labels, Database
<1>6. CASE TenantWrite(c)
  BY <1>2, <1>6 DEF TenantWrite, write_tenant, Goto, Labels, Database
<1>7. CASE PrincipalRead(c)
  <2>1. PICK p \in principal[c] :
          /\ loaded' = [loaded EXCEPT ![c] = {row \in principals : SameKey(p, row)}]
          /\ UNCHANGED << tables, found >>
          /\ mixed' \in {mixed, mixed \cup {<< p.tenant, p.subject >>}}
    BY <1>7 DEF PrincipalRead, read_principal
  <2>2. p.tenant \in STRING /\ p.subject \in STRING
    BY <2>1 DEF Principal
  <2>3. mixed' \subseteq STRING \X STRING
    BY <2>1, <2>2
  <2>4. loaded' \in [Calls -> SUBSET Principal]
    BY <2>1
  <2> QED BY <1>7, <2>1, <2>3, <2>4 DEF PrincipalRead, Goto, Labels, Database
<1>8. CASE PrincipalWrite(c)
  BY <1>3, <1>8 DEF PrincipalWrite, write_principal, Goto, Labels, Database
<1>9. CASE Collide(c)
  BY <1>9 DEF Collide, Reply, Goto, Labels, Answers
<1>10. CASE CallWrite(c)
  BY <1>4, <1>10 DEF CallWrite, upsert_tool_call, Goto, Labels
<1>11. CASE DatabaseFails(c)
  <2>1. pc' \in [Calls -> Labels]
    BY <1>11 DEF DatabaseFails, Reply, Goto, Labels
  <2>2. answer' \in [Calls -> Answers]
    BY <1>11 DEF DatabaseFails, Reply, Answers
  <2>3. /\ tenants' \subseteq STRING /\ principals' \subseteq Principal
        /\ calls' \subseteq Row /\ UNCHANGED session
    BY <1>2, <1>3, <1>4, <1>11
       DEF DatabaseFails, write_tenant, write_principal, upsert_tool_call
  <2> QED BY <1>11, <2>1, <2>2, <2>3 DEF DatabaseFails
<1>12. CASE Evaluate(c)
  <2>1. PICK reachable \in BOOLEAN : Reply(c, evaluate(PolicyInput(c), reachable))
    BY <1>12 DEF Evaluate
  <2>2. answer' \in [Calls -> Answers]
    BY <2>1, VerdictLemma DEF Reply, Answers
  <2>3. pc' \in [Calls -> Labels]
    BY <2>1 DEF Reply, Goto, Labels
  <2> QED BY <1>12, <2>2, <2>3 DEF Evaluate
<1> QED BY <1>5, <1>6, <1>7, <1>8, <1>9, <1>10, <1>11, <1>12 DEF Persist

LEMMA TypeRotate ==
  ASSUME TypeOK, Rotate
  PROVE  TypeOK'
<1>1. Len(Published) \in Nat
  BY AdmissionAssumption
<1> QED BY <1>1 DEF TypeOK, Rotate, askedVars, historyVars, dbVars, tables, session

-----------------------------------------------------------------------------
(* A request keeps its part of the invariant when others take steps.       *)

LEMMA Carried ==
  ASSUME TypeOK, NEW d \in Calls, CallInv(d), Same(d), Grow
  PROVE  CallInv(d)'
<1>0. version \in Nat /\ since[d] \in Nat
  BY AdmissionAssumption DEF TypeOK
<1>1. Tenant(d)' = Tenant(d)
  BY DEF Tenant, Same
<1>2. PolicyInput(d)' = PolicyInput(d)
  BY DEF PolicyInput, Same
<1>3. Flow(d)'
  BY DEF CallInv, Flow, Same, Grow
<1>4. Auth(d)'
  <2>1. \A doc \in 1 .. version : doc \in 1 .. version'
    BY <1>0 DEF Grow
  <2> QED BY <2>1 DEF CallInv, Auth, Same, Grow
<1>5. \A p \in principal[d] :
        (\E row \in principals : SameKey(p, row)) =>
        \E row \in principals' : SameKey(p, row)
  BY DEF Grow, SameKey
<1>6. Rows(d)'
  BY <1>1, <1>5 DEF CallInv, Rows, Same, Grow
<1>7. Allowed(d)'
  BY <1>2 DEF CallInv, Allowed, Same
<1>8. Fresh(d)'
  <2>1. \A doc \in since[d] .. version : doc \in since[d] .. version'
    BY <1>0 DEF Grow
  <2> QED BY <2>1 DEF CallInv, Fresh, Same, Grow
<1>9. First(d)'
  <2>1. \A row \in stored[d].principals : \E r \in principals' : SameKey(row, r)
    BY DEF CallInv, First, Grow, SameKey
  <2> QED BY <1>1, <2>1 DEF CallInv, First, Same, Grow
<1>10. Held(d)'
  BY <1>5 DEF CallInv, Held, Same
<1> QED BY <1>3, <1>4, <1>6, <1>7, <1>8, <1>9, <1>10 DEF CallInv

(* A step of one request leaves the others alone and takes nothing away.   *)
LEMMA StepFacts ==
  ASSUME TypeOK, NEW c \in Calls, Held(c), Step(c)
  PROVE  Grow /\ \A d \in Calls \ {c} : Same(d)
<1> USE DEF TypeOK, askedVars, keyVars, historyVars, dbVars, tables, session,
            unchangedByDb
<1>0. /\ version \in Nat
      /\ \A row \in principals : SameKey(row, row)
  BY AdmissionAssumption DEF SameKey
<1>1. ASSUME NEW p \in principal[c], pc[c] = "principal_write", write_principal(c, p)
      PROVE  \A row \in principals : \E r \in principals' : SameKey(row, r)
  BY <1>1, WriteFacts DEF Held
<1>2. ASSUME Authenticate(c)
      PROVE  Grow /\ \A d \in Calls \ {c} : Same(d)
  <2>1. Grow
    BY <1>0, <1>2 DEF Authenticate, PassThrough, NoBearer, CheckStatic, BadHeader, KeyCached,
         KeyMissing, Served, FetchFails, Refresh, Arrive, Grow
  <2>2. ASSUME NEW d \in Calls \ {c} PROVE Same(d)
    <3>1. \A tok : Verify(c, tok) =>
                    Unauthorized(c) \/ Invalid(c) \/ Continue(c, FromClaims(tok))
      BY DEF Verify
    <3>2. CASE \/ PassThrough(c) \/ NoBearer(c) \/ CheckStatic(c) \/ BadHeader(c)
               \/ KeyCached(c) \/ KeyMissing(c)
      BY <3>1, <3>2 DEF PassThrough, NoBearer, CheckStatic, BadHeader, KeyCached, KeyMissing,
           Arrive, Unauthorized, Invalid, Continue, Reply, Goto, Same
    <3>3. CASE Served(c) \/ FetchFails(c) \/ Refresh(c)
      BY <3>1, <3>3 DEF Served, FetchFails, Refresh, Unauthorized, Invalid, Continue,
           Reply, Goto, Same
    <3> QED BY <1>2, <3>2, <3>3 DEF Authenticate
  <2> QED BY <2>1, <2>2
<1>3. ASSUME Persist(c) \/ Evaluate(c)
      PROVE  Grow /\ \A d \in Calls \ {c} : Same(d)
  <2>1. \A row \in principals : \E r \in principals' : SameKey(row, r)
    BY <1>0, <1>1, <1>3 DEF Persist, Evaluate, TenantRead, TenantWrite, PrincipalRead,
         PrincipalWrite, Collide, CallWrite, DatabaseFails, read_tenant, write_tenant,
         read_principal, upsert_tool_call
  <2>2. /\ tenants \subseteq tenants' /\ calls \subseteq calls'
        /\ UNCHANGED << mode, version >>
    BY <1>3 DEF Persist, Evaluate, TenantRead, TenantWrite, PrincipalRead,
         PrincipalWrite, Collide, CallWrite, DatabaseFails, read_tenant, write_tenant,
         read_principal, write_principal, upsert_tool_call
  <2>3. ASSUME NEW d \in Calls \ {c} PROVE Same(d)
    BY <1>3 DEF Persist, Evaluate, TenantRead, TenantWrite, PrincipalRead,
         PrincipalWrite, Collide, CallWrite, DatabaseFails, read_tenant, write_tenant,
         read_principal, write_principal, upsert_tool_call, Reply, Goto, Same
  <2> QED BY <1>0, <2>1, <2>2, <2>3 DEF Grow
<1> QED BY <1>2, <1>3 DEF Step

-----------------------------------------------------------------------------
(* A request keeps its part of the invariant by its own steps.             *)

(* What was stored when the request arrived is still stored.               *)
StillStored(c) ==
  /\ stored[c].tenants \subseteq tenants
  /\ \A row \in stored[c].principals : \E r \in principals : SameKey(row, r)

LEMMA Passed ==
  ASSUME TypeOK, NEW c \in Calls, Flow(c), pc[c] # "done",
         NEW p \in Principal, Continue(c, p), lost' = lost, token' = token,
         StillStored(c)', Auth(c)'
  PROVE  CallInv(c)'
<1>1. /\ pc'[c] = "tenant" /\ principal'[c] = {p}
      /\ answer'[c] = "none" /\ lost'[c] = "none"
  BY DEF Continue, Goto, Flow, TypeOK
<1>2. Flow(c)' /\ Rows(c)' /\ Allowed(c)' /\ Fresh(c)' /\ Held(c)'
  BY <1>1 DEF Flow, Rows, Allowed, Fresh, Held, Verdicts
<1>3. First(c)'
  BY <1>1 DEF First, StillStored
<1> QED BY <1>2, <1>3 DEF CallInv

LEMMA Refused ==
  ASSUME TypeOK, NEW c \in Calls, Flow(c), pc[c] # "done",
         Unauthorized(c) \/ Invalid(c), lost' = lost, token' = token, StillStored(c)',
         Unauthorized(c) /\ mode' = "oidc" /\ c \notin unlucky' =>
           \A tok \in Tokens :
             token'[c] = {tok} /\ tok.valid /\ Supported(tok) # {} =>
               \E doc \in since'[c] .. version' : tok.kid \notin Published[doc]
  PROVE  CallInv(c)'
<1>1. /\ pc'[c] = "done" /\ principal'[c] = principal[c]
      /\ answer'[c] \in {"unauthorized", "error"} /\ lost'[c] = "none"
      /\ answer'[c] = "unauthorized" => Unauthorized(c)
  BY DEF Unauthorized, Invalid, Reply, Goto, Flow, TypeOK
<1>2. Flow(c)' /\ Rows(c)' /\ Allowed(c)' /\ Held(c)' /\ Auth(c)'
  BY <1>1 DEF Flow, Rows, Allowed, Held, Auth, Verdicts, Database
<1>3. First(c)'
  BY <1>1 DEF First, StillStored
<1>4. Fresh(c)'
  BY <1>1 DEF Fresh
<1> QED BY <1>2, <1>3, <1>4 DEF CallInv

LEMMA ArriveFacts ==
  ASSUME TypeOK, NEW c \in Calls, CallInv(c), Arrive(c)
  PROVE  /\ StillStored(c)' /\ lost' = lost /\ UNCHANGED askedVars
         /\ Flow(c) /\ pc[c] = "received" /\ principal[c] = {}
         /\ since'[c] = version /\ version' = version /\ unlucky' = unlucky
         /\ version \in Nat /\ 1 <= version
<1>1. version \in Nat /\ 1 <= version
  BY AdmissionAssumption DEF TypeOK
<1> QED BY <1>1 DEF TypeOK, CallInv, Flow, Arrive, StillStored, SameKey, askedVars, keyVars,
           dbVars, tables, session

(* authenticate(), once the key was found in a document.                   *)
LEMMA Verified ==
  ASSUME TypeOK, NEW c \in Calls, Flow(c), pc[c] # "done", mode = "oidc",
         NEW tok \in Tokens, token[c] = {tok}, Verify(c, tok),
         NEW doc \in 1 .. version, tok.kid \in Published[doc],
         lost' = lost, StillStored(c)', UNCHANGED << askedVars, version >>
  PROVE  CallInv(c)'
<1>1. CASE tok.valid /\ Supported(tok) # {} /\ Continue(c, FromClaims(tok))
  <2>1. principal'[c] = {FromClaims(tok)}
    BY <1>1 DEF Continue, TypeOK
  <2>2. Auth(c)'
    BY <1>1, <2>1 DEF Auth, askedVars
  <2> QED BY <1>1, <2>2, ClaimsType, Passed DEF askedVars
<1>2. CASE (~ tok.valid \/ Supported(tok) = {}) /\ Unauthorized(c)
  BY <1>2, Refused DEF askedVars
<1>3. CASE Invalid(c)
  <2>1. ~ Unauthorized(c)
    BY <1>3 DEF Invalid, Unauthorized, Reply, TypeOK
  <2> QED BY <1>3, <2>1, Refused DEF askedVars
<1> QED BY <1>1, <1>2, <1>3 DEF Verify

LEMMA OwnAuthenticate ==
  ASSUME TypeOK, NEW c \in Calls, CallInv(c), Authenticate(c)
  PROVE  CallInv(c)'
<1>0. version \in Nat /\ 1 <= version
  BY AdmissionAssumption DEF TypeOK
<1>1. CASE PassThrough(c)
  <2>1. Arrive(c) /\ mode = "none" /\ UNCHANGED << principal, answer >> /\ pc'[c] = "call"
    BY <1>1 DEF PassThrough, Goto, TypeOK
  <2>2. /\ StillStored(c)' /\ lost' = lost /\ UNCHANGED askedVars
        /\ Flow(c) /\ pc[c] = "received" /\ principal[c] = {}
    BY <2>1, ArriveFacts
  <2>3. /\ answer'[c] = "none" /\ lost'[c] = "none" /\ principal'[c] = {}
        /\ mode' = "none" /\ token'[c] = token[c]
    BY <2>1, <2>2 DEF Flow, askedVars
  <2>4. Flow(c)' /\ Auth(c)' /\ Allowed(c)' /\ Fresh(c)' /\ Held(c)'
    BY <2>1, <2>2, <2>3 DEF Flow, Auth, Allowed, Fresh, Held
  <2>5. Rows(c)' /\ First(c)'
    BY <2>1, <2>2, <2>3 DEF Rows, First, Tenant, StillStored, Verdicts
  <2> QED BY <2>4, <2>5 DEF CallInv
<1>2. CASE NoBearer(c)
  <2>1. \A tok : token'[c] # {tok}
    BY <1>2 DEF NoBearer, Arrive, askedVars
  <2> QED BY <1>2, <2>1, ArriveFacts, Refused DEF NoBearer, askedVars
<1>3. CASE CheckStatic(c)
  <2>1. CASE token[c] = {StaticToken} /\ Continue(c, LocalPrincipal)
    <3>1. Auth(c)'
      BY <1>3, <2>1, ArriveFacts DEF CheckStatic, Auth, askedVars
    <3> QED BY <1>3, <2>1, <3>1, AdmissionAssumption, ArriveFacts, Passed
        DEF CheckStatic, askedVars
  <2>2. CASE Unauthorized(c)
    BY <1>3, <2>2, ArriveFacts, Refused DEF CheckStatic, askedVars
  <2> QED BY <1>3, <2>1, <2>2 DEF CheckStatic
<1>4. CASE KeyCached(c)
  <2>1. PICK tok \in token[c] : HasKey(keys, tok) /\ Verify(c, tok)
    BY <1>4 DEF KeyCached
  <2>2. tok \in Tokens /\ token[c] = {tok} /\ keys \in 1 .. version
    BY <1>0, <2>1 DEF TypeOK, CallInv, Flow, HasKey
  <2> QED BY <1>4, <2>1, <2>2, ArriveFacts, Verified DEF KeyCached, HasKey
<1>5. CASE KeyMissing(c)
  <2>1. Arrive(c) /\ UNCHANGED << principal, answer >> /\ pc'[c] = "fetch"
    BY <1>5 DEF KeyMissing, Goto, TypeOK
  <2>2. /\ StillStored(c)' /\ lost' = lost /\ UNCHANGED askedVars
        /\ Flow(c) /\ pc[c] = "received" /\ principal[c] = {} /\ 1 <= since'[c]
    BY <2>1, ArriveFacts
  <2>3. /\ answer'[c] = "none" /\ lost'[c] = "none" /\ principal'[c] = {}
        /\ token'[c] = token[c]
    BY <2>1, <2>2 DEF Flow, askedVars
  <2>4. mode' = "oidc"
    BY <1>5, <2>2 DEF KeyMissing, askedVars
  <2>5. Flow(c)' /\ Auth(c)' /\ Allowed(c)' /\ Fresh(c)' /\ Held(c)'
    BY <2>1, <2>2, <2>3, <2>4 DEF Flow, Auth, Allowed, Fresh, Held, Verdicts, Database
  <2>6. Rows(c)' /\ First(c)'
    BY <2>1, <2>2, <2>3 DEF Rows, First, StillStored, Verdicts
  <2> QED BY <2>5, <2>6 DEF CallInv
<1>6. CASE Served(c)
  <2>1. /\ pc[c] = "fetch" /\ pc'[c] = "fetched" /\ fetch'[c] = version
        /\ UNCHANGED << askedVars, principal, answer, version, historyVars, dbVars >>
    BY <1>6 DEF Served, Goto, TypeOK
  <2>2. 1 <= since[c] /\ since[c] <= version /\ answer[c] = "none" /\ lost[c] = "none"
    BY <1>0, <2>1 DEF CallInv, Fresh, Flow, TypeOK
  <2>3. Flow(c)' /\ Auth(c)' /\ Allowed(c)' /\ Fresh(c)' /\ Held(c)'
    BY <2>1, <2>2 DEF CallInv, Flow, Auth, Allowed, Fresh, Held, Verdicts, Database,
                      askedVars, historyVars
  <2>4. Rows(c)' /\ First(c)'
    BY <2>1, <2>2 DEF CallInv, Rows, First, Verdicts, historyVars, dbVars, tables
  <2> QED BY <2>3, <2>4 DEF CallInv
<1>7. CASE FetchFails(c)
  <2>1. StillStored(c)'
    BY <1>7 DEF FetchFails, CallInv, First, StillStored, dbVars, tables
  <2> QED BY <1>7, <2>1, Refused DEF FetchFails, CallInv, askedVars
<1>8. CASE Refresh(c)
  <2>1. StillStored(c)' /\ lost' = lost /\ UNCHANGED << askedVars, version, since >>
    BY <1>8 DEF Refresh, CallInv, First, StillStored, historyVars, dbVars, tables
  <2>2. PICK tok \in token[c] :
          \/ HasKey(fetch[c], tok) /\ Verify(c, tok)
          \/ ~ HasKey(fetch[c], tok) /\ Unauthorized(c)
    BY <1>8 DEF Refresh, Refreshed
  <2>3. tok \in Tokens /\ token[c] = {tok} /\ pc[c] = "fetched" /\ Flow(c)
    BY <1>8, <2>2 DEF TypeOK, CallInv, Flow, Refresh
  <2>4. fetch[c] \in since[c] .. version /\ fetch[c] \in 1 .. version
    BY <1>0, <2>3 DEF TypeOK, CallInv, Fresh
  <2>5. CASE HasKey(fetch[c], tok) /\ Verify(c, tok)
    BY <2>1, <2>3, <2>4, <2>5, Verified DEF HasKey, Flow
  <2>6. CASE ~ HasKey(fetch[c], tok) /\ Unauthorized(c)
    <3>1. tok.kid \notin Published[fetch[c]]
      BY <2>4, <2>6 DEF HasKey
    <3> QED BY <2>1, <2>3, <2>4, <2>6, <3>1, Refused DEF askedVars
  <2> QED BY <2>2, <2>5, <2>6
<1>9. CASE BadHeader(c)
  <2>1. PICK tok \in Tokens : tok \in token[c] /\ ~ tok.valid
    BY <1>9, AdmissionAssumption DEF BadHeader, TypeOK
  <2> QED BY <1>9, <2>1, ArriveFacts, Refused DEF BadHeader, askedVars
<1> QED BY <1>1, <1>2, <1>3, <1>4, <1>5, <1>6, <1>7, <1>8, <1>9 DEF Authenticate

(* What stays of the invariant when a request goes from one step of        *)
(* execute_tool_call to the next.                                          *)
Onward(c) ==
  /\ pc[c] \in Database /\ pc'[c] \in Database \cup {"policy"}
  /\ answer'[c] = answer[c] /\ lost'[c] = lost[c]
  /\ UNCHANGED << askedVars, principal, keyVars, since, unlucky, stored >>

LEMMA OnwardFacts ==
  ASSUME TypeOK, NEW c \in Calls, CallInv(c), Grow, Onward(c)
  PROVE  /\ Flow(c)' /\ Auth(c)' /\ Allowed(c)' /\ Fresh(c)' /\ StillStored(c)'
         /\ answer'[c] = "none" /\ lost'[c] = "none"
<1>1. pc[c] # "done" /\ answer'[c] = "none" /\ lost'[c] = "none"
  BY DEF Onward, Database, CallInv, Flow
<1>2. Flow(c)' /\ Auth(c)' /\ Allowed(c)' /\ Fresh(c)'
  BY <1>1 DEF Onward, CallInv, Flow, Auth, Allowed, Fresh, Database, askedVars, keyVars
<1>3. StillStored(c)'
  BY DEF Onward, CallInv, First, StillStored, Grow, SameKey
<1> QED BY <1>1, <1>2, <1>3

(* A request that is over with "unpersisted".                              *)
LEMMA Unpersisted ==
  ASSUME TypeOK, NEW c \in Calls, CallInv(c), Grow, pc[c] \in Database,
         Reply(c, "unpersisted"), UNCHANGED unchangedByDb,
         \/ lost'[c] = "none"
         \/ lost'[c] = "tenants" /\ pc[c] = "tenant_write" /\ ~ found[c]
         \/ lost'[c] = "principals" /\ pc[c] = "principal_write" /\ loaded[c] = {}
  PROVE  CallInv(c)'
<1>1. pc'[c] = "done" /\ answer'[c] = "unpersisted" /\ lost[c] = "none"
  BY DEF Reply, Goto, TypeOK, CallInv, Flow, Database
<1>2. Flow(c)' /\ Auth(c)' /\ Rows(c)' /\ Allowed(c)' /\ Fresh(c)' /\ Held(c)'
  BY <1>1 DEF CallInv, Flow, Auth, Rows, Allowed, Fresh, Held, Database, Verdicts,
              unchangedByDb, askedVars
<1>3. Tenant(c)' = Tenant(c)
  BY DEF Tenant, unchangedByDb
<1>4. StillStored(c)'
  BY DEF CallInv, First, StillStored, Grow, SameKey, unchangedByDb
<1>5. First(c)'
  BY <1>1, <1>3, <1>4 DEF CallInv, First, StillStored, unchangedByDb
<1> QED BY <1>2, <1>5 DEF CallInv

LEMMA OwnPersist ==
  ASSUME TypeOK, NEW c \in Calls, CallInv(c), Grow, Persist(c)
  PROVE  CallInv(c)'
<1> USE DEF unchangedByDb
<1>0. \A p \in principal[c] : Tenant(c) = {p.tenant} /\ p \in Principal
  BY DEF CallInv, Flow, Tenant, TypeOK
<1>t. UNCHANGED principal => Tenant(c)' = Tenant(c)
  BY DEF Tenant
<1>1. CASE TenantRead(c)
  <2>1. PICK t \in Tenant(c) : read_tenant(c, t)
    BY <1>1 DEF TenantRead
  <2>2. Onward(c) /\ pc'[c] = "tenant_write" /\ UNCHANGED << tables, loaded >>
    BY <1>1, <2>1 DEF TenantRead, read_tenant, Goto, Onward, Database, TypeOK
  <2>3. Tenant(c) = {t} /\ found'[c] = (t \in tenants)
    BY <1>0, <2>1 DEF read_tenant, TypeOK, Tenant
  <2>4. First(c)'
    BY <1>t, <2>2, <2>3, OnwardFacts DEF First, StillStored, Onward, tables
  <2>5. Rows(c)' /\ Held(c)'
    BY <2>2, OnwardFacts DEF Rows, Held, Verdicts
  <2> QED BY <2>2, <2>4, <2>5, OnwardFacts DEF CallInv
<1>2. CASE TenantWrite(c)
  <2>1. PICK t \in Tenant(c) : write_tenant(c, t)
    BY <1>2 DEF TenantWrite
  <2>2. Onward(c) /\ pc'[c] = "principal"
    BY <1>2 DEF TenantWrite, Goto, Onward, Database, TypeOK
  <2>3. Tenant(c)' \subseteq tenants'
    BY <1>0, <1>t, <2>1, <2>2 DEF write_tenant, Tenant, Onward
  <2>4. Rows(c)' /\ Held(c)' /\ First(c)'
    BY <2>2, <2>3, OnwardFacts DEF Rows, Held, First, StillStored, Verdicts
  <2> QED BY <2>2, <2>4, OnwardFacts DEF CallInv
<1>3. CASE PrincipalRead(c)
  <2>1. PICK p \in principal[c] : read_principal(c, p)
    BY <1>3 DEF PrincipalRead
  <2>2. Onward(c) /\ pc[c] = "principal" /\ pc'[c] = "principal_write" /\ UNCHANGED tables
    BY <1>3, <2>1 DEF PrincipalRead, read_principal, Goto, Onward, Database, TypeOK
  <2>3. principal[c] = {p} /\ loaded'[c] = {row \in principals : SameKey(p, row)}
    BY <2>1 DEF read_principal, TypeOK, CallInv, Flow
  <2>4. Held(c)'
    BY <2>2, <2>3 DEF Held, Onward, tables
  <2>5. First(c)'
    <3>1. ASSUME loaded'[c] = {}
          PROVE  \A row \in stored'[c].principals : ~ SameKey(p, row)
      <4>1. \A r \in principals : ~ SameKey(p, r)
        BY <2>3, <3>1
      <4>2. \A row \in stored'[c].principals : \E r \in principals : SameKey(row, r)
        BY <2>2, OnwardFacts DEF StillStored, tables
      <4> QED BY <4>1, <4>2 DEF SameKey
    <3> QED BY <2>2, <2>3, <3>1, OnwardFacts DEF First, StillStored, Onward
  <2>6. Rows(c)'
    BY <1>t, <2>2, OnwardFacts DEF CallInv, Rows, Verdicts, Onward, tables
  <2> QED BY <2>2, <2>4, <2>5, <2>6, OnwardFacts DEF CallInv
<1>4. CASE PrincipalWrite(c)
  <2>1. PICK p \in principal[c] : write_principal(c, p)
    BY <1>4 DEF PrincipalWrite
  <2>2. Onward(c) /\ pc[c] = "principal_write" /\ pc'[c] = "call" /\ UNCHANGED tenants
    BY <1>4, <2>1 DEF PrincipalWrite, write_principal, Goto, Onward, Database, TypeOK
  <2>3. \E r \in principals' : SameKey(p, r)
    BY <1>0, <2>1, <2>2, WriteFacts DEF TypeOK, CallInv, Held
  <2>4. principal'[c] = {p}
    BY <2>1, <2>2 DEF Onward, CallInv, Flow
  <2>5. Rows(c)'
    BY <1>t, <2>2, <2>3, <2>4, OnwardFacts DEF CallInv, Rows, Verdicts, Onward
  <2>6. Held(c)' /\ First(c)'
    BY <2>2, OnwardFacts DEF Held, First, StillStored
  <2> QED BY <2>2, <2>5, <2>6, OnwardFacts DEF CallInv
<1>5. CASE Collide(c)
  <2>1. \/ lost'[c] = "tenants" /\ pc[c] = "tenant_write" /\ ~ found[c]
        \/ lost'[c] = "principals" /\ pc[c] = "principal_write" /\ loaded[c] = {}
    BY <1>5 DEF Collide, TenantCollides, PrincipalCollides, TypeOK
  <2> QED BY <1>5, <2>1, Unpersisted DEF Collide, Database
<1>6. CASE CallWrite(c)
  <2>1. /\ Onward(c) /\ pc[c] = "call" /\ pc'[c] = "policy"
        /\ UNCHANGED << tenants, principals >>
        /\ [call |-> c, owner |-> Tenant(c)] \in calls'
    BY <1>6 DEF CallWrite, upsert_tool_call, Goto, Onward, Database, TypeOK
  <2>2. Rows(c)'
    BY <1>t, <2>1, OnwardFacts DEF CallInv, Rows, Verdicts, Onward
  <2>3. Held(c)' /\ First(c)'
    BY <2>1, OnwardFacts DEF Held, First, StillStored
  <2> QED BY <2>1, <2>2, <2>3, OnwardFacts DEF CallInv
<1>7. CASE DatabaseFails(c)
  <2>1. lost'[c] = "none"
    BY <1>7 DEF DatabaseFails, CallInv, Flow, Database
  <2> QED BY <1>7, <2>1, Unpersisted DEF DatabaseFails
<1> QED BY <1>1, <1>2, <1>3, <1>4, <1>5, <1>6, <1>7 DEF Persist

LEMMA OwnEvaluate ==
  ASSUME TypeOK, NEW c \in Calls, CallInv(c), Evaluate(c)
  PROVE  CallInv(c)'
<1>1. PICK reachable \in BOOLEAN : Reply(c, evaluate(PolicyInput(c), reachable))
  BY DEF Evaluate
<1>2. /\ pc[c] = "policy" /\ pc'[c] = "done"
      /\ answer'[c] = evaluate(PolicyInput(c), reachable)
      /\ UNCHANGED << askedVars, principal, keyVars, historyVars, dbVars >>
  BY <1>1 DEF Evaluate, Reply, Goto, TypeOK
<1>3. Tenant(c)' = Tenant(c) /\ PolicyInput(c)' = PolicyInput(c)
  BY <1>2 DEF Tenant, PolicyInput, askedVars
<1>4. answer'[c] \in Verdicts
  BY <1>2, VerdictLemma
<1>5. Allowed(c)'
  BY <1>2, <1>3, AllowNeedsRead DEF Allowed
<1>6. Flow(c)' /\ Auth(c)' /\ Fresh(c)' /\ Held(c)'
  BY <1>2, <1>4 DEF CallInv, Flow, Auth, Fresh, Held, Verdicts, askedVars, keyVars,
                    historyVars
<1>7. Rows(c)'
  BY <1>2, <1>3 DEF CallInv, Rows, dbVars, tables
<1>8. First(c)'
  BY <1>2, <1>3 DEF CallInv, Flow, First, historyVars, dbVars, tables, session
<1> QED BY <1>5, <1>6, <1>7, <1>8 DEF CallInv

-----------------------------------------------------------------------------
(* The stored principals                                                   *)

(* An upsert that has read the row that is stored leaves its principal.    *)
LEMMA UpdatedCurrent ==
  ASSUME NEW row \in Principal, NEW p \in Principal, SameKey(p, row)
  PROVE  Updated(row, row, p) = p
<1>1. \A q \in Principal : q = [tenant |-> q.tenant, subject |-> q.subject,
                               roles |-> q.roles, agent |-> q.agent]
  BY DEF Principal
<1>2. /\ Updated(row, row, p) \in Principal
      /\ Updated(row, row, p).tenant = p.tenant
      /\ Updated(row, row, p).subject = p.subject
  BY UpdatedType DEF SameKey
<1>3. /\ Updated(row, row, p).roles = p.roles
      /\ Updated(row, row, p).agent = p.agent
  BY DEF Updated, Principal
<1> QED BY <1>1, <1>2, <1>3

(* The steps that neither begin an upsert of a principal nor write one.    *)
LEMMA MixKept ==
  ASSUME MixInv, UNCHANGED << principals, mixed >>,
         \A d \in Calls : principal[d] \subseteq principal'[d],
         \A d \in Calls : pc'[d] = "principal_write" =>
           /\ pc[d] = "principal_write"
           /\ principal'[d] = principal[d] /\ loaded'[d] = loaded[d]
  PROVE  MixInv'
<1>1. Unique'
  BY DEF MixInv, Unique
<1>2. Overlaps'
  BY DEF MixInv, Overlaps
<1>3. Current'
  BY DEF MixInv, Current
<1>4. MixedRowNeedsOverlap'
  BY DEF MixInv, MixedRowNeedsOverlap
<1> QED BY <1>1, <1>2, <1>3, <1>4 DEF MixInv

LEMMA MixRead ==
  ASSUME TypeOK, MixInv, NEW c \in Calls, CallInv(c), PrincipalRead(c)
  PROVE  MixInv'
<1>1. PICK p \in principal[c] :
        /\ loaded' = [loaded EXCEPT ![c] = {row \in principals : SameKey(p, row)}]
        /\ UNCHANGED << tables, found >>
        /\ mixed' = IF OpenUpserts(c, p) = {} THEN mixed
                    ELSE mixed \cup {<< p.tenant, p.subject >>}
  BY DEF PrincipalRead, read_principal
<1>2. /\ pc' = [pc EXCEPT ![c] = "principal_write"]
      /\ UNCHANGED << principals, principal >> /\ mixed \subseteq mixed'
      /\ principal[c] = {p}
  BY <1>1 DEF PrincipalRead, Goto, unchangedByDb, tables, CallInv, Flow
<1>3. Unique'
  BY <1>2 DEF MixInv, Unique
<1>4. Overlaps'
  <2>1. ASSUME NEW d \in Calls, d # c, pc[d] = "principal_write",
               NEW q \in principal[d], SameKey(p, q)
        PROVE  << p.tenant, p.subject >> \in mixed'
    BY <1>1, <2>1 DEF OpenUpserts
  <2> QED BY <1>2, <2>1 DEF MixInv, Overlaps, SameKey, TypeOK
<1>5. Current'
  <2>1. ASSUME NEW d \in Calls, pc'[d] = "principal_write", NEW q \in principal'[d]
        PROVE  \/ << q.tenant, q.subject >> \in mixed'
               \/ loaded'[d] = {row \in principals' : SameKey(q, row)}
    <3>1. CASE d = c
      BY <1>1, <1>2, <2>1, <3>1 DEF TypeOK
    <3>2. CASE d # c
      BY <1>1, <1>2, <2>1, <3>2 DEF TypeOK, MixInv, Current
    <3> QED BY <3>1, <3>2
  <2> QED BY <2>1 DEF Current
<1>6. MixedRowNeedsOverlap'
  BY <1>2 DEF MixInv, MixedRowNeedsOverlap
<1> QED BY <1>3, <1>4, <1>5, <1>6 DEF MixInv

LEMMA MixWrite ==
  ASSUME TypeOK, MixInv, NEW c \in Calls, CallInv(c), pc[c] = "principal_write",
         NEW p \in principal[c], write_principal(c, p),
         NEW label \in Labels \ {"principal_write"}, Goto(c, label),
         UNCHANGED << principal, mixed >>
  PROVE  MixInv'
<1>0. p \in Principal /\ principals \subseteq Principal
  BY DEF TypeOK
<1>1. loaded[c] # {} => \E row \in principals : SameKey(p, row)
  BY DEF CallInv, Held
<1>2. /\ \A r \in principals' :
           r = p \/ \E row \in principals : SameKey(row, r) /\ (r # row => SameKey(p, r))
      /\ \A row \in principals : ~ SameKey(p, row) => row \in principals'
  BY <1>0, <1>1, WriteFacts
<1>3. \A d \in Calls : pc'[d] = "principal_write" => d # c /\ pc[d] = "principal_write"
  BY DEF Goto, TypeOK
<1>4. UNCHANGED loaded
  BY DEF write_principal, session
<1> DEFINE old == CHOOSE o \in loaded[c] : TRUE
           New(row) == IF SameKey(p, row) THEN Updated(row, old, p) ELSE row
<1>5. loaded[c] # {} => principals' = {New(row) : row \in principals}
  BY DEF write_principal
<1>6. \A row \in principals : SameKey(row, New(row))
  BY <1>0, UpdatedType DEF SameKey
<1>7. Unique'
  <2>1. CASE loaded[c] = {}
    BY <2>1 DEF write_principal, PrincipalCollides, MixInv, Unique, SameKey
  <2>2. CASE loaded[c] # {}
    <3> HIDE DEF New
    <3>1. ASSUME NEW r \in principals', NEW s \in principals', SameKey(r, s)
          PROVE  r = s
      <4>1. PICK a \in principals : r = New(a)
        BY <1>5, <2>2
      <4>2. PICK b \in principals : s = New(b)
        BY <1>5, <2>2
      <4>3. SameKey(a, b)
        BY <1>6, <3>1, <4>1, <4>2 DEF SameKey
      <4> QED BY <4>1, <4>2, <4>3 DEF MixInv, Unique
    <3> QED BY <3>1 DEF Unique
  <2> QED BY <2>1, <2>2
<1>8. Overlaps'
  BY <1>3 DEF MixInv, Overlaps
<1>9. Current'
  <2>1. ASSUME NEW d \in Calls, pc'[d] = "principal_write", NEW q \in principal[d],
               << q.tenant, q.subject >> \notin mixed
        PROVE  loaded[d] = {row \in principals' : SameKey(q, row)}
    <3>1. d # c /\ pc[d] = "principal_write"
      BY <1>3, <2>1
    <3>2. ~ SameKey(p, q)
      BY <2>1, <3>1 DEF MixInv, Overlaps, SameKey
    <3>3. loaded[d] = {row \in principals : SameKey(q, row)}
      BY <2>1, <3>1 DEF MixInv, Current
    <3>4. \A row : SameKey(q, row) => ~ SameKey(p, row) /\ row # p
      BY <3>2 DEF SameKey
    <3>5. \A r \in principals' : SameKey(q, r) => r \in principals
      BY <1>2, <3>4
    <3>6. \A r \in principals : SameKey(q, r) => r \in principals'
      BY <1>2, <3>4
    <3> QED BY <3>3, <3>5, <3>6
  <2> QED BY <1>4, <2>1 DEF Current
<1>10. MixedRowNeedsOverlap'
  <2>1. ASSUME NEW r \in principals', r \notin principals, << r.tenant, r.subject >> \notin mixed
        PROVE  r = p
    <3>1. CASE loaded[c] = {}
      BY <2>1, <3>1 DEF write_principal
    <3>2. CASE loaded[c] # {}
      <4>1. PICK row \in principals : r = New(row)
        BY <1>5, <3>2
      <4>2. SameKey(p, row) /\ r = Updated(row, old, p)
        BY <2>1, <4>1
      <4>3. << p.tenant, p.subject >> \notin mixed
        BY <1>0, <2>1, <4>2, UpdatedType DEF SameKey
      <4>4. loaded[c] = {o \in principals : SameKey(p, o)}
        BY <4>3 DEF MixInv, Current
      <4>5. old \in principals /\ SameKey(p, old)
        BY <3>2, <4>4
      <4>6. old = row
        BY <4>2, <4>5 DEF MixInv, Unique, SameKey
      <4> QED BY <1>0, <4>2, <4>6, UpdatedCurrent
    <3> QED BY <3>1, <3>2
  <2> QED BY <2>1 DEF MixInv, MixedRowNeedsOverlap
<1> QED BY <1>7, <1>8, <1>9, <1>10 DEF MixInv

LEMMA MixStep ==
  ASSUME TypeOK, MixInv, NEW c \in Calls, CallInv(c), Step(c)
  PROVE  MixInv'
<1> USE DEF askedVars, keyVars, historyVars, dbVars, tables, session, unchangedByDb
<1>1. CASE Authenticate(c)
  <2>1. UNCHANGED << principals, mixed, loaded >>
    BY <1>1 DEF Authenticate, PassThrough, NoBearer, CheckStatic, BadHeader, KeyCached,
         KeyMissing, Served, FetchFails, Refresh, Arrive
  <2>2. /\ pc[c] \in {"received", "fetch", "fetched"}
        /\ \A d \in Calls \ {c} : Same(d)
    BY <1>1, StepFacts DEF Step, CallInv, Authenticate, PassThrough, NoBearer, CheckStatic,
         BadHeader, KeyCached, KeyMissing, Served, FetchFails, Refresh, Arrive
  <2>3. pc'[c] # "principal_write"
    <3>1. \A tok : Verify(c, tok) =>
                    Unauthorized(c) \/ Invalid(c) \/ Continue(c, FromClaims(tok))
      BY DEF Verify
    <3> QED BY <1>1, <3>1 DEF Authenticate, PassThrough, NoBearer, CheckStatic,
         BadHeader, KeyCached, KeyMissing, Served, FetchFails, Refresh, Unauthorized, Invalid, Continue,
         Reply, Goto, TypeOK
  <2>4. \A d \in Calls : principal[d] \subseteq principal'[d]
    BY <2>2 DEF Same, CallInv, Flow
  <2> QED BY <2>1, <2>2, <2>3, <2>4, MixKept DEF Same
<1>2. CASE PrincipalRead(c)
  BY <1>2, MixRead
<1>3. ASSUME NEW p \in principal[c], pc[c] = "principal_write", write_principal(c, p),
             PrincipalWrite(c) \/ DatabaseFails(c)
      PROVE  MixInv'
  <2>1. PICK label \in {"call", "done"} : Goto(c, label)
    BY <1>3 DEF PrincipalWrite, DatabaseFails, Reply
  <2> QED BY <1>3, <2>1, MixWrite DEF PrincipalWrite, DatabaseFails, Labels, Database
<1>4. CASE /\ Persist(c) \/ Evaluate(c)
           /\ UNCHANGED principals /\ ~ PrincipalRead(c)
  <2>1. UNCHANGED << principal, mixed, loaded >>
    BY <1>4 DEF Persist, Evaluate, TenantRead, TenantWrite, PrincipalWrite,
         Collide, CallWrite, DatabaseFails, read_tenant, write_tenant,
         write_principal, upsert_tool_call
  <2>2. \A d \in Calls : pc'[d] = "principal_write" => pc[d] = "principal_write"
    BY <1>4 DEF Persist, Evaluate, TenantRead, TenantWrite, PrincipalWrite,
         Collide, CallWrite, DatabaseFails, Reply, Goto, TypeOK
  <2> QED BY <1>4, <2>1, <2>2, MixKept
<1>5. Persist(c) \/ Evaluate(c) =>
        \/ PrincipalRead(c)
        \/ UNCHANGED principals
        \/ \E p \in principal[c] :
             /\ pc[c] = "principal_write" /\ write_principal(c, p)
             /\ PrincipalWrite(c) \/ DatabaseFails(c)
  BY DEF Persist, Evaluate, TenantRead, TenantWrite, PrincipalWrite,
         Collide, CallWrite, DatabaseFails, read_tenant, write_tenant, upsert_tool_call
<1> QED BY <1>1, <1>2, <1>3, <1>4, <1>5 DEF Step

-----------------------------------------------------------------------------
(* The invariant                                                           *)

LEMMA InitInv == Init => IInv
<1> SUFFICES ASSUME Init PROVE IInv
  OBVIOUS
<1>1. TypeOK
  <2>1. principals \subseteq Principal /\ tenants \subseteq STRING
    BY AdmissionAssumption DEF Init, Principal
  <2>2. 1 \in 1 .. Len(Published)
    BY AdmissionAssumption
  <2>3. token \in [Calls -> SUBSET Tokens]
    BY DEF Init
  <2> QED BY <2>1, <2>2, <2>3 DEF Init, TypeOK, Labels, Answers
<1>2. ASSUME NEW c \in Calls PROVE CallInv(c)
  <2>1. \A a, b \in token[c] : a = b
    BY DEF Init
  <2>2. /\ pc[c] = "received" /\ answer[c] = "none" /\ lost[c] = "none"
        /\ principal[c] = {} /\ stored[c] = [tenants |-> {}, principals |-> {}]
    BY DEF Init
  <2> QED BY <2>1, <2>2 DEF CallInv, Flow, Auth, Rows, Allowed, Fresh, First, Held,
        Verdicts, Database
<1>3. MixInv
  BY AdmissionAssumption DEF Init, MixInv, Unique, Overlaps, Current, MixedRowNeedsOverlap
<1> QED BY <1>1, <1>2, <1>3 DEF IInv

LEMMA NextInv == IInv /\ [Next]_vars => IInv'
<1> SUFFICES ASSUME IInv, [Next]_vars PROVE IInv'
  OBVIOUS
<1> USE DEF IInv
<1>1. CASE Rotate
  <2>1. /\ version' = version + 1
        /\ UNCHANGED << askedVars, pc, principal, answer, keys, fetch, historyVars, dbVars >>
    BY <1>1 DEF Rotate
  <2>2. Grow /\ \A d \in Calls : Same(d)
    <3>1. version \in Nat
      BY AdmissionAssumption DEF TypeOK
    <3> QED BY <2>1, <3>1 DEF Grow, Same, SameKey, askedVars, historyVars, dbVars,
                              tables, session
  <2>3. MixInv'
    BY <2>1, MixKept DEF historyVars, dbVars, tables, session
  <2> QED BY <1>1, <2>2, <2>3, TypeRotate, Carried
<1>2. ASSUME NEW c \in Calls, Step(c) PROVE IInv'
  <2>1. Grow /\ \A d \in Calls \ {c} : Same(d)
    BY <1>2, StepFacts DEF CallInv
  <2>2. TypeOK'
    BY <1>2, TypeAuthenticate, TypePersist DEF Step
  <2>3. CallInv(c)'
    BY <1>2, <2>1, OwnAuthenticate, OwnPersist, OwnEvaluate DEF Step
  <2>4. \A d \in Calls \ {c} : CallInv(d)'
    BY <2>1, Carried
  <2>5. MixInv'
    BY <1>2, MixStep
  <2> QED BY <2>2, <2>3, <2>4, <2>5
<1>3. CASE UNCHANGED vars
  <2>1. Grow /\ \A d \in Calls : Same(d)
    <3>1. version \in Nat
      BY AdmissionAssumption DEF TypeOK
    <3> QED BY <1>3, <3>1 DEF Grow, Same, SameKey, vars, askedVars, keyVars, historyVars,
                              dbVars, tables, session
  <2>2. MixInv'
    BY <1>3, MixKept DEF vars, historyVars, dbVars, tables, session
  <2>3. TypeOK'
    BY <1>3 DEF TypeOK, vars, askedVars, keyVars, historyVars, dbVars, tables, session
  <2> QED BY <2>1, <2>2, <2>3, Carried
<1> QED BY <1>1, <1>2, <1>3 DEF Next, Step

-----------------------------------------------------------------------------
(* Theorems                                                                *)

(* The inductive invariant holds in every state: what each request has     *)
(* passed on its way through the middleware and the first writes, and what *)
(* the principals table holds.                                             *)
THEOREM Invariance == Spec => []IInv
BY InitInv, NextInv, PTL DEF Spec

(* Every variable of the middleware, the key cache and the tables keeps    *)
(* its type.                                                               *)
THEOREM TypeCorrect == Spec => []TypeOK
<1>1. IInv => TypeOK
  BY DEF IInv
<1> QED BY <1>1, Invariance, PTL

(* tools.rego: two rules never answer for one input, whatever the tool,    *)
(* its arguments and its caller are, so OPA reports no conflict.           *)
THEOREM NoConflict == Spec => []RulesAreExclusive
<1>1. RulesAreExclusive
  BY Exclusive DEF RulesAreExclusive
<1> QED BY <1>1, PTL

(* AuthenticationMiddleware, _principal_from_claims and tools.rego taken   *)
(* together: what is allowed without a human is a call of a tool declared  *)
(* read-only, without a text the policy takes for destructive, by a caller *)
(* who was verified as the mode demands.                                   *)
THEOREM VerifiedCallers == Spec => []AllowedAsDeclaredAndVerified
<1>1. ASSUME IInv PROVE AllowedAsDeclaredAndVerified
  <2>1. ASSUME NEW c \in Calls, answer[c] = "allow"
        PROVE  /\ request[c].risk = "read_only"
               /\ ~ destructive(PolicyInput(c))
               /\ caller_authorized(PolicyInput(c))
    BY <1>1, <2>1 DEF IInv, CallInv, Allowed, read_only_tool, PolicyInput
  <2>2. ASSUME NEW c \in Calls, answer[c] = "allow"
        PROVE  /\ mode = "static_token" => token[c] = {StaticToken}
               /\ mode = "oidc" =>
                    \E tok \in token[c] :
                      /\ tok.valid
                      /\ tok.tenant # NoTenant
                      /\ Supported(tok) # {}
                      /\ \E doc \in 1 .. version : tok.kid \in Published[doc]
    <3>1. Auth(c) /\ answer[c] \in Verdicts
      BY <1>1, <2>2 DEF IInv, CallInv, Verdicts
    <3>2. ASSUME NEW tok, principal[c] = {FromClaims(tok)}
          PROVE  tok.tenant # NoTenant
      <4>1. PolicyInput(c).principal =
              {[tenant |-> p.tenant, roles |-> p.roles] : p \in principal[c]}
        BY <3>2 DEF PolicyInput
      <4>2. [tenant |-> tok.tenant, roles |-> Supported(tok)] \in PolicyInput(c).principal
        BY <3>2, <4>1 DEF FromClaims
      <4> QED BY <2>1, <2>2, <4>2 DEF caller_authorized
    <3> QED BY <3>1, <3>2 DEF Auth
  <2> QED BY <2>1, <2>2 DEF AllowedAsDeclaredAndVerified
<1> QED BY <1>1, Invariance, PTL

(* execute_tool_call: no decision about a call that is not stored under a  *)
(* stored tenant and principal, whichever write collided or failed.        *)
THEOREM PersistedFirst == Spec => []DecidedIsPersisted
<1>1. IInv => DecidedIsPersisted
  BY DEF IInv, CallInv, Rows, DecidedIsPersisted
<1> QED BY <1>1, Invariance, PTL

(* upsert_tenant, upsert_principal: an INSERT collides only for a key that *)
(* was not stored when the request arrived.                                *)
THEOREM CollisionsAreFirst == Spec => []OnlyFirstContactCollides
<1>1. IInv => OnlyFirstContactCollides
  BY DEF IInv, CallInv, First, OnlyFirstContactCollides
<1> QED BY <1>1, Invariance, PTL

(* upsert_principal: a stored row is one verified principal, unless two    *)
(* upserts of the same principal overlapped.                               *)
THEOREM RowsAreWhole == Spec => []MixedRowNeedsOverlap
<1>1. IInv => MixedRowNeedsOverlap
  BY DEF IInv, MixInv
<1> QED BY <1>1, Invariance, PTL

(* _get_key: a key that was published all the time of a request is found,  *)
(* whatever the refreshes of other requests put into the cache.            *)
THEOREM FreshKeys == Spec => []FreshKeyIsAccepted
<1>1. IInv => FreshKeyIsAccepted
  BY DEF IInv, CallInv, Fresh, FreshKeyIsAccepted
<1> QED BY <1>1, Invariance, PTL

=============================================================================
