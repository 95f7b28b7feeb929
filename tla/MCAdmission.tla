---------------------------- MODULE MCAdmission ----------------------------
(***************************************************************************)
(* Two concurrent requests.  Two tokens of one subject differ in role,     *)
(* agent and signing key; the others are refused for their header, tenant, *)
(* roles or signature.  The provider replaces key k1 by k2.                *)
(***************************************************************************)
EXTENDS Admission, TLC

CONSTANTS c1, c2

MCCalls == {c1, c2}
CallSymmetry == Permutations(MCCalls)

Tok(kid, valid, tenant, roles, agent) ==
  [kid |-> kid, valid |-> valid, subject |-> "alice", tenant |-> tenant,
   roles |-> roles, agent |-> agent]

UserToken     == Tok("k1", TRUE, "acme", {"user"}, "a1")
OperatorToken == Tok("k2", TRUE, "acme", {"operator"}, "a2")
MCStaticToken == Tok("no_kid", FALSE, "acme", {"user"}, "a1")

MCTokens == {UserToken, OperatorToken, MCStaticToken,
             Tok("k1", FALSE, "acme", {"user"}, "a1"),
             Tok("k1", TRUE, NoTenant, {"admin"}, "a1"),
             Tok("k2", TRUE, "acme", {"guest"}, "a1")}

MCLocalPrincipal ==
  [tenant |-> "local", subject |-> "static-local-user", roles |-> {"admin"},
   agent |-> "none"]

In(tool, risk, first, words) ==
  [tool |-> tool, risk |-> risk, first |-> first, words |-> words]

MCInputs == {In("db_query", "read_only", "SELECT", {}),
             In("db_query", "read_only", "DELETE", {}),
             In("db_query", "read_only", "DELETE", {"WHERE"}),
             In("shell_exec", "destructive", "none", {".."}),
             In("db_query", "mutating", "UPDATE", {})}

(* A row from which the tokens of alice differ in one column each.         *)
MCKnownPrincipals ==
  {[tenant |-> "acme", subject |-> "alice", roles |-> {"user"}, agent |-> "a2"]}

MCPublished == << {"k1"}, {"k2"} >>

=============================================================================
