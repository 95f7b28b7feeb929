---------------------------- MODULE PolicyRules ----------------------------
(***************************************************************************)
(* gateway/policy: the Rego rules of policies/tools.rego as operators on   *)
(* an input, and what OpaPolicyClient makes of OPA's answer.               *)
(*                                                                         *)
(* An input is a record: tool, risk, first (the word the query starts      *)
(* with), words (what the query or command contains, of the texts the      *)
(* rules look for) and principal, a set that is empty when the input has   *)
(* no principal.                                                           *)
(***************************************************************************)

CONSTANT NoTenant   \* the empty tenant_id

-----------------------------------------------------------------------------
(* The helper rules                                                        *)

caller_authorized(i) ==
  \A p \in i.principal :
    p.tenant # NoTenant /\ p.roles \cap {"user", "operator", "admin"} # {}

caller_elevated(i) ==
  \A p \in i.principal :
    p.tenant # NoTenant /\ p.roles \cap {"operator", "admin"} # {}

destructive(i) ==
  \/ /\ i.tool = "db_query"
     /\ \/ i.words \cap {"DROP", "TRUNCATE"} # {}
        \/ i.first \in {"DELETE", "UPDATE"} /\ "WHERE" \notin i.words
  \/ i.tool = "shell_exec" /\ ".." \in i.words

-----------------------------------------------------------------------------
(* The rules for decision: matched_rule, whose outcome is fixed            *)

Outcome(rule) ==
  CASE rule \in {"default_deny", "invalid_principal"} -> "deny"
    [] rule = "read_only_tool" -> "allow"
    [] OTHER -> "requires_approval"

invalid_principal(i) == i.principal # {} /\ ~ caller_authorized(i)

read_only_tool(i) ==
  i.risk = "read_only" /\ caller_authorized(i) /\ ~ destructive(i)

destructive_operation(i) == destructive(i) /\ caller_elevated(i)

(* Mutant: the destructive operations are not left to their own rule.      *)
mutating_or_destructive(i) == i.risk = "mutating" /\ caller_elevated(i)

mutating_tool(i) ==
  i.risk = "mutating" /\ caller_elevated(i) /\ ~ destructive(i)

destructive_risk_class(i) ==
  i.risk = "destructive" /\ caller_elevated(i) /\ ~ destructive(i)

Rules == {"invalid_principal", "read_only_tool", "destructive_operation",
          "mutating_tool", "destructive_risk_class"}

(* The rules whose body is true of the input.                              *)
Fired(i) ==
  {rule \in Rules :
     \/ rule = "invalid_principal" /\ invalid_principal(i)
     \/ rule = "read_only_tool" /\ read_only_tool(i)
     \/ rule = "destructive_operation" /\ destructive_operation(i)
     \/ rule = "mutating_tool" /\ mutating_tool(i)
     \/ rule = "destructive_risk_class" /\ destructive_risk_class(i)}

(* No two rules have the same value, so OPA reports a conflict, and the    *)
(* client an unavailable policy, when two of them fire.                    *)
decision(i) ==
  IF Fired(i) = {} THEN Outcome("default_deny")
  ELSE IF \E r, s \in Fired(i) : r # s THEN "unavailable"
  ELSE Outcome(CHOOSE rule \in Fired(i) : TRUE)

(* Mutant: fail open.                                                      *)
evaluateOpen(i, reachable) == IF reachable THEN decision(i) ELSE "allow"

(* OpaPolicyClient.evaluate: fail closed when OPA cannot be reached or     *)
(* answers with anything but a decision.                                   *)
evaluate(i, reachable) == IF reachable THEN decision(i) ELSE "unavailable"

=============================================================================
