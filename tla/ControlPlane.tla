---------------------------- MODULE ControlPlane ----------------------------
(***************************************************************************)
(* gateway/control_plane/repository.py: the transactions with which        *)
(* execute_tool_call stores a tenant, a principal and a call before the    *)
(* call is looked at.                                                      *)
(*                                                                         *)
(* PostgreSQL at READ COMMITTED: an upsert reads committed rows, and later *)
(* inserts or updates.  An INSERT waits for a concurrent one of the same   *)
(* key and fails when that commits, so insert and commit are one step.     *)
(* SQLAlchemy writes the columns that differ from what the transaction has *)
(* loaded and leaves the others alone.                                     *)
(***************************************************************************)

CONSTANT Calls   \* the calls of execute_tool_call, one call_id each

VARIABLES
  tenants,      \* table tenants
  principals,   \* table principals: tenant, subject, roles, agent
  calls,        \* table tool_calls: call, owner
  found,        \* found[c]: the open transaction of c has read its tenant
  loaded        \* loaded[c]: the principal it has read: none or one row

tables  == << tenants, principals, calls >>
session == << found, loaded >>

Principal == [tenant : STRING, subject : STRING, roles : SUBSET STRING,
              agent : STRING]
Row       == [call : Calls, owner : SUBSET STRING]

(* uq_principal_tenant_subject                                             *)
SameKey(p, row) == p.tenant = row.tenant /\ p.subject = row.subject

-----------------------------------------------------------------------------
(* upsert_tenant()                                                         *)

(* Mutant: the row is not looked for.                                      *)
read_nothing(c, t) ==
  /\ found' = [found EXCEPT ![c] = FALSE]
  /\ UNCHANGED << tables, loaded >>

read_tenant(c, t) ==
  /\ found' = [found EXCEPT ![c] = t \in tenants]
  /\ UNCHANGED << tables, loaded >>

TenantCollides(c, t) == ~ found[c] /\ t \in tenants

write_tenant(c, t) ==
  /\ ~ TenantCollides(c, t)
  /\ tenants' = tenants \cup {t}
  /\ UNCHANGED << principals, calls, session >>

-----------------------------------------------------------------------------
(* upsert_principal()                                                      *)

read_principal(c, p) ==
  /\ loaded' = [loaded EXCEPT ![c] = {row \in principals : SameKey(p, row)}]
  /\ UNCHANGED << tables, found >>

PrincipalCollides(c, p) ==
  loaded[c] = {} /\ \E row \in principals : SameKey(p, row)

(* Mutant: the loop over the values leaves a column out.                   *)
UpdatedRoles(row, old, p) ==
  [row EXCEPT !.roles = IF old.roles = p.roles THEN @ ELSE p.roles]

(* The UPDATE of a row that was loaded as old and is row by now.           *)
Updated(row, old, p) ==
  [row EXCEPT !.roles = IF old.roles = p.roles THEN @ ELSE p.roles,
              !.agent = IF old.agent = p.agent THEN @ ELSE p.agent]

write_principal(c, p) ==
  /\ ~ PrincipalCollides(c, p)
  /\ p.tenant \in tenants
  /\ principals' =
       IF loaded[c] = {} THEN principals \cup {p}
       ELSE {IF SameKey(p, row) THEN Updated(row, CHOOSE old \in loaded[c] : TRUE, p)
                                ELSE row : row \in principals}
  /\ UNCHANGED << tenants, calls, session >>

-----------------------------------------------------------------------------
(* upsert_tool_call(): a call_id is drawn fresh, so no other call writes   *)
(* the row, and read, flush, delete and insert of the attempts are one.    *)
upsert_tool_call(c, owner) ==
  /\ owner \subseteq tenants
  /\ calls' = calls \cup {[call |-> c, owner |-> owner]}
  /\ UNCHANGED << tenants, principals, session >>

=============================================================================
