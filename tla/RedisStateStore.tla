-------------------------- MODULE RedisStateStore --------------------------
(***************************************************************************)
(* gateway/state/redis_store.py RedisStateStore._update: optimistic        *)
(* updates of one call record with WATCH, GET and MULTI/EXEC, repeated on  *)
(* WatchError, within asyncio.timeout.  The timeout ends the caller's wait *)
(* and not an EXEC that is already on its way to the server.               *)
(*                                                                         *)
(* redis-py raises WatchError on a conflict, and also when the connection  *)
(* dies in EXEC, since a key is watched: the update is then repeated on    *)
(* another connection although the server may have executed EXEC, or may   *)
(* still do so.  A connection << u, n >> is the one update u uses after    *)
(* the loss of n others, and the record is the log of what was applied to  *)
(* it, as in StateStore, which this module implements.                     *)
(***************************************************************************)
EXTENDS Naturals, Sequences, SequencesExt

CONSTANTS
  Updates,   \* the updates of the record
  Faults,    \* "timeout": operations may time out or fail; "expire": keys expire
  MaxLost    \* how many connections an update may lose in EXEC

ASSUME RedisAssumption ==
  /\ Faults \subseteq {"timeout", "expire"}
  /\ MaxLost \in Nat

Connections == Updates \X (0 .. MaxLost)

VARIABLES
  value,   \* the stored record; what it held when the key has expired
  stored,  \* whether the key exists
  pc,      \* where _update stands for each update
  lost,    \* the connections it has lost
  copy,    \* per connection: the record its EXEC is about to write
  clean,   \* the connections whose WATCH has seen no change
  exec,    \* its MULTI/EXEC on the way to the server and back
  before   \* the updates that had ended when each one was invoked

vars == << value, stored, pc, lost, copy, clean, exec, before >>

-----------------------------------------------------------------------------
TypeOK ==
  /\ value \in Seq(Connections)
  /\ stored \in {"absent", "present", "gone"}
  /\ pc \in [Updates -> {"idle", "invoked", "watched", "sent", "ok", "failed"}]
  /\ lost \in [Updates -> 0 .. MaxLost]
  /\ copy \in [Connections -> Seq(Connections)]
  /\ clean \subseteq Connections
  /\ exec \in [Connections -> {"none", "inflight", "applied", "aborted"}]
  /\ before \in [Updates -> SUBSET Updates]

Init ==
  /\ value = << >> /\ stored = "absent"
  /\ pc = [u \in Updates |-> "idle"]
  /\ lost = [u \in Updates |-> 0]
  /\ copy = [c \in Connections |-> << >>]
  /\ clean = {}
  /\ exec = [c \in Connections |-> "none"]
  /\ before = [u \in Updates |-> {}]

(* The connection of the update.                                           *)
conn(u) == << u, lost[u] >>

(* SET, RPUSH and EXPIRE in one MULTI/EXEC.                                *)
create_call ==
  /\ stored = "absent"
  /\ stored' = "present"
  /\ clean' = {}
  /\ UNCHANGED << value, pc, lost, copy, exec, before >>

Invoke(u) ==
  /\ pc[u] = "idle"
  /\ pc' = [pc EXCEPT ![u] = "invoked"]
  /\ before' = [before EXCEPT ![u] = {v \in Updates : pc[v] \in {"ok", "failed"}}]
  /\ UNCHANGED << value, stored, lost, copy, clean, exec >>

(* Mutant: the ttl of the key is refreshed before it is watched.           *)
WatchTouches(u) ==
  /\ pc[u] = "invoked"
  /\ pc' = [pc EXCEPT ![u] = "watched"]
  /\ clean' = {conn(u)}
  /\ UNCHANGED << value, stored, lost, copy, exec, before >>

Watch(u) ==
  /\ pc[u] = "invoked"
  /\ pc' = [pc EXCEPT ![u] = "watched"]
  /\ clean' = clean \cup {conn(u)}
  /\ UNCHANGED << value, stored, lost, copy, exec, before >>

(* GET; the updater changes the copy, and MULTI, SET and EXEC are sent.    *)
(* A missing record raises.                                                *)
Get(u) ==
  /\ pc[u] = "watched"
  /\ IF stored = "present"
     THEN /\ copy' = [copy EXCEPT ![conn(u)] = Append(value, conn(u))]
          /\ pc' = [pc EXCEPT ![u] = "sent"]
          /\ exec' = [exec EXCEPT ![conn(u)] = "inflight"]
     ELSE pc' = [pc EXCEPT ![u] = "failed"] /\ UNCHANGED << copy, exec >>
  /\ UNCHANGED << value, stored, lost, clean, before >>

(* Mutant: the record is appended to on the server, whoever came first.    *)
ServeAppends(c) ==
  /\ exec[c] = "inflight" /\ stored = "present"
  /\ value' = Append(value, c)
  /\ exec' = [exec EXCEPT ![c] = "applied"]
  /\ UNCHANGED << stored, pc, lost, copy, clean, before >>

(* Mutant: EXEC is not conditional: the key is not watched.                *)
ServeBlindly(c) ==
  /\ exec[c] = "inflight"
  /\ value' = copy[c]
  /\ exec' = [exec EXCEPT ![c] = "applied"]
  /\ UNCHANGED << stored, pc, lost, copy, clean, before >>

(* The server executes EXEC, also when nobody waits for it any more or the *)
(* connection is gone, and ends the WATCH of this connection.              *)
Serve(c) ==
  /\ exec[c] = "inflight"
  /\ IF c \in clean
     THEN /\ value' = copy[c]
          /\ clean' = {}
          /\ exec' = [exec EXCEPT ![c] = "applied"]
     ELSE exec' = [exec EXCEPT ![c] = "aborted"] /\ UNCHANGED << value, clean >>
  /\ copy' = [copy EXCEPT ![c] = << >>]
  /\ UNCHANGED << stored, pc, lost, before >>

(* EXEC was executed, or aborted: WatchError, the loop starts again.       *)
Reply(u) ==
  /\ pc[u] = "sent"
  /\ \/ /\ exec[conn(u)] = "applied"
        /\ pc' = [pc EXCEPT ![u] = "ok"] /\ UNCHANGED exec
     \/ /\ exec[conn(u)] = "aborted"
        /\ pc' = [pc EXCEPT ![u] = "invoked"]
        /\ exec' = [exec EXCEPT ![conn(u)] = "none"]
  /\ UNCHANGED << value, stored, lost, copy, clean, before >>

(* The connection dies in EXEC, whatever the server makes of it: also      *)
(* WatchError.  Beyond MaxLost the timeout ends the loop.                  *)
Disconnect(u) ==
  /\ pc[u] = "sent" /\ lost[u] < MaxLost
  /\ pc' = [pc EXCEPT ![u] = "invoked"]
  /\ lost' = [lost EXCEPT ![u] = @ + 1]
  /\ UNCHANGED << value, stored, copy, clean, exec, before >>

(* The time is over, or the connection dies before EXEC was sent, which    *)
(* raises outside the inner try block.                                     *)
Timeout(u) ==
  /\ "timeout" \in Faults
  /\ pc[u] \in {"invoked", "watched", "sent"}
  /\ pc' = [pc EXCEPT ![u] = "failed"]
  /\ UNCHANGED << value, stored, lost, copy, clean, exec, before >>

(* An expired key counts as changed for the connections that watch it.     *)
Expire ==
  /\ "expire" \in Faults /\ stored = "present"
  /\ stored' = "gone"
  /\ clean' = {}
  /\ UNCHANGED << value, pc, lost, copy, exec, before >>

Proceed(u) == Watch(u) \/ Get(u) \/ Serve(conn(u)) \/ Reply(u)

Next ==
  \/ create_call \/ Expire
  \/ \E u \in Updates :
       Invoke(u) \/ Watch(u) \/ Get(u) \/ Reply(u) \/ Disconnect(u) \/ Timeout(u)
  \/ \E c \in Connections : Serve(c)

Spec == Init /\ [][Next]_vars

(* The server answers and the event loop runs; nothing has to happen on a  *)
(* connection that was lost.                                               *)
FairSpec == Spec /\ \A u \in Updates : WF_vars(Proceed(u))

-----------------------------------------------------------------------------
(* Properties                                                              *)

AbstractStatus(u) ==
  CASE pc[u] \in {"invoked", "watched", "sent"} -> "pending"
    [] OTHER -> pc[u]

Store == INSTANCE StateStore
           WITH log <- value, status <- [u \in Updates |-> AbstractStatus(u)]

(* Every update is atomic and never applied after a later one, although    *)
(* callers give up with an EXEC still on its way.  It is applied once;     *)
(* every connection that _update lost in EXEC may add one application,     *)
(* before it returns.                                                      *)
ImplementsStateStore == Store!Spec

(* An update that timed out never lands on top of a later one, such as the *)
(* transition that reports its failure, however often it was sent.         *)
InvocationOrder == Store!InvocationOrder

(* Every update ends, also when no timeout cuts it short: of the updates   *)
(* that conflict one always wins, so the loop of the others ends, as long  *)
(* as connections are lost only finitely often.                            *)
UpdatesEnd == \A u \in Updates : pc[u] = "invoked" ~> pc[u] \in {"ok", "failed"}

=============================================================================
