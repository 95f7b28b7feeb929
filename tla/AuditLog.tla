------------------------------ MODULE AuditLog ------------------------------
(***************************************************************************)
(* gateway/audit/log.py, audit/verify.py and async_utils.run_blocking: one *)
(* gateway process appends hash-chained records to a file.  append() takes *)
(* the asyncio lock and hands _append_sync to a thread; the coroutine that *)
(* holds the lock may be cancelled while its thread goes on.               *)
(*                                                                         *)
(* A record is named by its call.  Call identifiers are unique, so the     *)
(* name stands for the SHA-256 digest of the record as well.               *)
(***************************************************************************)
EXTENDS Naturals, Sequences

CONSTANTS
  Calls,    \* the calls that are audited
  Genesis,  \* _GENESIS_HASH
  NoCall,   \* the lock is free
  Faults    \* "cancel", "open", "write", "fsync", "crash": what may happen

ASSUME AuditAssumption ==
  /\ Genesis \notin Calls /\ NoCall \notin Calls
  /\ Faults \subseteq {"cancel", "open", "write", "fsync", "crash"}

VARIABLES
  file,    \* the lines of the file
  synced,  \* how many of them have reached the disk
  last,    \* _last_hash
  lock,    \* the call that holds _lock
  coro,    \* append() of each call
  thread,  \* _append_sync of each call
  prev,    \* the previous_hash each thread has read
  process, \* the gateway process
  damage   \* the faults that have left the file and _last_hash out of step

vars == << file, synced, last, lock, coro, thread, prev, process, damage >>

-----------------------------------------------------------------------------
(* A "fragment" is an unterminated part of a line, "garbage" a terminated  *)
(* line that is not JSON.                                                  *)
Line == [call : Calls, prev : Calls \cup {Genesis},
         kind : {"record", "fragment", "garbage"}]

CoroState   == {"new", "waiting", "holding", "returned", "raised", "cancelled"}
ThreadState == {"none", "queued", "hashed", "written", "synced", "done", "failed"}

TypeOK ==
  /\ file \in Seq(Line)
  /\ synced \in 0 .. Len(file)
  /\ last \in Calls \cup {Genesis}
  /\ lock \in Calls \cup {NoCall}
  /\ coro \in [Calls -> CoroState]
  /\ thread \in [Calls -> ThreadState]
  /\ prev \in [Calls -> Calls \cup {Genesis}]
  /\ process \in {"up", "down", "broken"}
  /\ damage \subseteq {"cancel", "write", "fsync"}

Init ==
  /\ file = << >> /\ synced = 0
  /\ last = Genesis /\ lock = NoCall
  /\ coro = [c \in Calls |-> "new"]
  /\ thread = [c \in Calls |-> "none"]
  /\ prev = [c \in Calls |-> Genesis]
  /\ process = "up" /\ damage = {}

-----------------------------------------------------------------------------
(* The file                                                                *)

Unterminated == file # << >> /\ file[Len(file)].kind = "fragment"

(* Mutant: the file is opened with "w".                                    *)
WrittenFromStart(c, kind) == << [call |-> c, prev |-> prev[c], kind |-> kind] >>

(* The file after the record of c was appended, or a part of it.  What     *)
(* follows an unterminated line becomes part of that line.                 *)
Written(c, kind) ==
  IF Unterminated
  THEN [file EXCEPT ![Len(file)].kind =
          IF kind = "fragment" THEN "fragment" ELSE "garbage"]
  ELSE Append(file, [call |-> c, prev |-> prev[c], kind |-> kind])

(* verify_audit_file: every line is a record and links to the one before.  *)
verify_audit_file ==
  \A i \in DOMAIN file :
    /\ file[i].kind = "record"
    /\ file[i].prev = IF i = 1 THEN Genesis ELSE file[i - 1].call

-----------------------------------------------------------------------------
(* append                                                                  *)

Begin(c) ==
  /\ process = "up" /\ coro[c] = "new"
  /\ coro' = [coro EXCEPT ![c] = "waiting"]
  /\ UNCHANGED << file, synced, last, lock, thread, prev, process, damage >>

(* Mutant: nothing is locked.                                              *)
LockFreely == TRUE

(* async with self._lock                                                   *)
LockIsFree == lock = NoCall

(* The lock is taken and _append_sync submitted to the executor.           *)
Acquire(c) ==
  /\ coro[c] = "waiting" /\ LockIsFree
  /\ lock' = c
  /\ coro' = [coro EXCEPT ![c] = "holding"]
  /\ thread' = [thread EXCEPT ![c] = "queued"]
  /\ UNCHANGED << file, synced, last, prev, process, damage >>

(* Mutant: a failure leaves the lock taken.                                *)
FinishKeepsLock(c) ==
  /\ coro[c] = "holding" /\ thread[c] \in {"done", "failed"}
  /\ coro' = [coro EXCEPT ![c] = IF thread[c] = "done" THEN "returned" ELSE "raised"]
  /\ lock' = IF thread[c] = "done" THEN NoCall ELSE lock
  /\ UNCHANGED << file, synced, last, thread, prev, process, damage >>

(* The poll of run_blocking finds the future done.                         *)
Finish(c) ==
  /\ coro[c] = "holding" /\ thread[c] \in {"done", "failed"}
  /\ coro' = [coro EXCEPT ![c] = IF thread[c] = "done" THEN "returned" ELSE "raised"]
  /\ lock' = NoCall
  /\ UNCHANGED << file, synced, last, thread, prev, process, damage >>

(* The request is cancelled: the lock is released, a job that has not      *)
(* started is withdrawn, one that has goes on.                             *)
Cancel(c) ==
  /\ "cancel" \in Faults
  /\ coro[c] \in {"waiting", "holding"}
  /\ coro' = [coro EXCEPT ![c] = "cancelled"]
  /\ lock' = IF lock = c THEN NoCall ELSE lock
  /\ thread' = [thread EXCEPT ![c] = IF @ = "queued" THEN "none" ELSE @]
  /\ damage' = IF thread[c] \in {"hashed", "written", "synced"}
               THEN damage \cup {"cancel"} ELSE damage
  /\ UNCHANGED << file, synced, last, prev, process >>

-----------------------------------------------------------------------------
(* _append_sync                                                            *)

(* Mutant: _last_hash is assigned before the record is written.            *)
ReadHashLinks(c) ==
  /\ thread[c] = "queued"
  /\ prev' = [prev EXCEPT ![c] = last] /\ last' = c
  /\ thread' = [thread EXCEPT ![c] = "hashed"]
  /\ UNCHANGED << file, synced, lock, coro, process, damage >>

(* The payload is built and hashed with the _last_hash of this moment.     *)
ReadHash(c) ==
  /\ thread[c] = "queued"
  /\ prev' = [prev EXCEPT ![c] = last]
  /\ thread' = [thread EXCEPT ![c] = "hashed"]
  /\ UNCHANGED << file, synced, last, lock, coro, process, damage >>

(* stream.write and stream.flush                                           *)
Write(c) ==
  /\ thread[c] = "hashed"
  /\ file' = Written(c, "record")
  /\ thread' = [thread EXCEPT ![c] = "written"]
  /\ UNCHANGED << synced, last, lock, coro, prev, process, damage >>

(* The directory or the file cannot be opened, or the disk is full while   *)
(* the line is written.                                                    *)
WriteFails(c) ==
  /\ thread[c] = "hashed"
  /\ \/ "open" \in Faults /\ UNCHANGED << file, damage >>
     \/ /\ "write" \in Faults /\ file' = Written(c, "fragment")
        /\ damage' = damage \cup {"write"}
  /\ thread' = [thread EXCEPT ![c] = "failed"]
  /\ UNCHANGED << synced, last, lock, coro, prev, process >>

(* Mutant: no barrier.                                                     *)
SyncNothing(c) ==
  /\ thread[c] = "written"
  /\ thread' = [thread EXCEPT ![c] = "synced"]
  /\ UNCHANGED << file, synced, last, lock, coro, prev, process, damage >>

(* os.fsync                                                                *)
Sync(c) ==
  /\ thread[c] = "written"
  /\ synced' = Len(file)
  /\ thread' = [thread EXCEPT ![c] = "synced"]
  /\ UNCHANGED << file, last, lock, coro, prev, process, damage >>

(* os.fsync raises OSError: the line is in the file all the same.          *)
SyncFails(c) ==
  /\ "fsync" \in Faults
  /\ thread[c] = "written"
  /\ thread' = [thread EXCEPT ![c] = "failed"]
  /\ damage' = damage \cup {"fsync"}
  /\ UNCHANGED << file, synced, last, lock, coro, prev, process >>

(* self._last_hash = digest                                                *)
Link(c) ==
  /\ thread[c] = "synced"
  /\ last' = c
  /\ thread' = [thread EXCEPT ![c] = "done"]
  /\ UNCHANGED << file, synced, lock, coro, prev, process, damage >>

-----------------------------------------------------------------------------
(* The process                                                             *)

(* What a crash leaves of the file: every line that has reached the disk,  *)
(* and of the others any number, the last of which may be torn.            *)
Surviving == {SubSeq(file, 1, n) : n \in synced .. Len(file)}
Torn == {[SubSeq(file, 1, n) EXCEPT ![n].kind = "fragment"] :
           n \in synced + 1 .. Len(file)}

(* The process is killed or the machine loses power.                       *)
Crash ==
  /\ "crash" \in Faults /\ process = "up"
  /\ process' = "down"
  /\ \/ file' \in Surviving /\ UNCHANGED damage
     \/ /\ "write" \in Faults /\ file' \in Torn
        /\ damage' = damage \cup {"write"}
  /\ lock' = NoCall
  /\ coro' = [c \in Calls |-> IF coro[c] \in {"waiting", "holding"}
                              THEN "cancelled" ELSE coro[c]]
  /\ thread' = [c \in Calls |-> "none"]
  /\ UNCHANGED << synced, last, prev >>

(* _read_last_hash of a file that ends with a record, or is empty.         *)
LastLine == IF file = << >> THEN Genesis ELSE file[Len(file)].call

(* AuditLogger.__init__; json.loads raises on a line that is not a record. *)
Restart ==
  /\ process = "down"
  /\ IF file # << >> /\ file[Len(file)].kind # "record"
     THEN process' = "broken" /\ UNCHANGED last
     ELSE process' = "up" /\ last' = LastLine
  /\ UNCHANGED << file, synced, lock, coro, thread, prev, damage >>

Step(c) ==
  \/ Acquire(c) \/ Finish(c) \/ ReadHash(c) \/ Write(c) \/ WriteFails(c)
  \/ Sync(c) \/ SyncFails(c) \/ Link(c)

Next == Crash \/ Restart \/ \E c \in Calls : Begin(c) \/ Cancel(c) \/ Step(c)

Spec == Init /\ [][Next]_vars

(* The event loop polls and the pool's threads run.                        *)
FairSpec == Spec /\ \A c \in Calls : WF_vars(Step(c))

-----------------------------------------------------------------------------
(* Properties                                                              *)

(* The file verifies as long as no append was cancelled in the middle of   *)
(* its work, no fsync failed and no line was torn: concurrent appends,     *)
(* files that cannot be opened, kills, lost lines and restarts do no harm. *)
ChainIntact == damage = {} => verify_audit_file

(* As long as no write has left a torn line, a record whose append()       *)
(* returned is on disk in one piece, whatever else fails or crashes later  *)
(* (ADR-0020: "fsync before returning").  A record written behind a torn   *)
(* line is part of that line.                                              *)
ReturnedIsDurable ==
  "write" \notin damage =>
    \A c \in Calls : coro[c] = "returned" =>
      \E i \in 1 .. synced : file[i].call = c /\ file[i].kind = "record"

(* No record links to one that is not in the file before it: a cancelled   *)
(* append, a failed fsync and a crash may fork the chain, never cut it.    *)
NoDanglingLink ==
  "write" \notin damage =>
    \A i \in DOMAIN file : file[i].prev # Genesis =>
      \E k \in 1 .. i - 1 : file[k].call = file[i].prev

(* A record that has reached the disk is never changed or lost.            *)
RecordsAreImmutable ==
  [][\A i \in 1 .. synced : file[i].kind = "record" =>
       i \in DOMAIN file' /\ file'[i] = file[i]]_vars

(* Every append() ends: whoever holds the lock gives it back.              *)
AppendsEnd ==
  \A c \in Calls : coro[c] = "waiting" ~>
    coro[c] \in {"returned", "raised", "cancelled"}

-----------------------------------------------------------------------------
(* What the documents say and the code does not do                         *)

(* log.py:32: "Append immutable JSONL records while preserving their hash  *)
(* chain."  Whatever happens to callers, the file verifies.                *)
FileVerifies == verify_audit_file

(* log.py:35 "resume the chain from an existing file": a gateway that      *)
(* crashed starts again.  It does not after a torn write.                  *)
CanResume == process # "broken"

=============================================================================
