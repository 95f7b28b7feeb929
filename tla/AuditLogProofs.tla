--------------------------- MODULE AuditLogProofs ---------------------------
(***************************************************************************)
(* Proofs about AuditLog, for any set of calls and any combination of      *)
(* faults.                                                                 *)
(***************************************************************************)
EXTENDS AuditLog, SequenceTheorems, TLAPS

-----------------------------------------------------------------------------
(* The inductive invariant                                                 *)

(* The record of c is one of the first n lines of the file.                *)
Holds(c, n) == \E i \in 1 .. n : file[i].call = c

Active == {"queued", "hashed", "written", "synced"}

(* Nothing runs in a process that is down; the lock has one holder.        *)
ProcessInv ==
  /\ process # "up" =>
       \A c \in Calls : /\ thread[c] = "none"
                        /\ coro[c] \notin {"waiting", "holding"}
  /\ \A c \in Calls : coro[c] = "holding" => lock = c

(* How far each thread has come shows in the file, as long as no line was  *)
(* torn.                                                                   *)
FileInv ==
  "write" \notin damage =>
    /\ \A i \in 1 .. Len(file) : file[i].kind = "record"
    /\ \A c \in Calls :
         /\ thread[c] = "hashed" /\ prev[c] # Genesis => Holds(prev[c], Len(file))
         /\ thread[c] = "written" => Holds(c, Len(file))
         /\ thread[c] \in {"synced", "done"} \/ coro[c] = "returned"
              => Holds(c, synced)
    /\ process = "up" /\ last # Genesis => Holds(last, Len(file))

(* Without damage only the holder of the lock has a thread at work, and    *)
(* _last_hash is the last line, but for the line that thread has written.  *)
LockInv ==
  damage = {} =>
    /\ \A c \in Calls : thread[c] \in Active => lock = c
    /\ \A c \in Calls : thread[c] = "hashed" => prev[c] = last
    /\ \A c \in Calls : thread[c] \in {"written", "synced"} =>
         file # << >> /\ LastLine = c
    /\ /\ process = "up"
       /\ \A c \in Calls : thread[c] \notin {"written", "synced"}
       => last = LastLine

IInv == /\ TypeOK /\ ProcessInv /\ FileInv /\ LockInv
        /\ NoDanglingLink /\ ChainIntact

-----------------------------------------------------------------------------
(* What the operations do to the file                                      *)

USE DEF IInv

(* Writing keeps every record that is there.                               *)
LEMMA WrittenFacts ==
  ASSUME TypeOK, NEW c \in Calls, NEW kind \in {"record", "fragment"}
  PROVE  LET t == Written(c, kind) IN
         /\ t \in Seq(Line)
         /\ Len(t) >= Len(file)
         /\ \A i \in 1 .. Len(file) : file[i].kind = "record" => t[i] = file[i]
<1> DEFINE new == [call |-> c, prev |-> prev[c], kind |-> kind]
<1>1. file \in Seq(Line) /\ new \in Line
  BY DEF TypeOK, Line
<1>2. CASE Unterminated
  <2> DEFINE k == IF kind = "fragment" THEN "fragment" ELSE "garbage"
             merged == [file[Len(file)] EXCEPT !.kind = k]
  <2>1. Len(file) \in 1 .. Len(file) /\ file[Len(file)] \in Line
    BY <1>1, <1>2 DEF Unterminated
  <2>2. merged \in Line
    BY <2>1 DEF Line
  <2>3. Written(c, kind) = [file EXCEPT ![Len(file)] = merged]
    BY <1>2 DEF Written
  <2> HIDE DEF merged
  <2> QED BY <1>1, <1>2, <2>1, <2>2, <2>3 DEF Unterminated
<1>3. CASE ~ Unterminated
  <2>1. Written(c, kind) = Append(file, new)
    BY <1>3 DEF Written
  <2> HIDE DEF new
  <2> QED BY <1>1, <2>1
<1> QED BY <1>2, <1>3

(* While no line is torn, writing a record appends a line.                 *)
LEMMA AppendFacts ==
  ASSUME TypeOK, FileInv, "write" \notin damage, NEW c \in Calls
  PROVE  LET t == Written(c, "record") IN
         /\ Len(t) = Len(file) + 1
         /\ \A i \in 1 .. Len(file) : t[i] = file[i]
         /\ t[Len(file) + 1] = [call |-> c, prev |-> prev[c], kind |-> "record"]
<1> DEFINE new == [call |-> c, prev |-> prev[c], kind |-> "record"]
<1>1. file \in Seq(Line) /\ new \in Line
  BY DEF TypeOK, Line
<1>2. ~ Unterminated
  BY <1>1 DEF FileInv, Unterminated
<1>3. Written(c, "record") = Append(file, new)
  BY <1>2 DEF Written
<1> HIDE DEF new
<1>4. /\ Len(Append(file, new)) = Len(file) + 1
      /\ \A i \in 1 .. Len(file) : Append(file, new)[i] = file[i]
      /\ Append(file, new)[Len(file) + 1] = new
  BY <1>1
<1> QED BY <1>3, <1>4 DEF new

(* A crash that tears no line leaves a prefix that holds what was synced.  *)
LEMMA SurvivingFacts ==
  ASSUME TypeOK, NEW t \in Surviving
  PROVE  /\ t \in Seq(Line)
         /\ Len(t) \in synced .. Len(file)
         /\ \A i \in 1 .. Len(t) : t[i] = file[i]
<1>1. PICK n \in synced .. Len(file) : t = SubSeq(file, 1, n)
  BY DEF Surviving
<1>2. n \in Int /\ n >= 0 /\ \A i \in 1 .. n : file[i] \in Line
  BY <1>1 DEF TypeOK
<1> QED BY <1>1, <1>2, SubSeqProperties

(* One that tears a line leaves what was synced as it is.                  *)
LEMMA TornFacts ==
  ASSUME TypeOK, NEW t \in Torn
  PROVE  /\ t \in Seq(Line)
         /\ Len(t) \in synced .. Len(file)
         /\ \A i \in 1 .. synced : t[i] = file[i]
<1>1. PICK n \in synced + 1 .. Len(file) :
        t = [SubSeq(file, 1, n) EXCEPT ![n].kind = "fragment"]
  BY DEF Torn
<1> DEFINE s == SubSeq(file, 1, n)
           torn == [s[n] EXCEPT !.kind = "fragment"]
<1>2. n \in Nat /\ n > synced /\ synced >= 0 /\ synced \in Nat /\ n <= Len(file)
      /\ \A i \in 1 .. n : file[i] \in Line
  BY <1>1 DEF TypeOK
<1>3. s \in Seq(Line) /\ Len(s) = n /\ \A i \in 1 .. n : s[i] = file[i]
  BY <1>2, SubSeqProperties
<1>4. torn \in Line
  <2>1. s[n] \in Line
    BY <1>2, <1>3
  <2>2. \A l \in Line : [l EXCEPT !.kind = "fragment"] \in Line
    BY DEF Line
  <2> HIDE DEF s
  <2> QED BY <2>1, <2>2
<1>5. t = [s EXCEPT ![n] = torn]
  BY <1>1
<1> HIDE DEF s, torn
<1> QED BY <1>2, <1>3, <1>4, <1>5

-----------------------------------------------------------------------------
(* Every step preserves the invariant                                     *)

(* An empty file with an idle logger.                                      *)
LEMMA InitInv == Init => IInv
BY AuditAssumption
   DEF Init, TypeOK, ProcessInv, FileInv, LockInv, NoDanglingLink, ChainIntact,
       verify_audit_file, Line, CoroState, ThreadState, LastLine, Active, Holds

(* A caller arrives.                                                       *)
LEMMA BeginInv ==
  ASSUME IInv, NEW c \in Calls, Begin(c)
  PROVE  IInv'
<1>1. TypeOK'
  BY AuditAssumption DEF Begin, TypeOK, CoroState, ThreadState
<1>2. ProcessInv'
  BY DEF Begin, TypeOK, ProcessInv, CoroState, ThreadState
<1>3. FileInv'
  BY DEF Begin, TypeOK, ProcessInv, FileInv, Holds
<1>4. LockInv'
  BY AuditAssumption DEF Begin, TypeOK, ProcessInv, LockInv, Active, LastLine, LockIsFree
<1>5. NoDanglingLink' /\ ChainIntact'
  BY DEF Begin, NoDanglingLink, ChainIntact, verify_audit_file
<1> QED BY <1>1, <1>2, <1>3, <1>4, <1>5

(* The lock was free: without damage no thread is at work.                 *)
LEMMA AcquireInv ==
  ASSUME IInv, NEW c \in Calls, Acquire(c)
  PROVE  IInv'
<1>1. TypeOK'
  BY AuditAssumption DEF Acquire, TypeOK, CoroState, ThreadState, LockIsFree
<1>2. ProcessInv'
  BY AuditAssumption DEF Acquire, LockIsFree, TypeOK, ProcessInv
<1>3. FileInv'
  BY DEF Acquire, TypeOK, ProcessInv, FileInv, Holds
<1>4. LockInv'
  BY AuditAssumption DEF Acquire, TypeOK, ProcessInv, LockInv, Active, LastLine, LockIsFree
<1>5. NoDanglingLink' /\ ChainIntact'
  BY DEF Acquire, NoDanglingLink, ChainIntact, verify_audit_file
<1> QED BY <1>1, <1>2, <1>3, <1>4, <1>5

(* The holder leaves; its thread has ended.                                *)
LEMMA FinishInv ==
  ASSUME IInv, NEW c \in Calls, Finish(c)
  PROVE  IInv'
<1>1. TypeOK'
  BY AuditAssumption DEF Finish, TypeOK, CoroState, ThreadState
<1>2. ProcessInv'
  BY DEF Finish, TypeOK, ProcessInv, CoroState, ThreadState
<1>3. FileInv'
  BY DEF Finish, TypeOK, ProcessInv, FileInv, Holds
<1>4. LockInv'
  BY AuditAssumption DEF Finish, TypeOK, ProcessInv, LockInv, Active, LastLine, LockIsFree
<1>5. NoDanglingLink' /\ ChainIntact'
  BY DEF Finish, NoDanglingLink, ChainIntact, verify_audit_file
<1> QED BY <1>1, <1>2, <1>3, <1>4, <1>5

(* A thread at work without the lock is damage.                            *)
LEMMA CancelInv ==
  ASSUME IInv, NEW c \in Calls, Cancel(c)
  PROVE  IInv'
<1>1. TypeOK'
  BY AuditAssumption DEF Cancel, TypeOK, CoroState, ThreadState
<1>2. ProcessInv'
  BY DEF Cancel, TypeOK, ProcessInv, CoroState, ThreadState
<1>3. FileInv'
  BY DEF Cancel, TypeOK, ProcessInv, FileInv, Holds
<1>4. LockInv'
  BY AuditAssumption DEF Cancel, TypeOK, ProcessInv, LockInv, Active, LastLine, LockIsFree
<1>5. NoDanglingLink' /\ ChainIntact'
  BY DEF Cancel, NoDanglingLink, ChainIntact, verify_audit_file
<1> QED BY <1>1, <1>2, <1>3, <1>4, <1>5

(* The previous hash is the hash of a record in the file.                  *)
LEMMA ReadHashInv ==
  ASSUME IInv, NEW c \in Calls, ReadHash(c)
  PROVE  IInv'
<1>1. TypeOK'
  BY AuditAssumption DEF ReadHash, TypeOK, CoroState, ThreadState
<1>2. ProcessInv'
  BY DEF ReadHash, TypeOK, ProcessInv, CoroState, ThreadState
<1>3. FileInv'
  BY DEF ReadHash, TypeOK, ProcessInv, FileInv, Holds
<1>4. LockInv'
  BY AuditAssumption DEF ReadHash, TypeOK, ProcessInv, LockInv, Active, LastLine, LockIsFree
<1>5. NoDanglingLink' /\ ChainIntact'
  BY DEF ReadHash, NoDanglingLink, ChainIntact, verify_audit_file
<1> QED BY <1>1, <1>2, <1>3, <1>4, <1>5

(* Every line has reached the disk.                                        *)
LEMMA SyncInv ==
  ASSUME IInv, NEW c \in Calls, Sync(c)
  PROVE  IInv'
<1>1. TypeOK'
  BY AuditAssumption DEF Sync, TypeOK, CoroState, ThreadState
<1>2. ProcessInv'
  BY DEF Sync, TypeOK, ProcessInv, CoroState, ThreadState
<1>3. FileInv'
  BY DEF Sync, TypeOK, ProcessInv, FileInv, Holds
<1>4. LockInv'
  BY AuditAssumption DEF Sync, TypeOK, ProcessInv, LockInv, Active, LastLine, LockIsFree
<1>5. NoDanglingLink' /\ ChainIntact'
  BY DEF Sync, NoDanglingLink, ChainIntact, verify_audit_file
<1> QED BY <1>1, <1>2, <1>3, <1>4, <1>5

(* The thread ends and _last_hash stays behind.                            *)
LEMMA SyncFailsInv ==
  ASSUME IInv, NEW c \in Calls, SyncFails(c)
  PROVE  IInv'
<1>1. TypeOK'
  BY AuditAssumption DEF SyncFails, TypeOK, CoroState, ThreadState
<1>2. ProcessInv'
  BY DEF SyncFails, TypeOK, ProcessInv, CoroState, ThreadState
<1>3. FileInv'
  BY DEF SyncFails, TypeOK, ProcessInv, FileInv, Holds
<1>4. LockInv'
  BY AuditAssumption DEF SyncFails, TypeOK, ProcessInv, LockInv, Active, LastLine, LockIsFree
<1>5. NoDanglingLink' /\ ChainIntact'
  BY DEF SyncFails, NoDanglingLink, ChainIntact, verify_audit_file
<1> QED BY <1>1, <1>2, <1>3, <1>4, <1>5

(* The record is in the file, and no other thread is at work.              *)
LEMMA LinkInv ==
  ASSUME IInv, NEW c \in Calls, Link(c)
  PROVE  IInv'
<1>1. TypeOK'
  BY AuditAssumption DEF Link, TypeOK, CoroState, ThreadState
<1>2. ProcessInv'
  BY DEF Link, TypeOK, ProcessInv, CoroState, ThreadState
<1>3. FileInv'
  BY DEF Link, TypeOK, ProcessInv, FileInv, Holds
<1>4. LockInv'
  BY AuditAssumption DEF Link, TypeOK, ProcessInv, LockInv, Active, LastLine, LockIsFree
<1>5. NoDanglingLink' /\ ChainIntact'
  BY DEF Link, NoDanglingLink, ChainIntact, verify_audit_file
<1> QED BY <1>1, <1>2, <1>3, <1>4, <1>5

(* The last line is a record, or the file is empty.                        *)
LEMMA RestartInv ==
  ASSUME IInv, Restart
  PROVE  IInv'
<1>0. /\ process = "down" /\ process' \in {"up", "broken"}
      /\ process' = "up" => last' = LastLine
      /\ last' \in {last, LastLine}
  BY DEF Restart
<1>1. TypeOK'
  <2>1. LastLine \in Calls \cup {Genesis}
    <3>1. CASE file = << >>
      BY <3>1 DEF LastLine
    <3>2. CASE file # << >>
      <4>1. file[Len(file)] \in Line
        BY <3>2 DEF TypeOK
      <4> QED BY <3>2, <4>1 DEF LastLine, Line
    <3> QED BY <3>1, <3>2
  <2> QED BY <1>0, <2>1 DEF Restart, TypeOK
<1>2. ProcessInv'
  BY <1>0 DEF Restart, ProcessInv
<1>3. FileInv'
  BY <1>0 DEF Restart, TypeOK, ProcessInv, FileInv, Holds, LastLine
<1>4. LockInv'
  BY <1>0 DEF Restart, ProcessInv, LockInv, Active, LastLine
<1>5. NoDanglingLink' /\ ChainIntact'
  BY DEF Restart, NoDanglingLink, ChainIntact, verify_audit_file
<1> QED BY <1>1, <1>2, <1>3, <1>4, <1>5

(* Without damage the new line links to the last one; the line of a        *)
(* cancelled append links to one that is in the file all the same.         *)
LEMMA WriteInv ==
  ASSUME IInv, NEW c \in Calls, Write(c)
  PROVE  IInv'
<1>0. PICK n \in Nat : n = Len(file) + 1
  BY DEF TypeOK
<1>1. TypeOK'
  BY WrittenFacts DEF Write, TypeOK, ThreadState
<1>2. ProcessInv'
  BY DEF Write, TypeOK, ProcessInv
<1>3. ASSUME "write" \notin damage
      PROVE  /\ n \in Nat /\ Len(file) = n - 1 /\ Len(file') = n
             /\ \A i \in 1 .. n - 1 : file'[i] = file[i]
             /\ file'[n].call = c /\ file'[n].prev = prev[c]
             /\ file'[n].kind = "record"
             /\ DOMAIN file = 1 .. n - 1 /\ DOMAIN file' = 1 .. n
  <2>1. /\ Len(file') = n /\ \A i \in 1 .. n - 1 : file'[i] = file[i]
        /\ file'[n] = [call |-> c, prev |-> prev[c], kind |-> "record"]
    BY <1>0, <1>3, AppendFacts DEF Write
  <2>2. DOMAIN file = 1 .. n - 1 /\ DOMAIN file' = 1 .. n
    BY <1>0, <1>1, <2>1 DEF TypeOK
  <2> QED BY <1>0, <2>1, <2>2
<1>4. ASSUME "write" \notin damage, NEW d, NEW m \in 0 .. n - 1, Holds(d, m)
      PROVE  Holds(d, m)' /\ Holds(d, Len(file))'
  BY <1>3, <1>4 DEF Holds
<1>5. FileInv'
  <2> SUFFICES ASSUME "write" \notin damage PROVE FileInv'
    BY DEF FileInv, Write
  <2>1. synced \in 0 .. n - 1 /\ synced' = synced
    BY <1>3 DEF TypeOK, Write
  <2>2. Holds(c, Len(file))'
    BY <1>3 DEF Holds
  <2>3. \A i \in 1 .. Len(file') : file'[i].kind = "record"
    BY <1>3 DEF FileInv
  <2>4. ASSUME NEW d \in Calls
        PROVE  /\ thread'[d] = "hashed" /\ prev'[d] # Genesis =>
                    Holds(prev[d], Len(file))'
               /\ thread'[d] = "written" => Holds(d, Len(file))'
               /\ thread'[d] \in {"synced", "done"} \/ coro'[d] = "returned"
                    => Holds(d, synced)'
    <3>1. CASE d = c
      BY <1>3, <1>4, <2>1, <2>2, <3>1 DEF FileInv, Write, TypeOK
    <3>2. CASE d # c
      BY <1>3, <1>4, <2>1, <3>2 DEF FileInv, Write, TypeOK
    <3> QED BY <3>1, <3>2
  <2>5. process' = "up" /\ last' # Genesis => Holds(last, Len(file))'
    BY <1>3, <1>4 DEF FileInv, Write
  <2> QED BY <2>3, <2>4, <2>5 DEF FileInv
<1>6. NoDanglingLink'
  <2> SUFFICES ASSUME "write" \notin damage, NEW i \in 1 .. n,
                      file'[i].prev # Genesis
               PROVE  \E k \in 1 .. i - 1 : file'[k].call = file'[i].prev
    BY <1>3 DEF NoDanglingLink, Write
  <2>1. CASE i = n
    BY <1>3, <2>1 DEF FileInv, Holds, Write
  <2>2. CASE i < n
    BY <1>3, <2>2 DEF NoDanglingLink
  <2> QED BY <1>3, <2>1, <2>2
<1>7. ASSUME damage = {}
      PROVE  /\ \A d \in Calls : d # c => thread[d] \notin Active
             /\ process = "up" /\ prev[c] = LastLine
  BY <1>7 DEF Write, ProcessInv, LockInv, Active
<1>8. LockInv'
  BY <1>3, <1>7 DEF Write, TypeOK, LockInv, Active, LastLine
<1>9. ChainIntact'
  <2> SUFFICES ASSUME damage = {}, NEW i \in 1 .. n
               PROVE  /\ file'[i].kind = "record"
                      /\ file'[i].prev = IF i = 1 THEN Genesis
                                                  ELSE file'[i - 1].call
    BY <1>3 DEF ChainIntact, verify_audit_file, Write
  <2>1. CASE i = n
    <3>1. CASE n = 1
      BY <1>3, <1>7, <2>1, <3>1 DEF LastLine, TypeOK
    <3>2. CASE n # 1
      BY <1>3, <1>7, <2>1, <3>2 DEF LastLine, TypeOK
    <3> QED BY <3>1, <3>2
  <2>2. CASE i < n
    BY <1>3, <2>2 DEF ChainIntact, verify_audit_file
  <2> QED BY <1>3, <2>1, <2>2
<1> QED BY <1>1, <1>2, <1>5, <1>6, <1>8, <1>9

(* A file that was not opened is as it was; a torn line is damage.         *)
LEMMA WriteFailsInv ==
  ASSUME IInv, NEW c \in Calls, WriteFails(c)
  PROVE  IInv'
<1>1. TypeOK'
  <2>1. file' \in Seq(Line) /\ Len(file') >= Len(file)
    <3>1. CASE file' = file
      BY <3>1 DEF TypeOK
    <3>2. CASE file' = Written(c, "fragment")
      BY <3>2, WrittenFacts DEF TypeOK
    <3> QED BY <3>1, <3>2 DEF WriteFails
  <2>2. damage' \subseteq {"cancel", "write", "fsync"}
    BY DEF WriteFails, TypeOK
  <2> QED BY <2>1, <2>2 DEF WriteFails, TypeOK, ThreadState
<1>2. ProcessInv'
  BY DEF WriteFails, TypeOK, ProcessInv
<1>3. "write" \notin damage' => file' = file /\ damage' = damage
  BY DEF WriteFails
<1>4. FileInv'
  BY <1>3 DEF WriteFails, TypeOK, ProcessInv, FileInv, Holds
<1>5. LockInv'
  BY <1>3 DEF WriteFails, TypeOK, LockInv, Active, LastLine
<1>6. NoDanglingLink' /\ ChainIntact'
  BY <1>3 DEF WriteFails, NoDanglingLink, ChainIntact, verify_audit_file
<1> QED BY <1>1, <1>2, <1>4, <1>5, <1>6

(* A prefix of the file is what a crash leaves, or a line is torn.         *)
LEMMA CrashInv ==
  ASSUME IInv, Crash
  PROVE  IInv'
<1>1. /\ file' \in Seq(Line)
      /\ Len(file') \in synced .. Len(file)
      /\ \A i \in 1 .. synced : file'[i] = file[i]
  <2>1. CASE file' \in Surviving
    BY <2>1, SurvivingFacts DEF TypeOK
  <2>2. CASE file' \in Torn
    BY <2>2, TornFacts
  <2> QED BY <2>1, <2>2 DEF Crash
<1>2. ASSUME "write" \notin damage'
      PROVE  /\ damage' = damage
             /\ \A i \in 1 .. Len(file') : file'[i] = file[i]
             /\ DOMAIN file = 1 .. Len(file) /\ DOMAIN file' = 1 .. Len(file')
  BY <1>1, <1>2, SurvivingFacts DEF Crash, TypeOK
<1>3. TypeOK'
  <2>1. damage' \subseteq {"cancel", "write", "fsync"}
    BY DEF Crash, TypeOK
  <2>2. synced' \in 0 .. Len(file')
    BY <1>1 DEF Crash, TypeOK
  <2>3. coro' \in [Calls -> CoroState]
    BY DEF Crash, TypeOK, CoroState
  <2> QED BY <1>1, <2>1, <2>2, <2>3 DEF Crash, TypeOK, ThreadState
<1>4. ProcessInv'
  BY DEF Crash, TypeOK, ProcessInv
<1>5. FileInv'
  BY <1>1, <1>2 DEF Crash, TypeOK, FileInv, Holds
<1>6. LockInv'
  BY DEF Crash, LockInv, Active
<1>7. NoDanglingLink'
  BY <1>1, <1>2 DEF Crash, TypeOK, NoDanglingLink
<1>8. ChainIntact'
  BY <1>1, <1>2 DEF Crash, TypeOK, ChainIntact, verify_audit_file
<1> QED BY <1>3, <1>4, <1>5, <1>6, <1>7, <1>8

(* One lemma per action.                                                   *)
LEMMA NextInv == IInv /\ [Next]_vars => IInv'
<1> SUFFICES ASSUME IInv, [Next]_vars PROVE IInv'
  OBVIOUS
<1>1. CASE Crash
  BY <1>1, CrashInv
<1>2. CASE Restart
  BY <1>2, RestartInv
<1>3. ASSUME NEW c \in Calls, Begin(c) \/ Cancel(c) \/ Step(c) PROVE IInv'
  BY <1>3, BeginInv, CancelInv, AcquireInv, FinishInv, ReadHashInv, WriteInv,
     WriteFailsInv, SyncInv, SyncFailsInv, LinkInv DEF Step
<1>4. CASE UNCHANGED vars
  BY <1>4 DEF vars, TypeOK, ProcessInv, FileInv, LockInv, NoDanglingLink,
              ChainIntact, verify_audit_file, Holds, LastLine
<1> QED BY <1>1, <1>2, <1>3, <1>4 DEF Next

-----------------------------------------------------------------------------
(* Theorems                                                                *)

(* The inductive invariant holds in every reachable state.                 *)
THEOREM Invariance == Spec => []IInv
BY InitInv, NextInv, PTL DEF Spec

(* Every variable keeps its type; no more lines are synced than there are. *)
THEOREM TypeCorrect == Spec => []TypeOK
<1>1. IInv => TypeOK  OBVIOUS
<1> QED BY <1>1, Invariance, PTL

(* Without damage the file verifies: concurrent appends, files that cannot *)
(* be opened, kills, lost lines and restarts never break the chain.        *)
THEOREM ChainVerifies == Spec => []ChainIntact
<1>1. IInv => ChainIntact  OBVIOUS
<1> QED BY <1>1, Invariance, PTL

(* As long as no line was torn, the record of every append() that returned *)
(* is on disk, also after cancellations, failed fsyncs and crashes.        *)
THEOREM Durability == Spec => []ReturnedIsDurable
<1>1. IInv => ReturnedIsDurable
  BY DEF ReturnedIsDurable, FileInv, TypeOK, Holds
<1> QED BY <1>1, Invariance, PTL

(* As long as no line was torn, every link leads to an earlier record.     *)
THEOREM LinksLeadBack == Spec => []NoDanglingLink
<1>1. IInv => NoDanglingLink  OBVIOUS
<1> QED BY <1>1, Invariance, PTL

(* A record on disk is never changed or lost, whatever fails.              *)
THEOREM Immutability == Spec => RecordsAreImmutable
<1> DEFINE Kept == \A i \in 1 .. synced : file[i].kind = "record" =>
                     i \in DOMAIN file' /\ file'[i] = file[i]
<1>1. ASSUME IInv, [Next]_vars PROVE [Kept]_vars
  <2>1. file \in Seq(Line) /\ synced \in 0 .. Len(file)
    BY <1>1 DEF TypeOK
  <2>2. CASE file' = file
    BY <2>1, <2>2
  <2>3. ASSUME NEW c \in Calls, NEW kind \in {"record", "fragment"},
               file' = Written(c, kind)
        PROVE  Kept
    BY <1>1, <2>1, <2>3, WrittenFacts
  <2>4. CASE file' \in Surviving
    BY <1>1, <2>1, <2>4, SurvivingFacts
  <2>5. CASE file' \in Torn
    BY <1>1, <2>1, <2>5, TornFacts
  <2>6. \/ file' = file
        \/ \E c \in Calls, kind \in {"record", "fragment"} : file' = Written(c, kind)
        \/ file' \in Surviving \cup Torn
    BY <1>1 DEF Next, vars, Crash, Restart, Begin, Cancel, Step, Acquire, Finish,
                ReadHash, Write, WriteFails, Sync, SyncFails, Link
  <2> QED BY <2>2, <2>3, <2>4, <2>5, <2>6
<1> QED BY <1>1, Invariance, PTL DEF Spec, RecordsAreImmutable

=============================================================================
