----------------------- MODULE RedisStateStoreProofs -----------------------
(***************************************************************************)
(* RedisStateStore implements StateStore, for any set of updates, with     *)
(* timeouts, expiry and any number of lost connections.                    *)
(*                                                                         *)
(* ExecInv: a transaction is on its way only on a connection that has sent *)
(* it, waited for, given up or lost.  AppliedInv: the record holds exactly *)
(* the transactions that were executed.  CleanInv, the heart of the        *)
(* argument: a transaction that will not be aborted was prepared from the  *)
(* record as it still is, and neither an update that was invoked after it  *)
(* had been given up nor its own repetition has been applied.  BeforeInv:  *)
(* only updates that have ended come before another one.                   *)
(***************************************************************************)
EXTENDS RedisStateStore, TLAPS

ExecInv ==
  \A u \in Updates :
    /\ \A n \in 0 .. MaxLost :
         exec[<< u, n >>] # "none" =>
           n < lost[u] \/ (n = lost[u] /\ pc[u] \in {"sent", "ok", "failed"})
    /\ pc[u] = "sent" => exec[conn(u)] # "none"
    /\ pc[u] = "ok" => exec[conn(u)] = "applied"

AppliedInv ==
  \A c \in Connections : c \in ToSet(value) <=> exec[c] = "applied"

CleanInv ==
  \A u \in Updates, n \in 0 .. MaxLost :
    exec[<< u, n >>] = "inflight" /\ << u, n >> \in clean =>
      /\ stored = "present"
      /\ copy[<< u, n >>] = Append(value, << u, n >>)
      /\ \A d \in ToSet(value) : u \notin before[d[1]]
      /\ \A m \in n .. MaxLost : << u, m >> \notin ToSet(value)

(* An update that was not invoked has lost nothing.                        *)
LostInv == \A u \in Updates : pc[u] = "idle" => lost[u] = 0

BeforeInv ==
  \A u, v \in Updates : u \in before[v] => u # v /\ pc[u] \in {"ok", "failed"}

IInv == TypeOK /\ ExecInv /\ AppliedInv /\ CleanInv /\ BeforeInv /\ LostInv
          /\ InvocationOrder

-----------------------------------------------------------------------------
USE RedisAssumption

(* A connection belongs to an update.                                      *)
LEMMA ConnFacts ==
  /\ \A c \in Connections :
       c[1] \in Updates /\ c[2] \in 0 .. MaxLost /\ c = << c[1], c[2] >>
  /\ \A u \in Updates, n \in 0 .. MaxLost : << u, n >> \in Connections
BY DEF Connections

LEMMA ConnType ==
  ASSUME TypeOK, NEW u \in Updates
  PROVE  conn(u) \in Connections /\ lost[u] \in 0 .. MaxLost
BY DEF TypeOK, Connections, conn

LEMMA ToSetAppend ==
  ASSUME NEW S, NEW s \in Seq(S), NEW u \in S
  PROVE  ToSet(Append(s, u)) = ToSet(s) \cup {u}
<1>1. DOMAIN s = 1 .. Len(s) /\ Len(s) \in Nat
  OBVIOUS
<1>2. DOMAIN Append(s, u) = 1 .. Len(s) + 1
  BY <1>1
<1>3. \A i \in 1 .. Len(s) : Append(s, u)[i] = s[i]
  OBVIOUS
<1>4. Append(s, u)[Len(s) + 1] = u
  OBVIOUS
<1> QED BY <1>1, <1>2, <1>3, <1>4 DEF ToSet

LEMMA ToSetMember ==
  ASSUME NEW S, NEW s \in Seq(S), NEW i \in DOMAIN s
  PROVE  s[i] \in ToSet(s)
BY DEF ToSet

LEMMA ToSetType ==
  ASSUME NEW S, NEW s \in Seq(S)
  PROVE  ToSet(s) \subseteq S
BY DEF ToSet

LEMMA ToSetEmpty == ToSet(<< >>) = {}
BY DEF ToSet

LEMMA InitInv == Init => IInv
<1> SUFFICES ASSUME Init PROVE IInv
  OBVIOUS
<1>1. TypeOK
  BY DEF Init, TypeOK
<1>2. ExecInv /\ CleanInv /\ BeforeInv /\ LostInv
  BY ConnFacts DEF Init, ExecInv, CleanInv, BeforeInv, LostInv, conn
<1>3. AppliedInv
  BY ToSetEmpty DEF Init, AppliedInv
<1>4. InvocationOrder
  BY DEF Init, InvocationOrder, Store!InvocationOrder
<1> QED BY <1>1, <1>2, <1>3, <1>4 DEF IInv

LEMMA TypeNext ==
  ASSUME TypeOK, [Next]_vars
  PROVE  TypeOK'
<1> USE DEF TypeOK
<1>1. CASE create_call \/ Expire
  BY <1>1 DEF create_call, Expire
<1>3. ASSUME NEW u \in Updates, Invoke(u) PROVE TypeOK'
  BY <1>3 DEF Invoke
<1>4. ASSUME NEW u \in Updates, Watch(u) \/ Timeout(u) PROVE TypeOK'
  BY <1>4, ConnType DEF Watch, Timeout
<1>5. ASSUME NEW u \in Updates, Get(u) PROVE TypeOK'
  <2>1. Append(value, conn(u)) \in Seq(Connections) /\ conn(u) \in Connections
    BY ConnType
  <2>2. CASE stored = "present"
    BY <1>5, <2>1, <2>2 DEF Get
  <2>3. CASE stored # "present"
    BY <1>5, <2>3 DEF Get
  <2> QED BY <2>2, <2>3
<1>6. ASSUME NEW c \in Connections, Serve(c) PROVE TypeOK'
  <2>1. value' \in Seq(Connections) /\ clean' \subseteq Connections
    BY <1>6 DEF Serve
  <2>2. /\ copy' = [copy EXCEPT ![c] = << >>] /\ UNCHANGED << stored, pc, lost, before >>
        /\ \E e \in {"applied", "aborted"} : exec' = [exec EXCEPT ![c] = e]
    BY <1>6 DEF Serve
  <2> QED BY <2>1, <2>2
<1>7. ASSUME NEW u \in Updates, Reply(u) PROVE TypeOK'
  BY <1>7, ConnType DEF Reply
<1>8. ASSUME NEW u \in Updates, Disconnect(u) PROVE TypeOK'
  BY <1>8 DEF Disconnect
<1>9. CASE UNCHANGED vars
  BY <1>9 DEF vars
<1> QED BY <1>1, <1>3, <1>4, <1>5, <1>6, <1>7, <1>8, <1>9 DEF Next

-----------------------------------------------------------------------------

(* Nothing is on its way on a connection that was not used yet.            *)
LEMMA NotSent ==
  ASSUME IInv, NEW u \in Updates, pc[u] \in {"idle", "invoked", "watched"}
  PROVE  /\ \A m \in lost[u] .. MaxLost : exec[<< u, m >>] = "none"
         /\ exec[conn(u)] = "none"
<1>1. lost[u] \in 0 .. MaxLost
  BY ConnType DEF IInv
<1>2. ASSUME NEW m \in lost[u] .. MaxLost
      PROVE  exec[<< u, m >>] = "none"
  <2>1. m \in 0 .. MaxLost /\ ~ (m < lost[u])
    BY <1>1
  <2>2. exec[<< u, m >>] # "none" =>
          m < lost[u] \/ (m = lost[u] /\ pc[u] \in {"sent", "ok", "failed"})
    BY <2>1 DEF IInv, ExecInv
  <2> QED BY <2>1, <2>2
<1> QED BY <1>1, <1>2 DEF conn

(* EXEC of an update that is not aborted appends it, and nobody who was    *)
(* invoked after it had been given up comes before it.                     *)
LEMMA ServeApplies ==
  ASSUME IInv, NEW c \in Connections, Serve(c), c \in clean
  PROVE  /\ stored = "present" /\ value' = Append(value, c)
         /\ ToSet(value') = ToSet(value) \cup {c}
         /\ \A d \in ToSet(value) : c[1] \notin before[d[1]]
         /\ \A m \in c[2] .. MaxLost : << c[1], m >> \notin ToSet(value)
         /\ c[2] <= lost[c[1]] /\ pc[c[1]] \in {"invoked", "watched", "sent", "failed"}
<1> DEFINE u == c[1]
           n == c[2]
<1>0. u \in Updates /\ n \in 0 .. MaxLost /\ c = << u, n >>
  BY ConnFacts
<1>1. exec[<< u, n >>] = "inflight" /\ value' = copy[<< u, n >>] /\ << u, n >> \in clean
  BY <1>0 DEF Serve
<1> HIDE DEF u, n
<1>2. /\ stored = "present" /\ copy[<< u, n >>] = Append(value, << u, n >>)
      /\ \A d \in ToSet(value) : u \notin before[d[1]]
      /\ \A m \in n .. MaxLost : << u, m >> \notin ToSet(value)
  BY <1>0, <1>1 DEF IInv, CleanInv
<1>3. n < lost[u] \/ (n = lost[u] /\ pc[u] \in {"sent", "ok", "failed"})
  BY <1>0, <1>1 DEF IInv, ExecInv
<1>4. lost[u] \in 0 .. MaxLost /\ << u, lost[u] >> \in Connections
  BY <1>0, ConnType DEF IInv, conn
<1>5. pc[u] # "ok" /\ pc[u] # "idle"
  <2>1. pc[u] # "ok"
    <3> SUFFICES ASSUME pc[u] = "ok" PROVE FALSE
      OBVIOUS
    <3>1. << u, lost[u] >> \in ToSet(value)
      BY <1>0, <1>4 DEF IInv, ExecInv, AppliedInv, conn
    <3> QED BY <1>0, <1>2, <1>3, <1>4, <3>1
  <2>2. pc[u] # "idle"
    BY <1>0, <1>3 DEF IInv, LostInv
  <2> QED BY <2>1, <2>2
<1>6. ToSet(value') = ToSet(value) \cup {c}
  <2>1. value \in Seq(Connections) /\ value' = Append(value, c)
    BY <1>0, <1>1, <1>2 DEF IInv, TypeOK
  <2> QED BY <2>1, ToSetAppend
<1>7. pc[u] \in {"invoked", "watched", "sent", "failed"}
  BY <1>0, <1>5 DEF IInv, TypeOK
<1>8. n <= lost[u]
  BY <1>0, <1>3, <1>4
<1> QED BY <1>0, <1>1, <1>2, <1>6, <1>7, <1>8 DEF u, n

LEMMA NextInv == IInv /\ [Next]_vars => IInv'
<1> SUFFICES ASSUME IInv, [Next]_vars PROVE IInv'
  OBVIOUS
<1> USE DEF IInv
<1>0. TypeOK'
  BY TypeNext
<1> USE DEF TypeOK
<1>a. ToSet(value) \subseteq Connections /\ ToSet(value') \subseteq Connections
  BY <1>0, ToSetType
<1>b. \A c \in Connections : c[1] \in Updates /\ c[2] \in 0 .. MaxLost
  BY ConnFacts
<1>c. \A u \in Updates, n \in 0 .. MaxLost : << u, n >> \in Connections
  BY ConnFacts
<1>1. CASE create_call \/ Expire
  <2>1. /\ clean' = {} /\ UNCHANGED << value, pc, lost, copy, exec, before >>
    BY <1>1 DEF create_call, Expire
  <2> QED BY <1>0, <2>1 DEF ExecInv, AppliedInv, CleanInv, BeforeInv, LostInv, conn,
                    InvocationOrder, Store!InvocationOrder
<1>3. ASSUME NEW u \in Updates, Invoke(u) PROVE IInv'
  <2>1. /\ pc[u] = "idle" /\ pc' = [pc EXCEPT ![u] = "invoked"]
        /\ before' = [before EXCEPT ![u] = {v \in Updates : pc[v] \in {"ok", "failed"}}]
        /\ UNCHANGED << value, stored, lost, copy, clean, exec >>
    BY <1>3 DEF Invoke
  <2>2. \A n \in 0 .. MaxLost : exec[<< u, n >>] = "none"
    BY <2>1, NotSent DEF LostInv
  <2>a. \A d \in ToSet(value) : d[1] # u /\ d[1] \in Updates
    <3> SUFFICES ASSUME NEW d \in ToSet(value) PROVE d[1] # u /\ d[1] \in Updates
      OBVIOUS
    <3>1. exec[d] = "applied" /\ d \in Connections
      BY <1>a DEF AppliedInv
    <3>2. d = << d[1], d[2] >> /\ d[1] \in Updates /\ d[2] \in 0 .. MaxLost
      BY <3>1, ConnFacts
    <3> QED BY <3>1, <3>2, <2>2
  <2>3. ExecInv' /\ AppliedInv' /\ BeforeInv' /\ LostInv'
    BY <2>1, <2>2 DEF ExecInv, AppliedInv, BeforeInv, LostInv, conn
  <2>4. CleanInv'
    <3>1. \A d \in ToSet(value) : before'[d[1]] = before[d[1]]
      BY <2>1, <2>a
    <3> QED BY <2>1, <3>1 DEF CleanInv
  <2>5. \A k \in DOMAIN value : value[k][1] # u /\ value[k][1] \in Updates
    BY <2>a, ToSetMember
  <2>6. InvocationOrder'
    BY <2>1, <2>5 DEF InvocationOrder, Store!InvocationOrder
  <2> QED BY <1>0, <2>3, <2>4, <2>6
<1>4. ASSUME NEW u \in Updates, Watch(u) PROVE IInv'
  <2>1. /\ pc[u] = "invoked" /\ pc' = [pc EXCEPT ![u] = "watched"]
        /\ clean' = clean \cup {conn(u)}
        /\ UNCHANGED << value, stored, lost, copy, exec, before >>
    BY <1>4 DEF Watch
  <2>2. exec[conn(u)] = "none"
    BY <2>1, NotSent
  <2>3. ExecInv' /\ AppliedInv' /\ BeforeInv' /\ LostInv'
    BY <2>1, <2>2 DEF ExecInv, AppliedInv, BeforeInv, LostInv, conn
  <2>4. CleanInv'
    BY <2>1, <2>2 DEF CleanInv
  <2>5. InvocationOrder'
    BY <2>1 DEF InvocationOrder, Store!InvocationOrder
  <2> QED BY <1>0, <2>3, <2>4, <2>5
<1>5. ASSUME NEW u \in Updates, Timeout(u) PROVE IInv'
  <2>1. /\ pc[u] \in {"invoked", "watched", "sent"} /\ pc' = [pc EXCEPT ![u] = "failed"]
        /\ UNCHANGED << value, stored, lost, copy, clean, exec, before >>
    BY <1>5 DEF Timeout
  <2>2. ExecInv' /\ AppliedInv' /\ BeforeInv' /\ LostInv'
    BY <2>1 DEF ExecInv, AppliedInv, BeforeInv, LostInv, conn
  <2>3. CleanInv' /\ InvocationOrder'
    BY <2>1 DEF CleanInv, InvocationOrder, Store!InvocationOrder
  <2> QED BY <1>0, <2>2, <2>3
<1>6. ASSUME NEW u \in Updates, Get(u) PROVE IInv'
  <2>0. pc[u] = "watched" /\ exec[conn(u)] = "none"
    BY <1>6, NotSent DEF Get
  <2>1. CASE stored = "present"
    <3>1. /\ copy' = [copy EXCEPT ![conn(u)] = Append(value, conn(u))]
          /\ pc' = [pc EXCEPT ![u] = "sent"]
          /\ exec' = [exec EXCEPT ![conn(u)] = "inflight"]
          /\ UNCHANGED << value, stored, lost, clean, before >>
      BY <1>6, <2>1 DEF Get
    <3>2. \A d \in ToSet(value) : u \notin before[d[1]]
      BY <2>0, <1>a, <1>b DEF BeforeInv
    <3>3. \A m \in lost[u] .. MaxLost : << u, m >> \notin ToSet(value)
      <4>1. \A m \in lost[u] .. MaxLost : << u, m >> \in Connections
        BY <1>c, ConnType
      <4>2. \A m \in lost[u] .. MaxLost : exec[<< u, m >>] = "none"
        BY <2>0, NotSent
      <4> QED BY <4>1, <4>2 DEF AppliedInv
    <3>4. CleanInv'
      <4> SUFFICES ASSUME NEW w \in Updates, NEW n \in 0 .. MaxLost,
                          exec'[<< w, n >>] = "inflight", << w, n >> \in clean
                   PROVE  /\ stored = "present"
                          /\ copy'[<< w, n >>] = Append(value, << w, n >>)
                          /\ \A d \in ToSet(value) : w \notin before[d[1]]
                          /\ \A m \in n .. MaxLost : << w, m >> \notin ToSet(value)
        BY <3>1 DEF CleanInv
      <4>1. CASE << w, n >> = conn(u)
        <5>1. w = u /\ n = lost[u]
          BY <4>1 DEF conn
        <5>2. copy'[<< w, n >>] = Append(value, << w, n >>)
          BY <3>1, <4>1, ConnType
        <5> QED BY <2>1, <3>2, <3>3, <5>1, <5>2
      <4>2. CASE << w, n >> # conn(u)
        <5>1. exec[<< w, n >>] = "inflight" /\ copy'[<< w, n >>] = copy[<< w, n >>]
          BY <3>1, <4>2, <1>c, ConnType
        <5> QED BY <5>1 DEF CleanInv
      <4> QED BY <4>1, <4>2
    <3>5. ExecInv'
      <4>1. \A w \in Updates, n \in 0 .. MaxLost :
              << w, n >> = conn(u) => w = u /\ n = lost[u]
        BY DEF conn
      <4> QED BY <2>0, <3>1, <4>1, ConnType DEF ExecInv, conn
    <3>6. AppliedInv' /\ BeforeInv' /\ LostInv'
      BY <2>0, <3>1, ConnType DEF AppliedInv, BeforeInv, LostInv
    <3>7. InvocationOrder'
      BY <3>1 DEF InvocationOrder, Store!InvocationOrder
    <3> QED BY <1>0, <3>4, <3>5, <3>6, <3>7
  <2>2. CASE stored # "present"
    <3>1. /\ pc' = [pc EXCEPT ![u] = "failed"]
          /\ UNCHANGED << value, stored, lost, copy, exec, clean, before >>
      BY <1>6, <2>2 DEF Get
    <3>2. ExecInv' /\ AppliedInv' /\ BeforeInv' /\ LostInv'
      BY <2>0, <3>1 DEF ExecInv, AppliedInv, BeforeInv, LostInv, conn
    <3>3. CleanInv' /\ InvocationOrder'
      BY <3>1 DEF CleanInv, InvocationOrder, Store!InvocationOrder
    <3> QED BY <1>0, <3>2, <3>3
  <2> QED BY <2>1, <2>2
<1>7. ASSUME NEW c \in Connections, Serve(c) PROVE IInv'
  <2>0. exec[c] = "inflight" /\ UNCHANGED << stored, pc, lost, before >>
    BY <1>7 DEF Serve
  <2>3. ASSUME NEW e \in {"applied", "aborted"}, exec' = [exec EXCEPT ![c] = e]
        PROVE  ExecInv' /\ BeforeInv' /\ LostInv'
    <3>1. \A d \in Connections : /\ exec'[d] # "none" <=> exec[d] # "none"
                                 /\ exec[d] = "applied" => exec'[d] = "applied"
      BY <2>0, <2>3
    <3>2. ExecInv'
      <4>1. \A u \in Updates : conn(u)' = conn(u) /\ conn(u) \in Connections
        BY <2>0, ConnType DEF conn
      <4>2. \A u \in Updates, n \in 0 .. MaxLost :
              exec'[<< u, n >>] # "none" <=> exec[<< u, n >>] # "none"
        BY <3>1, <1>c
      <4>3. \A u \in Updates : /\ exec'[conn(u)] # "none" <=> exec[conn(u)] # "none"
                               /\ exec[conn(u)] = "applied" => exec'[conn(u)] = "applied"
        BY <3>1, <4>1
      <4> QED BY <2>0, <4>1, <4>2, <4>3 DEF ExecInv
    <3> QED BY <2>0, <3>2 DEF BeforeInv, LostInv
  <2>1. CASE c \notin clean
    <3>1. /\ exec' = [exec EXCEPT ![c] = "aborted"] /\ UNCHANGED << value, clean >>
          /\ copy' = [copy EXCEPT ![c] = << >>]
      BY <1>7, <2>1 DEF Serve
    <3>2. AppliedInv'
      BY <2>0, <3>1 DEF AppliedInv
    <3>3. CleanInv'
      BY <2>0, <2>1, <3>1, <1>c DEF CleanInv
    <3>4. InvocationOrder'
      BY <2>0, <3>1 DEF InvocationOrder, Store!InvocationOrder
    <3> QED BY <1>0, <2>3, <3>1, <3>2, <3>3, <3>4
  <2>2. CASE c \in clean
    <3>1. /\ value' = Append(value, c)
          /\ ToSet(value') = ToSet(value) \cup {c}
          /\ \A d \in ToSet(value) : c[1] \notin before[d[1]]
      BY <1>7, <2>2, ServeApplies
    <3>2. exec' = [exec EXCEPT ![c] = "applied"] /\ clean' = {}
      BY <1>7, <2>2 DEF Serve
    <3>3. AppliedInv' /\ CleanInv'
      BY <3>1, <3>2 DEF AppliedInv, CleanInv
    <3>4. InvocationOrder'
      <4> SUFFICES ASSUME NEW i \in DOMAIN value', NEW k \in DOMAIN value',
                          value'[i][1] \in before[value'[k][1]]
                   PROVE  i < k
        BY <2>0 DEF InvocationOrder, Store!InvocationOrder
      <4>1. DOMAIN value = 1 .. Len(value) /\ Len(value) \in Nat
        OBVIOUS
      <4>2. /\ DOMAIN value' = 1 .. Len(value) + 1
            /\ value'[Len(value) + 1] = c
            /\ \A n \in 1 .. Len(value) : value'[n] = value[n]
        BY <3>1, <4>1
      <4>3. CASE i \in DOMAIN value /\ k \in DOMAIN value
        BY <4>1, <4>2, <4>3 DEF InvocationOrder, Store!InvocationOrder
      <4>4. CASE i = Len(value) + 1 /\ k \in DOMAIN value
        BY <3>1, <4>1, <4>2, <4>4, ToSetMember
      <4>5. CASE i = Len(value) + 1 /\ k = Len(value) + 1
        BY <4>2, <4>5, <1>b DEF BeforeInv
      <4>6. CASE i \in DOMAIN value /\ k = Len(value) + 1
        BY <4>1, <4>6
      <4> QED BY <4>1, <4>2, <4>3, <4>4, <4>5, <4>6
    <3> QED BY <1>0, <2>3, <3>2, <3>3, <3>4
  <2> QED BY <2>1, <2>2
<1>8. ASSUME NEW u \in Updates, Reply(u) PROVE IInv'
  <2>0. /\ pc[u] = "sent" /\ UNCHANGED << value, stored, lost, copy, clean, before >>
        /\ \/ /\ exec[conn(u)] = "applied"
              /\ pc' = [pc EXCEPT ![u] = "ok"] /\ UNCHANGED exec
           \/ /\ exec[conn(u)] = "aborted"
              /\ pc' = [pc EXCEPT ![u] = "invoked"]
              /\ exec' = [exec EXCEPT ![conn(u)] = "none"]
    BY <1>8 DEF Reply
  <2>1. InvocationOrder' /\ BeforeInv' /\ LostInv'
    BY <2>0 DEF InvocationOrder, Store!InvocationOrder, BeforeInv, LostInv
  <2>2. AppliedInv'
    BY <2>0, ConnType DEF AppliedInv
  <2>3. CleanInv'
    BY <2>0, <1>c, ConnType DEF CleanInv
  <2>4. ExecInv'
    <3>0. lost[u] \in 0 .. MaxLost /\ conn(u) \in Connections
      BY ConnType
    <3>1. \A w \in Updates, n \in 0 .. MaxLost :
            << w, n >> = conn(u) => w = u /\ n = lost[u]
      BY DEF conn
    <3>2. \A w \in Updates : conn(w)' = conn(w) /\ conn(w) \in Connections
      BY <2>0, ConnType DEF conn
    <3>3. \A w \in Updates \ {u} : conn(w) # conn(u)
      BY DEF conn
    <3>4. CASE exec[conn(u)] = "applied"
      BY <2>0, <3>1, <3>2, <3>3, <3>4 DEF ExecInv
    <3>5. CASE exec[conn(u)] = "aborted"
      <4>1. pc' = [pc EXCEPT ![u] = "invoked"] /\ exec' = [exec EXCEPT ![conn(u)] = "none"]
        BY <2>0, <3>5
      <4>2. \A w \in Updates, n \in 0 .. MaxLost :
              exec'[<< w, n >>] # "none" =>
                << w, n >> # conn(u) /\ exec[<< w, n >>] # "none"
        BY <3>0, <4>1, <1>c
      <4>3. \A n \in 0 .. MaxLost : << u, n >> # conn(u) => n # lost[u]
        BY DEF conn
      <4> QED BY <2>0, <3>0, <3>2, <3>3, <4>1, <4>2, <4>3 DEF ExecInv
    <3> QED BY <2>0, <3>4, <3>5
  <2> QED BY <1>0, <2>1, <2>2, <2>3, <2>4
<1>9. ASSUME NEW u \in Updates, Disconnect(u) PROVE IInv'
  <2>1. /\ pc[u] = "sent" /\ pc' = [pc EXCEPT ![u] = "invoked"]
        /\ lost' = [lost EXCEPT ![u] = @ + 1] /\ lost[u] \in Nat
        /\ UNCHANGED << value, stored, copy, clean, exec, before >>
    BY <1>9, ConnType DEF Disconnect
  <2>2. ExecInv'
    BY <2>1, ConnType DEF ExecInv, conn
  <2>3. AppliedInv' /\ BeforeInv' /\ LostInv'
    BY <2>1 DEF AppliedInv, BeforeInv, LostInv
  <2>4. CleanInv' /\ InvocationOrder'
    BY <2>1 DEF CleanInv, InvocationOrder, Store!InvocationOrder
  <2> QED BY <1>0, <2>2, <2>3, <2>4
<1>10. CASE UNCHANGED vars
  BY <1>0, <1>10 DEF vars, ExecInv, AppliedInv, CleanInv, BeforeInv, LostInv, conn,
                    InvocationOrder, Store!InvocationOrder
<1> QED BY <1>1, <1>3, <1>4, <1>5, <1>6, <1>7, <1>8, <1>9, <1>10 DEF Next

-----------------------------------------------------------------------------
(* The refinement                                                          *)

StatusMap == [u \in Updates |-> AbstractStatus(u)]

(* How the abstract status follows pc.                                     *)
LEMMA StatusFacts ==
  ASSUME TypeOK
  PROVE  /\ \A u \in Updates :
              /\ pc[u] = "idle" <=> StatusMap[u] = "idle"
              /\ pc[u] \in {"invoked", "watched", "sent"} <=> StatusMap[u] = "pending"
              /\ pc[u] = "ok" <=> StatusMap[u] = "ok"
              /\ pc[u] = "failed" <=> StatusMap[u] = "failed"
BY DEF TypeOK, StatusMap, AbstractStatus

LEMMA StatusSet ==
  ASSUME TypeOK, NEW u \in Updates,
         NEW p \in {"idle", "invoked", "watched", "sent", "ok", "failed"},
         pc' = [pc EXCEPT ![u] = p]
  PROVE  StatusMap' =
           [StatusMap EXCEPT ![u] = IF p \in {"invoked", "watched", "sent"} THEN "pending" ELSE p]
BY DEF TypeOK, StatusMap, AbstractStatus

LEMMA StatusKept ==
  ASSUME TypeOK, UNCHANGED pc
  PROVE  UNCHANGED StatusMap
BY DEF StatusMap, AbstractStatus

LEMMA InitMaps == Init => Store!Init
BY DEF Init, Store!Init, AbstractStatus

LEMMA StepMaps ==
  ASSUME IInv, [Next]_vars
  PROVE  [Store!Next]_(Store!vars)
<1> USE DEF IInv
<1>1. CASE create_call
  BY <1>1, StatusKept DEF create_call, Store!Next, Store!create_call, StatusMap
<1>2. CASE Expire
  BY <1>2, StatusKept DEF Expire, Store!Next, Store!Expire, StatusMap
<1>3. ASSUME NEW u \in Updates, Invoke(u) PROVE Store!Invoke(u)
  <2>1. StatusMap' = [StatusMap EXCEPT ![u] = "pending"] /\ StatusMap[u] = "idle"
    BY <1>3, StatusSet, StatusFacts DEF Invoke
  <2>2. {v \in Updates : pc[v] \in {"ok", "failed"}} =
        {v \in Updates : StatusMap[v] \in {"ok", "failed"}}
    BY StatusFacts
  <2> QED BY <1>3, <2>1, <2>2 DEF Invoke, Store!Invoke, StatusMap
<1>4. ASSUME NEW u \in Updates, Watch(u) PROVE UNCHANGED Store!vars
  <2>1. StatusMap' = [StatusMap EXCEPT ![u] = "pending"] /\ StatusMap[u] = "pending"
    BY <1>4, StatusSet, StatusFacts DEF Watch
  <2>2. StatusMap' = StatusMap
    BY <2>1 DEF StatusMap
  <2> QED BY <1>4, <2>2 DEF Watch, Store!vars, StatusMap
<1>5. ASSUME NEW u \in Updates, Timeout(u) PROVE Store!Fail(u)
  <2>1. StatusMap' = [StatusMap EXCEPT ![u] = "failed"] /\ StatusMap[u] = "pending"
    BY <1>5, StatusSet, StatusFacts DEF Timeout
  <2> QED BY <1>5, <2>1 DEF Timeout, Store!Fail, StatusMap
<1>6. ASSUME NEW u \in Updates, Get(u) PROVE Store!Fail(u) \/ UNCHANGED Store!vars
  <2>1. CASE stored = "present"
    <3>1. StatusMap' = [StatusMap EXCEPT ![u] = "pending"] /\ StatusMap[u] = "pending"
      BY <1>6, <2>1, StatusSet, StatusFacts DEF Get
    <3>2. StatusMap' = StatusMap
      BY <3>1 DEF StatusMap
    <3> QED BY <1>6, <2>1, <3>2 DEF Get, Store!vars, StatusMap
  <2>2. CASE stored # "present"
    <3>1. StatusMap' = [StatusMap EXCEPT ![u] = "failed"] /\ StatusMap[u] = "pending"
      BY <1>6, <2>2, StatusSet, StatusFacts DEF Get
    <3> QED BY <1>6, <2>2, <3>1 DEF Get, Store!Fail, StatusMap
  <2> QED BY <2>1, <2>2
<1>7. ASSUME NEW c \in Connections, Serve(c)
      PROVE  \/ UNCHANGED Store!vars
             \/ \E u \in Updates : \E n \in 0 .. lost[u] : Store!Apply(u, n)
  <2>0. StatusMap' = StatusMap
    BY <1>7, StatusKept DEF Serve
  <2>1. CASE c \notin clean
    BY <1>7, <2>0, <2>1 DEF Serve, Store!vars, StatusMap
  <2>2. CASE c \in clean
    <3> DEFINE u == c[1]
               n == c[2]
    <3>1. u \in Updates /\ n \in 0 .. MaxLost /\ c = << u, n >> /\ lost[u] \in 0 .. MaxLost
      BY ConnFacts, ConnType
    <3> HIDE DEF u, n
    <3>2. /\ stored = "present" /\ value' = Append(value, << u, n >>)
          /\ \A d \in ToSet(value) : u \notin before[d[1]]
          /\ \A m \in n .. MaxLost : << u, m >> \notin ToSet(value)
          /\ n <= lost[u] /\ pc[u] \in {"invoked", "watched", "sent", "failed"}
      BY <1>7, <2>2, <3>1, ServeApplies DEF u, n
    <3>3. StatusMap[u] \in {"pending", "failed"}
      BY <3>1, <3>2, StatusFacts
    <3>4. UNCHANGED << stored, lost, before >>
      BY <1>7 DEF Serve
    <3>5. \A m \in n .. lost[u] : << u, m >> \notin ToSet(value)
      BY <3>1, <3>2
    <3>6. Store!Applied = ToSet(value)
      BY DEF Store!Applied, ToSet, Store!ToSet
    <3>7. Store!MayApply(u)
      BY <3>2, <3>3, <3>6 DEF Store!MayApply, StatusMap
    <3>8. Store!Apply(u, n)
      BY <2>0, <3>2, <3>4, <3>5, <3>6, <3>7 DEF Store!Apply, StatusMap
    <3>9. n \in 0 .. lost[u]
      BY <3>1, <3>2
    <3> QED BY <3>1, <3>8, <3>9
  <2> QED BY <2>1, <2>2
<1>8. ASSUME NEW u \in Updates, Reply(u) PROVE Store!Return(u) \/ UNCHANGED Store!vars
  <2>1. CASE exec[conn(u)] = "applied"
    <3>1. StatusMap' = [StatusMap EXCEPT ![u] = "ok"] /\ StatusMap[u] = "pending"
      BY <1>8, <2>1, StatusSet, StatusFacts DEF Reply
    <3>2. << u, lost[u] >> \in ToSet(value)
      BY <2>1, ConnType DEF AppliedInv, conn
    <3> QED BY <1>8, <3>1, <3>2 DEF Reply, Store!Return, Store!Applied, ToSet, Store!ToSet, StatusMap
  <2>2. CASE exec[conn(u)] = "aborted"
    <3>1. StatusMap' = [StatusMap EXCEPT ![u] = "pending"] /\ StatusMap[u] = "pending"
      BY <1>8, <2>2, StatusSet, StatusFacts DEF Reply
    <3>2. StatusMap' = StatusMap
      BY <3>1 DEF StatusMap
    <3> QED BY <1>8, <3>2 DEF Reply, Store!vars, StatusMap
  <2> QED BY <1>8, <2>1, <2>2 DEF Reply
<1>9. ASSUME NEW u \in Updates, Disconnect(u) PROVE Store!Lose(u)
  <2>1. StatusMap' = [StatusMap EXCEPT ![u] = "pending"] /\ StatusMap[u] = "pending"
    BY <1>9, StatusSet, StatusFacts DEF Disconnect
  <2>2. StatusMap' = StatusMap
    BY <2>1 DEF StatusMap
  <2> QED BY <1>9, <2>1, <2>2 DEF Disconnect, Store!Lose, StatusMap
<1>10. CASE UNCHANGED vars
  BY <1>10, StatusKept DEF vars, Store!vars, StatusMap
<1> QED BY <1>1, <1>2, <1>3, <1>4, <1>5, <1>6, <1>7, <1>8, <1>9, <1>10
        DEF Next, Store!Next

-----------------------------------------------------------------------------

(* The inductive invariant of _update holds with any number of updates,    *)
(* timeouts, lost connections and an expiring key.                         *)
THEOREM Invariance == Spec => []IInv
BY InitInv, NextInv, PTL DEF Spec

(* A timed-out update never lands on top of one that was invoked after it  *)
(* had been given up.                                                      *)
THEOREM OrderedUpdates == Spec => []InvocationOrder
<1>1. IInv => InvocationOrder
  BY DEF IInv
<1> QED BY <1>1, Invariance, PTL

(* The WATCH, GET, MULTI/EXEC loop of RedisStateStore implements the       *)
(* StateStore protocol: every update takes effect at once and never after  *)
(* an update that was invoked later, and once, or once more for each       *)
(* connection that was lost in EXEC.                                       *)
THEOREM Refinement == Spec => ImplementsStateStore
<1>1. IInv /\ [Next]_vars => [Store!Next]_(Store!vars)
  BY StepMaps
<1> QED BY <1>1, InitMaps, Invariance, PTL DEF Spec, ImplementsStateStore, Store!Spec

=============================================================================
