------------------------- MODULE MemoryEngineProofs -------------------------
(***************************************************************************)
(* Proofs about MemoryEngine, for any ids, payloads, leases, windows and   *)
(* capacity: its types, that the list of ready ids and the map of tasks    *)
(* never disagree, and that the engine implements ReliableQueue.           *)
(***************************************************************************)
EXTENDS MemoryEngine, SequenceTheorems, FiniteSetTheorems, TLAPS

ReadyIn(M) == {i \in Ids : M[i].state = "ready"}

(* A task has been retried less often than tokens were drawn: each retry needs a
   claim of its own, and a claim its token. *)
Drawn ==
  /\ \A i \in Ids : msgs[i].retries <= tokens
  /\ \A i \in Ids : msgs[i].state = "inflight" =>
       msgs[i].retries < msgs[i].token /\ msgs[i].token <= tokens

MInv == TypeOK /\ Drawn /\ ReadyExact

----------------------------------------------------------------------------
(* Lists without repetition. *)
LEMMA AppendExact ==
  ASSUME NEW S, NEW p \in Seq(S), NEW e \in S, IsInjective(p), e \notin ToSet(p),
         NEW r, r = Append(p, e)
  PROVE  r \in Seq(S) /\ ToSet(r) = ToSet(p) \union {e} /\ IsInjective(r)
<1>. DEFINE n == Len(p)
<1>0. n \in Nat /\ DOMAIN p = 1..n /\ DOMAIN r = 1..(n + 1) /\ r \in Seq(S)
  OBVIOUS
<1>1. r[n + 1] = e
  OBVIOUS
<1>2. \A i \in 1..n : r[i] = p[i]
  OBVIOUS
<1>. HIDE DEF n
<1>3. \A i \in 1..n : r[i] # e
  BY <1>0, <1>2 DEF ToSet
<1>4. 1..(n + 1) = (1..n) \union {n + 1}
  BY <1>0
<1>5. \A i, j \in 1..n : r[i] = r[j] => i = j
  BY <1>0, <1>2 DEF IsInjective
<1>6. IsInjective(r)
  BY <1>0, <1>1, <1>3, <1>4, <1>5 DEF IsInjective
<1>7. ToSet(r) = ToSet(p) \union {e}
  BY <1>0, <1>1, <1>2, <1>4 DEF ToSet
<1>. QED BY <1>0, <1>6, <1>7

LEMMA ConcatExact ==
  ASSUME NEW S, NEW p \in Seq(S), NEW s \in Seq(S), IsInjective(p), IsInjective(s),
         ToSet(p) \intersect ToSet(s) = {}, NEW r, r = p \o s
  PROVE  r \in Seq(S) /\ ToSet(r) = ToSet(p) \union ToSet(s) /\ IsInjective(r)
<1>. DEFINE m == Len(p)
            n == Len(s)
<1>0. /\ m \in Nat /\ n \in Nat /\ DOMAIN p = 1..m /\ DOMAIN s = 1..n /\ DOMAIN r = 1..(m + n)
      /\ r \in Seq(S)
  BY ConcatProperties
<1>1. \A i \in 1..m : r[i] = p[i] /\ i \in 1..(m + n)
  BY <1>0, ConcatProperties
<1>2. \A i \in 1..n : r[m + i] = s[i] /\ m + i \in 1..(m + n)
  BY <1>0, ConcatProperties
<1>. HIDE DEF m, n
<1>3. \A k \in 1..(m + n) : k \in 1..m \/ (k - m \in 1..n /\ k = m + (k - m))
  BY <1>0
<1>4. \A i \in 1..m, j \in 1..n : r[i] # r[m + j]
  BY <1>0, <1>1, <1>2 DEF ToSet
<1>5. \A i, j \in 1..m : r[i] = r[j] => i = j
  BY <1>0, <1>1 DEF IsInjective
<1>6. \A i, j \in 1..n : r[m + i] = r[m + j] => i = j
  BY <1>0, <1>2 DEF IsInjective
<1>7. ASSUME NEW k \in 1..(m + n), NEW l \in 1..(m + n), r[k] = r[l] PROVE k = l
  <2>1. CASE k \in 1..m /\ l \in 1..m
    BY <1>5, <1>7, <2>1
  <2>2. CASE k \in 1..m /\ l \notin 1..m
    BY <1>3, <1>4, <1>7, <2>2
  <2>3. CASE k \notin 1..m /\ l \in 1..m
    BY <1>3, <1>4, <1>7, <2>3
  <2>4. CASE k \notin 1..m /\ l \notin 1..m
    <3>1. k - m = l - m
      BY <1>3, <1>6, <1>7, <2>4
    <3>. QED BY <1>0, <3>1
  <2>. QED BY <2>1, <2>2, <2>3, <2>4
<1>8. IsInjective(r)
  BY <1>0, <1>7 DEF IsInjective
<1>9. ToSet(r) = ToSet(p) \union ToSet(s)
  <2>1. ToSet(r) \subseteq ToSet(p) \union ToSet(s)
    BY <1>0, <1>1, <1>2, <1>3 DEF ToSet
  <2>2. ToSet(p) \subseteq ToSet(r)
    BY <1>0, <1>1 DEF ToSet
  <2>3. ToSet(s) \subseteq ToSet(r)
    BY <1>0, <1>2 DEF ToSet
  <2>. QED BY <2>1, <2>2, <2>3
<1>. QED BY <1>0, <1>8, <1>9

(* Every order of a finite set lists each member once. *)
LEMMA OrderExact ==
  ASSUME NEW T, IsFiniteSet(T), NEW f \in SetToSeqs(T)
  PROVE  f \in Seq(T) /\ ToSet(f) = T /\ IsInjective(f)
<1>. DEFINE n == Cardinality(T)
            D == 1..n
<1>1. n \in Nat
  BY FS_CardinalityType
<1>2. f \in [D -> T] /\ \A i, j \in D : i # j => f[i] # f[j]
  BY DEF SetToSeqs
<1>3. f \in Seq(T)
  BY <1>1, <1>2
<1>4. IsInjective(f) /\ f \in Injection(D, T)
  BY <1>2 DEF IsInjective, Injection
<1>5. Cardinality(D) = n
  BY <1>1, FS_Interval
<1>6. f \in Surjection(D, T)
  BY <1>4, <1>5, FS_Injection
<1>7. ToSet(f) = T
  BY <1>2, <1>6 DEF Surjection, ToSet
<1>. QED BY <1>3, <1>4, <1>7
----------------------------------------------------------------------------
(* What every method starts from. *)
Tombstone == [hash : Contents, until : Nat \cup {Never}]
Delivery  == [id : Ids, tok : 1..MaxToken]

LEMMA EmptyType == NoMsg \in Msg /\ NoTombstone \in Tombstone /\ NoMsg.state = "absent" /\ NoMsg.retries = 0
<1>1. AnyContent \in Contents
  BY MemoryAssumption DEF AnyContent
<1>2. 0 \in 0..MaxToken
  BY MemoryAssumption
<1>. QED BY <1>1, <1>2 DEF NoMsg, NoTombstone, Msg, Tombstone, NoToken, Never

LEMMA PrunedType ==
  ASSUME TypeOK
  PROVE  /\ PrunedMsgs \in [Ids -> Msg] /\ PrunedDone \in [Ids -> Tombstone]
         /\ \A i \in Ids : \/ PrunedMsgs[i] = msgs[i]
                           \/ PrunedMsgs[i] = NoMsg /\ msgs[i].state = "failed"
         /\ ReadyIn(PrunedMsgs) = ReadyIn(msgs)
<1>1. \A i \in Ids : \/ PrunedMsgs[i] = msgs[i]
                     \/ PrunedMsgs[i] = NoMsg /\ msgs[i].state = "failed"
  <2>1. ASSUME NEW i \in Ids
        PROVE  \/ PrunedMsgs[i] = msgs[i]
               \/ PrunedMsgs[i] = NoMsg /\ msgs[i].state = "failed"
    <3>1. PrunedMsgs[i] = IF i \in Outdated THEN NoMsg ELSE msgs[i]
      BY DEF PrunedMsgs
    <3>2. i \in Outdated => msgs[i].state = "failed"
      BY DEF Outdated
    <3>. QED BY <3>1, <3>2
  <2>. QED BY <2>1
<1>2. PrunedMsgs \in [Ids -> Msg] /\ PrunedDone \in [Ids -> Tombstone]
  BY EmptyType DEF PrunedMsgs, PrunedDone, TypeOK, Tombstone
<1>3. ReadyIn(PrunedMsgs) = ReadyIn(msgs)
  BY <1>1, EmptyType DEF ReadyIn
<1>. QED BY <1>1, <1>2, <1>3

LEMMA WokenType ==
  ASSUME TypeOK
  PROVE  /\ Woken \in [Ids -> Msg]
         /\ \A i \in Ids : Woken[i].retries \in {msgs[i].retries, 0}
         /\ \A i \in Ids : Woken[i].state = "inflight" => Woken[i] = msgs[i]
         /\ \A i \in Expired : Woken[i].state = "inflight"
         /\ ReadyIn(Woken) = ReadyIn(msgs) \union Due
         /\ ReadyIn(msgs) \intersect Due = {} /\ Due \subseteq Ids
<1>1. ASSUME NEW i \in Ids
      PROVE  /\ Woken[i] \in Msg /\ Woken[i].retries \in {msgs[i].retries, 0}
             /\ Woken[i].state = "inflight" => Woken[i] = msgs[i]
             /\ i \in Expired => Woken[i].state = "inflight"
             /\ (Woken[i].state = "ready") <=> (msgs[i].state = "ready" \/ i \in Due)
  <2>0. msgs[i] \in Msg
    BY DEF TypeOK
  <2>1. CASE i \in Due
    <3>. DEFINE w == [msgs[i] EXCEPT !.state = "ready", !.at = 0]
    <3>1. Woken[i] = w
      BY <2>1 DEF Woken
    <3>2. w \in Msg /\ w.state = "ready" /\ w.retries = msgs[i].retries
      BY <2>0 DEF Msg
    <3>3. i \notin Expired
      BY <2>1 DEF Due, Expired
    <3>. QED BY <2>1, <3>1, <3>2, <3>3
  <2>2. CASE i \notin Due
    <3>1. Woken[i] = PrunedMsgs[i]
      BY <2>2 DEF Woken
    <3>2. CASE PrunedMsgs[i] = msgs[i]
      BY <2>0, <2>2, <3>1, <3>2 DEF Expired
    <3>3. CASE PrunedMsgs[i] = NoMsg /\ msgs[i].state = "failed"
      BY <2>2, <3>1, <3>3, EmptyType DEF Expired
    <3>. QED BY <3>2, <3>3, PrunedType
  <2>. QED BY <2>1, <2>2
<1>2. Woken \in [Ids -> Msg]
  BY <1>1 DEF Woken
<1>3. ReadyIn(msgs) \intersect Due = {} /\ Due \subseteq Ids
  BY DEF ReadyIn, Due
<1>4. ReadyIn(Woken) = ReadyIn(msgs) \union Due
  BY <1>1, <1>3 DEF ReadyIn
<1>. QED BY <1>1, <1>2, <1>3, <1>4 DEF Expired

----------------------------------------------------------------------------
LEMMA MemoryInit == Init => MInv
<1>. SUFFICES ASSUME Init PROVE MInv
  OBVIOUS
<1>1. TypeOK
  <2>1. msgs \in [Ids -> Msg] /\ done \in [Ids -> Tombstone]
    BY EmptyType DEF Init
  <2>2. ready = <<>> /\ closed = FALSE /\ clock = 0 /\ issued = {}
    BY DEF Init
  <2>3. tokens \in 0..MaxToken
    BY MemoryAssumption DEF Init
  <2>4. ready \in Seq(Ids)
    BY <2>2, EmptySeq
  <2>5. closed \in BOOLEAN /\ clock \in Nat /\ issued \in SUBSET [id : Ids, tok : 1..MaxToken]
    BY <2>2
  <2>. QED BY <2>1, <2>3, <2>4, <2>5 DEF TypeOK, Tombstone
<1>2. Drawn
  BY EmptyType DEF Init, Drawn
<1>3. ReadyExact
  <2>1. ToSet(ready) = {} /\ IsInjective(ready)
    BY DEF Init, ToSet, IsInjective
  <2>2. \A i \in Ids : msgs[i].state # "ready"
    BY EmptyType DEF Init
  <2>. QED BY <2>1, <2>2 DEF ReadyExact
<1>. QED BY <1>1, <1>2, <1>3 DEF MInv

(* A step that gives one task a new record. *)
LEMMA OneTask ==
  ASSUME MInv, NEW i \in Ids, NEW M \in [Ids -> Msg], NEW new \in Msg, msgs' = [M EXCEPT ![i] = new],
         tokens' \in 0..MaxToken, tokens <= tokens',
         \A j \in Ids : M[j].retries \in {msgs[j].retries, 0},
         \A j \in Ids : M[j].state = "inflight" => M[j] = msgs[j],
         new.retries <= tokens',
         new.state = "inflight" => new.retries < new.token /\ new.token <= tokens'
  PROVE  /\ msgs' \in [Ids -> Msg] /\ Drawn'
         /\ new.state = "ready" => ReadyIn(msgs') = ReadyIn(M) \union {i}
         /\ new.state # "ready" => ReadyIn(msgs') = ReadyIn(M) \ {i}
<1>0. TypeOK /\ Drawn /\ tokens \in Nat /\ tokens' \in Nat
  BY MemoryAssumption DEF MInv, TypeOK
<1>1. msgs' \in [Ids -> Msg] /\ msgs'[i] = new /\ \A j \in Ids \ {i} : msgs'[j] = M[j]
  OBVIOUS
<1>2. ASSUME NEW j \in Ids
      PROVE  /\ msgs'[j].retries <= tokens'
             /\ msgs'[j].state = "inflight" => msgs'[j].retries < msgs'[j].token /\ msgs'[j].token <= tokens'
  <2>1. CASE j = i
    BY <1>1, <2>1
  <2>2. CASE j # i
    <3>1. msgs[j].retries \in Nat /\ msgs[j].token \in Nat /\ msgs[j].retries <= tokens
      <4>1. msgs[j] \in Msg
        BY <1>0 DEF TypeOK
      <4>2. msgs[j].retries \in 0..MaxToken /\ msgs[j].token \in 0..MaxToken
        BY <4>1 DEF Msg
      <4>. QED BY <1>0, <4>2, MemoryAssumption DEF Drawn
    <3>2. msgs'[j].retries <= tokens'
      BY <1>0, <1>1, <2>2, <3>1
    <3>3. msgs'[j].state = "inflight" => msgs'[j] = msgs[j]
      BY <1>1, <2>2
    <3>. QED BY <1>0, <3>1, <3>2, <3>3 DEF Drawn
  <2>. QED BY <2>1, <2>2
<1>3. Drawn'
  BY <1>2 DEF Drawn
<1>. QED BY <1>1, <1>3 DEF ReadyIn

LEMMA Concluding ==
  ASSUME MInv, msgs' \in [Ids -> Msg], Drawn', ready' \in Seq(Ids), ToSet(ready') = ReadyIn(msgs'),
         IsInjective(ready'), done' \in [Ids -> Tombstone], closed' \in BOOLEAN, clock' \in Nat,
         tokens' \in 0..MaxToken, issued' \subseteq Delivery
  PROVE  MInv'
<1>1. TypeOK'
  BY DEF TypeOK, Tombstone, Delivery
<1>2. ReadyExact'
  BY DEF ReadyExact, ReadyIn
<1>. QED BY <1>1, <1>2 DEF MInv

LEMMA Known ==
  MInv => /\ TypeOK /\ Drawn /\ ReadyExact /\ ready \in Seq(Ids) /\ ToSet(ready) = ReadyIn(msgs)
          /\ IsInjective(ready) /\ done \in [Ids -> Tombstone] /\ issued \subseteq Delivery
          /\ tokens \in 0..MaxToken /\ tokens \in Nat /\ clock \in Nat /\ msgs \in [Ids -> Msg]
          /\ closed \in BOOLEAN
BY MemoryAssumption DEF MInv, TypeOK, ReadyExact, ReadyIn, Tombstone, Delivery

LEMMA EnqueueStep ==
  ASSUME MInv, NEW i \in Ids, NEW c \in Contents, NEW dedup \in BOOLEAN, Enqueue(i, c, dedup)
  PROVE  MInv'
<1>0. /\ done' \in [Ids -> Tombstone] /\ PrunedMsgs \in [Ids -> Msg] /\ ReadyIn(PrunedMsgs) = ReadyIn(msgs)
      /\ \A j \in Ids : PrunedMsgs[j].retries \in {msgs[j].retries, 0}
      /\ \A j \in Ids : PrunedMsgs[j].state = "inflight" => PrunedMsgs[j] = msgs[j]
  BY Known, PrunedType, EmptyType DEF Enqueue
<1>1. CASE EnqueueNew(i, c, dedup)
  <2>. DEFINE new == [NoMsg EXCEPT !.state = "ready", !.hash = c, !.dedup = dedup]
  <2>1. new \in Msg /\ new.state = "ready" /\ new.retries = 0
    BY EmptyType DEF Msg
  <2>2. msgs' = [PrunedMsgs EXCEPT ![i] = new]
    BY <1>1 DEF EnqueueNew
  <2>. HIDE DEF new
  <2>3. tokens' = tokens /\ tokens <= tokens /\ 0 <= tokens /\ tokens' \in 0..MaxToken
    BY Known DEF Enqueue
  <2>4. msgs' \in [Ids -> Msg] /\ Drawn' /\ ReadyIn(msgs') = ReadyIn(msgs) \union {i}
    BY <1>0, <2>1, <2>2, <2>3, OneTask
  <2>5. i \notin ReadyIn(msgs)
    BY <1>0, <1>1 DEF EnqueueNew, Live, ReadyIn
  <2>6. ready' \in Seq(Ids) /\ ToSet(ready') = ToSet(ready) \union {i} /\ IsInjective(ready')
    <3>1. ready' = Append(ready, i)
      BY <1>1 DEF EnqueueNew
    <3>2. ready \in Seq(Ids) /\ IsInjective(ready) /\ i \notin ToSet(ready)
      BY <2>5, Known
    <3>3. \A r : r = Append(ready, i) =>
            r \in Seq(Ids) /\ ToSet(r) = ToSet(ready) \union {i} /\ IsInjective(r)
      BY <3>2, AppendExact
    <3>. QED BY <3>1, <3>3
  <2>. QED BY <1>0, <2>3, <2>4, <2>6, Known, Concluding DEF Enqueue
<1>2. CASE EnqueueOther(i, c, dedup)
  <2>1. msgs' = PrunedMsgs /\ ready' = ready /\ tokens' = tokens
    BY <1>2 DEF EnqueueOther, Enqueue
  <2>2. Drawn'
    <3>1. ASSUME NEW j \in Ids PROVE msgs'[j].retries <= tokens
      BY <1>0, <2>1, Known DEF Drawn
    <3>. QED BY <1>0, <2>1, <3>1, Known DEF Drawn
  <2>. QED BY <1>0, <2>1, <2>2, Known, Concluding DEF Enqueue
<1>. QED BY <1>1, <1>2 DEF Enqueue

(* What Receive finds before it looks for a task. *)
LEMMA ReceiveList ==
  ASSUME MInv, NEW woken \in SetToSeqs(Due), NEW list, list = ready \o woken
  PROVE  list \in Seq(Ids) /\ ToSet(list) = ReadyIn(Woken) /\ IsInjective(list)
<1>1. IsFiniteSet(Due)
  BY MemoryAssumption, FS_Subset, WokenType, Known
<1>2. woken \in Seq(Due) /\ ToSet(woken) = Due /\ IsInjective(woken)
  BY <1>1, OrderExact
<1>3. /\ Due \subseteq Ids /\ ReadyIn(msgs) \intersect Due = {}
      /\ ReadyIn(Woken) = ReadyIn(msgs) \union Due
  BY WokenType, Known
<1>4. woken \in Seq(Ids)
  BY <1>2, <1>3
<1>5. ready \in Seq(Ids) /\ ToSet(ready) = ReadyIn(msgs) /\ IsInjective(ready)
  BY Known
<1>6. \A r : r = ready \o woken =>
        r \in Seq(Ids) /\ ToSet(r) = ToSet(ready) \union ToSet(woken) /\ IsInjective(r)
  <2>1. ToSet(ready) \intersect ToSet(woken) = {}
    BY <1>2, <1>3, <1>5
  <2>. QED BY <1>2, <1>4, <1>5, <2>1, ConcatExact
<1>. QED BY <1>2, <1>3, <1>5, <1>6

LEMMA ClaimStep ==
  ASSUME MInv, NEW i \in Ids, ClaimLocked(i)
  PROVE  /\ msgs' \in [Ids -> Msg] /\ Drawn' /\ tokens' \in 0..MaxToken /\ issued' \subseteq Delivery
         /\ ReadyIn(msgs') = ReadyIn(Woken) \ {i}
<1>. DEFINE new == [Woken[i] EXCEPT !.state = "inflight", !.token = tokens + 1, !.at = clock + Lease]
<1>0. /\ Woken \in [Ids -> Msg] /\ \A j \in Ids : Woken[j].retries \in {msgs[j].retries, 0}
      /\ \A j \in Ids : Woken[j].state = "inflight" => Woken[j] = msgs[j]
  BY WokenType, Known
<1>1. /\ tokens' = tokens + 1 /\ tokens \in Nat /\ MaxToken \in Nat /\ tokens < MaxToken
      /\ clock + Lease \in Nat
  BY Known, MemoryAssumption DEF ClaimLocked
<1>2. tokens' \in 0..MaxToken /\ tokens + 1 \in 1..MaxToken /\ tokens + 1 \in 0..MaxToken /\ tokens <= tokens'
  BY <1>1
<1>3. Woken[i].retries \in Nat /\ Woken[i].retries <= tokens
  <2>1. msgs[i].retries \in 0..MaxToken /\ msgs[i].retries <= tokens
    BY Known DEF Msg, Drawn
  <2>. QED BY <1>0, <1>1, <2>1
<1>4. new \in Msg /\ new.state = "inflight" /\ new.token = tokens + 1 /\ new.retries = Woken[i].retries
  BY <1>0, <1>1, <1>2 DEF Msg
<1>5. msgs' = [Woken EXCEPT ![i] = new]
  BY DEF ClaimLocked
<1>. HIDE DEF new
<1>6. new.retries <= tokens' /\ new.retries < new.token /\ new.token <= tokens' /\ new.state # "ready"
  BY <1>1, <1>3, <1>4
<1>7. issued' \subseteq Delivery
  BY <1>2, Known DEF ClaimLocked, Delivery
<1>. QED BY <1>0, <1>2, <1>4, <1>5, <1>6, <1>7, OneTask

LEMMA ReceiveStep == ASSUME MInv, Receive PROVE MInv'
<1>0. done' \in [Ids -> Tombstone] /\ UNCHANGED <<closed, clock>>
  BY PrunedType, Known DEF Receive
<1>1. PICK woken \in SetToSeqs(Due) :
        \/ \E i \in Ids : Recover(i, ready \o woken)
        \/ \E k \in 1..Len(ready \o woken) : ClaimReady(k, ready \o woken)
        \/ QueueEmpty(ready \o woken)
  BY DEF Receive
<1>. DEFINE list == ready \o woken
            n == Len(list)
<1>2. list \in Seq(Ids) /\ ToSet(list) = ReadyIn(Woken) /\ IsInjective(list)
  BY ReceiveList
<1>. HIDE DEF list
<1>3. n \in Nat /\ DOMAIN list = 1..n /\ \A k \in 1..n : list[k] \in Ids
  BY <1>2
<1>4. \A k \in 1..n : Woken[list[k]].state = "ready"
  BY <1>2, <1>3 DEF ToSet, ReadyIn
<1>5. ASSUME NEW i \in Ids, Recover(i, list) PROVE MInv'
  <2>1. i \notin ReadyIn(Woken)
    BY <1>5, WokenType, Known DEF Recover, ReadyIn
  <2>2. /\ msgs' \in [Ids -> Msg] /\ Drawn' /\ tokens' \in 0..MaxToken /\ issued' \subseteq Delivery
        /\ ReadyIn(msgs') = ReadyIn(Woken) \ {i} /\ ready' = list
    BY <1>5, ClaimStep DEF Recover
  <2>. QED BY <1>0, <1>2, <2>1, <2>2, Known, Concluding
<1>6. ASSUME NEW k \in 1..n, ClaimReady(k, list) PROVE MInv'
  <2>1. ClaimLocked(list[k]) /\ ready' = SubSeq(list, k + 1, n)
        /\ \A j \in 1..(k - 1) : Woken[list[j]].state # "ready"
    BY <1>6 DEF ClaimReady, AfterPop
  <2>2. k = 1
    <3>1. k # 1 => 1 \in 1..(k - 1) /\ 1 \in 1..n
      BY <1>3
    <3>. QED BY <1>4, <2>1, <3>1
  <2>3. /\ ready' \in Seq(Ids) /\ Len(ready') = n - 1 /\ DOMAIN ready' = 1..(n - 1)
        /\ \A j \in 1..(n - 1) : ready'[j] = list[j + 1] /\ j + 1 \in 1..n /\ j + 1 # 1
    BY <1>2, <1>3, <2>1, <2>2
  <2>4. \A l \in 1..n : l = 1 \/ (l - 1 \in 1..(n - 1) /\ l = (l - 1) + 1)
    BY <1>3
  <2>5. \A l, m \in 1..n : list[l] = list[m] => l = m
    BY <1>2, <1>3 DEF IsInjective
  <2>6. IsInjective(ready')
    <3>1. ASSUME NEW l \in 1..(n - 1), NEW m \in 1..(n - 1), ready'[l] = ready'[m] PROVE l = m
      <4>1. l + 1 = m + 1
        BY <2>3, <2>5, <3>1
      <4>. QED BY <1>3, <4>1
    <3>. QED BY <2>3, <3>1 DEF IsInjective
  <2>7. 1 \in 1..n
    BY <2>2
  <2>8. ToSet(ready') = ToSet(list) \ {list[1]}
    <3>1. ToSet(ready') \subseteq ToSet(list) \ {list[1]}
      BY <1>3, <2>3, <2>5, <2>7 DEF ToSet
    <3>2. ToSet(list) \ {list[1]} \subseteq ToSet(ready')
      <4>1. ASSUME NEW l \in 1..n, list[l] # list[1] PROVE list[l] \in ToSet(ready')
        <5>1. l - 1 \in 1..(n - 1) /\ ready'[l - 1] = list[l]
          BY <2>3, <2>4, <4>1
        <5>. QED BY <2>3, <5>1 DEF ToSet
      <4>. QED BY <1>3, <4>1 DEF ToSet
    <3>. QED BY <3>1, <3>2
  <2>9. /\ msgs' \in [Ids -> Msg] /\ Drawn' /\ tokens' \in 0..MaxToken /\ issued' \subseteq Delivery
        /\ ReadyIn(msgs') = ReadyIn(Woken) \ {list[1]}
    BY <1>3, <2>1, <2>2, ClaimStep
  <2>. QED BY <1>0, <1>2, <2>3, <2>6, <2>8, <2>9, Known, Concluding
<1>7. CASE QueueEmpty(list)
  <2>1. /\ msgs' = Woken /\ ready' = <<>> /\ UNCHANGED <<tokens, issued>>
        /\ \A j \in 1..n : Woken[list[j]].state # "ready"
    BY <1>7 DEF QueueEmpty
  <2>2. ReadyIn(Woken) = {}
    BY <1>2, <1>3, <1>4, <2>1 DEF ToSet
  <2>3. ready' \in Seq(Ids) /\ ToSet(ready') = {} /\ IsInjective(ready')
    BY <2>1 DEF ToSet, IsInjective
  <2>4. /\ Woken \in [Ids -> Msg] /\ \A j \in Ids : Woken[j].retries \in {msgs[j].retries, 0}
        /\ \A j \in Ids : Woken[j].state = "inflight" => Woken[j] = msgs[j]
    BY WokenType, Known
  <2>5. Drawn'
    <3>1. \A j \in Ids : msgs'[j].retries <= tokens
      BY <2>1, <2>4, Known DEF Drawn
    <3>. QED BY <2>1, <2>4, <3>1, Known DEF Drawn
  <2>. QED BY <1>0, <2>1, <2>2, <2>3, <2>4, <2>5, Known, Concluding
<1>. QED BY <1>1, <1>5, <1>6, <1>7 DEF list

----------------------------------------------------------------------------
(* Ack, Renew, Retry and Fail: the task is no longer claimed, or is claimed again. *)
LEMMA DeliveryStep ==
  ASSUME MInv, NEW d \in issued, Current(d), NEW new \in Msg, msgs' = [msgs EXCEPT ![d.id] = new],
         new.state # "ready", new.retries <= tokens,
         new.state = "inflight" => new.retries < new.token /\ new.token <= tokens,
         done' \in [Ids -> Tombstone], UNCHANGED <<ready, closed, clock, tokens, issued>>
  PROVE  MInv'
<1>1. d.id \in Ids
  BY Known DEF Delivery
<1>2. msgs \in [Ids -> Msg] /\ tokens' \in 0..MaxToken /\ tokens <= tokens' /\ tokens' = tokens
  BY Known
<1>3. msgs' \in [Ids -> Msg] /\ Drawn' /\ ReadyIn(msgs') = ReadyIn(msgs) \ {d.id}
  <2>1. /\ new.retries <= tokens'
        /\ new.state = "inflight" => new.retries < new.token /\ new.token <= tokens'
    BY <1>2
  <2>2. /\ \A j \in Ids : msgs[j].retries \in {msgs[j].retries, 0}
        /\ \A j \in Ids : msgs[j].state = "inflight" => msgs[j] = msgs[j]
    OBVIOUS
  <2>. QED BY <1>1, <1>2, <2>1, <2>2, OneTask
<1>4. d.id \notin ReadyIn(msgs)
  BY DEF Current, ReadyIn
<1>. QED BY <1>2, <1>3, <1>4, Known, Concluding

LEMMA DeliveryTask ==
  ASSUME MInv, NEW d \in issued, Current(d)
  PROVE  /\ msgs[d.id] \in Msg /\ msgs[d.id].state = "inflight"
         /\ msgs[d.id].retries \in Nat /\ msgs[d.id].token \in 0..MaxToken /\ msgs[d.id].hash \in Contents
         /\ msgs[d.id].retries < msgs[d.id].token /\ msgs[d.id].token <= tokens /\ tokens \in 0..MaxToken
<1>1. d.id \in Ids
  BY Known DEF Delivery
<1>2. msgs[d.id] \in Msg
  BY <1>1, Known
<1>3. msgs[d.id].retries \in 0..MaxToken /\ msgs[d.id].token \in 0..MaxToken
  BY <1>2 DEF Msg
<1>. QED BY <1>1, <1>2, <1>3, Known DEF Current, Drawn, Msg

LEMMA AckStep == ASSUME MInv, NEW d \in issued, Ack(d) PROVE MInv'
<1>1. /\ Current(d) /\ msgs' = [msgs EXCEPT ![d.id] = NoMsg]
      /\ UNCHANGED <<ready, closed, clock, tokens, issued>>
  BY DEF Ack
<1>2. done' \in [Ids -> Tombstone]
  <2>1. clock + DedupWindow \in Nat
    BY Known, MemoryAssumption
  <2>. DEFINE new == [hash |-> msgs[d.id].hash, until |-> clock + DedupWindow]
  <2>2. new \in Tombstone
    BY <1>1, <2>1, DeliveryTask DEF Tombstone
  <2>3. done' \in {done, [done EXCEPT ![d.id] = new]}
    BY DEF Ack
  <2>. HIDE DEF new
  <2>. QED BY <2>2, <2>3, Known
<1>3. NoMsg.retries <= tokens
  BY EmptyType, Known
<1>. QED BY <1>1, <1>2, <1>3, EmptyType, DeliveryStep

LEMMA RenewStep == ASSUME MInv, NEW d \in issued, Renew(d) PROVE MInv'
<1>. DEFINE new == [msgs[d.id] EXCEPT !.at = clock + Lease]
<1>1. Current(d) /\ msgs' = [msgs EXCEPT ![d.id] = new] /\ UNCHANGED <<ready, done, closed, clock, tokens, issued>>
  BY DEF Renew
<1>2. clock + Lease \in Nat
  BY Known, MemoryAssumption
<1>3. /\ new \in Msg /\ new.state = "inflight" /\ new.retries = msgs[d.id].retries
      /\ new.token = msgs[d.id].token
  BY <1>1, <1>2, DeliveryTask DEF Msg
<1>. HIDE DEF new
<1>4. new.retries <= tokens /\ new.retries < new.token /\ new.token <= tokens
  BY <1>1, <1>3, DeliveryTask, MemoryAssumption
<1>. QED BY <1>1, <1>3, <1>4, Known, DeliveryStep

LEMMA RetryStep == ASSUME MInv, NEW d \in issued, NEW delay \in Delays, Retry(d, delay) PROVE MInv'
<1>. DEFINE new == [msgs[d.id] EXCEPT !.state = "delayed", !.token = NoToken,
                                      !.retries = msgs[d.id].retries + 1,
                                      !.at = clock + NotNegative(delay)]
<1>1. Current(d) /\ msgs' = [msgs EXCEPT ![d.id] = new] /\ UNCHANGED <<ready, done, closed, clock, tokens, issued>>
  BY DEF Retry
<1>2. clock + NotNegative(delay) \in Nat
  BY Known, MemoryAssumption DEF NotNegative
<1>3. msgs[d.id].retries + 1 \in 0..MaxToken /\ msgs[d.id].retries + 1 <= tokens
  BY <1>1, DeliveryTask, MemoryAssumption
<1>4. NoToken \in 0..MaxToken
  BY MemoryAssumption DEF NoToken
<1>5. new \in Msg /\ new.state = "delayed" /\ new.retries = msgs[d.id].retries + 1
  BY <1>1, <1>2, <1>3, <1>4, DeliveryTask DEF Msg
<1>. HIDE DEF new
<1>. QED BY <1>1, <1>3, <1>5, Known, DeliveryStep

LEMMA FailStep == ASSUME MInv, NEW d \in issued, Fail(d) PROVE MInv'
<1>. DEFINE new == [msgs[d.id] EXCEPT !.state = "failed", !.token = NoToken, !.at = clock]
<1>1. Current(d) /\ msgs' = [msgs EXCEPT ![d.id] = new] /\ UNCHANGED <<ready, done, closed, clock, tokens, issued>>
  BY DEF Fail
<1>2. NoToken \in 0..MaxToken /\ clock \in Nat
  BY Known, MemoryAssumption DEF NoToken
<1>3. new \in Msg /\ new.state = "failed" /\ new.retries = msgs[d.id].retries
  BY <1>1, <1>2, DeliveryTask DEF Msg
<1>. HIDE DEF new
<1>4. new.retries <= tokens
  BY <1>1, <1>3, DeliveryTask, MemoryAssumption
<1>. QED BY <1>1, <1>3, <1>4, Known, DeliveryStep

LEMMA ReplayStep == ASSUME MInv, NEW i \in Ids, ReplayFailed(i) PROVE MInv'
<1>. DEFINE new == [msgs[i] EXCEPT !.state = "ready", !.retries = 0, !.at = 0]
<1>1. msgs' = [msgs EXCEPT ![i] = new] /\ ready' = Append(ready, i) /\ UNCHANGED <<done, closed, clock, tokens, issued>>
  BY DEF ReplayFailed
<1>2. new \in Msg /\ new.state = "ready" /\ new.retries = 0
  <2>1. 0 \in 0..MaxToken /\ msgs[i] \in Msg
    BY Known, MemoryAssumption
  <2>. QED BY <2>1 DEF Msg
<1>. HIDE DEF new
<1>3. tokens' \in 0..MaxToken /\ tokens <= tokens' /\ msgs \in [Ids -> Msg] /\ new.retries <= tokens'
  BY <1>1, <1>2, Known
<1>4. msgs' \in [Ids -> Msg] /\ Drawn' /\ ReadyIn(msgs') = ReadyIn(msgs) \union {i}
  BY <1>1, <1>2, <1>3, OneTask
<1>5. i \notin ToSet(ready)
  BY Known DEF ReplayFailed, ReadyIn
<1>6. \A r : r = Append(ready, i) =>
        r \in Seq(Ids) /\ ToSet(r) = ToSet(ready) \union {i} /\ IsInjective(r)
  BY <1>5, Known, AppendExact
<1>. QED BY <1>1, <1>3, <1>4, <1>6, Known, Concluding

LEMMA RestStep == ASSUME MInv, Close \/ Tick \/ UNCHANGED vars PROVE MInv'
<1>1. /\ UNCHANGED <<msgs, ready, done, tokens, issued>> /\ closed' \in BOOLEAN /\ clock' \in Nat
  <2>1. CASE Close
    BY <2>1, Known DEF Close
  <2>2. CASE Tick
    BY <2>2, Known DEF Tick, queue
  <2>3. CASE UNCHANGED vars
    BY <2>3, Known DEF vars, queue
  <2>. QED BY <2>1, <2>2, <2>3
<1>2. Drawn' /\ ReadyIn(msgs') = ReadyIn(msgs)
  BY <1>1, Known DEF Drawn
<1>. QED BY <1>1, <1>2, Known, Concluding

LEMMA MemoryInvariant == Spec => []MInv
<1>1. Init => MInv
  BY MemoryInit
<1>2. MInv /\ [Next]_vars => MInv'
  BY EnqueueStep, ReceiveStep, AckStep, RenewStep, RetryStep, FailStep, ReplayStep, RestStep DEF Next
<1>. QED BY <1>1, <1>2, PTL DEF Spec

(* Every reachable state has the types above: in particular a task has been retried
   less often than tokens were drawn. *)
THEOREM MemoryTypeCorrect == Spec => []TypeOK
<1>1. MInv => TypeOK
  BY DEF MInv
<1>. QED BY <1>1, MemoryInvariant, PTL

(* The list of ready ids holds the ready tasks, each once, and nothing else, whatever
   the methods are called with and in whatever order. *)
THEOREM ReadyExactCorrect == Spec => []ReadyExact
<1>1. MInv => ReadyExact
  BY DEF MInv
<1>. QED BY <1>1, MemoryInvariant, PTL
----------------------------------------------------------------------------
USE MemoryAssumption

(* The refinement of ReliableQueue.  View is what a caller can tell of one
   task m at the time k. *)
Left(time, k) == IF time > k THEN time - k ELSE 0

ViewState(m) ==
  IF m.state = "absent" THEN "absent"
  ELSE IF m.state = "inflight" THEN "claimed"
  ELSE IF m.state = "failed" THEN "failed" ELSE "waiting"

ViewLeft(m, k) == IF m.state = "failed" THEN Left(m.at + Retention, k) ELSE Left(m.at, k)

View(m, k) ==
  [st |-> ViewState(m), content |-> m.hash, stable |-> m.dedup, retries |-> m.retries,
   holder |-> m.token, left |-> ViewLeft(m, k)]

LEMMA ViewTask ==
  /\ \A i \in Ids : AbstractTask[i] = View(msgs[i], clock)
  /\ \A i \in Ids : AbstractTask'[i] = View(msgs'[i], clock')
<1>1. ASSUME NEW i \in Ids
      PROVE  AbstractState(i) = ViewState(msgs[i]) /\ AbstractLeft(i) = ViewLeft(msgs[i], clock)
  BY DEF AbstractState, AbstractLeft, ViewState, ViewLeft, Until, Left
<1>2. ASSUME NEW i \in Ids
      PROVE  AbstractState(i)' = ViewState(msgs'[i]) /\ AbstractLeft(i)' = ViewLeft(msgs'[i], clock')
  BY DEF AbstractState, AbstractLeft, ViewState, ViewLeft, Until, Left
<1>3. QED
  BY <1>1, <1>2 DEF AbstractTask, View

LEMMA TaskFields ==
  ASSUME NEW i \in Ids
  PROVE  /\ AbstractTask[i].st = ViewState(msgs[i])
         /\ AbstractTask[i].content = msgs[i].hash
         /\ AbstractTask[i].stable = msgs[i].dedup
         /\ AbstractTask[i].retries = msgs[i].retries
         /\ AbstractTask[i].holder = msgs[i].token
         /\ AbstractTask[i].left = ViewLeft(msgs[i], clock)
<1>1. AbstractTask[i] = View(msgs[i], clock)
  BY ViewTask
<1>2. QED
  BY <1>1 DEF View

LEMMA NextTaskFields ==
  ASSUME NEW i \in Ids
  PROVE  /\ AbstractTask'[i].st = ViewState(msgs'[i])
         /\ AbstractTask'[i].content = msgs'[i].hash
         /\ AbstractTask'[i].stable = msgs'[i].dedup
         /\ AbstractTask'[i].retries = msgs'[i].retries
         /\ AbstractTask'[i].holder = msgs'[i].token
         /\ AbstractTask'[i].left = ViewLeft(msgs'[i], clock')
<1>1. AbstractTask'[i] = View(msgs'[i], clock')
  BY ViewTask
<1>2. QED
  BY <1>1 DEF View

LEMMA ViewDone ==
  /\ \A i \in Ids : AbstractDone[i] = Left(done[i].until, clock)
  /\ \A i \in Ids : AbstractDone'[i] = Left(done'[i].until, clock')
BY DEF AbstractDone, Until, Left

TaskRecord == [st : {"absent", "waiting", "claimed", "failed"}, content : Contents,
               stable : BOOLEAN, retries : Nat, holder : Nat, left : Nat]

LEMMA ViewType ==
  ASSUME NEW m \in Msg, NEW k \in Nat
  PROVE  View(m, k) \in TaskRecord
<1>1. m.at \in Nat /\ Retention \in Nat
  BY DEF Msg
<1>2. \A time \in Int : Left(time, k) \in Nat
  BY DEF Left
<1>3. ViewLeft(m, k) \in Nat
  BY <1>1, <1>2 DEF ViewLeft
<1>4. ViewState(m) \in {"absent", "waiting", "claimed", "failed"}
  BY DEF ViewState
<1>5. m.hash \in Contents /\ m.dedup \in BOOLEAN /\ m.retries \in Nat /\ m.token \in Nat
  BY DEF Msg
<1>6. QED
  BY <1>3, <1>4, <1>5 DEF View, TaskRecord

LEMMA TaskType == TypeOK => \A i \in Ids : AbstractTask[i] \in TaskRecord
BY ViewTask, ViewType DEF TypeOK

LEMMA NextTaskType == TypeOK' => \A i \in Ids : AbstractTask'[i] \in TaskRecord
BY ViewTask, ViewType DEF TypeOK

LEMMA SameTask ==
  ASSUME NEW X \in TaskRecord, NEW Y \in TaskRecord, X.st = Y.st, X.content = Y.content,
         X.stable = Y.stable, X.retries = Y.retries, X.holder = Y.holder, X.left = Y.left
  PROVE  X = Y
BY DEF TaskRecord

(* What each operation of the promise makes of the record of one task, field
   by field. *)
LEMMA SubmitRecord ==
  ASSUME NEW X \in TaskRecord, NEW V \in TaskRecord, NEW c \in Contents, NEW d \in BOOLEAN,
         V.st = "waiting", V.content = c, V.stable = d,
         V.retries = X.retries, V.holder = X.holder, V.left = X.left
  PROVE  V = [X EXCEPT !.st = "waiting", !.content = c, !.stable = d]
<1> DEFINE Y == [X EXCEPT !.st = "waiting", !.content = c, !.stable = d]
<1>1. Y \in TaskRecord
  BY DEF TaskRecord
<1>2. /\ Y.st = "waiting" /\ Y.content = c /\ Y.stable = d
      /\ Y.retries = X.retries /\ Y.holder = X.holder /\ Y.left = X.left
  BY DEF TaskRecord
<1> HIDE DEF Y
<1>3. V = Y
  BY <1>1, <1>2, SameTask
<1>4. QED
  BY <1>3 DEF Y

LEMMA ClaimRecord ==
  ASSUME NEW X \in TaskRecord, NEW V \in TaskRecord, NEW t \in Nat, NEW k \in Nat,
         V.st = "claimed", V.content = X.content, V.stable = X.stable,
         V.retries = X.retries, V.holder = t, V.left = k
  PROVE  V = [X EXCEPT !.st = "claimed", !.holder = t, !.left = k]
<1> DEFINE Y == [X EXCEPT !.st = "claimed", !.holder = t, !.left = k]
<1>1. Y \in TaskRecord
  BY DEF TaskRecord
<1>2. /\ Y.st = "claimed" /\ Y.content = X.content /\ Y.stable = X.stable
      /\ Y.retries = X.retries /\ Y.holder = t /\ Y.left = k
  BY DEF TaskRecord
<1> HIDE DEF Y
<1>3. V = Y
  BY <1>1, <1>2, SameTask
<1>4. QED
  BY <1>3 DEF Y

LEMMA RetryRecord ==
  ASSUME NEW X \in TaskRecord, NEW V \in TaskRecord, NEW t \in Nat, NEW k \in Nat, NEW n \in Nat,
         V.st = "waiting", V.content = X.content, V.stable = X.stable,
         V.retries = n, V.holder = t, V.left = k
  PROVE  V = [X EXCEPT !.st = "waiting", !.holder = t, !.left = k, !.retries = n]
<1> DEFINE Y == [X EXCEPT !.st = "waiting", !.holder = t, !.left = k, !.retries = n]
<1>1. Y \in TaskRecord
  BY DEF TaskRecord
<1>2. /\ Y.st = "waiting" /\ Y.content = X.content /\ Y.stable = X.stable
      /\ Y.retries = n /\ Y.holder = t /\ Y.left = k
  BY DEF TaskRecord
<1> HIDE DEF Y
<1>3. V = Y
  BY <1>1, <1>2, SameTask
<1>4. QED
  BY <1>3 DEF Y

LEMMA FailRecord ==
  ASSUME NEW X \in TaskRecord, NEW V \in TaskRecord, NEW t \in Nat, NEW k \in Nat,
         V.st = "failed", V.content = X.content, V.stable = X.stable,
         V.retries = X.retries, V.holder = t, V.left = k
  PROVE  V = [X EXCEPT !.st = "failed", !.holder = t, !.left = k]
<1> DEFINE Y == [X EXCEPT !.st = "failed", !.holder = t, !.left = k]
<1>1. Y \in TaskRecord
  BY DEF TaskRecord
<1>2. /\ Y.st = "failed" /\ Y.content = X.content /\ Y.stable = X.stable
      /\ Y.retries = X.retries /\ Y.holder = t /\ Y.left = k
  BY DEF TaskRecord
<1> HIDE DEF Y
<1>3. V = Y
  BY <1>1, <1>2, SameTask
<1>4. QED
  BY <1>3 DEF Y

LEMMA ReplayRecord ==
  ASSUME NEW X \in TaskRecord, NEW V \in TaskRecord, NEW n \in Nat, NEW k \in Nat,
         V.st = "waiting", V.content = X.content, V.stable = X.stable,
         V.retries = n, V.holder = X.holder, V.left = k
  PROVE  V = [X EXCEPT !.st = "waiting", !.retries = n, !.left = k]
<1> DEFINE Y == [X EXCEPT !.st = "waiting", !.retries = n, !.left = k]
<1>1. Y \in TaskRecord
  BY DEF TaskRecord
<1>2. /\ Y.st = "waiting" /\ Y.content = X.content /\ Y.stable = X.stable
      /\ Y.retries = n /\ Y.holder = X.holder /\ Y.left = k
  BY DEF TaskRecord
<1> HIDE DEF Y
<1>3. V = Y
  BY <1>1, <1>2, SameTask
<1>4. QED
  BY <1>3 DEF Y

LEMMA LeftRecord ==
  ASSUME NEW X \in TaskRecord, NEW V \in TaskRecord, NEW k \in Nat,
         V.st = X.st, V.content = X.content, V.stable = X.stable,
         V.retries = X.retries, V.holder = X.holder, V.left = k
  PROVE  V = [X EXCEPT !.left = k]
<1> DEFINE Y == [X EXCEPT !.left = k]
<1>1. Y \in TaskRecord
  BY DEF TaskRecord
<1>2. /\ Y.st = X.st /\ Y.content = X.content /\ Y.stable = X.stable
      /\ Y.retries = X.retries /\ Y.holder = X.holder /\ Y.left = k
  BY DEF TaskRecord
<1> HIDE DEF Y
<1>3. V = Y
  BY <1>1, <1>2, SameTask
<1>4. QED
  BY <1>3 DEF Y

(* One task changes, the tasks in P are dropped. *)
LEMMA TaskTable ==
  ASSUME NEW P \in SUBSET Ids, NEW i \in Ids, NEW X, AbstractTask'[i] = X,
         \A j \in Ids : j # i => AbstractTask'[j] = IF j \in P THEN Promise!Absent
                                                    ELSE AbstractTask[j]
  PROVE  AbstractTask' = [Promise!Without(P) EXCEPT ![i] = X]
BY DEF Promise!Without, AbstractTask

LEMMA OnlyTask ==
  ASSUME NEW i \in Ids, NEW X, AbstractTask'[i] = X,
         \A j \in Ids : j # i => AbstractTask'[j] = AbstractTask[j]
  PROVE  /\ AbstractTask' = [AbstractTask EXCEPT ![i] = X]
         /\ AbstractTask' = [Promise!Without({}) EXCEPT ![i] = X]
BY DEF Promise!Without, AbstractTask

LEMMA AbsentView ==
  /\ Promise!Absent \in TaskRecord
  /\ Promise!Absent.retries = 0 /\ Promise!Absent.holder = NoToken /\ Promise!Absent.left = 0
  /\ \A k \in Nat : View(NoMsg, k) = Promise!Absent
<1>1. \A k \in Nat : Left(0, k) = 0
  BY DEF Left
<1>2. \A k \in Nat : View(NoMsg, k) = Promise!Absent
  BY <1>1 DEF View, ViewState, ViewLeft, NoMsg, Promise!Absent, AnyContent, NoToken
<1>3. QED
  BY <1>2 DEF Promise!Absent, TaskRecord, NoToken

(* A ready task has nothing to wait for, and the token of the next claim is a
   new one. *)
FreshInv ==
  /\ \A i \in Ids : msgs[i].state = "ready" => msgs[i].at = 0
  /\ \A d \in issued : d.tok <= tokens

RefineInv == MInv /\ FreshInv

(* What pruning leaves of the tasks and of the tombstones. *)
LEMMA PruneView ==
  ASSUME RefineInv
  PROVE  /\ Outdated = Promise!Outdated
         /\ \A i \in Ids : View(PrunedMsgs[i], clock) =
              IF i \in Outdated THEN Promise!Absent ELSE AbstractTask[i]
         /\ \A i \in Ids : Left(PrunedDone[i].until, clock) = AbstractDone[i]
<1>0. clock \in Nat /\ msgs \in [Ids -> Msg] /\ done \in [Ids -> Tombstone]
  BY Known DEF RefineInv
<1>1. ASSUME NEW i \in Ids PROVE i \in Outdated <=> i \in Promise!Outdated
  <2>1. AbstractTask[i].st = "failed" <=> msgs[i].state = "failed"
    BY TaskFields DEF ViewState
  <2>2. msgs[i].state = "failed" =>
          (AbstractTask[i].left = 0 <=> clock - msgs[i].at >= Retention)
    <3>1. msgs[i].at \in Nat
      BY <1>0 DEF Msg
    <3>2. Left(msgs[i].at + Retention, clock) = 0 <=> clock - msgs[i].at >= Retention
      BY <1>0, <3>1 DEF Left
    <3>3. QED
      BY <3>2, TaskFields DEF ViewLeft
  <2>3. QED
    BY <2>1, <2>2 DEF Outdated, Promise!Outdated, Promise!Failed
<1>2. Outdated = Promise!Outdated
  BY <1>1 DEF Outdated, Promise!Outdated
<1>3. \A i \in Ids : View(PrunedMsgs[i], clock) =
        IF i \in Outdated THEN Promise!Absent ELSE AbstractTask[i]
  BY <1>0, AbsentView, ViewTask DEF PrunedMsgs
<1>4. ASSUME NEW i \in Ids PROVE Left(PrunedDone[i].until, clock) = AbstractDone[i]
  <2>1. AbstractDone[i] = Left(done[i].until, clock) /\ done[i].until \in Int
    BY <1>0, ViewDone DEF Tombstone, Never
  <2>2. PrunedDone[i] = IF done[i].until <= clock THEN NoTombstone ELSE done[i]
    BY DEF PrunedDone
  <2>3. Left(Never, clock) = 0 /\ (done[i].until <= clock => Left(done[i].until, clock) = 0)
    BY <1>0, <2>1 DEF Left, Never
  <2>4. QED
    BY <2>1, <2>2, <2>3 DEF NoTombstone
<1>5. QED
  BY <1>2, <1>3, <1>4

LEMMA RefineEnqueue ==
  ASSUME RefineInv, TypeOK', NEW i \in Ids, NEW c \in Contents, NEW dedup \in BOOLEAN,
         Enqueue(i, c, dedup)
  PROVE  Promise!Submit(i, c, dedup, Outdated) \/ Promise!Prune(Outdated)
<1>0. /\ clock \in Nat /\ UNCHANGED <<clock, issued>> /\ done' = PrunedDone
      /\ PrunedMsgs \in [Ids -> Msg] /\ Outdated \in SUBSET Ids
  BY Known, PrunedType DEF RefineInv, Enqueue, Outdated
<1>1. AbstractDone' = AbstractDone
  <2>1. \A j \in Ids : AbstractDone'[j] = AbstractDone[j]
    BY <1>0, PruneView, ViewDone
  <2>2. QED
    BY <2>1 DEF AbstractDone
<1>2. CASE EnqueueNew(i, c, dedup)
  <2>1. AbstractTask[i].st = "absent" \/ i \in Outdated
    <3>1. i \notin Outdated => msgs[i].state = "absent"
      BY <1>2 DEF EnqueueNew, Live, PrunedMsgs
    <3>2. QED
      BY <3>1, TaskFields DEF ViewState
  <2>2. dedup => AbstractDone[i] = 0
    <3>1. dedup => PrunedDone[i] = NoTombstone
      BY <1>2 DEF EnqueueNew
    <3>2. NoTombstone.until = Never /\ Left(Never, clock) = 0
      BY <1>0 DEF NoTombstone, Left, Never
    <3>3. Left(PrunedDone[i].until, clock) = AbstractDone[i]
      BY PruneView
    <3>4. QED
      BY ONLY <3>1, <3>2, <3>3, Zenon
  <2>3. msgs' = [PrunedMsgs EXCEPT ![i] =
                   [NoMsg EXCEPT !.state = "ready", !.hash = c, !.dedup = dedup]]
    BY <1>2 DEF EnqueueNew
  <2>4. /\ msgs'[i].state = "ready" /\ msgs'[i].hash = c /\ msgs'[i].dedup = dedup
        /\ msgs'[i].retries = 0 /\ msgs'[i].token = NoToken /\ msgs'[i].at = 0
        /\ \A j \in Ids : j # i => msgs'[j] = PrunedMsgs[j]
    BY <1>0, <2>3 DEF NoMsg
  <2>5. Left(0, clock) = 0
    BY <1>0 DEF Left
  <2>6. AbstractTask'[i].st = "waiting" /\ AbstractTask'[i].left = 0
    BY <1>0, <2>4, <2>5, NextTaskFields DEF ViewState, ViewLeft
  <2>7. AbstractTask'[i] \in TaskRecord
    BY NextTaskType
  <2>8. /\ AbstractTask'[i].content = c /\ AbstractTask'[i].stable = dedup
        /\ AbstractTask'[i].retries = 0 /\ AbstractTask'[i].holder = NoToken
    BY <2>4, NextTaskFields, Zenon
  <2>9. AbstractTask'[i] =
          [Promise!Absent EXCEPT !.st = "waiting", !.content = c, !.stable = dedup]
    <3> DEFINE X == Promise!Absent
               V == AbstractTask'[i]
    <3>1. /\ X \in TaskRecord /\ V \in TaskRecord
          /\ V.st = "waiting" /\ V.content = c /\ V.stable = dedup
          /\ V.retries = X.retries /\ V.holder = X.holder /\ V.left = X.left
      BY <2>6, <2>7, <2>8, AbsentView, Zenon
    <3> HIDE DEF X, V
    <3>2. V = [X EXCEPT !.st = "waiting", !.content = c, !.stable = dedup]
      BY ONLY c \in Contents, dedup \in BOOLEAN, <3>1, SubmitRecord, Zenon
    <3>3. QED
      BY <3>2 DEF X, V
  <2>10. \A j \in Ids : j # i =>
           AbstractTask'[j] = IF j \in Outdated THEN Promise!Absent ELSE AbstractTask[j]
    BY <1>0, <2>4, PruneView, ViewTask
  <2>11. AbstractTask' = [Promise!Without(Outdated) EXCEPT ![i] =
           [Promise!Absent EXCEPT !.st = "waiting", !.content = c, !.stable = dedup]]
    BY <1>0, <2>9, <2>10, TaskTable
  <2>12. QED
    BY <1>0, <1>1, <2>1, <2>2, <2>11 DEF Promise!Submit
<1>3. CASE EnqueueOther(i, c, dedup)
  <2>1. \A j \in Ids :
          AbstractTask'[j] = IF j \in Outdated THEN Promise!Absent ELSE AbstractTask[j]
    BY <1>0, <1>3, PruneView, ViewTask DEF EnqueueOther
  <2>2. AbstractTask' = Promise!Without(Outdated)
    BY <2>1 DEF AbstractTask, Promise!Without
  <2>3. QED
    BY <1>0, <1>1, <2>2 DEF Promise!Prune
<1>4. QED
  BY <1>2, <1>3 DEF Enqueue

(* A due retry looks the same when it is made ready. *)
LEMMA WokenView ==
  ASSUME RefineInv, NEW i \in Ids
  PROVE  /\ View(Woken[i], clock) = IF i \in Outdated THEN Promise!Absent ELSE AbstractTask[i]
         /\ Woken[i].state = "ready" => AbstractTask[i].st = "waiting" /\ AbstractTask[i].left = 0
         /\ Woken[i].state \in {"ready", "inflight"} =>
              /\ i \notin Outdated /\ Woken[i].hash = msgs[i].hash
              /\ Woken[i].dedup = msgs[i].dedup /\ Woken[i].retries = msgs[i].retries
<1>0. clock \in Nat /\ msgs[i] \in Msg /\ TypeOK /\ Left(0, clock) = 0
  BY Known DEF RefineInv, Left
<1>1. CASE i \in Due
  <2>1. /\ msgs[i].state = "delayed" /\ msgs[i].at <= clock /\ i \notin Outdated
        /\ Woken[i] = [msgs[i] EXCEPT !.state = "ready", !.at = 0]
    BY <1>1 DEF Due, Outdated, Woken
  <2>2. /\ Woken[i] \in Msg /\ Woken[i].state = "ready" /\ Woken[i].at = 0
        /\ Woken[i].hash = msgs[i].hash /\ Woken[i].dedup = msgs[i].dedup
        /\ Woken[i].retries = msgs[i].retries /\ Woken[i].token = msgs[i].token
    <3> DEFINE w == [msgs[i] EXCEPT !.state = "ready", !.at = 0]
    <3>1. /\ w \in Msg /\ w.state = "ready" /\ w.at = 0
          /\ w.hash = msgs[i].hash /\ w.dedup = msgs[i].dedup
          /\ w.retries = msgs[i].retries /\ w.token = msgs[i].token
      BY <1>0 DEF Msg
    <3>2. Woken[i] = w
      BY <2>1
    <3> HIDE DEF w
    <3>3. QED
      BY <3>1, <3>2
  <2>3. Left(msgs[i].at, clock) = 0
    BY <1>0, <2>1 DEF Left, Msg
  <2>4. AbstractTask[i].st = "waiting" /\ AbstractTask[i].left = 0
    BY <2>1, <2>3, TaskFields DEF ViewState, ViewLeft
  <2> DEFINE X == View(Woken[i], clock)
  <2>5. /\ X.st = "waiting" /\ X.left = 0 /\ X.content = msgs[i].hash
        /\ X.stable = msgs[i].dedup /\ X.retries = msgs[i].retries /\ X.holder = msgs[i].token
    BY <1>0, <2>2 DEF View, ViewState, ViewLeft
  <2>6. X \in TaskRecord /\ AbstractTask[i] \in TaskRecord
    BY <1>0, <2>2, TaskType, ViewType
  <2> HIDE DEF X
  <2>7. X = AbstractTask[i]
    <3>1. /\ AbstractTask[i].content = msgs[i].hash /\ AbstractTask[i].stable = msgs[i].dedup
          /\ AbstractTask[i].retries = msgs[i].retries /\ AbstractTask[i].holder = msgs[i].token
      BY TaskFields
    <3>2. QED
      BY ONLY <2>4, <2>5, <2>6, <3>1, SameTask, Zenon
  <2>8. QED
    BY <2>1, <2>2, <2>4, <2>7 DEF X
<1>2. CASE i \notin Due
  <2>1. Woken[i] = PrunedMsgs[i]
    BY <1>2 DEF Woken
  <2>2. Woken[i].state \in {"ready", "inflight"} => i \notin Outdated /\ Woken[i] = msgs[i]
    BY <2>1, EmptyType DEF PrunedMsgs
  <2>3. Woken[i].state = "ready" => AbstractTask[i].st = "waiting" /\ AbstractTask[i].left = 0
    <3>1. Woken[i].state = "ready" => msgs[i].state = "ready" /\ msgs[i].at = 0
      BY <2>2 DEF RefineInv, FreshInv
    <3>2. QED
      BY <1>0, <3>1, TaskFields DEF ViewState, ViewLeft
  <2>4. QED
    BY <2>1, <2>2, <2>3, PruneView
<1>3. QED
  BY <1>1, <1>2

LEMMA RefineClaim ==
  ASSUME RefineInv, TypeOK', NEW i \in Ids, ClaimLocked(i), clock' = clock,
         AbstractDone' = AbstractDone,
         AbstractTask[i].st \in {"waiting", "claimed"}, AbstractTask[i].left = 0,
         Woken[i].state \in {"ready", "inflight"}
  PROVE  tokens + 1 \in 1..MaxToken /\ Promise!Claim(i, tokens + 1, TRUE, Outdated)
<1>0. /\ clock \in Nat /\ tokens \in Nat /\ tokens + 1 \in 1..MaxToken /\ Woken \in [Ids -> Msg]
      /\ clock + Lease \in Nat /\ Lease \in Nat /\ Outdated \in SUBSET Ids
  BY Known, WokenType DEF RefineInv, ClaimLocked, Outdated
<1>1. msgs' = [Woken EXCEPT ![i] = [Woken[i] EXCEPT !.state = "inflight", !.token = tokens + 1,
                                                    !.at = clock + Lease]]
  BY DEF ClaimLocked
<1>2. /\ msgs'[i].state = "inflight" /\ msgs'[i].token = tokens + 1 /\ msgs'[i].at = clock + Lease
      /\ msgs'[i].hash = Woken[i].hash /\ msgs'[i].dedup = Woken[i].dedup
      /\ msgs'[i].retries = Woken[i].retries
      /\ \A j \in Ids : j # i => msgs'[j] = Woken[j]
  BY <1>0, <1>1 DEF Msg
<1>3. /\ Woken[i].hash = msgs[i].hash /\ Woken[i].dedup = msgs[i].dedup
      /\ Woken[i].retries = msgs[i].retries
  BY WokenView
<1>4. AbstractTask'[i].st = "claimed" /\ AbstractTask'[i].left = Lease
  <2>1. Left(clock + Lease, clock) = Lease
    BY <1>0 DEF Left
  <2>2. QED
    BY <1>2, <2>1, NextTaskFields DEF ViewState, ViewLeft
<1>5. /\ AbstractTask'[i].content = AbstractTask[i].content
      /\ AbstractTask'[i].stable = AbstractTask[i].stable
      /\ AbstractTask'[i].retries = AbstractTask[i].retries
      /\ AbstractTask'[i].holder = tokens + 1
  BY <1>2, <1>3, TaskFields, NextTaskFields
<1>6. AbstractTask'[i] =
        [AbstractTask[i] EXCEPT !.st = "claimed", !.holder = tokens + 1, !.left = Lease]
  <2> DEFINE X == AbstractTask[i]
             V == AbstractTask'[i]
             t == tokens + 1
  <2>1. t \in Nat /\ Lease \in Nat
    BY <1>0
  <2>2. /\ X \in TaskRecord /\ V \in TaskRecord
        /\ V.st = "claimed" /\ V.content = X.content /\ V.stable = X.stable
        /\ V.retries = X.retries /\ V.holder = t /\ V.left = Lease
    BY <1>4, <1>5, TaskType, NextTaskType, Known DEF RefineInv
  <2> HIDE DEF X, V, t
  <2>3. V = [X EXCEPT !.st = "claimed", !.holder = t, !.left = Lease]
    BY ONLY <2>1, <2>2, ClaimRecord, Zenon
  <2>4. QED
    BY <2>3 DEF X, V, t
<1>7. \A j \in Ids : j # i =>
        AbstractTask'[j] = IF j \in Outdated THEN Promise!Absent ELSE AbstractTask[j]
  BY <1>2, ViewTask, WokenView
<1>8. AbstractTask' = [Promise!Without(Outdated) EXCEPT ![i] =
        [AbstractTask[i] EXCEPT !.st = "claimed", !.holder = tokens + 1, !.left = Lease]]
  BY <1>0, <1>6, <1>7, TaskTable
<1>9. \A d \in issued : d.tok # tokens + 1
  BY <1>0, Known DEF RefineInv, FreshInv, Delivery
<1>10. issued' = issued \cup {[id |-> i, tok |-> tokens + 1]}
  BY DEF ClaimLocked
<1>11. QED
  BY <1>0, <1>8, <1>9, <1>10
     DEF Promise!Claim, Promise!Claimable, Promise!Waiting, Promise!Claimed

LEMMA RefineReceive ==
  ASSUME RefineInv, TypeOK', Receive
  PROVE  \/ \E i \in Ids, t \in 1..MaxToken : Promise!Claim(i, t, TRUE, Outdated)
         \/ Promise!Prune(Outdated)
<1>0. done' = PrunedDone /\ clock' = clock
  BY DEF Receive
<1>1. AbstractDone' = AbstractDone
  <2>1. \A j \in Ids : AbstractDone'[j] = AbstractDone[j]
    BY <1>0, PruneView, ViewDone
  <2>2. QED
    BY <2>1 DEF AbstractDone
<1>2. PICK woken \in SetToSeqs(Due) :
        \/ \E i \in Ids : Recover(i, ready \o woken)
        \/ \E k \in 1..Len(ready \o woken) : ClaimReady(k, ready \o woken)
        \/ QueueEmpty(ready \o woken)
  BY DEF Receive
<1> DEFINE list == ready \o woken
<1>3. list \in Seq(Ids)
  BY ReceiveList DEF RefineInv
<1> HIDE DEF list
<1>4. ASSUME NEW i \in Ids, Recover(i, list)
      PROVE  \E t \in 1..MaxToken : Promise!Claim(i, t, TRUE, Outdated)
  <2>1. i \in Expired /\ ClaimLocked(i)
    BY <1>4 DEF Recover
  <2>2. msgs[i].state = "inflight" /\ msgs[i].at <= clock /\ Woken[i].state = "inflight"
    BY <2>1, WokenType, Known DEF Expired, RefineInv
  <2>3. Left(msgs[i].at, clock) = 0
    BY <2>2, Known DEF RefineInv, Left, Msg
  <2>4. AbstractTask[i].st = "claimed" /\ AbstractTask[i].left = 0
    BY <2>2, <2>3, TaskFields DEF ViewState, ViewLeft
  <2>5. QED
    BY <1>0, <1>1, <2>1, <2>2, <2>4, RefineClaim
<1>5. ASSUME NEW k \in 1..Len(list), ClaimReady(k, list)
      PROVE  \E i \in Ids, t \in 1..MaxToken : Promise!Claim(i, t, TRUE, Outdated)
  <2>1. list[k] \in Ids /\ Woken[list[k]].state = "ready" /\ ClaimLocked(list[k])
    BY <1>3, <1>5 DEF ClaimReady
  <2>2. AbstractTask[list[k]].st = "waiting" /\ AbstractTask[list[k]].left = 0
    BY <2>1, WokenView
  <2>3. QED
    BY <1>0, <1>1, <2>1, <2>2, RefineClaim
<1>6. CASE QueueEmpty(list)
  <2>1. msgs' = Woken /\ issued' = issued
    BY <1>6 DEF QueueEmpty
  <2>2. \A j \in Ids :
          AbstractTask'[j] = IF j \in Outdated THEN Promise!Absent ELSE AbstractTask[j]
    BY <1>0, <2>1, ViewTask, WokenView
  <2>3. AbstractTask' = Promise!Without(Outdated)
    BY <2>2 DEF AbstractTask, Promise!Without
  <2>4. QED
    BY <1>1, <2>1, <2>3 DEF Promise!Prune
<1>7. QED
  BY <1>2, <1>4, <1>5, <1>6 DEF list

(* The delivery that is current holds its task, and no other task is touched
   by what it does. *)
LEMMA HolderView ==
  ASSUME RefineInv, NEW d \in issued, Current(d)
  PROVE  /\ d.id \in Ids /\ msgs \in [Ids -> Msg] /\ msgs[d.id] \in Msg /\ clock \in Nat
         /\ msgs[d.id].state = "inflight" /\ Promise!Holds(d)
         /\ AbstractTask[d.id] \in TaskRecord /\ AbstractTask[d.id].stable = msgs[d.id].dedup
<1>1. d.id \in Ids /\ msgs \in [Ids -> Msg] /\ msgs[d.id] \in Msg /\ clock \in Nat
  BY Known DEF RefineInv, Delivery
<1>2. msgs[d.id].state = "inflight" /\ msgs[d.id].token = d.tok
  BY DEF Current
<1>3. AbstractTask[d.id].st = "claimed" /\ AbstractTask[d.id].holder = d.tok
  BY <1>1, <1>2, TaskFields DEF ViewState
<1>4. AbstractTask[d.id] \in TaskRecord /\ AbstractTask[d.id].stable = msgs[d.id].dedup
  BY <1>1, TaskType, TaskFields, Known DEF RefineInv
<1>5. QED
  BY <1>1, <1>2, <1>3, <1>4 DEF Promise!Holds, Promise!Claimed

LEMMA OthersSame ==
  ASSUME msgs \in [Ids -> Msg], NEW i \in Ids, NEW w, msgs' = [msgs EXCEPT ![i] = w], clock' = clock
  PROVE  msgs'[i] = w /\ \A j \in Ids : j # i => AbstractTask'[j] = AbstractTask[j]
BY ViewTask

LEMMA RefineAck ==
  ASSUME RefineInv, NEW d \in issued, Ack(d)
  PROVE  Promise!Ack(d)
<1>1. /\ Current(d) /\ msgs' = [msgs EXCEPT ![d.id] = NoMsg] /\ UNCHANGED <<clock, issued>>
  BY DEF Ack
<1>2. msgs'[d.id] = NoMsg /\ \A j \in Ids : j # d.id => AbstractTask'[j] = AbstractTask[j]
  BY <1>1, HolderView, OthersSame
<1>3. AbstractTask'[d.id] = Promise!Absent
  BY <1>1, <1>2, HolderView, ViewTask, AbsentView
<1>4. AbstractTask' = [AbstractTask EXCEPT ![d.id] = Promise!Absent]
  BY <1>1, <1>2, <1>3, HolderView, OnlyTask
<1>5. AbstractDone' = IF msgs[d.id].dedup /\ DedupWindow > 0
                      THEN [AbstractDone EXCEPT ![d.id] = DedupWindow]
                      ELSE AbstractDone
  <2>0. clock \in Nat /\ done \in [Ids -> Tombstone] /\ d.id \in Ids
    BY <1>1, HolderView, Known DEF RefineInv
  <2>1. CASE msgs[d.id].dedup /\ DedupWindow > 0
    <3>1. done' = [done EXCEPT ![d.id] = [hash |-> msgs[d.id].hash, until |-> clock + DedupWindow]]
      BY <2>1 DEF Ack
    <3>2. done'[d.id].until = clock + DedupWindow /\ \A j \in Ids : j # d.id => done'[j] = done[j]
      BY <2>0, <3>1
    <3>3. Left(clock + DedupWindow, clock) = DedupWindow
      BY <2>0 DEF Left
    <3>4. AbstractDone'[d.id] = DedupWindow
      BY <1>1, <2>0, <3>2, <3>3, ViewDone
    <3>5. \A j \in Ids : j # d.id => AbstractDone'[j] = AbstractDone[j]
      BY <1>1, <3>2, ViewDone
    <3>6. AbstractDone' = [AbstractDone EXCEPT ![d.id] = DedupWindow]
      BY <3>4, <3>5 DEF AbstractDone
    <3>7. QED
      BY <2>1, <3>6
  <2>2. CASE ~(msgs[d.id].dedup /\ DedupWindow > 0)
    <3>1. done' = done
      BY <2>2 DEF Ack
    <3>2. AbstractDone' = AbstractDone
      BY <1>1, <3>1 DEF AbstractDone, Until
    <3>3. QED
      BY <2>2, <3>2
  <2>3. QED
    BY <2>1, <2>2
<1>6. QED
  BY <1>1, <1>4, <1>5, HolderView DEF Promise!Ack

LEMMA RefineRenew ==
  ASSUME RefineInv, TypeOK', NEW d \in issued, Renew(d)
  PROVE  Promise!Renew(d)
<1> DEFINE w == [msgs[d.id] EXCEPT !.at = clock + Lease]
<1>1. Current(d) /\ msgs' = [msgs EXCEPT ![d.id] = w] /\ UNCHANGED <<done, clock, issued>>
  BY DEF Renew
<1>2. /\ d.id \in Ids /\ AbstractTask[d.id] \in TaskRecord /\ AbstractTask'[d.id] \in TaskRecord
  BY <1>1, HolderView, NextTaskType
<1>3. /\ w.state = "inflight" /\ w.hash = msgs[d.id].hash /\ w.dedup = msgs[d.id].dedup
      /\ w.retries = msgs[d.id].retries /\ w.token = msgs[d.id].token /\ w.at = clock + Lease
  BY <1>1, HolderView DEF Msg
<1> HIDE DEF w
<1>4. msgs'[d.id] = w /\ \A j \in Ids : j # d.id => AbstractTask'[j] = AbstractTask[j]
  BY <1>1, HolderView, OthersSame
<1>5. AbstractTask'[d.id].left = Lease
  <2>1. Left(clock + Lease, clock) = Lease
    BY <1>1, HolderView DEF Left
  <2>2. QED
    BY <1>1, <1>2, <1>3, <1>4, <2>1, NextTaskFields DEF ViewLeft
<1>6. /\ AbstractTask'[d.id].st = AbstractTask[d.id].st
      /\ AbstractTask'[d.id].content = AbstractTask[d.id].content
      /\ AbstractTask'[d.id].stable = AbstractTask[d.id].stable
      /\ AbstractTask'[d.id].retries = AbstractTask[d.id].retries
      /\ AbstractTask'[d.id].holder = AbstractTask[d.id].holder
  BY <1>1, <1>2, <1>3, <1>4, HolderView, TaskFields, NextTaskFields DEF ViewState
<1>7. AbstractTask'[d.id] = [AbstractTask[d.id] EXCEPT !.left = Lease]
  <2>1. Lease \in Nat
    OBVIOUS
  <2>2. QED
    BY ONLY <1>2, <1>5, <1>6, <2>1, LeftRecord, Zenon
<1>8. AbstractTask' = [AbstractTask EXCEPT ![d.id] = [AbstractTask[d.id] EXCEPT !.left = Lease]]
  BY <1>2, <1>4, <1>7, OnlyTask
<1>9. AbstractDone' = AbstractDone
  BY <1>1 DEF AbstractDone, Until
<1>10. QED
  BY <1>1, <1>8, <1>9, HolderView DEF Promise!Renew

LEMMA RefineRetry ==
  ASSUME RefineInv, TypeOK', NEW d \in issued, NEW delay \in Delays, Retry(d, delay)
  PROVE  Promise!Retry(d, NotNegative(delay))
<1> DEFINE wait == NotNegative(delay)
           w == [msgs[d.id] EXCEPT !.state = "delayed", !.token = NoToken,
                                   !.retries = msgs[d.id].retries + 1, !.at = clock + wait]
<1>0. wait \in Nat
  BY DEF NotNegative
<1>1. Current(d) /\ msgs' = [msgs EXCEPT ![d.id] = w] /\ UNCHANGED <<done, clock, issued>>
  BY DEF Retry
<1> HIDE DEF wait
<1>2. /\ d.id \in Ids /\ AbstractTask[d.id] \in TaskRecord /\ AbstractTask'[d.id] \in TaskRecord
  BY <1>1, HolderView, NextTaskType
<1>3. /\ w.state = "delayed" /\ w.hash = msgs[d.id].hash /\ w.dedup = msgs[d.id].dedup
      /\ w.retries = msgs[d.id].retries + 1 /\ w.token = NoToken /\ w.at = clock + wait
  BY <1>1, HolderView DEF Msg
<1> HIDE DEF w
<1>4. msgs'[d.id] = w /\ \A j \in Ids : j # d.id => AbstractTask'[j] = AbstractTask[j]
  BY <1>1, HolderView, OthersSame
<1>5. AbstractTask'[d.id].left = wait
  <2>1. Left(clock + wait, clock) = wait
    BY <1>0, <1>1, HolderView DEF Left
  <2>2. QED
    BY <1>1, <1>2, <1>3, <1>4, <2>1, NextTaskFields DEF ViewLeft
<1>6. /\ AbstractTask'[d.id].st = "waiting"
      /\ AbstractTask'[d.id].content = AbstractTask[d.id].content
      /\ AbstractTask'[d.id].stable = AbstractTask[d.id].stable
      /\ AbstractTask'[d.id].retries = AbstractTask[d.id].retries + 1
      /\ AbstractTask'[d.id].holder = NoToken
  BY <1>2, <1>3, <1>4, TaskFields, NextTaskFields DEF ViewState
<1>7. AbstractTask'[d.id] =
        [AbstractTask[d.id] EXCEPT !.st = "waiting", !.holder = NoToken, !.left = wait,
                                   !.retries = AbstractTask[d.id].retries + 1]
  <2> DEFINE X == AbstractTask[d.id]
             V == AbstractTask'[d.id]
             n == AbstractTask[d.id].retries + 1
  <2>1. NoToken \in Nat /\ n \in Nat
    BY <1>2 DEF NoToken, TaskRecord
  <2>2. /\ X \in TaskRecord /\ V \in TaskRecord
        /\ V.st = "waiting" /\ V.content = X.content /\ V.stable = X.stable
        /\ V.retries = n /\ V.holder = NoToken /\ V.left = wait
    BY <1>2, <1>5, <1>6
  <2> HIDE DEF X, V, n
  <2>3. V = [X EXCEPT !.st = "waiting", !.holder = NoToken, !.left = wait, !.retries = n]
    BY ONLY <1>0, <2>1, <2>2, RetryRecord, Zenon
  <2>4. QED
    BY <2>3 DEF X, V, n
<1>8. AbstractTask' = [AbstractTask EXCEPT ![d.id] =
        [AbstractTask[d.id] EXCEPT !.st = "waiting", !.holder = NoToken, !.left = wait,
                                   !.retries = AbstractTask[d.id].retries + 1]]
  BY <1>2, <1>4, <1>7, OnlyTask
<1>9. AbstractDone' = AbstractDone
  BY <1>1 DEF AbstractDone, Until
<1>10. QED
  BY <1>1, <1>8, <1>9, HolderView DEF Promise!Retry, wait

LEMMA RefineFail ==
  ASSUME RefineInv, TypeOK', NEW d \in issued, Fail(d)
  PROVE  Promise!Fail(d, {})
<1> DEFINE w == [msgs[d.id] EXCEPT !.state = "failed", !.token = NoToken, !.at = clock]
<1>1. Current(d) /\ msgs' = [msgs EXCEPT ![d.id] = w] /\ UNCHANGED <<done, clock, issued>>
  BY DEF Fail
<1>2. /\ d.id \in Ids /\ AbstractTask[d.id] \in TaskRecord /\ AbstractTask'[d.id] \in TaskRecord
  BY <1>1, HolderView, NextTaskType
<1>3. /\ w.state = "failed" /\ w.hash = msgs[d.id].hash /\ w.dedup = msgs[d.id].dedup
      /\ w.retries = msgs[d.id].retries /\ w.token = NoToken /\ w.at = clock
  BY <1>1, HolderView DEF Msg
<1> HIDE DEF w
<1>4. msgs'[d.id] = w /\ \A j \in Ids : j # d.id => AbstractTask'[j] = AbstractTask[j]
  BY <1>1, HolderView, OthersSame
<1>5. AbstractTask'[d.id].left = Retention
  <2>1. Left(clock + Retention, clock) = Retention
    BY <1>1, HolderView DEF Left
  <2>2. QED
    BY <1>1, <1>2, <1>3, <1>4, <2>1, NextTaskFields DEF ViewLeft
<1>6. /\ AbstractTask'[d.id].st = "failed"
      /\ AbstractTask'[d.id].content = AbstractTask[d.id].content
      /\ AbstractTask'[d.id].stable = AbstractTask[d.id].stable
      /\ AbstractTask'[d.id].retries = AbstractTask[d.id].retries
      /\ AbstractTask'[d.id].holder = NoToken
  BY <1>2, <1>3, <1>4, TaskFields, NextTaskFields DEF ViewState
<1>7. AbstractTask'[d.id] =
        [AbstractTask[d.id] EXCEPT !.st = "failed", !.holder = NoToken, !.left = Retention]
  <2> DEFINE X == AbstractTask[d.id]
             V == AbstractTask'[d.id]
  <2>1. NoToken \in Nat /\ Retention \in Nat
    BY DEF NoToken
  <2>2. /\ X \in TaskRecord /\ V \in TaskRecord
        /\ V.st = "failed" /\ V.content = X.content /\ V.stable = X.stable
        /\ V.retries = X.retries /\ V.holder = NoToken /\ V.left = Retention
    BY <1>2, <1>5, <1>6
  <2> HIDE DEF X, V
  <2>3. V = [X EXCEPT !.st = "failed", !.holder = NoToken, !.left = Retention]
    BY ONLY <2>1, <2>2, FailRecord, Zenon
  <2>4. QED
    BY <2>3 DEF X, V
<1>8. AbstractTask' = [Promise!Without({}) EXCEPT ![d.id] =
        [AbstractTask[d.id] EXCEPT !.st = "failed", !.holder = NoToken, !.left = Retention]]
  BY <1>2, <1>4, <1>7, OnlyTask
<1>9. AbstractDone' = AbstractDone
  BY <1>1 DEF AbstractDone, Until
<1>10. QED
  BY <1>1, <1>8, <1>9, HolderView DEF Promise!Fail

LEMMA RefineReplay ==
  ASSUME RefineInv, TypeOK', NEW i \in Ids, ReplayFailed(i)
  PROVE  Promise!ReplayFailed(i)
<1> DEFINE w == [msgs[i] EXCEPT !.state = "ready", !.retries = 0, !.at = 0]
<1>1. /\ msgs[i].state = "failed" /\ msgs' = [msgs EXCEPT ![i] = w]
      /\ UNCHANGED <<done, clock, issued>>
  BY DEF ReplayFailed
<1>2. /\ msgs \in [Ids -> Msg] /\ msgs[i] \in Msg /\ clock \in Nat
      /\ AbstractTask[i] \in TaskRecord /\ AbstractTask'[i] \in TaskRecord
  BY Known, TaskType, NextTaskType DEF RefineInv
<1>3. /\ w.state = "ready" /\ w.hash = msgs[i].hash /\ w.dedup = msgs[i].dedup
      /\ w.retries = 0 /\ w.token = msgs[i].token /\ w.at = 0
  BY <1>2 DEF Msg
<1> HIDE DEF w
<1>4. msgs'[i] = w /\ \A j \in Ids : j # i => AbstractTask'[j] = AbstractTask[j]
  BY <1>1, <1>2, OthersSame
<1>5. AbstractTask[i].st = "failed"
  BY <1>1, TaskFields DEF ViewState
<1>6. AbstractTask'[i].left = 0
  <2>1. Left(0, clock) = 0
    BY <1>2 DEF Left
  <2>2. QED
    BY <1>1, <1>3, <1>4, <2>1, NextTaskFields DEF ViewLeft
<1>7. /\ AbstractTask'[i].st = "waiting"
      /\ AbstractTask'[i].content = AbstractTask[i].content
      /\ AbstractTask'[i].stable = AbstractTask[i].stable
      /\ AbstractTask'[i].retries = 0
      /\ AbstractTask'[i].holder = AbstractTask[i].holder
  BY <1>3, <1>4, TaskFields, NextTaskFields DEF ViewState
<1>8. AbstractTask'[i] = [AbstractTask[i] EXCEPT !.st = "waiting", !.retries = 0, !.left = 0]
  <2> DEFINE X == AbstractTask[i]
             V == AbstractTask'[i]
  <2>1. /\ X \in TaskRecord /\ V \in TaskRecord /\ 0 \in Nat
        /\ V.st = "waiting" /\ V.content = X.content /\ V.stable = X.stable
        /\ V.retries = 0 /\ V.holder = X.holder /\ V.left = 0
    BY <1>2, <1>6, <1>7
  <2> HIDE DEF X, V
  <2>2. V = [X EXCEPT !.st = "waiting", !.retries = 0, !.left = 0]
    BY ONLY <2>1, ReplayRecord, Zenon
  <2>3. QED
    BY <2>2 DEF X, V
<1>9. AbstractTask' = [AbstractTask EXCEPT ![i] =
         [AbstractTask[i] EXCEPT !.st = "waiting", !.retries = 0, !.left = 0]]
  BY <1>4, <1>8, OnlyTask
<1>10. AbstractDone' = AbstractDone
  BY <1>1 DEF AbstractDone, Until
<1>11. QED
  BY <1>1, <1>5, <1>9, <1>10 DEF Promise!ReplayFailed, Promise!Failed

(* Every remaining time is one tick less, or still nothing. *)
LEMMA LeftTick ==
  ASSUME NEW time \in Int, NEW k \in Nat
  PROVE  Left(time, k + 1) = Promise!Passed(Left(time, k))
BY DEF Left, Promise!Passed

LEMMA RefineTick ==
  ASSUME RefineInv, TypeOK', Tick
  PROVE  Promise!Tick
<1>1. clock \in Nat /\ clock' = clock + 1 /\ UNCHANGED <<msgs, done, issued>>
  BY Known DEF Tick, queue, RefineInv
<1>2. ASSUME NEW i \in Ids
      PROVE  AbstractTask'[i] =
               [AbstractTask[i] EXCEPT !.left = Promise!Passed(AbstractTask[i].left)]
  <2> DEFINE X == AbstractTask[i]
             V == AbstractTask'[i]
             k == Promise!Passed(AbstractTask[i].left)
  <2>1. X \in TaskRecord /\ V \in TaskRecord
    BY TaskType, NextTaskType, Known DEF RefineInv
  <2>2. /\ V.st = X.st /\ V.content = X.content /\ V.stable = X.stable
        /\ V.retries = X.retries /\ V.holder = X.holder
    BY <1>1, TaskFields, NextTaskFields
  <2>3. msgs[i].at \in Int /\ msgs[i].at + Retention \in Int
    BY Known DEF RefineInv, Msg
  <2>4. /\ X.left = ViewLeft(msgs[i], clock)
        /\ V.left = ViewLeft(msgs[i], clock + 1)
    BY <1>1, TaskFields, NextTaskFields
  <2>5. V.left = k
    <3> HIDE DEF X, V
    <3>1. \A time \in Int : Left(time, clock + 1) = Promise!Passed(Left(time, clock))
      BY <1>1, LeftTick
    <3>2. QED
      BY <2>3, <2>4, <3>1 DEF ViewLeft, X
  <2>6. k \in Nat
    BY <2>1 DEF TaskRecord, Promise!Passed
  <2> HIDE DEF X, V, k
  <2>7. V = [X EXCEPT !.left = k]
    BY ONLY <2>1, <2>2, <2>5, <2>6, LeftRecord, Zenon
  <2>8. QED
    BY <2>7 DEF X, V, k
<1>3. AbstractTask' = [i \in Ids |-> [AbstractTask[i] EXCEPT
                                        !.left = Promise!Passed(AbstractTask[i].left)]]
  BY <1>2 DEF AbstractTask
<1>4. ASSUME NEW i \in Ids
      PROVE  AbstractDone'[i] = Promise!Passed(AbstractDone[i])
  <2>1. done[i].until \in Int
    BY Known DEF RefineInv, Tombstone, Never
  <2>2. AbstractDone'[i] = Left(done[i].until, clock + 1)
    BY <1>1, ViewDone
  <2>3. QED
    BY <1>1, <2>1, <2>2, LeftTick, ViewDone
<1>5. AbstractDone' = [i \in Ids |-> Promise!Passed(AbstractDone[i])]
  BY <1>4 DEF AbstractDone
<1>6. QED
  BY <1>1, <1>3, <1>5 DEF Promise!Tick

LEMMA RefineNext ==
  ASSUME RefineInv, TypeOK', [Next]_vars
  PROVE  [Promise!Next]_Promise!vars
<1>0. Outdated \in SUBSET Promise!Outdated /\ {} \in SUBSET Promise!Outdated
  BY PruneView
<1>1. ASSUME NEW i \in Ids, NEW c \in Contents, NEW dedup \in BOOLEAN, Enqueue(i, c, dedup)
      PROVE  Promise!Next
  <2>1. Promise!Submit(i, c, dedup, Outdated) \/ Promise!Prune(Outdated)
    BY <1>1, RefineEnqueue
  <2>2. QED
    BY ONLY i \in Ids, c \in Contents, dedup \in BOOLEAN, <1>0, <2>1, Zenon DEF Promise!Next
<1>2. CASE Receive
  <2>1. \/ \E i \in Ids, t \in 1..MaxToken : Promise!Claim(i, t, TRUE, Outdated)
        \/ Promise!Prune(Outdated)
    BY <1>2, RefineReceive
  <2>2. TRUE \in BOOLEAN
    OBVIOUS
  <2>3. QED
    BY ONLY <1>0, <2>1, <2>2, Zenon DEF Promise!Next
<1>3. ASSUME NEW d \in issued, Fail(d)
      PROVE  Promise!Next
  <2>1. Promise!Fail(d, {})
    BY <1>3, RefineFail
  <2>2. QED
    BY ONLY d \in issued, <1>0, <2>1, Zenon DEF Promise!Next
<1>4. ASSUME NEW d \in issued, Ack(d) \/ Renew(d)
      PROVE  Promise!Next
  <2>1. Promise!Ack(d) \/ Promise!Renew(d)
    BY <1>4, RefineAck, RefineRenew
  <2>2. QED
    BY ONLY d \in issued, <2>1, Zenon DEF Promise!Next
<1>5. ASSUME NEW d \in issued, NEW delay \in Delays, Retry(d, delay)
      PROVE  Promise!Next
  <2>1. Promise!Retry(d, NotNegative(delay))
    BY <1>5, RefineRetry
  <2>2. NotNegative(delay) \in {NotNegative(other) : other \in Delays}
    OBVIOUS
  <2>3. QED
    BY ONLY d \in issued, <2>1, <2>2, Zenon DEF Promise!Next
<1>6. ASSUME NEW i \in Ids, ReplayFailed(i)
      PROVE  Promise!Next
  <2>1. Promise!ReplayFailed(i)
    BY <1>6, RefineReplay
  <2>2. QED
    BY ONLY i \in Ids, <2>1, Zenon DEF Promise!Next
<1>7. CASE Tick
  BY <1>7, RefineTick DEF Promise!Next
<1>8. CASE Close \/ UNCHANGED vars
  <2>1. UNCHANGED <<msgs, done, clock, issued>>
    BY <1>8 DEF Close, vars, queue
  <2>2. AbstractTask' = AbstractTask
    <3>1. \A i \in Ids : AbstractTask'[i] = AbstractTask[i]
      BY <2>1, ViewTask
    <3>2. QED
      BY <3>1 DEF AbstractTask
  <2>3. AbstractDone' = AbstractDone
    BY <2>1 DEF AbstractDone, Until
  <2>4. QED
    BY <2>1, <2>2, <2>3 DEF Promise!vars
<1>9. QED
  BY <1>1, <1>2, <1>3, <1>4, <1>5, <1>6, <1>7, <1>8 DEF Next

LEMMA RefineInit == Init => Promise!Init
<1> SUFFICES ASSUME Init PROVE Promise!Init
  OBVIOUS
<1>1. \A i \in Ids : AbstractTask[i] = Promise!Absent
  BY ViewTask, AbsentView DEF Init
<1>2. \A i \in Ids : AbstractDone[i] = 0
  BY DEF Init, AbstractDone, Until, NoTombstone, Never
<1>3. issued = {}
  BY DEF Init
<1>4. AbstractTask = [i \in Ids |-> Promise!Absent] /\ AbstractDone = [i \in Ids |-> 0]
  BY <1>1, <1>2 DEF AbstractTask, AbstractDone
<1>5. QED
  BY <1>3, <1>4 DEF Promise!Init

----------------------------------------------------------------------------
(* FreshInv is inductive. *)
LEMMA FreshChange ==
  ASSUME FreshInv, NEW i \in Ids, NEW w, msgs \in [Ids -> Msg], tokens \in Nat,
         msgs' = [msgs EXCEPT ![i] = w], w.state = "ready" => w.at = 0, UNCHANGED <<tokens, issued>>
  PROVE  FreshInv'
BY DEF FreshInv

LEMMA FreshPruned ==
  ASSUME FreshInv, MInv
  PROVE  /\ \A i \in Ids : PrunedMsgs[i].state = "ready" => PrunedMsgs[i].at = 0
         /\ \A i \in Ids : Woken[i].state = "ready" => Woken[i].at = 0
<1>0. msgs \in [Ids -> Msg] /\ NoMsg.state = "absent"
  BY Known, EmptyType
<1>1. \A i \in Ids : PrunedMsgs[i].state = "ready" => PrunedMsgs[i].at = 0
  BY <1>0 DEF PrunedMsgs, FreshInv
<1>2. ASSUME NEW i \in Ids, i \in Due PROVE Woken[i].at = 0
  <2> DEFINE w == [msgs[i] EXCEPT !.state = "ready", !.at = 0]
  <2>1. w.at = 0
    BY <1>0 DEF Msg
  <2>2. Woken[i] = w
    BY <1>2 DEF Woken
  <2> HIDE DEF w
  <2>3. QED
    BY <2>1, <2>2
<1>3. \A i \in Ids : i \notin Due => Woken[i] = PrunedMsgs[i]
  BY DEF Woken
<1>4. QED
  BY <1>1, <1>2, <1>3

LEMMA FreshClaim ==
  ASSUME FreshInv, MInv, NEW i \in Ids, ClaimLocked(i)
  PROVE  FreshInv'
<1>0. tokens \in Nat /\ Woken \in [Ids -> Msg]
  BY Known, WokenType
<1>1. msgs' = [Woken EXCEPT ![i] = [Woken[i] EXCEPT !.state = "inflight", !.token = tokens + 1,
                                                    !.at = clock + Lease]]
  BY DEF ClaimLocked
<1>2. msgs'[i].state = "inflight" /\ \A j \in Ids : j # i => msgs'[j] = Woken[j]
  BY <1>0, <1>1 DEF Msg
<1>3. \A j \in Ids : msgs'[j].state = "ready" => msgs'[j].at = 0
  BY <1>2, FreshPruned
<1>4. issued' = issued \cup {[id |-> i, tok |-> tokens + 1]} /\ tokens' = tokens + 1
  BY DEF ClaimLocked
<1>5. \A d \in issued' : d.tok <= tokens'
  BY <1>0, <1>4, Known DEF FreshInv, Delivery
<1>6. QED
  BY <1>3, <1>5 DEF FreshInv

LEMMA FreshNext == FreshInv /\ MInv /\ [Next]_vars => FreshInv'
<1> SUFFICES ASSUME FreshInv, MInv, [Next]_vars PROVE FreshInv'
  OBVIOUS
<1>0. msgs \in [Ids -> Msg] /\ tokens \in Nat /\ \A d \in issued : d.id \in Ids
  BY Known DEF Delivery
<1>1. ASSUME NEW i \in Ids, NEW c \in Contents, NEW dedup \in BOOLEAN, Enqueue(i, c, dedup)
      PROVE  FreshInv'
  <2>0. UNCHANGED <<tokens, issued>>
    BY <1>1, Zenon DEF Enqueue
  <2>1. CASE EnqueueNew(i, c, dedup)
    <3> DEFINE w == [NoMsg EXCEPT !.state = "ready", !.hash = c, !.dedup = dedup]
    <3>1. w.at = 0
      BY DEF NoMsg
    <3>2. msgs' = [PrunedMsgs EXCEPT ![i] = w]
      BY <2>1 DEF EnqueueNew
    <3> HIDE DEF w
    <3>3. \A j \in Ids : msgs'[j].state = "ready" => msgs'[j].at = 0
      BY <3>1, <3>2, PrunedType, FreshPruned
    <3>4. QED
      BY <2>0, <3>3 DEF FreshInv
  <2>2. CASE EnqueueOther(i, c, dedup)
    <3>1. msgs' = PrunedMsgs
      BY <2>2, Zenon DEF EnqueueOther
    <3>2. QED
      BY <2>0, <3>1, FreshPruned DEF FreshInv
  <2>3. QED
    BY <1>1, <2>1, <2>2, Zenon DEF Enqueue
<1>2. CASE Receive
  <2>1. PICK woken \in SetToSeqs(Due) :
          \/ \E i \in Ids : Recover(i, ready \o woken)
          \/ \E k \in 1..Len(ready \o woken) : ClaimReady(k, ready \o woken)
          \/ QueueEmpty(ready \o woken)
    BY <1>2 DEF Receive
  <2> DEFINE list == ready \o woken
  <2>2. list \in Seq(Ids)
    BY ReceiveList
  <2> HIDE DEF list
  <2>3. ASSUME NEW i \in Ids, Recover(i, list) PROVE FreshInv'
    BY <2>3, FreshClaim DEF Recover
  <2>4. ASSUME NEW k \in 1..Len(list), ClaimReady(k, list) PROVE FreshInv'
    BY <2>2, <2>4, FreshClaim DEF ClaimReady
  <2>5. CASE QueueEmpty(list)
    <3>1. msgs' = Woken /\ UNCHANGED <<tokens, issued>>
      BY <2>5 DEF QueueEmpty
    <3>2. QED
      BY <3>1, FreshPruned DEF FreshInv
  <2>6. QED
    BY <2>1, <2>3, <2>4, <2>5 DEF list
<1>3. ASSUME NEW d \in issued, Ack(d) PROVE FreshInv'
  BY <1>0, <1>3, EmptyType, FreshChange DEF Ack
<1>4. ASSUME NEW d \in issued, Renew(d) PROVE FreshInv'
  <2> DEFINE w == [msgs[d.id] EXCEPT !.at = clock + Lease]
  <2>1. w.state = "inflight"
    BY <1>0, <1>4 DEF Renew, Current, Msg
  <2>2. msgs' = [msgs EXCEPT ![d.id] = w] /\ UNCHANGED <<tokens, issued>>
    BY <1>4 DEF Renew
  <2> HIDE DEF w
  <2>3. QED
    BY <1>0, <2>1, <2>2, FreshChange
<1>5. ASSUME NEW d \in issued, NEW delay \in Delays, Retry(d, delay) PROVE FreshInv'
  <2> DEFINE w == [msgs[d.id] EXCEPT !.state = "delayed", !.token = NoToken,
                                     !.retries = msgs[d.id].retries + 1,
                                     !.at = clock + NotNegative(delay)]
  <2>1. w.state = "delayed"
    BY <1>0 DEF Msg
  <2>2. msgs' = [msgs EXCEPT ![d.id] = w] /\ UNCHANGED <<tokens, issued>>
    BY <1>5 DEF Retry
  <2> HIDE DEF w
  <2>3. QED
    BY <1>0, <2>1, <2>2, FreshChange
<1>6. ASSUME NEW d \in issued, Fail(d) PROVE FreshInv'
  <2> DEFINE w == [msgs[d.id] EXCEPT !.state = "failed", !.token = NoToken, !.at = clock]
  <2>1. w.state = "failed"
    BY <1>0 DEF Msg
  <2>2. msgs' = [msgs EXCEPT ![d.id] = w] /\ UNCHANGED <<tokens, issued>>
    BY <1>6 DEF Fail
  <2> HIDE DEF w
  <2>3. QED
    BY <1>0, <2>1, <2>2, FreshChange
<1>7. ASSUME NEW i \in Ids, ReplayFailed(i) PROVE FreshInv'
  <2> DEFINE w == [msgs[i] EXCEPT !.state = "ready", !.retries = 0, !.at = 0]
  <2>1. w.at = 0
    BY <1>0 DEF Msg
  <2>2. msgs' = [msgs EXCEPT ![i] = w] /\ UNCHANGED <<tokens, issued>>
    BY <1>7 DEF ReplayFailed
  <2> HIDE DEF w
  <2>3. QED
    BY <1>0, <2>1, <2>2, FreshChange
<1>8. CASE Close \/ Tick \/ UNCHANGED vars
  BY <1>8 DEF Close, Tick, vars, queue, FreshInv
<1>9. QED
  BY <1>1, <1>2, <1>3, <1>4, <1>5, <1>6, <1>7, <1>8 DEF Next

(* Every method of the engine is one operation of the reliable queue callers
   are promised, or changes nothing they can tell: for any number of tasks,
   callers, claims and retries, and whatever delays, negative ones included,
   Retry is called with. *)
THEOREM MemoryRefinementCorrect == Spec => ImplementsReliableQueue
<1>1. Init => FreshInv
  <2> SUFFICES ASSUME Init PROVE FreshInv
    OBVIOUS
  <2>1. \A i \in Ids : msgs[i] = NoMsg
    BY DEF Init
  <2>2. QED
    BY <2>1, EmptyType DEF Init, FreshInv
<1>2. MInv' => TypeOK'
  BY DEF MInv
<1>3. MInv /\ FreshInv /\ TypeOK' /\ [Next]_vars => [Promise!Next]_Promise!vars
  BY RefineNext DEF RefineInv
<1>4. QED
  BY <1>1, <1>2, <1>3, RefineInit, FreshNext, MemoryInvariant, PTL
     DEF Spec, ImplementsReliableQueue, Promise!Spec
=============================================================================
