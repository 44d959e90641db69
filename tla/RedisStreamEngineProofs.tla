---------------------- MODULE RedisStreamEngineProofs ----------------------
(***************************************************************************)
(* Proofs about RedisStreamEngine for every value of its constants: its    *)
(* types; that only the latest claim counts; that its keys agree, and what *)
(* is left of that when records vanish; the life of a record, and what     *)
(* follows from it for claims, failed tasks, payloads and tombstones; and  *)
(* that the scripts implement ReliableQueue.                               *)
(***************************************************************************)
EXTENDS RedisStreamEngine, FiniteSetTheorems, TLAPS

USE ConstantsAssumption

LEMMA NoRecordType == NoRecord \in Record
BY DEF NoRecord, Record, AnyContent, States, NoToken, NoEntry

LEMMA FieldTypes ==
  /\ NoToken \in 0..MaxToken /\ NoEntry \in Nat /\ Tokens \subseteq 0..MaxToken
  /\ 0 \in 0..MaxCount
  /\ \A k \in 0..MaxCount : k < MaxCount => k + 1 \in 0..MaxCount
BY DEF NoToken, NoEntry, Tokens

(* The scripts that take a delivery find a well-formed record. *)
LEMMA HoldsClaimType ==
  ASSUME TypeOK, NEW d \in issued
  PROVE  /\ d.id \in Ids /\ d.tok \in 1..MaxToken /\ d.n \in 1..MaxCount
         /\ rec[d.id] \in Record
BY DEF TypeOK, Delivery, Tokens

LEMMA TypeInit == Init => TypeOK
<1> SUFFICES ASSUME Init PROVE TypeOK
  OBVIOUS
<1> USE DEF Init
<1>1. rec \in [Ids -> Record]
  BY NoRecordType
<1>2. AnyContent \in Contents
  BY DEF AnyContent
<1>3. 0 \in Scores /\ NoScore \in Scores
  BY DEF Scores, Time, NoScore
<1>4. QED
  BY <1>1, <1>2, <1>3 DEF TypeOK, NoEntry, Time

LEMMA TypeEnqueue ==
  ASSUME TypeOK, NEW i \in Ids, NEW c \in Contents, NEW dedup \in BOOLEAN,
         Enqueue(i, c, dedup)
  PROVE  TypeOK'
<1>1. CASE EnqueueNew(i, c, dedup)
  <2>1. [NoRecord EXCEPT !.s = "ready", !.h = c, !.dd = dedup] \in Record
    BY NoRecordType DEF NoRecord, Record, States
  <2>2. rec' \in [Ids -> Record]
    BY <1>1, <2>1 DEF EnqueueNew, TypeOK
  <2>3. stream' \in SUBSET [eid : Nat, id : Ids] /\ lastEid' \in Nat
    BY <1>1 DEF EnqueueNew, TypeOK
  <2>4. confirmed' \in SUBSET (Ids \X Contents) /\ settled' \in SUBSET (Ids \X Contents)
    BY <1>1 DEF EnqueueNew, TypeOK
  <2>5. QED
    BY <1>1, <2>2, <2>3, <2>4 DEF EnqueueNew, TypeOK, client
<1>2. CASE EnqueueDuplicate(i, c, dedup)
  <2>1. confirmed' \in SUBSET (Ids \X Contents)
    BY <1>2 DEF EnqueueDuplicate, TypeOK
  <2>2. QED
    BY <1>2, <2>1 DEF EnqueueDuplicate, TypeOK, redis, client
<1>3. QED
  BY <1>1, <1>2 DEF Enqueue

(* What step 1 of receiveScript leaves for steps 2 and 3. *)
LEMMA PromoteType ==
  ASSUME TypeOK, NEW F \in SUBSET Ids,
         NEW at \in Positions(F)
  PROVE  /\ Promote(F) \in [Ids -> Record]
         /\ \A i \in Ids : Promote(F)[i].n = rec[i].n
         /\ Promoted(F, at) \in SUBSET [eid : Nat, id : Ids]
         /\ Cardinality(Promotable(F)) \in Nat
<1>1. ASSUME NEW i \in Ids PROVE /\ [rec[i] EXCEPT !.s = "ready"] \in Record
                                 /\ [rec[i] EXCEPT !.s = "ready"].n = rec[i].n
  <2>1. rec[i] \in Record
    BY DEF TypeOK
  <2>2. QED
    BY <2>1 DEF Record, States
<1>2. Promote(F) \in [Ids -> Record] /\ \A i \in Ids : Promote(F)[i].n = rec[i].n
  BY <1>1 DEF Promote, TypeOK
<1>3. Promotable(F) \subseteq Ids
  BY DEF Promotable
<1>4. Cardinality(Promotable(F)) \in Nat
  BY <1>3, FS_Subset, FS_CardinalityType
<1>5. \A i \in Promotable(F) : at[i] \in Nat
  BY <1>4 DEF TypeOK, Positions
<1>6. Promoted(F, at) \in SUBSET [eid : Nat, id : Ids]
  BY <1>3, <1>5 DEF Promoted, TypeOK
<1>7. QED
  BY <1>2, <1>4, <1>6

LEMMA TypeReply ==
  ASSUME TypeOK, NEW t \in Tokens, TokenOfCall(t), NEW i \in Ids, NEW n \in 1..MaxCount,
         NEW answered \in BOOLEAN, Reply(t, i, n, answered)
  PROVE  tokens' \in 0..MaxToken /\ open' \subseteq 1..tokens' /\ issued' \in SUBSET Delivery
<1>1. tokens' \in 0..MaxToken /\ tokens <= tokens' /\ t <= tokens'
  BY DEF Reply, TypeOK, Tokens, TokenOfCall
<1>2. open' \subseteq 1..tokens'
  <2>1. \A x \in open : x \in Int /\ 1 <= x /\ x <= tokens'
    BY <1>1 DEF TypeOK
  <2>2. open' \subseteq open \cup {t}
    BY DEF Reply
  <2>3. \A x \in open' : x \in Int /\ 1 <= x /\ x <= tokens'
    BY <1>1, <2>1, <2>2 DEF Tokens
  <2>4. QED
    BY <1>1, <2>3
<1>3. [id |-> i, tok |-> t, n |-> n] \in Delivery
  BY DEF Delivery
<1>4. issued' \in SUBSET Delivery
  BY <1>3 DEF Reply, TypeOK
<1>5. QED
  BY <1>1, <1>2, <1>4

LEMMA TypeReceive ==
  ASSUME TypeOK, NEW t \in Tokens, NEW answered \in BOOLEAN, Receive(t, answered)
  PROVE  TypeOK'
<1>1. PICK F \in SUBSET UpTo(delayed, clock), K \in SUBSET StaleLeases :
        \E at \in Positions(F) : ReceiveWith(t, answered, F, K, at)
  BY Zenon DEF Receive
<1>2. PICK at \in Positions(F) : ReceiveWith(t, answered, F, K, at)
  BY <1>1
<1> DEFINE R == Promote(F)
           st == Promoted(F, at)
<1>3. /\ R \in [Ids -> Record]
      /\ \A i \in Ids : R[i].n = rec[i].n
      /\ st \in SUBSET [eid : Nat, id : Ids]
      /\ Cardinality(Promotable(F)) \in Nat
  BY PromoteType DEF UpTo
<1>4. lastEid' \in Nat
  BY <1>2, <1>3 DEF ReceiveWith, TypeOK
<1>5. delayed' \in [Ids -> Scores]
  BY <1>2 DEF ReceiveWith, TypeOK, Scores
<1>6. TokenOfCall(t) /\ UNCHANGED <<tomb, failed, clock, ghost, lost>>
  BY <1>2, Zenon DEF Receive, ReceiveWith
<1>7. clock + Lease \in Scores /\ NoScore \in Scores
  BY DEF TypeOK, Scores, Time
<1> DEFINE Rest == /\ rec' \in [Ids -> Record]
                   /\ stream' \in SUBSET [eid : Nat, id : Ids]
                   /\ delivered' \in Nat /\ pel' \in SUBSET Nat
                   /\ leases' \in [Ids -> Scores]
                   /\ tokens' \in 0..MaxToken /\ open' \subseteq 1..tokens'
                   /\ issued' \in SUBSET Delivery
<1>8. ASSUME NEW i \in Ids, Recover(i, t, answered, K, R, st)
      PROVE  Rest
  <2> HIDE DEF R, st
  <2>1. R[i] \in Record /\ R[i].n \in 0..MaxCount /\ R[i].n < MaxCount
    BY <1>3, <1>8 DEF Recover, CheckRecord, CanInc, Record
  <2>2. [R[i] EXCEPT !.tok = t, !.n = R[i].n + 1] \in Record
    BY <2>1, FieldTypes DEF Record
  <2>3. rec' \in [Ids -> Record]
    BY <1>3, <1>8, <2>2 DEF Recover
  <2>4. leases' \in [Ids -> Scores]
    BY <1>7, <1>8 DEF Recover, TypeOK
  <2>5. stream' = st /\ UNCHANGED <<delivered, pel>> /\ Reply(t, i, R[i].n + 1, answered)
    BY <1>8 DEF Recover
  <2>6. tokens' \in 0..MaxToken /\ open' \subseteq 1..tokens' /\ issued' \in SUBSET Delivery
    <3>1. R[i].n + 1 \in 1..MaxCount
      BY <2>1
    <3>2. QED
      BY <1>6, <2>5, <3>1, TypeReply
  <2>7. QED
    BY <1>3, <2>3, <2>4, <2>5, <2>6 DEF TypeOK
<1>9. ASSUME NEW x \in st, ClaimNew(x, t, answered, K, R, st)
      PROVE  Rest
  <2> HIDE DEF R, st
  <2>0. x.id \in Ids /\ x.eid \in Nat
    BY <1>3
  <2>1. R[x.id] \in Record /\ R[x.id].n \in 0..MaxCount /\ R[x.id].n < MaxCount
    BY <1>3, <1>9, <2>0 DEF ClaimNew, CheckRecord, CanInc, Record
  <2>2. [R[x.id] EXCEPT !.s = "inflight", !.tok = t, !.e = x.eid,
                       !.n = R[x.id].n + 1] \in Record
    BY <2>0, <2>1, FieldTypes DEF Record, States
  <2>3. rec' \in [Ids -> Record]
    BY <1>3, <1>9, <2>0, <2>2 DEF ClaimNew
  <2>4. leases' \in [Ids -> Scores]
    BY <1>7, <1>9 DEF ClaimNew, TypeOK
  <2>5. stream' \in SUBSET [eid : Nat, id : Ids] /\ delivered' \in Nat /\ pel' \in SUBSET Nat
    BY <1>3, <1>9, <2>0 DEF ClaimNew, TypeOK
  <2>6. tokens' \in 0..MaxToken /\ open' \subseteq 1..tokens' /\ issued' \in SUBSET Delivery
    <3>1. R[x.id].n + 1 \in 1..MaxCount
      BY <2>1
    <3>2. Reply(t, x.id, R[x.id].n + 1, answered)
      BY <1>9 DEF ClaimNew
    <3>3. QED
      BY <1>6, <2>0, <3>1, <3>2, TypeReply
  <2>7. QED
    BY <2>3, <2>4, <2>5, <2>6
<1>10. ASSUME ClaimNothing(t, K, R, st)
       PROVE  Rest
  <2> HIDE DEF R, st
  <2>1. stream' \subseteq st /\ rec' = R
    BY <1>10 DEF ClaimNothing
  <2>2. leases' \in [Ids -> Scores]
    BY <1>7, <1>10 DEF ClaimNothing, TypeOK
  <2>3. open' \subseteq open /\ UNCHANGED <<delivered, pel, tokens, issued>>
    BY <1>10 DEF ClaimNothing
  <2>4. QED
    BY <1>3, <2>1, <2>2, <2>3 DEF TypeOK
<1>11. Rest
  BY <1>2, <1>8, <1>9, <1>10 DEF ReceiveWith
<1>12. QED
  BY <1>4, <1>5, <1>6, <1>11 DEF TypeOK, ghost

(* The four scripts that end or extend a claim. *)
LEMMA ReleaseType ==
  ASSUME TypeOK, NEW entry, ReleaseEntry(entry)
  PROVE  stream' \in SUBSET [eid : Nat, id : Ids] /\ pel' \in SUBSET Nat
BY DEF ReleaseEntry, TypeOK

LEMMA TypeAck ==
  ASSUME TypeOK, NEW d \in issued, Ack(d)
  PROVE  TypeOK'
<1>1. d.id \in Ids /\ rec[d.id].h \in Contents
  BY HoldsClaimType DEF Record
<1>2. rec' \in [Ids -> Record]
  BY <1>1, NoRecordType DEF Ack, TypeOK
<1>3. clock \in Scores /\ clock + DedupWindow \in Scores /\ NoScore \in Scores
  BY DEF TypeOK, Scores, Time
<1>4. tomb' \in [Ids -> [h : Contents, until : Scores]]
  BY <1>1, <1>3 DEF Ack, TypeOK
<1>5. stream' \in SUBSET [eid : Nat, id : Ids] /\ pel' \in SUBSET Nat
  BY ReleaseType DEF Ack
<1>6. leases' \in [Ids -> Scores] /\ doneAt' \in [Ids -> Scores]
  BY <1>3 DEF Ack, TypeOK
<1>7. settled' \in SUBSET (Ids \X Contents)
  BY <1>1 DEF Ack, TypeOK
<1>8. QED
  BY <1>2, <1>4, <1>5, <1>6, <1>7 DEF Ack, TypeOK, client

LEMMA TypeRenew ==
  ASSUME TypeOK, NEW d \in issued, Renew(d)
  PROVE  TypeOK'
<1>1. leases' \in [Ids -> Scores]
  <2>1. clock + Lease \in Scores
    BY DEF TypeOK, Scores, Time
  <2>2. QED
    BY <2>1 DEF Renew, TypeOK
<1>2. QED
  BY <1>1 DEF Renew, TypeOK, client, ghost

LEMMA TypeRetry ==
  ASSUME TypeOK, NEW d \in issued, NEW delay \in Delays, Retry(d, delay)
  PROVE  TypeOK'
<1>1. d.id \in Ids /\ rec[d.id] \in Record
  BY HoldsClaimType
<1>2. rec[d.id].r \in 0..MaxCount /\ rec[d.id].r < MaxCount
  BY <1>1 DEF Retry, CheckRecord, CanInc, Record
<1>3. [rec[d.id] EXCEPT !.s = "delayed", !.tok = NoToken, !.e = NoEntry,
                      !.r = rec[d.id].r + 1] \in Record
  BY <1>1, <1>2, FieldTypes DEF Record, States
<1>4. rec' \in [Ids -> Record]
  BY <1>1, <1>3 DEF Retry, TypeOK
<1>5. stream' \in SUBSET [eid : Nat, id : Ids] /\ pel' \in SUBSET Nat
  BY ReleaseType DEF Retry
<1>6. leases' \in [Ids -> Scores] /\ delayed' \in [Ids -> Scores]
  <2>1. clock + delay \in Scores /\ NoScore \in Scores
    BY DEF TypeOK, Scores, Time
  <2>2. QED
    BY <2>1 DEF Retry, TypeOK
<1>7. QED
  BY <1>4, <1>5, <1>6 DEF Retry, TypeOK, client, ghost

LEMMA TypeFail ==
  ASSUME TypeOK, NEW d \in issued, Fail(d)
  PROVE  TypeOK'
<1>1. d.id \in Ids /\ rec[d.id] \in Record
  BY HoldsClaimType
<1> DEFINE R == [rec EXCEPT ![d.id] =
                   [rec[d.id] EXCEPT !.s = "failed", !.tok = NoToken, !.e = NoEntry]]
           Gone(old) == {i \in old : R[i].s = "failed"}
<1>2. PICK old \in SUBSET UpTo(failed, Cutoff) :
        /\ rec' = [i \in Ids |-> IF i \in Gone(old) THEN NoRecord ELSE R[i]]
        /\ failed' = [i \in Ids |-> IF i \in old THEN NoScore
                                    ELSE IF i = d.id THEN clock ELSE failed[i]]
        /\ settled' = settled \cup {<<i, rec[i].h>> : i \in Gone(old)}
  BY Zenon DEF Fail
<1>3. [rec[d.id] EXCEPT !.s = "failed", !.tok = NoToken, !.e = NoEntry] \in Record
  BY <1>1, FieldTypes DEF Record, States
<1>4. R \in [Ids -> Record]
  BY <1>1, <1>3 DEF TypeOK
<1>5. rec' \in [Ids -> Record]
  <2> HIDE DEF R
  <2>1. QED
    BY <1>2, <1>4, NoRecordType
<1>6. failed' \in [Ids -> Scores]
  BY <1>2 DEF TypeOK, Scores, Time
<1>7. settled' \in SUBSET (Ids \X Contents)
  <2>1. Gone(old) \subseteq Ids
    BY DEF UpTo
  <2>2. \A i \in Ids : rec[i].h \in Contents
    BY DEF TypeOK, Record
  <2> HIDE DEF Gone
  <2>3. QED
    BY <1>2, <2>1, <2>2 DEF TypeOK
<1>8. /\ ReleaseEntry(rec[d.id].e)
      /\ leases' = [leases EXCEPT ![d.id] = NoScore]
      /\ UNCHANGED <<tomb, lastEid, delivered, delayed, clock, client, confirmed, doneAt, lost>>
  BY Zenon DEF Fail
<1>9. stream' \in SUBSET [eid : Nat, id : Ids] /\ pel' \in SUBSET Nat
  BY <1>8, ReleaseType
<1>10. leases' \in [Ids -> Scores]
  BY <1>8 DEF TypeOK, Scores
<1>11. QED
  BY <1>5, <1>6, <1>7, <1>8, <1>9, <1>10 DEF TypeOK, client

LEMMA TypeReplayFailed ==
  ASSUME TypeOK, NEW i \in Ids, ReplayFailed(i)
  PROVE  TypeOK'
<1>1. rec[i] \in Record
  BY DEF TypeOK
<1>2. rec[i].rp \in 0..MaxCount /\ rec[i].rp < MaxCount
  BY <1>1 DEF ReplayFailed, CanInc, Record
<1>3. [rec[i] EXCEPT !.s = "ready", !.r = 0, !.rp = rec[i].rp + 1] \in Record
  BY <1>1, <1>2, FieldTypes DEF Record, States
<1>4. rec' \in [Ids -> Record]
  BY <1>3 DEF ReplayFailed, TypeOK
<1>5. failed' \in [Ids -> Scores]
  BY DEF ReplayFailed, TypeOK, Scores
<1>6. stream' \in SUBSET [eid : Nat, id : Ids] /\ lastEid' \in Nat
  BY DEF ReplayFailed, TypeOK
<1>7. QED
  BY <1>4, <1>5, <1>6 DEF ReplayFailed, TypeOK, client, ghost

LEMMA TypeEnvironment ==
  ASSUME TypeOK, Tick \/ \E i \in Ids : LoseRecord(i)
  PROVE  TypeOK'
<1>1. CASE Tick
  BY <1>1 DEF Tick, TypeOK, Time, redis, client, ghost
<1>2. ASSUME NEW i \in Ids, LoseRecord(i)
      PROVE  TypeOK'
  <2>1. rec' \in [Ids -> Record]
    BY <1>2, NoRecordType DEF LoseRecord, TypeOK
  <2>2. rec[i].h \in Contents
    BY DEF TypeOK, Record
  <2>3. settled' \in SUBSET (Ids \X Contents) /\ lost' \in 0..MaxLost
    BY <1>2, <2>2 DEF LoseRecord, TypeOK
  <2>4. QED
    BY <1>2, <2>1, <2>3 DEF LoseRecord, TypeOK, client
<1>3. QED
  BY <1>1, <1>2

LEMMA TypeNext == TypeOK /\ [Next]_vars => TypeOK'
<1> SUFFICES ASSUME TypeOK, [Next]_vars PROVE TypeOK'
  OBVIOUS
<1>1. CASE UNCHANGED vars
  BY <1>1 DEF TypeOK, vars, redis, client, ghost
<1>2. CASE Next
  BY <1>2, TypeEnqueue, TypeReceive, TypeAck, TypeRenew, TypeRetry, TypeFail,
     TypeReplayFailed, TypeEnvironment DEF Next
<1>3. QED
  BY <1>1, <1>2

(* Whatever the callers do, every key holds a value of its type; the counters
   in particular never pass the int64 limit Redis would refuse after half of
   a script has been executed (luaPrelude, isinc). *)
THEOREM TypeCorrect == Spec => []TypeOK
BY TypeInit, TypeNext, PTL DEF Spec

----------------------------------------------------------------------------
(* Fencing.  The token of a delivery that has been handed out belongs to a
   call that is over: no later claim can carry it, provided that no transmission of a
   call is run after another of its transmissions has been answered. *)

FenceInv ==
  /\ ~LateRuns
  /\ \A d \in issued : d.tok <= tokens /\ d.tok \notin open
  /\ HolderIsLatestClaim

(* A claim with token t leaves the claims of the other tasks alone. *)
LEMMA FenceClaim ==
  ASSUME TypeOK, FenceInv, NEW t \in Tokens, TokenOfCall(t), NEW i \in Ids,
         NEW n \in 1..MaxCount, NEW answered \in BOOLEAN, Reply(t, i, n, answered),
         rec'[i].n = n,
         \A j \in Ids : j # i /\ rec'[j].s = "inflight" =>
           /\ rec[j].s = "inflight" /\ rec'[j].tok = rec[j].tok /\ rec'[j].n = rec[j].n,
         rec'[i].tok = t
  PROVE  FenceInv'
<1>1. \A d \in issued : d.tok # t /\ d.tok <= tokens
  BY DEF FenceInv, TokenOfCall, TypeOK, Delivery, Tokens
<1>. t \notin 1..tokens \ open
  BY DEF FenceInv, TokenOfCall, TypeOK
<1>2. \A d \in issued : d.id \in Ids
  BY DEF TypeOK, Delivery
<1>3. \A d \in issued' : d \in issued \/ (d = [id |-> i, tok |-> t, n |-> n] /\ answered)
  BY DEF Reply, LateRun
<1>4. tokens' \in Int /\ tokens \in Int /\ t \in Int /\ tokens <= tokens' /\ t <= tokens'
  BY DEF Reply, TypeOK, Tokens
<1>5. \A d \in issued' : d.tok <= tokens' /\ d.tok \notin open'
  <2> SUFFICES ASSUME NEW d \in issued' PROVE d.tok <= tokens' /\ d.tok \notin open'
    OBVIOUS
  <2>1. CASE d \in issued
    <3>1. d.tok \in Int /\ d.tok <= tokens /\ d.tok # t /\ d.tok \notin open
      BY <2>1, <1>1 DEF FenceInv, TypeOK, Delivery, Tokens
    <3>2. open' \subseteq open \cup {t}
      BY DEF Reply
    <3>3. QED
      BY <1>4, <3>1, <3>2
  <2>2. CASE d = [id |-> i, tok |-> t, n |-> n] /\ answered
    BY <2>2, <1>4 DEF Reply, LateRun
  <2>3. QED
    BY <1>3, <2>1, <2>2
<1>6. ASSUME NEW d \in issued', HoldsClaim(d)'
      PROVE  rec'[d.id].n = d.n
  <2>1. CASE d \in issued
    <3>1. d.id # i
      BY <1>1, <1>6, <2>1 DEF HoldsClaim
    <3>2. HoldsClaim(d) /\ rec'[d.id].n = rec[d.id].n
      BY <1>2, <1>6, <2>1, <3>1 DEF HoldsClaim
    <3>3. QED
      BY <2>1, <3>2 DEF FenceInv, HolderIsLatestClaim
  <2>2. CASE d = [id |-> i, tok |-> t, n |-> n]
    BY <2>2
  <2>3. QED
    BY <1>3, <2>1, <2>2
<1>7. QED
  BY <1>5, <1>6, Zenon DEF FenceInv, HolderIsLatestClaim

(* A step that hands out nothing keeps the fence when it leaves the claims
   that go on as they are. *)
LEMMA FenceKeep ==
  ASSUME TypeOK, FenceInv, UNCHANGED <<tokens, issued>>, open' \subseteq open,
         \A j \in Ids : rec'[j].s = "inflight" =>
           /\ rec[j].s = "inflight" /\ rec'[j].tok = rec[j].tok /\ rec'[j].n = rec[j].n
  PROVE  FenceInv'
BY DEF FenceInv, HolderIsLatestClaim, HoldsClaim, TypeOK, Delivery

LEMMA FenceReceive ==
  ASSUME TypeOK, FenceInv, NEW t \in Tokens, NEW answered \in BOOLEAN, Receive(t, answered)
  PROVE  FenceInv'
<1>1. PICK F \in SUBSET UpTo(delayed, clock), K \in SUBSET StaleLeases :
        \E at \in Positions(F) : ReceiveWith(t, answered, F, K, at)
  BY Zenon DEF Receive
<1>2. PICK at \in Positions(F) : ReceiveWith(t, answered, F, K, at)
  BY <1>1
<1> DEFINE R == Promote(F)
           st == Promoted(F, at)
<1>3. /\ R \in [Ids -> Record]
      /\ \A i \in Ids : R[i].n = rec[i].n
      /\ st \in SUBSET [eid : Nat, id : Ids]
  BY PromoteType DEF UpTo
<1>4. \A i \in Ids : R[i].s = "inflight" => rec[i].s = "inflight" /\ R[i].tok = rec[i].tok
  BY DEF Promote, TypeOK, Record
<1>5. TokenOfCall(t)
  BY Zenon DEF Receive
<1>6. ASSUME NEW i \in Ids, Recover(i, t, answered, K, R, st)
      PROVE  FenceInv'
  <2> HIDE DEF R, st
  <2>1. R[i] \in Record /\ R[i].n + 1 \in 1..MaxCount
    BY <1>3, <1>6 DEF Recover, CheckRecord, CanInc, Record
  <2>2. rec' = [R EXCEPT ![i] = [R[i] EXCEPT !.tok = t, !.n = R[i].n + 1]]
        /\ Reply(t, i, R[i].n + 1, answered)
    BY <1>6 DEF Recover
  <2>3. rec'[i].tok = t /\ rec'[i].n = R[i].n + 1
    BY <1>3, <2>1, <2>2 DEF Record
  <2>4. \A j \in Ids : j # i => rec'[j] = R[j]
    BY <1>3, <2>2
  <2>5. QED
    BY <1>3, <1>4, <1>5, <2>1, <2>2, <2>3, <2>4, FenceClaim
<1>7. ASSUME NEW x \in st, ClaimNew(x, t, answered, K, R, st)
      PROVE  FenceInv'
  <2> HIDE DEF R, st
  <2>0. x.id \in Ids
    BY <1>3
  <2>1. R[x.id] \in Record /\ R[x.id].n + 1 \in 1..MaxCount
    BY <1>3, <1>7, <2>0 DEF ClaimNew, CheckRecord, CanInc, Record
  <2>2. /\ rec' = [R EXCEPT ![x.id] = [R[x.id] EXCEPT !.s = "inflight", !.tok = t,
                                         !.e = x.eid, !.n = R[x.id].n + 1]]
        /\ Reply(t, x.id, R[x.id].n + 1, answered)
    BY <1>7 DEF ClaimNew
  <2>3. rec'[x.id].tok = t /\ rec'[x.id].n = R[x.id].n + 1
    BY <1>3, <2>0, <2>1, <2>2 DEF Record
  <2>4. \A j \in Ids : j # x.id => rec'[j] = R[j]
    BY <1>3, <2>2
  <2>5. QED
    BY <1>3, <1>4, <1>5, <2>0, <2>1, <2>2, <2>3, <2>4, FenceClaim
<1>8. ASSUME ClaimNothing(t, K, R, st)
      PROVE  FenceInv'
  <2> HIDE DEF R, st
  <2>1. rec' = R /\ open' \subseteq open /\ UNCHANGED <<tokens, issued>>
    BY <1>8 DEF ClaimNothing
  <2>2. QED
    BY <1>3, <1>4, <2>1, FenceKeep
<1>9. QED
  BY <1>2, <1>6, <1>7, <1>8 DEF ReceiveWith

LEMMA FenceNext == TypeOK /\ FenceInv /\ [Next]_vars => FenceInv'
<1> SUFFICES ASSUME TypeOK, FenceInv, [Next]_vars PROVE FenceInv'
  OBVIOUS
<1> DEFINE Kept == \A j \in Ids : rec'[j].s = "inflight" =>
                     /\ rec[j].s = "inflight" /\ rec'[j].tok = rec[j].tok
                     /\ rec'[j].n = rec[j].n
<1>0. NoRecord.s = "none"
  BY DEF NoRecord
<1>1. ASSUME NEW i \in Ids, NEW c \in Contents, NEW dedup \in BOOLEAN, Enqueue(i, c, dedup)
      PROVE  FenceInv'
  <2>1. [NoRecord EXCEPT !.s = "ready", !.h = c, !.dd = dedup].s = "ready"
    BY DEF NoRecord
  <2>2. Kept
    BY <1>1, <2>1 DEF Enqueue, EnqueueNew, EnqueueDuplicate, TypeOK, redis
  <2>3. UNCHANGED client
    BY <1>1 DEF Enqueue, EnqueueNew, EnqueueDuplicate
  <2>4. QED
    BY <2>2, <2>3, FenceKeep DEF client
<1>2. ASSUME NEW t \in Tokens, NEW answered \in BOOLEAN, Receive(t, answered)
      PROVE  FenceInv'
  BY <1>2, FenceReceive
<1>3. ASSUME NEW d \in issued, Ack(d)
      PROVE  FenceInv'
  <2>1. Kept
    BY <1>0, <1>3, HoldsClaimType DEF Ack, TypeOK
  <2>2. QED
    BY <1>3, <2>1, FenceKeep DEF Ack, client
<1>4. ASSUME NEW d \in issued, Renew(d)
      PROVE  FenceInv'
  BY <1>4, FenceKeep DEF Renew, client
<1>5. ASSUME NEW d \in issued, NEW delay \in Delays, Retry(d, delay)
      PROVE  FenceInv'
  <2>1. Kept
    BY <1>5, HoldsClaimType DEF Retry, TypeOK, Record
  <2>2. QED
    BY <1>5, <2>1, FenceKeep DEF Retry, client
<1>6. ASSUME NEW d \in issued, Fail(d)
      PROVE  FenceInv'
  <2> DEFINE R == [rec EXCEPT ![d.id] =
                     [rec[d.id] EXCEPT !.s = "failed", !.tok = NoToken, !.e = NoEntry]]
             Gone(old) == {i \in old : R[i].s = "failed"}
  <2>1. PICK old \in SUBSET UpTo(failed, Cutoff) :
          rec' = [i \in Ids |-> IF i \in Gone(old) THEN NoRecord ELSE R[i]]
    BY <1>6, Zenon DEF Fail
  <2>2. \A j \in Ids : R[j].s = "inflight" => j # d.id /\ R[j] = rec[j]
    BY HoldsClaimType DEF TypeOK, Record
  <2>3. Kept
    <3> HIDE DEF R
    <3>1. \A j \in Ids : rec'[j].s = "inflight" => rec'[j] = R[j]
      BY <1>0, <2>1
    <3>2. QED
      BY <2>2, <3>1
  <2>4. UNCHANGED client
    BY <1>6, Zenon DEF Fail, client
  <2>5. QED
    BY <2>3, <2>4, FenceKeep DEF client
<1>7. ASSUME NEW i \in Ids, ReplayFailed(i)
      PROVE  FenceInv'
  <2>1. Kept
    BY <1>7 DEF ReplayFailed, TypeOK, Record
  <2>2. QED
    BY <1>7, <2>1, FenceKeep DEF ReplayFailed, client
<1>8. ASSUME NEW i \in Ids, LoseRecord(i)
      PROVE  FenceInv'
  <2>1. Kept
    BY <1>0, <1>8 DEF LoseRecord, TypeOK
  <2>2. QED
    BY <1>8, <2>1, FenceKeep DEF LoseRecord, client
<1>9. ASSUME Tick
      PROVE  FenceInv'
  BY <1>9, FenceKeep DEF Tick, redis, client
<1>10. CASE UNCHANGED vars
  BY <1>10, FenceKeep DEF vars, redis, client
<1>11. QED
  BY <1>1, <1>2, <1>3, <1>4, <1>5, <1>6, <1>7, <1>8, <1>9, <1>10 DEF Next

(* A caller whose token still matches holds the latest claim of its task,
   although a Receive without an answer is repeated with the same token; unless a
   transmission of it is run after another has been answered. *)
THEOREM FencingCorrect == ASSUME ~LateRuns PROVE Spec => []HolderIsLatestClaim
<1>1. Init => FenceInv
  BY DEF Init, FenceInv, HolderIsLatestClaim
<1>2. FenceInv => HolderIsLatestClaim
  BY DEF FenceInv
<1>3. QED
  BY <1>1, <1>2, FenceNext, TypeCorrect, PTL DEF Spec

(* No claim changes hands while its lease still runs on the Redis clock. *)
THEOREM NoEarlyTakeoverCorrect == Spec => NoEarlyTakeover
<1>1. ASSUME TypeOK, NEW t \in Tokens, NEW answered \in BOOLEAN, Receive(t, answered),
             NEW i \in Ids, Inflight(i), Inflight(i)', rec'[i].n # rec[i].n
      PROVE  leases[i] <= clock
  <2>1. PICK F \in SUBSET UpTo(delayed, clock), K \in SUBSET StaleLeases :
          \E at \in Positions(F) : ReceiveWith(t, answered, F, K, at)
    BY <1>1, Zenon DEF Receive
  <2>2. PICK at \in Positions(F) : ReceiveWith(t, answered, F, K, at)
    BY <2>1
  <2> DEFINE R == Promote(F)
             st == Promoted(F, at)
  <2>3. R \in [Ids -> Record] /\ st \in SUBSET [eid : Nat, id : Ids]
    BY <1>1, PromoteType DEF UpTo
  <2>4. R[i] = rec[i]
    BY <1>1, <2>2 DEF ReceiveWith, PromoteOK, CheckRecord, Promote, Promotable, Inflight, TypeOK
  <2>5. R[i].s = "inflight"
    BY <1>1, <2>4 DEF Inflight
  <2>6. ASSUME NEW j \in Ids, Recover(j, t, answered, K, R, st)
        PROVE  leases[i] <= clock
    <3> HIDE DEF R, st
    <3>1. j = i
      BY <1>1, <2>3, <2>4, <2>6 DEF Recover
    <3>2. QED
      BY <2>6, <3>1 DEF Recover, UpTo
  <2>7. ASSUME NEW x \in st, ClaimNew(x, t, answered, K, R, st)
        PROVE  leases[i] <= clock
    <3> HIDE DEF R, st
    <3>1. x.id # i
      BY <2>5, <2>7 DEF ClaimNew, CheckRecord
    <3>2. rec'[i] = rec[i]
      BY <2>3, <2>4, <2>7, <3>1 DEF ClaimNew
    <3>3. QED
      BY <1>1, <3>2
  <2>8. CASE ClaimNothing(t, K, R, st)
    BY <1>1, <2>4, <2>8 DEF ClaimNothing
  <2>9. QED
    BY <2>2, <2>6, <2>7, <2>8 DEF ReceiveWith
<1>2. ASSUME TypeOK, [Next]_vars,
             ~\E t \in Tokens, answered \in BOOLEAN : Receive(t, answered),
             NEW i \in Ids, Inflight(i), Inflight(i)'
      PROVE  rec'[i].n = rec[i].n
  <2>0. NoRecord.s = "none" /\ rec[i].s = "inflight" /\ rec'[i].s = "inflight"
    BY <1>2 DEF NoRecord, Inflight
  <2>1. ASSUME NEW j \in Ids, NEW c \in Contents, NEW dedup \in BOOLEAN, Enqueue(j, c, dedup)
        PROVE  rec'[i] = rec[i]
    BY <1>2, <2>0, <2>1 DEF Enqueue, EnqueueNew, EnqueueDuplicate, Exists, TypeOK, redis
  <2>2. ASSUME NEW d \in issued, Ack(d) \/ Renew(d) \/ \E delay \in Delays : Retry(d, delay)
        PROVE  rec'[i] = rec[i]
    <3>1. d.id \in Ids /\ rec[d.id] \in Record /\ rec \in [Ids -> Record]
      BY <1>2, HoldsClaimType DEF TypeOK
    <3>2. CASE Ack(d)
      BY <2>0, <3>1, <3>2 DEF Ack
    <3>3. CASE Renew(d)
      BY <3>3 DEF Renew
    <3>4. ASSUME NEW delay \in Delays, Retry(d, delay)
          PROVE  rec'[i] = rec[i]
      BY <2>0, <3>1, <3>4 DEF Retry, Record
    <3>5. QED
      BY <2>2, <3>2, <3>3, <3>4
  <2>3. ASSUME NEW d \in issued, Fail(d)
        PROVE  rec'[i] = rec[i]
    <3> DEFINE R == [rec EXCEPT ![d.id] = [rec[d.id] EXCEPT !.s = "failed", !.tok = NoToken,
                                                            !.e = NoEntry]]
    <3>1. PICK old \in SUBSET UpTo(failed, Cutoff) :
            rec' = [j \in Ids |-> IF j \in {k \in old : R[k].s = "failed"} THEN NoRecord ELSE R[j]]
      BY <2>3, Zenon DEF Fail
    <3>2. R[i].s = "failed" \/ R[i] = rec[i]
      BY <1>2, HoldsClaimType DEF TypeOK, Record
    <3> HIDE DEF R
    <3>3. QED
      BY <2>0, <3>1, <3>2
  <2>4. ASSUME NEW j \in Ids, ReplayFailed(j) \/ LoseRecord(j)
        PROVE  rec'[i] = rec[i]
    <3>1. rec \in [Ids -> Record]
      BY <1>2 DEF TypeOK
    <3>2. CASE ReplayFailed(j)
      BY <2>0, <3>1, <3>2 DEF ReplayFailed, Record
    <3>3. CASE LoseRecord(j)
      BY <2>0, <3>1, <3>3 DEF LoseRecord
    <3>4. QED
      BY <2>4, <3>2, <3>3
  <2>5. CASE Tick \/ UNCHANGED vars
    BY <2>5 DEF Tick, vars, redis
  <2>6. QED
    BY <1>2, <2>1, <2>2, <2>3, <2>4, <2>5 DEF Next
<1>3. TypeOK /\ [Next]_vars =>
        [\A i \in Ids : Inflight(i) /\ Inflight(i)' /\ rec'[i].n # rec[i].n
                        => leases[i] <= clock]_vars
  BY <1>1, <1>2
<1>4. QED
  BY <1>3, TypeCorrect, PTL DEF Spec, NoEarlyTakeover

----------------------------------------------------------------------------
(* Consistency of the indexes.  ScoreInv relates the records R to the three
   sorted sets, EntryInv to the stream and the pending list.  Both take the
   state as arguments, because Receive passes through the state in which due
   retries are ready already and nothing is claimed yet. *)

Queued(R, i) == R[i].s \in {"ready", "inflight"}

ScoreInv(R, dl, ls, fl) ==
  \A i \in Ids :
    /\ ls[i] # NoScore <=> R[i].s = "inflight"
    /\ dl[i] # NoScore <=> R[i].s = "delayed"
    /\ fl[i] # NoScore <=> R[i].s = "failed"
    /\ R[i].tok # NoToken <=> R[i].s = "inflight"

EntryInv(R, st, last, del, pl) ==
  /\ \A x \in st : /\ x.eid <= last
                   /\ Queued(R, x.id)
                   /\ R[x.id].s = "ready" => x.eid > del
                   /\ R[x.id].s = "inflight" => x.eid = R[x.id].e /\ x.eid <= del
  /\ \A x, y \in st : x.id = y.id \/ x.eid = y.eid => x = y
  /\ \A i \in Ids : Queued(R, i) => \E x \in st : x.id = i
  /\ del <= last
  /\ \A k \in Nat : k \in pl <=> \E x \in st : x.eid = k /\ k <= del

IndexInv == lost = 0 => /\ ScoreInv(rec, delayed, leases, failed)
                        /\ EntryInv(rec, stream, lastEid, delivered, pel)

Entries == [eid : Nat, id : Ids]

LEMMA IndexImpliesHomes == TypeOK /\ IndexInv => HomesConsistent
<1> SUFFICES ASSUME TypeOK, IndexInv, lost = 0
             PROVE  /\ \A i \in Ids :
                         /\ leases[i] # NoScore <=> Inflight(i)
                         /\ delayed[i] # NoScore <=> rec[i].s = "delayed"
                         /\ failed[i] # NoScore <=> rec[i].s = "failed"
                         /\ rec[i].tok # NoToken <=> Inflight(i)
                         /\ rec[i].s \in {"none", "delayed", "failed"} => EntriesOf(i) = {}
                         /\ rec[i].s = "ready" =>
                              \E x \in Undelivered(stream) : EntriesOf(i) = {x}
                         /\ Inflight(i) => EntriesOf(i) = {[eid |-> rec[i].e, id |-> i]}
                    /\ pel = {x.eid : x \in stream \ Undelivered(stream)}
  BY DEF HomesConsistent
<1>0. EntryInv(rec, stream, lastEid, delivered, pel) /\ ScoreInv(rec, delayed, leases, failed)
  BY DEF IndexInv
<1>1. stream \subseteq Entries /\ pel \subseteq Nat /\ delivered \in Nat
  BY DEF TypeOK, Entries
<1>2. ASSUME NEW i \in Ids
      PROVE  /\ rec[i].s \in {"none", "delayed", "failed"} => EntriesOf(i) = {}
             /\ rec[i].s = "ready" => \E x \in Undelivered(stream) : EntriesOf(i) = {x}
             /\ Inflight(i) => EntriesOf(i) = {[eid |-> rec[i].e, id |-> i]}
  <2>1. CASE rec[i].s \in {"none", "delayed", "failed"}
    BY <1>0, <2>1 DEF EntryInv, Queued, EntriesOf, Inflight
  <2>2. CASE rec[i].s = "ready"
    <3>1. PICK x \in stream : x.id = i
      BY <1>0, <2>2 DEF EntryInv, Queued
    <3>2. EntriesOf(i) = {x}
      BY <1>0, <3>1 DEF EntryInv, EntriesOf
    <3>3. x \in Undelivered(stream)
      BY <1>0, <2>2, <3>1 DEF EntryInv, Undelivered
    <3>4. QED
      BY <2>2, <3>2, <3>3 DEF Inflight
  <2>3. CASE rec[i].s = "inflight"
    <3>1. PICK x \in stream : x.id = i
      BY <1>0, <2>3 DEF EntryInv, Queued
    <3>2. EntriesOf(i) = {x}
      BY <1>0, <3>1 DEF EntryInv, EntriesOf
    <3>3. x = [eid |-> rec[i].e, id |-> i]
      BY <1>0, <1>1, <2>3, <3>1 DEF EntryInv, Entries
    <3>4. QED
      BY <2>3, <3>2, <3>3 DEF Inflight
  <2>4. QED
    BY <2>1, <2>2, <2>3 DEF TypeOK, Record, States
<1>3. pel = {x.eid : x \in stream \ Undelivered(stream)}
  <2>1. \A x \in stream : x \notin Undelivered(stream) <=> x.eid <= delivered
    BY <1>1 DEF Undelivered, Entries
  <2>2. \A x \in stream : x.eid \in Nat
    BY <1>1 DEF Entries
  <2>3. \A k \in Nat : k \in pel <=> \E x \in stream : x.eid = k /\ k <= delivered
    BY <1>0 DEF EntryInv
  <2>4. ASSUME NEW k \in pel
        PROVE  k \in {x.eid : x \in stream \ Undelivered(stream)}
    <3>1. PICK x \in stream : x.eid = k /\ k <= delivered
      BY <1>1, <2>3
    <3>2. QED
      BY <2>1, <3>1
  <2>5. ASSUME NEW x \in stream \ Undelivered(stream)
        PROVE  x.eid \in pel
    BY <2>1, <2>2, <2>3
  <2>6. QED
    BY <2>4, <2>5
<1>4. QED
  BY <1>0, <1>2, <1>3 DEF ScoreInv, Inflight

(* XADD of a task that was in no entry. *)
LEMMA AddEntry ==
  ASSUME NEW R, NEW R2, NEW st \in SUBSET Entries, NEW last \in Nat, NEW del \in Nat,
         NEW pl \in SUBSET Nat, NEW i \in Ids,
         EntryInv(R, st, last, del, pl), ~Queued(R, i), R2[i].s = "ready",
         \A j \in Ids : j # i => R2[j] = R[j]
  PROVE  EntryInv(R2, st \cup {[eid |-> last + 1, id |-> i]}, last + 1, del, pl)
<1> DEFINE new == [eid |-> last + 1, id |-> i]
           st2 == st \cup {new}
<1>1. \A x \in st : x.id \in Ids /\ x.eid \in Nat /\ x.id # i /\ x.eid <= last
  BY DEF EntryInv, Entries
<1>2. \A x \in st2 : /\ x.eid <= last + 1
                     /\ Queued(R2, x.id)
                     /\ R2[x.id].s = "ready" => x.eid > del
                     /\ R2[x.id].s = "inflight" => x.eid = R2[x.id].e /\ x.eid <= del
  <2>1. del < last + 1
    BY DEF EntryInv
  <2>2. new.id = i /\ new.eid = last + 1
    OBVIOUS
  <2>3. \A x \in st : R2[x.id] = R[x.id] /\ x.eid <= last + 1
    BY <1>1
  <2>4. QED
    BY <2>1, <2>2, <2>3 DEF EntryInv, Queued
<1>3. \A x, y \in st2 : x.id = y.id \/ x.eid = y.eid => x = y
  BY <1>1 DEF EntryInv
<1>4. ASSUME NEW j \in Ids, Queued(R2, j)
      PROVE  \E x \in st2 : x.id = j
  <2>1. CASE j = i
    <3>1. new \in st2 /\ new.id = i
      OBVIOUS
    <3>2. QED
      BY <2>1, <3>1
  <2>2. CASE j # i
    <3>1. Queued(R, j)
      BY <1>4, <2>2 DEF Queued
    <3>2. QED
      BY <3>1 DEF EntryInv
  <2>3. QED
    BY <2>1, <2>2
<1>5. \A k \in Nat : k \in pl <=> \E x \in st2 : x.eid = k /\ k <= del
  BY <1>1 DEF EntryInv
<1>6. QED
  BY <1>2, <1>3, <1>4, <1>5 DEF EntryInv

(* XACK and XDEL of the entry of a claimed task that leaves the queue. *)
LEMMA DropEntry ==
  ASSUME NEW R, NEW R2, NEW st \in SUBSET Entries, NEW last \in Nat, NEW del \in Nat,
         NEW pl \in SUBSET Nat, NEW i \in Ids,
         EntryInv(R, st, last, del, pl), R[i].s = "inflight", ~Queued(R2, i),
         \A j \in Ids : j # i => R2[j] = R[j] \/ (~Queued(R, j) /\ ~Queued(R2, j))
  PROVE  EntryInv(R2, {x \in st : x.eid # R[i].e}, last, del, pl \ {R[i].e})
<1> DEFINE st2 == {x \in st : x.eid # R[i].e}
<1>1. \A x \in st : x.id \in Ids /\ x.eid \in Nat
  BY DEF Entries
<1>2. \A x \in st : x.id = i <=> x.eid = R[i].e
  <2>1. PICK z \in st : z.id = i
    BY DEF EntryInv, Queued
  <2>2. z.eid = R[i].e
    BY <2>1 DEF EntryInv
  <2>3. QED
    BY <2>1, <2>2 DEF EntryInv
<1>3. \A x \in st2 : x \in st /\ R2[x.id] = R[x.id] /\ x.id # i
  BY <1>1, <1>2 DEF EntryInv
<1>4. \A x \in st2 : /\ x.eid <= last
                     /\ Queued(R2, x.id)
                     /\ R2[x.id].s = "ready" => x.eid > del
                     /\ R2[x.id].s = "inflight" => x.eid = R2[x.id].e /\ x.eid <= del
  BY <1>3 DEF EntryInv, Queued
<1>5. \A j \in Ids : Queued(R2, j) => \E x \in st2 : x.id = j
  <2> SUFFICES ASSUME NEW j \in Ids, Queued(R2, j) PROVE \E x \in st2 : x.id = j
    OBVIOUS
  <2>1. j # i /\ Queued(R, j)
    BY DEF Queued
  <2>2. PICK x \in st : x.id = j
    BY <2>1 DEF EntryInv
  <2>3. QED
    BY <1>2, <2>1, <2>2
<1>6. \A k \in Nat : k \in pl \ {R[i].e} <=> \E x \in st2 : x.eid = k /\ k <= del
  BY DEF EntryInv
<1>7. \A x, y \in st2 : x.id = y.id \/ x.eid = y.eid => x = y
  BY DEF EntryInv
<1>8. del <= last
  BY DEF EntryInv
<1>9. QED
  BY <1>4, <1>5, <1>6, <1>7, <1>8 DEF EntryInv

(* XREADGROUP of the first entry the group has not read. *)
LEMMA ReadEntry ==
  ASSUME NEW R, NEW R2, NEW st \in SUBSET Entries, NEW last \in Nat, NEW del \in Nat,
         NEW pl \in SUBSET Nat, NEW x \in st,
         EntryInv(R, st, last, del, pl), x.eid > del,
         \A y \in st : y.eid > del => y.eid >= x.eid,
         R2[x.id].s = "inflight", R2[x.id].e = x.eid,
         \A j \in Ids : j # x.id => R2[j] = R[j]
  PROVE  EntryInv(R2, st, last, x.eid, pl \cup {x.eid})
<1>1. \A y \in st : y.id \in Ids /\ y.eid \in Nat
  BY DEF Entries
<1>2. \A y \in st : y # x => y.id # x.id /\ y.eid # x.eid /\ R2[y.id] = R[y.id]
  BY <1>1 DEF EntryInv
<1>3. \A y \in st : y # x => \/ y.eid <= del
                            \/ y.eid > x.eid
  BY <1>1, <1>2
<1>4. \A y \in st : /\ y.eid <= last
                    /\ Queued(R2, y.id)
                    /\ R2[y.id].s = "ready" => y.eid > x.eid
                    /\ R2[y.id].s = "inflight" => y.eid = R2[y.id].e /\ y.eid <= x.eid
  <2> SUFFICES ASSUME NEW y \in st
               PROVE  /\ y.eid <= last
                      /\ Queued(R2, y.id)
                      /\ R2[y.id].s = "ready" => y.eid > x.eid
                      /\ R2[y.id].s = "inflight" => y.eid = R2[y.id].e /\ y.eid <= x.eid
    OBVIOUS
  <2>1. CASE y = x
    BY <1>1, <2>1 DEF EntryInv, Queued
  <2>2. CASE y # x
    <3>1. R2[y.id] = R[y.id] /\ y.eid \in Nat /\ x.eid \in Nat
      BY <1>1, <1>2, <2>2
    <3>2. R[y.id].s = "ready" => y.eid > x.eid
      BY <1>1, <1>3, <2>2 DEF EntryInv
    <3>3. R[y.id].s = "inflight" => y.eid = R[y.id].e /\ y.eid <= x.eid
      BY <1>1 DEF EntryInv
    <3>4. y.eid <= last /\ Queued(R, y.id)
      BY DEF EntryInv
    <3>5. QED
      BY <3>1, <3>2, <3>3, <3>4 DEF Queued
  <2>3. QED
    BY <2>1, <2>2
<1>5. \A k \in Nat : k \in pl \cup {x.eid} <=> \E y \in st : y.eid = k /\ k <= x.eid
  BY <1>1, <1>2, <1>3 DEF EntryInv
<1>6. \A j \in Ids : Queued(R2, j) => \E y \in st : y.id = j
  BY DEF EntryInv, Queued
<1>7. QED
  BY <1>4, <1>5, <1>6 DEF EntryInv

(* A claim taken over, and a lease renewed, stays with its entry. *)
LEMMA SameEntries ==
  ASSUME NEW R, NEW R2, NEW st \in SUBSET Entries, NEW last, NEW del, NEW pl,
         EntryInv(R, st, last, del, pl),
         \A j \in Ids : R2[j].s = R[j].s /\ R2[j].e = R[j].e
  PROVE  EntryInv(R2, st, last, del, pl)
BY DEF EntryInv, Queued, Entries

(* Step 1 of receiveScript, as long as no record has vanished: every due
   retry has its record, and gets an entry behind all the others. *)
LEMMA PromoteIndex ==
  ASSUME TypeOK, IndexInv, lost = 0, NEW F \in SUBSET UpTo(delayed, clock),
         NEW at \in Positions(F), PromoteOK(F, at)
  PROVE  /\ StaleLeases = {}
         /\ \A i \in Ids : Queued(Promote(F), i) => Exists(i)
         /\ ScoreInv(Promote(F), [i \in Ids |-> IF i \in F THEN NoScore ELSE delayed[i]],
                     leases, failed)
         /\ EntryInv(Promote(F), Promoted(F, at), lastEid + Cardinality(Promotable(F)),
                     delivered, pel)
         /\ Promoted(F, at) \in SUBSET Entries
<1> DEFINE R == Promote(F)
           st == Promoted(F, at)
           last == lastEid + Cardinality(Promotable(F))
<1>0. /\ EntryInv(rec, stream, lastEid, delivered, pel)
      /\ ScoreInv(rec, delayed, leases, failed)
  BY DEF IndexInv
<1>1. F \subseteq Ids /\ \A i \in F : rec[i].s = "delayed"
  BY <1>0 DEF UpTo, ScoreInv
<1>2. Promotable(F) = F
  BY <1>1 DEF Promotable, Exists
<1>3. \A i \in Ids \ F : R[i] = rec[i]
  BY <1>2 DEF Promote
<1>4. \A i \in F : R[i].s = "ready" /\ R[i].tok = rec[i].tok
  BY <1>1, <1>2 DEF Promote, TypeOK, Record
<1>5. /\ stream \in SUBSET Entries /\ st \in SUBSET Entries
      /\ lastEid \in Nat /\ last \in Nat /\ delivered \in Nat /\ pel \in SUBSET Nat
  BY <1>1, PromoteType DEF TypeOK, Entries
<1>6. \A i \in F : at[i] \in Nat /\ lastEid < at[i] /\ at[i] <= last
  BY <1>2, <1>5 DEF Positions
<1>7. \A i, j \in F : at[i] = at[j] => i = j
  BY <1>2 DEF PromoteOK
<1> HIDE DEF R, last
<1>8. st = stream \cup {[eid |-> at[i], id |-> i] : i \in F}
  BY <1>2 DEF Promoted
<1> HIDE DEF st
<1>9. lastEid <= last /\ delivered <= lastEid
  <2>1. Cardinality(Promotable(F)) \in Nat
    BY <1>1, PromoteType
  <2>2. QED
    BY <1>0, <1>5, <2>1 DEF last, EntryInv
<1>10. \A x \in stream : x.id \in Ids \ F /\ x.eid \in Nat /\ x.eid <= lastEid
  BY <1>0, <1>1, <1>5 DEF EntryInv, Queued, Entries
<1>11. \A x \in st : x \in stream \/ (x.id \in F /\ x = [eid |-> at[x.id], id |-> x.id])
  BY <1>8
<1>12. ASSUME NEW x \in st
       PROVE  /\ x.eid <= last
              /\ Queued(R, x.id)
              /\ R[x.id].s = "ready" => x.eid > delivered
              /\ R[x.id].s = "inflight" => x.eid = R[x.id].e /\ x.eid <= delivered
  <2>1. CASE x \in stream
    BY <1>0, <1>3, <1>5, <1>9, <1>10, <2>1 DEF EntryInv, Queued
  <2>2. CASE x.id \in F /\ x = [eid |-> at[x.id], id |-> x.id]
    <3>1. x.eid = at[x.id] /\ R[x.id].s = "ready"
      BY <1>4, <2>2
    <3>2. QED
      BY <1>5, <1>6, <1>9, <2>2, <3>1 DEF Queued
  <2>3. QED
    BY <1>11, <2>1, <2>2
<1>13. ASSUME NEW x \in st, NEW y \in st, x.id = y.id \/ x.eid = y.eid
       PROVE  x = y
  <2>1. CASE x \in stream /\ y \in stream
    BY <1>0, <1>13, <2>1 DEF EntryInv
  <2>2. CASE x \in stream /\ y \notin stream
    <3>1. y.id \in F /\ y.eid = at[y.id]
      BY <1>11, <2>2
    <3>2. QED
      BY <1>5, <1>6, <1>10, <1>13, <2>2, <3>1
  <2>3. CASE x \notin stream /\ y \in stream
    <3>1. x.id \in F /\ x.eid = at[x.id]
      BY <1>11, <2>3
    <3>2. QED
      BY <1>5, <1>6, <1>10, <1>13, <2>3, <3>1
  <2>4. CASE x \notin stream /\ y \notin stream
    <3>1. /\ x.id \in F /\ x = [eid |-> at[x.id], id |-> x.id] /\ x.eid = at[x.id]
          /\ y.id \in F /\ y = [eid |-> at[y.id], id |-> y.id] /\ y.eid = at[y.id]
      BY <1>11, <2>4
    <3>2. x.id = y.id
      BY <1>7, <1>13, <3>1
    <3>3. QED
      BY <3>1, <3>2
  <2>5. QED
    BY <2>1, <2>2, <2>3, <2>4
<1>14. ASSUME NEW i \in Ids, Queued(R, i)
       PROVE  \E x \in st : x.id = i
  <2>1. CASE i \in F
    <3>1. [eid |-> at[i], id |-> i] \in st
      BY <1>8, <2>1
    <3>2. QED
      BY <3>1
  <2>2. CASE i \notin F
    BY <1>0, <1>3, <1>8, <1>14, <2>2 DEF EntryInv, Queued
  <2>3. QED
    BY <2>1, <2>2
<1>15. ASSUME NEW k \in Nat
       PROVE  k \in pel <=> \E x \in st : x.eid = k /\ k <= delivered
  <2>1. k \in pel <=> \E x \in stream : x.eid = k /\ k <= delivered
    BY <1>0 DEF EntryInv
  <2>2. ASSUME NEW x \in st, x.eid = k, k <= delivered PROVE x \in stream
    <3>1. x \notin stream => x.id \in F /\ x.eid = at[x.id]
      BY <1>11
    <3>2. QED
      BY <1>5, <1>6, <1>9, <2>2, <3>1
  <2>3. QED
    BY <1>8, <2>1, <2>2
<1>16. EntryInv(R, st, last, delivered, pel)
  BY <1>5, <1>9, <1>12, <1>13, <1>14, <1>15 DEF EntryInv
<1>17. ScoreInv(R, [i \in Ids |-> IF i \in F THEN NoScore ELSE delayed[i]], leases, failed)
  BY <1>0, <1>1, <1>3, <1>4 DEF ScoreInv
<1>18. \A i \in Ids : Queued(R, i) => Exists(i)
  BY <1>1, <1>3 DEF Queued, Exists
<1>19. StaleLeases = {}
  BY <1>0 DEF ScoreInv, StaleLeases, UpTo, Exists
<1>20. QED
  BY <1>5, <1>16, <1>17, <1>18, <1>19 DEF R, st, last

LEMMA IndexReceive ==
  ASSUME TypeOK, IndexInv, lost = 0, NEW t \in Tokens, NEW answered \in BOOLEAN,
         Receive(t, answered)
  PROVE  /\ ScoreInv(rec', delayed', leases', failed')
         /\ EntryInv(rec', stream', lastEid', delivered', pel')
<1>1. PICK F \in SUBSET UpTo(delayed, clock), K \in SUBSET StaleLeases :
        \E at \in Positions(F) : ReceiveWith(t, answered, F, K, at)
  BY Zenon DEF Receive
<1>2. PICK at \in Positions(F) : ReceiveWith(t, answered, F, K, at)
  BY <1>1
<1> DEFINE R == Promote(F)
           st == Promoted(F, at)
<1>3. PromoteOK(F, at)
  BY <1>2, Zenon DEF ReceiveWith
<1>4. /\ lastEid' = lastEid + Cardinality(Promotable(F))
      /\ delayed' = [i \in Ids |-> IF i \in F THEN NoScore ELSE delayed[i]]
      /\ failed' = failed
  BY <1>2, Zenon DEF ReceiveWith
<1>5. /\ R \in [Ids -> Record] /\ Cardinality(Promotable(F)) \in Nat
  BY PromoteType DEF UpTo
<1>6. /\ K = {}
      /\ \A i \in Ids : Queued(R, i) => Exists(i)
      /\ ScoreInv(R, delayed', leases, failed')
      /\ EntryInv(R, st, lastEid', delivered, pel)
      /\ st \in SUBSET Entries
  BY <1>3, <1>4, PromoteIndex
<1>7. /\ lastEid' \in Nat /\ delivered \in Nat /\ pel \in SUBSET Nat
      /\ clock + Lease # NoScore
  BY <1>4, <1>5 DEF TypeOK, Time, NoScore
<1>8. \A y \in st : Exists(y.id)
  BY <1>6 DEF EntryInv, Entries
<1> DEFINE Goal == /\ ScoreInv(rec', delayed', leases', failed')
                   /\ EntryInv(rec', stream', lastEid', delivered', pel')
<1>9. ASSUME NEW i \in Ids, Recover(i, t, answered, K, R, st)
      PROVE  Goal
  <2> HIDE DEF R, st
  <2>1. R[i].s = "inflight" /\ R[i] \in Record
    BY <1>5, <1>9 DEF Recover, CheckRecord
  <2>2. rec'[i].s = "inflight" /\ rec'[i].e = R[i].e /\ rec'[i].tok = t
    BY <1>5, <1>9, <2>1 DEF Recover, Record
  <2>3. \A j \in Ids : j # i => rec'[j] = R[j]
    BY <1>5, <1>9 DEF Recover
  <2>4. /\ stream' = st /\ UNCHANGED <<delivered, pel>>
        /\ leases' = [j \in Ids |-> IF j = i THEN clock + Lease ELSE leases[j]]
    BY <1>6, <1>9 DEF Recover
  <2>5. t # NoToken
    BY DEF Tokens, NoToken
  <2>6. ScoreInv(rec', delayed', leases', failed')
    BY <1>6, <1>7, <2>1, <2>2, <2>3, <2>4, <2>5 DEF ScoreInv
  <2>7. EntryInv(rec', st, lastEid', delivered, pel)
    BY <1>6, <2>1, <2>2, <2>3, SameEntries
  <2>8. QED
    BY <2>4, <2>6, <2>7
<1>10. ASSUME NEW x \in st, ClaimNew(x, t, answered, K, R, st)
       PROVE  Goal
  <2> HIDE DEF R, st
  <2>0. x.id \in Ids /\ x.eid \in Nat
    BY <1>6 DEF Entries
  <2>1. R[x.id].s = "ready" /\ R[x.id] \in Record
    BY <1>5, <1>10, <2>0 DEF ClaimNew, CheckRecord
  <2>2. rec'[x.id].s = "inflight" /\ rec'[x.id].e = x.eid /\ rec'[x.id].tok = t
    BY <1>5, <1>10, <2>0, <2>1 DEF ClaimNew, Record
  <2>3. \A j \in Ids : j # x.id => rec'[j] = R[j]
    BY <1>5, <1>10 DEF ClaimNew
  <2>4. StaleBefore(x, st) = {}
    BY <1>8, <1>10 DEF ClaimNew, StaleBefore, Undelivered
  <2>5. /\ stream' = st /\ delivered' = x.eid /\ pel' = pel \cup {x.eid}
        /\ leases' = [j \in Ids |-> IF j = x.id THEN clock + Lease ELSE leases[j]]
    BY <1>6, <1>10, <2>4 DEF ClaimNew
  <2>6. x.eid > delivered /\ \A y \in st : y.eid > delivered => y.eid >= x.eid
    BY <1>6, <1>10, <2>0, <2>4 DEF ClaimNew, StaleBefore, Undelivered, Entries
  <2>7. t # NoToken
    BY DEF Tokens, NoToken
  <2>8. ScoreInv(rec', delayed', leases', failed')
    BY <1>6, <1>7, <2>0, <2>1, <2>2, <2>3, <2>5, <2>7 DEF ScoreInv
  <2>9. EntryInv(rec', st, lastEid', x.eid, pel \cup {x.eid})
    BY <1>6, <1>7, <2>2, <2>3, <2>6, ReadEntry
  <2>10. QED
    BY <2>5, <2>8, <2>9
<1>11. ASSUME ClaimNothing(t, K, R, st)
       PROVE  Goal
  <2> HIDE DEF R, st
  <2>1. rec' = R /\ UNCHANGED <<delivered, pel>>
    BY <1>11 DEF ClaimNothing
  <2>2. leases' = [j \in Ids |-> leases[j]]
    BY <1>6, <1>11 DEF ClaimNothing
  <2>3. \E D \in SUBSET Undelivered(st) : (\A y \in D : ~Exists(y.id)) /\ stream' = st \ D
    <3>1. \A x \in st : StaleBefore(x, st) \subseteq Undelivered(st)
      BY DEF StaleBefore
    <3>2. Undelivered(st) \subseteq st
      BY DEF Undelivered
    <3>3. CASE stream' = st
      <4>1. {} \in SUBSET Undelivered(st) /\ stream' = st \ {}
        BY <3>3
      <4>2. QED
        BY <4>1
    <3>4. CASE \E x \in Undelivered(st) : /\ \A y \in StaleBefore(x, st) : ~Exists(y.id)
                                         /\ stream' = st \ StaleBefore(x, st)
      BY <3>1, <3>2, <3>4
    <3>5. CASE \E D \in SUBSET Undelivered(st) : /\ \A y \in D : ~Exists(y.id)
                                                /\ stream' = st \ D
      BY <3>5
    <3>6. QED
      BY <1>11, <3>3, <3>4, <3>5 DEF ClaimNothing
  <2>4. stream' = st
    BY <1>8, <2>3 DEF Undelivered
  <2>5. leases' = leases
    BY <2>2 DEF TypeOK
  <2>6. QED
    BY <1>6, <2>1, <2>4, <2>5
<1>12. QED
  BY <1>2, <1>9, <1>10, <1>11 DEF ReceiveWith

(* What has vanished stays counted. *)
LEMMA LostKept == TypeOK /\ [Next]_vars /\ lost' = 0 => lost = 0
<1> SUFFICES ASSUME TypeOK, [Next]_vars
             PROVE  lost' = lost \/ lost' = lost + 1
  BY SMT DEF TypeOK
<1>1. ASSUME NEW i \in Ids, NEW c \in Contents, NEW dedup \in BOOLEAN, Enqueue(i, c, dedup)
      PROVE  lost' = lost
  BY <1>1, Zenon DEF Enqueue, EnqueueNew, EnqueueDuplicate
<1>2. ASSUME NEW t \in Tokens, NEW answered \in BOOLEAN, Receive(t, answered)
      PROVE  lost' = lost
  BY <1>2, Zenon DEF Receive, ReceiveWith
<1>3. ASSUME NEW d \in issued, Ack(d) \/ Renew(d) \/ Fail(d) \/ \E delay \in Delays : Retry(d, delay)
      PROVE  lost' = lost
  BY <1>3, Zenon DEF Ack, Renew, Fail, Retry
<1>4. ASSUME NEW i \in Ids, ReplayFailed(i)
      PROVE  lost' = lost
  BY <1>4, Zenon DEF ReplayFailed
<1>5. ASSUME NEW i \in Ids, LoseRecord(i)
      PROVE  lost' = lost + 1
  BY <1>5, Zenon DEF LoseRecord
<1>6. Tick \/ UNCHANGED vars => lost' = lost
  BY Zenon DEF Tick, vars
<1>7. QED
  BY <1>1, <1>2, <1>3, <1>4, <1>5, <1>6, Zenon DEF Next

LEMMA IndexNext == TypeOK /\ IndexInv /\ [Next]_vars => IndexInv'
<1> SUFFICES ASSUME TypeOK, IndexInv, [Next]_vars, lost' = 0
             PROVE  /\ ScoreInv(rec', delayed', leases', failed')
                    /\ EntryInv(rec', stream', lastEid', delivered', pel')
  BY DEF IndexInv
<1> DEFINE Goal == /\ ScoreInv(rec', delayed', leases', failed')
                   /\ EntryInv(rec', stream', lastEid', delivered', pel')
<1>0. /\ lost \in Nat /\ stream \in SUBSET Entries /\ lastEid \in Nat /\ delivered \in Nat
      /\ pel \in SUBSET Nat
      /\ \A k \in Nat : k # NoScore
  BY DEF TypeOK, Entries, NoScore
<1>1. lost = 0 => /\ EntryInv(rec, stream, lastEid, delivered, pel)
                  /\ ScoreInv(rec, delayed, leases, failed)
  BY DEF IndexInv
<1>2. ASSUME NEW i \in Ids, NEW c \in Contents, NEW dedup \in BOOLEAN, Enqueue(i, c, dedup)
      PROVE  Goal
  <2>1. CASE EnqueueNew(i, c, dedup)
    <3>1. rec'[i].s = "ready" /\ rec'[i].tok = NoToken /\ \A j \in Ids : j # i => rec'[j] = rec[j]
      BY <2>1 DEF EnqueueNew, TypeOK, NoRecord
    <3>2. rec[i].s = "none" /\ UNCHANGED <<delayed, leases, failed, delivered, pel, lost>>
      BY <2>1 DEF EnqueueNew, Exists
    <3>3. ScoreInv(rec', delayed', leases', failed')
      BY <1>1, <3>1, <3>2 DEF ScoreInv
    <3>4. EntryInv(rec', stream \cup {[eid |-> lastEid + 1, id |-> i]}, lastEid + 1, delivered, pel)
      BY <1>0, <1>1, <3>1, <3>2, AddEntry DEF Queued
    <3>5. QED
      BY <2>1, <3>2, <3>3, <3>4 DEF EnqueueNew
  <2>2. CASE EnqueueDuplicate(i, c, dedup)
    BY <1>1, <2>2 DEF EnqueueDuplicate, redis
  <2>3. QED
    BY <1>2, <2>1, <2>2 DEF Enqueue
<1>3. ASSUME NEW t \in Tokens, NEW answered \in BOOLEAN, Receive(t, answered)
      PROVE  Goal
  <2>1. UNCHANGED lost
    BY <1>3, Zenon DEF Receive, ReceiveWith
  <2>2. QED
    BY <1>3, <2>1, IndexReceive
<1>4. ASSUME NEW d \in issued, Ack(d)
      PROVE  Goal
  <2>1. d.id \in Ids /\ rec[d.id].s = "inflight"
    BY <1>4, HoldsClaimType DEF Ack, HoldsClaim
  <2>2. /\ rec'[d.id] = NoRecord /\ \A j \in Ids : j # d.id => rec'[j] = rec[j]
        /\ leases' = [leases EXCEPT ![d.id] = NoScore]
        /\ UNCHANGED <<delayed, failed, lastEid, delivered, lost>>
        /\ pel' = pel \ {rec[d.id].e} /\ stream' = {x \in stream : x.eid # rec[d.id].e}
    BY <1>4, <2>1 DEF Ack, ReleaseEntry, TypeOK
  <2>3. NoRecord.s = "none" /\ NoRecord.tok = NoToken
    BY DEF NoRecord
  <2>4. ScoreInv(rec', delayed', leases', failed')
    BY <1>1, <2>1, <2>2, <2>3 DEF ScoreInv, TypeOK
  <2>5. EntryInv(rec', {x \in stream : x.eid # rec[d.id].e}, lastEid, delivered, pel \ {rec[d.id].e})
    BY <1>0, <1>1, <2>1, <2>2, <2>3, DropEntry DEF Queued
  <2>6. QED
    BY <2>2, <2>4, <2>5
<1>5. ASSUME NEW d \in issued, Renew(d)
      PROVE  Goal
  <2>1. d.id \in Ids /\ rec[d.id].s = "inflight"
    BY <1>5, HoldsClaimType DEF Renew, HoldsClaim
  <2>2. clock + Lease # NoScore
    BY <1>0 DEF TypeOK, Time
  <2>3. ScoreInv(rec', delayed', leases', failed')
    BY <1>1, <1>5, <2>1, <2>2 DEF ScoreInv, TypeOK, Renew
  <2>4. QED
    BY <1>1, <1>5, <2>3 DEF Renew
<1>6. ASSUME NEW d \in issued, NEW delay \in Delays, Retry(d, delay)
      PROVE  Goal
  <2>1. d.id \in Ids /\ rec[d.id].s = "inflight" /\ rec[d.id] \in Record
    BY <1>6, HoldsClaimType DEF Retry, HoldsClaim
  <2>2. /\ rec'[d.id].s = "delayed" /\ rec'[d.id].tok = NoToken
        /\ \A j \in Ids : j # d.id => rec'[j] = rec[j]
    BY <1>6, <2>1 DEF Retry, TypeOK, Record
  <2>3. /\ leases' = [leases EXCEPT ![d.id] = NoScore]
        /\ delayed' = [delayed EXCEPT ![d.id] = clock + delay]
        /\ UNCHANGED <<failed, lastEid, delivered, lost>>
        /\ pel' = pel \ {rec[d.id].e} /\ stream' = {x \in stream : x.eid # rec[d.id].e}
    BY <1>6 DEF Retry, ReleaseEntry
  <2>4. clock + delay # NoScore
    BY <1>0 DEF TypeOK, Time
  <2>5. ScoreInv(rec', delayed', leases', failed')
    BY <1>1, <2>1, <2>2, <2>3, <2>4 DEF ScoreInv, TypeOK
  <2>6. EntryInv(rec', {x \in stream : x.eid # rec[d.id].e}, lastEid, delivered, pel \ {rec[d.id].e})
    BY <1>0, <1>1, <2>1, <2>2, <2>3, DropEntry DEF Queued
  <2>7. QED
    BY <2>3, <2>5, <2>6
<1>7. ASSUME NEW d \in issued, Fail(d)
      PROVE  Goal
  <2> DEFINE R == [rec EXCEPT ![d.id] =
                     [rec[d.id] EXCEPT !.s = "failed", !.tok = NoToken, !.e = NoEntry]]
             Gone(old) == {i \in old : R[i].s = "failed"}
  <2>1. d.id \in Ids /\ rec[d.id].s = "inflight" /\ rec[d.id] \in Record
    <3>1. HoldsClaim(d)
      BY <1>7, Zenon DEF Fail
    <3>2. QED
      BY <3>1, HoldsClaimType DEF HoldsClaim
  <2>2. PICK old \in SUBSET UpTo(failed, Cutoff) :
          /\ rec' = [i \in Ids |-> IF i \in Gone(old) THEN NoRecord ELSE R[i]]
          /\ failed' = [i \in Ids |-> IF i \in old THEN NoScore
                                      ELSE IF i = d.id THEN clock ELSE failed[i]]
    BY <1>7, Zenon DEF Fail
  <2>3. /\ leases' = [leases EXCEPT ![d.id] = NoScore]
        /\ UNCHANGED <<delayed, lastEid, delivered, lost>>
        /\ pel' = pel \ {rec[d.id].e} /\ stream' = {x \in stream : x.eid # rec[d.id].e}
    BY <1>7, Zenon DEF Fail, ReleaseEntry
  <2>4. lost = 0 => \A i \in old : i \in Ids /\ rec[i].s = "failed"
    BY <1>1 DEF ScoreInv, UpTo
  <2>5. /\ R[d.id].s = "failed" /\ R[d.id].tok = NoToken
        /\ \A j \in Ids : j # d.id => R[j] = rec[j]
    BY <2>1 DEF TypeOK, Record
  <2> HIDE DEF R
  <2>6. lost = 0
    BY <2>3
  <2>7. /\ rec'[d.id] = R[d.id]
        /\ \A i \in Ids : rec'[i] = IF i \in old THEN NoRecord ELSE R[i]
    BY <2>1, <2>2, <2>4, <2>5, <2>6
  <2>8. NoRecord.s = "none" /\ NoRecord.tok = NoToken
    BY DEF NoRecord
  <2>9. clock # NoScore
    BY <1>0 DEF TypeOK, Time
  <2>10. ScoreInv(rec', delayed', leases', failed')
    <3> SUFFICES ASSUME NEW i \in Ids
                 PROVE  /\ leases'[i] # NoScore <=> rec'[i].s = "inflight"
                        /\ delayed'[i] # NoScore <=> rec'[i].s = "delayed"
                        /\ failed'[i] # NoScore <=> rec'[i].s = "failed"
                        /\ rec'[i].tok # NoToken <=> rec'[i].s = "inflight"
      BY DEF ScoreInv
    <3>1. /\ leases[i] # NoScore <=> rec[i].s = "inflight"
          /\ delayed[i] # NoScore <=> rec[i].s = "delayed"
          /\ failed[i] # NoScore <=> rec[i].s = "failed"
          /\ rec[i].tok # NoToken <=> rec[i].s = "inflight"
      BY <1>1, <2>6 DEF ScoreInv
    <3>2. leases'[i] = IF i = d.id THEN NoScore ELSE leases[i]
      BY <2>3 DEF TypeOK
    <3>3. CASE i = d.id
      BY <2>1, <2>2, <2>3, <2>4, <2>5, <2>6, <2>7, <2>9, <3>1, <3>2, <3>3
    <3>4. CASE i \in old
      BY <2>1, <2>2, <2>3, <2>4, <2>6, <2>7, <2>8, <3>1, <3>2, <3>4
    <3>5. CASE i # d.id /\ i \notin old
      BY <2>2, <2>3, <2>5, <2>7, <3>1, <3>2, <3>5
    <3>6. QED
      BY <3>3, <3>4, <3>5
  <2>11. EntryInv(rec', {x \in stream : x.eid # rec[d.id].e}, lastEid, delivered, pel \ {rec[d.id].e})
    <3>1. ~Queued(rec', d.id)
      BY <2>5, <2>7 DEF Queued
    <3>2. \A j \in Ids : j # d.id => rec'[j] = rec[j] \/ (~Queued(rec, j) /\ ~Queued(rec', j))
      BY <2>4, <2>5, <2>6, <2>7, <2>8 DEF Queued
    <3>3. QED
      BY <1>0, <1>1, <2>1, <2>6, <3>1, <3>2, DropEntry
  <2>12. QED
    BY <2>3, <2>10, <2>11
<1>8. ASSUME NEW i \in Ids, ReplayFailed(i)
      PROVE  Goal
  <2>1. rec[i].s = "failed" /\ rec[i] \in Record
    BY <1>8 DEF ReplayFailed, CheckRecord, TypeOK
  <2>2. /\ rec'[i].s = "ready" /\ rec'[i].tok = rec[i].tok
        /\ \A j \in Ids : j # i => rec'[j] = rec[j]
    BY <1>8, <2>1 DEF ReplayFailed, TypeOK, Record
  <2>3. /\ failed' = [failed EXCEPT ![i] = NoScore]
        /\ UNCHANGED <<delayed, leases, delivered, pel, lost>>
    BY <1>8 DEF ReplayFailed
  <2>4. ScoreInv(rec', delayed', leases', failed')
    BY <1>1, <2>1, <2>2, <2>3 DEF ScoreInv, TypeOK
  <2>5. EntryInv(rec', stream \cup {[eid |-> lastEid + 1, id |-> i]}, lastEid + 1, delivered, pel)
    BY <1>0, <1>1, <2>1, <2>2, <2>3, AddEntry DEF Queued
  <2>6. QED
    BY <1>8, <2>3, <2>4, <2>5 DEF ReplayFailed
<1>9. ASSUME NEW i \in Ids, LoseRecord(i)
      PROVE  FALSE
  BY <1>0, <1>9 DEF LoseRecord
<1>10. CASE Tick \/ UNCHANGED vars
  BY <1>1, <1>10 DEF Tick, vars, redis
<1>11. QED
  BY <1>2, <1>3, <1>4, <1>5, <1>6, <1>7, <1>8, <1>9, <1>10 DEF Next

LEMMA IndexInit == Init => IndexInv
<1> SUFFICES ASSUME Init PROVE IndexInv
  OBVIOUS
<1>1. ScoreInv(rec, delayed, leases, failed)
  BY DEF Init, ScoreInv, NoRecord
<1>2. EntryInv(rec, stream, lastEid, delivered, pel)
  BY DEF Init, EntryInv, Queued, NoRecord, NoEntry
<1>3. QED
  BY <1>1, <1>2 DEF IndexInv

(* As long as no record vanishes from outside, the nine scripts keep the five
   keys consistent: a task is in exactly the indexes its state says, a ready
   one has one unread entry, a claimed one its lease and its pending entry. *)
THEOREM HomesCorrect == Spec => []HomesConsistent
BY IndexInit, IndexNext, IndexImpliesHomes, TypeCorrect, PTL DEF Spec

----------------------------------------------------------------------------
(* The life of a record.  Each operator is one of the things a step may do to
   the record of task i. *)

Added(i)  == rec[i].s = "none" /\ \E c \in Contents, dedup \in BOOLEAN : EnqueueNew(i, c, dedup)
IsDue(i)  == rec[i].s = "delayed" /\ delayed[i] <= clock
Woken(i)  == IsDue(i) /\ rec'[i] = [rec[i] EXCEPT !.s = "ready"]

Granted(i) ==
  /\ IsDue(i) \/ rec[i].s = "ready" \/ (rec[i].s = "inflight" /\ leases[i] <= clock)
  /\ rec'[i].s = "inflight" /\ rec'[i].n = rec[i].n + 1
  /\ rec'[i].r = rec[i].r /\ rec'[i].rp = rec[i].rp
  /\ rec'[i].h = rec[i].h /\ rec'[i].dd = rec[i].dd

Concluded(i) ==
  \E d \in issued :
    /\ d.id = i /\ HoldsClaim(d)
    /\ \/ rec'[i] = NoRecord /\ <<i, rec[i].h>> \in settled'
       \/ rec'[i] = [rec[i] EXCEPT !.s = "delayed", !.tok = NoToken, !.e = NoEntry, !.r = rec[i].r + 1]
       \/ rec'[i] = [rec[i] EXCEPT !.s = "failed", !.tok = NoToken, !.e = NoEntry]

Pruned(i) ==
  /\ rec[i].s = "failed" /\ Retention > 0 /\ failed[i] + Retention <= clock
  /\ rec'[i] = NoRecord /\ <<i, rec[i].h>> \in settled'

Replayed(i) ==
  rec[i].s = "failed" /\ rec'[i] = [rec[i] EXCEPT !.s = "ready", !.r = 0, !.rp = rec[i].rp + 1]

Vanished(i) == lost' # lost /\ rec'[i] = NoRecord /\ <<i, rec[i].h>> \in settled'

Lives(i) ==
  \/ rec'[i] = rec[i] \/ Added(i) \/ Woken(i) \/ Granted(i) \/ Concluded(i)
  \/ Pruned(i) \/ Replayed(i) \/ Vanished(i)

(* What receiveScript does to the records: due retries become ready, and at
   most one task is claimed. *)
LEMMA LifeReceive ==
  ASSUME TypeOK, NEW t \in Tokens, NEW answered \in BOOLEAN, Receive(t, answered), NEW i \in Ids
  PROVE  rec'[i] = rec[i] \/ Woken(i) \/ Granted(i)
<1>1. PICK F \in SUBSET UpTo(delayed, clock), K \in SUBSET StaleLeases :
        \E at \in Positions(F) : ReceiveWith(t, answered, F, K, at)
  BY Zenon DEF Receive
<1>2. PICK at \in Positions(F) : ReceiveWith(t, answered, F, K, at)
  BY <1>1
<1> DEFINE R == Promote(F)
           st == Promoted(F, at)
<1>3. R \in [Ids -> Record] /\ st \in SUBSET [eid : Nat, id : Ids]
  BY PromoteType DEF UpTo
<1>4. /\ rec[i] \in Record /\ R[i] \in Record /\ delayed[i] \in Scores
      /\ R[i].h = rec[i].h /\ R[i].dd = rec[i].dd /\ R[i].n = rec[i].n
      /\ R[i].r = rec[i].r /\ R[i].rp = rec[i].rp
  BY <1>3 DEF TypeOK, Promote, Record
<1>5. \/ R[i] = rec[i]
      \/ IsDue(i) /\ R[i] = [rec[i] EXCEPT !.s = "ready"]
  BY <1>2 DEF ReceiveWith, PromoteOK, Promote, Promotable, CheckRecord, UpTo, IsDue
<1>6. CASE rec'[i] = R[i]
  BY <1>5, <1>6 DEF Woken
<1>7. R[i].s = "ready" => rec[i].s = "ready" \/ IsDue(i)
  BY <1>5
<1>8. R[i].s = "inflight" => rec[i].s = "inflight"
  BY <1>4, <1>5 DEF Record
<1>9. ASSUME NEW j \in Ids, Recover(j, t, answered, K, R, st)
      PROVE  rec'[i] = R[i] \/ Granted(i)
  <2> HIDE DEF R, st
  <2>1. CASE i = j
    <3>1. R[i].s = "inflight" /\ leases[i] <= clock
      BY <1>9, <2>1 DEF Recover, CheckRecord, UpTo
    <3>2. rec'[i] = [R[i] EXCEPT !.tok = t, !.n = R[i].n + 1]
      BY <1>3, <1>9, <2>1 DEF Recover
    <3>3. QED
      BY <1>4, <1>8, <3>1, <3>2 DEF Granted, Record
  <2>2. CASE i # j
    BY <1>3, <1>9, <2>2 DEF Recover
  <2>3. QED
    BY <2>1, <2>2
<1>10. ASSUME NEW x \in st, ClaimNew(x, t, answered, K, R, st)
       PROVE  rec'[i] = R[i] \/ Granted(i)
  <2> HIDE DEF R, st
  <2>1. CASE i = x.id
    <3>1. R[i].s = "ready"
      BY <1>10, <2>1 DEF ClaimNew, CheckRecord
    <3>2. rec'[i] = [R[i] EXCEPT !.s = "inflight", !.tok = t, !.e = x.eid, !.n = R[i].n + 1]
      BY <1>3, <1>10, <2>1 DEF ClaimNew
    <3>3. QED
      BY <1>4, <1>7, <3>1, <3>2 DEF Granted, Record
  <2>2. CASE i # x.id
    BY <1>3, <1>10, <2>2 DEF ClaimNew
  <2>3. QED
    BY <2>1, <2>2
<1>11. ASSUME ClaimNothing(t, K, R, st)
       PROVE  rec'[i] = R[i]
  BY <1>11, Zenon DEF ClaimNothing
<1>12. QED
  BY <1>2, <1>6, <1>9, <1>10, <1>11 DEF ReceiveWith

(* failScript: the task of the delivery, and the retained tasks it prunes. *)
LEMMA LifeFail ==
  ASSUME TypeOK, NEW d \in issued, Fail(d), NEW i \in Ids
  PROVE  rec'[i] = rec[i] \/ Concluded(i) \/ Pruned(i)
<1> DEFINE R == [rec EXCEPT ![d.id] =
                   [rec[d.id] EXCEPT !.s = "failed", !.tok = NoToken, !.e = NoEntry]]
           Gone(old) == {j \in old : R[j].s = "failed"}
<1>1. PICK old \in SUBSET UpTo(failed, Cutoff) :
        /\ OutdatedBatch(old)
        /\ rec' = [j \in Ids |-> IF j \in Gone(old) THEN NoRecord ELSE R[j]]
        /\ settled' = settled \cup {<<j, rec[j].h>> : j \in Gone(old)}
  BY Zenon DEF Fail
<1>2. HoldsClaim(d) /\ d.id \in Ids /\ rec[d.id] \in Record /\ rec \in [Ids -> Record]
  BY HoldsClaimType DEF Fail, TypeOK
<1>3. i # d.id => R[i] = rec[i]
  BY <1>2
<1>4. i = d.id => R[i] = [rec[i] EXCEPT !.s = "failed", !.tok = NoToken, !.e = NoEntry]
  BY <1>2
<1> HIDE DEF R
<1>5. CASE i \in Gone(old)
  <2>1. rec'[i] = NoRecord /\ <<i, rec[i].h>> \in settled' /\ i \in old
    BY <1>1, <1>5
  <2>2. failed[i] \in Int /\ clock \in Int /\ Retention \in Int
    BY DEF TypeOK, Scores, Time, NoScore
  <2>3. Retention > 0 /\ failed[i] <= Cutoff
    BY <1>1, <2>1 DEF OutdatedBatch, UpTo
  <2>4. CASE i = d.id
    BY <1>2, <2>1, <2>4 DEF Concluded
  <2>5. CASE i # d.id
    BY <1>3, <1>5, <2>1, <2>2, <2>3, <2>5 DEF Pruned, Cutoff
  <2>6. QED
    BY <2>4, <2>5
<1>6. CASE i \notin Gone(old)
  BY <1>1, <1>2, <1>3, <1>4, <1>6 DEF Concluded
<1>7. QED
  BY <1>5, <1>6

LEMMA Life == ASSUME TypeOK, [Next]_vars, NEW i \in Ids PROVE Lives(i)
<1>0. rec \in [Ids -> Record] /\ rec[i] \in Record
  BY DEF TypeOK
<1>1. ASSUME NEW j \in Ids, NEW c \in Contents, NEW dedup \in BOOLEAN, Enqueue(j, c, dedup)
      PROVE  Lives(i)
  <2>1. CASE EnqueueNew(j, c, dedup) /\ i = j
    BY <2>1 DEF EnqueueNew, Exists, Added, Lives
  <2>2. CASE EnqueueNew(j, c, dedup) /\ i # j
    BY <1>0, <2>2 DEF EnqueueNew, Lives
  <2>3. CASE EnqueueDuplicate(j, c, dedup)
    BY <2>3 DEF EnqueueDuplicate, redis, Lives
  <2>4. QED
    BY <1>1, <2>1, <2>2, <2>3 DEF Enqueue
<1>2. ASSUME NEW t \in Tokens, NEW answered \in BOOLEAN, Receive(t, answered)
      PROVE  Lives(i)
  BY <1>2, LifeReceive DEF Lives
<1>3. ASSUME NEW d \in issued, Ack(d)
      PROVE  Lives(i)
  <2>1. d.id \in Ids
    BY HoldsClaimType
  <2>2. CASE i = d.id
    BY <1>0, <1>3, <2>1, <2>2 DEF Ack, Concluded, Lives
  <2>3. CASE i # d.id
    BY <1>0, <1>3, <2>3 DEF Ack, Lives
  <2>4. QED
    BY <2>2, <2>3
<1>4. ASSUME NEW d \in issued, Renew(d)
      PROVE  Lives(i)
  BY <1>4 DEF Renew, Lives
<1>5. ASSUME NEW d \in issued, NEW delay \in Delays, Retry(d, delay)
      PROVE  Lives(i)
  <2>1. d.id \in Ids
    BY HoldsClaimType
  <2>2. CASE i = d.id
    BY <1>0, <1>5, <2>1, <2>2 DEF Retry, Concluded, Lives
  <2>3. CASE i # d.id
    BY <1>0, <1>5, <2>3 DEF Retry, Lives
  <2>4. QED
    BY <2>2, <2>3
<1>6. ASSUME NEW d \in issued, Fail(d)
      PROVE  Lives(i)
  BY <1>6, LifeFail DEF Lives
<1>7. ASSUME NEW j \in Ids, ReplayFailed(j)
      PROVE  Lives(i)
  BY <1>0, <1>7 DEF ReplayFailed, CheckRecord, Replayed, Lives
<1>8. ASSUME NEW j \in Ids, LoseRecord(j)
      PROVE  Lives(i)
  BY <1>0, <1>8 DEF LoseRecord, Vanished, TypeOK, Lives
<1>9. CASE Tick \/ UNCHANGED vars
  BY <1>9 DEF Tick, vars, redis, Lives
<1>10. QED
  BY <1>1, <1>2, <1>3, <1>4, <1>5, <1>6, <1>7, <1>8, <1>9 DEF Next

(* A claimed task is settled only by a caller who holds its current claim. *)
THEOREM OnlyHolderSettlesCorrect == Spec => OnlyHolderSettles
<1>1. ASSUME TypeOK, [Next]_vars, NEW i \in Ids, Inflight(i), ~Inflight(i)', lost' = lost
      PROVE  \E d \in issued : d.id = i /\ d.tok = rec[i].tok
  <2>1. Concluded(i)
    BY <1>1, Life DEF Lives, Inflight, Added, Woken, IsDue, Granted, Pruned, Replayed, Vanished
  <2>2. QED
    BY <2>1 DEF Concluded, HoldsClaim
<1>2. TypeOK /\ [Next]_vars =>
        [\A i \in Ids : Inflight(i) /\ ~Inflight(i)' /\ lost' = lost =>
            \E d \in issued : d.id = i /\ d.tok = rec[i].tok]_vars
  BY <1>1
<1>3. QED
  BY <1>2, TypeCorrect, PTL DEF Spec, OnlyHolderSettles

(* The Fail of a task keeps it or finds an outdated score of it; it prunes only others
   where no record has vanished, as the task was not retained before. *)
LEMMA FailNew ==
  ASSUME TypeOK, IndexInv, NEW d \in issued, Fail(d)
  PROVE  \/ rec'[d.id].s = "failed" /\ failed'[d.id] = clock
         \/ lost > 0 /\ Retention > 0 /\ failed[d.id] # NoScore /\ failed[d.id] + Retention <= clock
<1> DEFINE R == [rec EXCEPT ![d.id] =
                   [rec[d.id] EXCEPT !.s = "failed", !.tok = NoToken, !.e = NoEntry]]
           Gone(old) == {j \in old : R[j].s = "failed"}
<1>1. PICK old \in SUBSET UpTo(failed, Cutoff) :
        /\ OutdatedBatch(old)
        /\ rec' = [j \in Ids |-> IF j \in Gone(old) THEN NoRecord ELSE R[j]]
        /\ failed' = [j \in Ids |-> IF j \in old THEN NoScore
                                    ELSE IF j = d.id THEN clock ELSE failed[j]]
  BY Zenon DEF Fail
<1>2. HoldsClaim(d) /\ d.id \in Ids /\ rec[d.id] \in Record /\ rec \in [Ids -> Record]
  BY HoldsClaimType DEF Fail, TypeOK
<1>3. old # {} => Retention > 0
  BY <1>1 DEF OutdatedBatch
<1>4. ASSUME d.id \in old
      PROVE  lost > 0 /\ Retention > 0 /\ failed[d.id] # NoScore /\ failed[d.id] + Retention <= clock
  <2>1. failed[d.id] # NoScore /\ failed[d.id] <= clock - Retention
    BY <1>4 DEF UpTo, Cutoff
  <2>2. lost # 0
    BY <1>2, <2>1 DEF IndexInv, ScoreInv, HoldsClaim
  <2>3. QED
    <3>1. failed[d.id] \in Int /\ clock \in Nat /\ lost \in Nat /\ Retention \in Nat
      BY <1>2, ConstantsAssumption DEF TypeOK, Scores, NoScore, Time
    <3>2. Retention > 0
      BY <1>3, <1>4
    <3>3. QED
      BY <2>1, <2>2, <3>1, <3>2
<1>5. R[d.id].s = "failed"
  BY <1>2 DEF Record
<1> HIDE DEF R
<1>6. CASE d.id \notin old
  BY <1>1, <1>2, <1>5, <1>6
<1>7. QED
  BY <1>4, <1>6

(* A failed task is kept until it is replayed or its retention has passed; and a
   Fail keeps its own task, unless a vanished record of the same id has left an
   outdated score in the index. *)
THEOREM FailedRetainedCorrect == Spec => FailedRetained
<1>1. ASSUME TypeOK, [Next]_vars, NEW i \in Ids, rec[i].s = "failed",
             rec'[i].s \notin {"failed", "ready"}, lost' = lost
      PROVE  Retention > 0 /\ failed[i] + Retention <= clock
  <2>1. rec[i] \in Record
    BY <1>1 DEF TypeOK
  <2>2. ~Replayed(i)
    BY <1>1, <2>1 DEF Replayed, Record
  <2>3. Pruned(i)
    BY <1>1, <2>2, Life DEF Lives, Added, Woken, IsDue, Granted, Concluded, HoldsClaim, Vanished
  <2>4. QED
    BY <2>3 DEF Pruned
<1>2. ASSUME TypeOK, IndexInv, [Next]_vars, NEW i \in Ids
      PROVE  /\ rec[i].s = "failed" /\ rec'[i].s \notin {"failed", "ready"} /\ lost' = lost =>
                  Retention > 0 /\ failed[i] + Retention <= clock
             /\ \A d \in issued : d.id = i /\ Fail(d) =>
                  \/ rec'[i].s = "failed" /\ failed'[i] = clock
                  \/ lost > 0 /\ Retention > 0 /\ failed[i] # NoScore /\ failed[i] + Retention <= clock
  <2>1. ASSUME NEW d \in issued, d.id = i, Fail(d)
        PROVE  \/ rec'[i].s = "failed" /\ failed'[i] = clock
               \/ lost > 0 /\ Retention > 0 /\ failed[i] # NoScore /\ failed[i] + Retention <= clock
    BY <1>2, <2>1, FailNew
  <2>2. QED
    BY <1>1, <1>2, <2>1, Zenon
<1>3. TypeOK /\ IndexInv /\ [Next]_vars =>
        [\A i \in Ids :
           /\ rec[i].s = "failed" /\ rec'[i].s \notin {"failed", "ready"} /\ lost' = lost =>
                Retention > 0 /\ failed[i] + Retention <= clock
           /\ \A d \in issued : d.id = i /\ Fail(d) =>
                \/ rec'[i].s = "failed" /\ failed'[i] = clock
                \/ lost > 0 /\ Retention > 0 /\ failed[i] # NoScore /\ failed[i] + Retention <= clock]_vars
  BY <1>2, Zenon
<1>4. QED
  BY <1>3, IndexInit, IndexNext, TypeCorrect, PTL DEF Spec, FailedRetained

----------------------------------------------------------------------------
(* What has been confirmed. *)

Kept(p) == (Exists(p[1]) /\ rec[p[1]].h = p[2]) \/ p \in settled

(* A tombstone answers for the task that was acknowledged: its payload is
   settled, or has been submitted again. *)
KeptInv == NoSilentLoss /\ \A i \in Ids : tomb[i].until # NoScore => Kept(<<i, tomb[i].h>>)

(* A step that is no new submission takes nothing out of the settled payloads. *)
LEMMA SettledStays ==
  ASSUME [Next]_vars, NEW p \in settled
  PROVE  p \in settled' \/ \E i \in Ids, c \in Contents, dedup \in BOOLEAN :
                              EnqueueNew(i, c, dedup) /\ p = <<i, c>>
<1>1. ASSUME NEW i \in Ids, NEW c \in Contents, NEW dedup \in BOOLEAN, Enqueue(i, c, dedup)
      PROVE  p \in settled' \/ (EnqueueNew(i, c, dedup) /\ p = <<i, c>>)
  BY <1>1 DEF Enqueue, EnqueueNew, EnqueueDuplicate
<1>2. ASSUME NEW t \in Tokens, NEW answered \in BOOLEAN, Receive(t, answered)
      PROVE  p \in settled'
  BY <1>2, Zenon DEF Receive, ReceiveWith, ghost
<1>3. ASSUME NEW d \in issued, Fail(d)
      PROVE  p \in settled'
  <2>1. PICK gone : settled' = settled \cup gone
    BY <1>3, Zenon DEF Fail
  <2>2. QED
    BY <2>1
<1>4. ASSUME NEW d \in issued, Ack(d) \/ Renew(d) \/ \E delay \in Delays : Retry(d, delay)
      PROVE  p \in settled'
  BY <1>4 DEF Ack, Renew, Retry, ghost
<1>5. ASSUME NEW i \in Ids, ReplayFailed(i) \/ LoseRecord(i)
      PROVE  p \in settled'
  BY <1>5 DEF ReplayFailed, LoseRecord, ghost
<1>6. CASE Tick \/ UNCHANGED vars
  BY <1>6 DEF Tick, vars, ghost
<1>7. QED
  BY <1>1, <1>2, <1>3, <1>4, <1>5, <1>6 DEF Next

LEMMA KeptStays ==
  ASSUME TypeOK, [Next]_vars, NEW p \in Ids \X Contents, Kept(p)
  PROVE  Kept(p)'
<1>1. PICK i \in Ids, h \in Contents : p = <<i, h>>
  OBVIOUS
<1>2. rec[i] \in Record /\ rec[i].s \in States
  BY DEF TypeOK, Record
<1>3. ASSUME NEW j \in Ids, NEW c \in Contents, NEW dedup \in BOOLEAN, EnqueueNew(j, c, dedup),
             p = <<j, c>>
      PROVE  Kept(p)'
  BY <1>3 DEF EnqueueNew, Kept, Exists, NoRecord, TypeOK
<1>4. CASE p \in settled
  BY <1>3, <1>4, SettledStays DEF Kept
<1>5. CASE rec[i].s # "none" /\ rec[i].h = h
  <2>1. CASE Woken(i)
    BY <1>1, <1>2, <1>5, <2>1 DEF Woken, Kept, Exists, Record
  <2>2. CASE Granted(i)
    BY <1>1, <1>5, <2>2 DEF Granted, Kept, Exists
  <2>3. CASE Concluded(i)
    BY <1>1, <1>2, <1>5, <2>3 DEF Concluded, Kept, Exists, Record
  <2>4. CASE Replayed(i)
    BY <1>1, <1>2, <1>5, <2>4 DEF Replayed, Kept, Exists, Record
  <2>5. QED
    BY <1>1, <1>5, <2>1, <2>2, <2>3, <2>4, Life DEF Lives, Added, Pruned, Vanished, Kept, Exists
<1>6. QED
  BY <1>1, <1>4, <1>5 DEF Kept, Exists

(* The tombstones and the history of completions change with an Ack only. *)
LEMMA DoneStays ==
  ASSUME [Next]_vars, ~\E d \in issued : Ack(d)
  PROVE  UNCHANGED <<tomb, doneAt>>
<1>1. ASSUME NEW i \in Ids, NEW c \in Contents, NEW dedup \in BOOLEAN, Enqueue(i, c, dedup)
      PROVE  UNCHANGED <<tomb, doneAt>>
  BY <1>1 DEF Enqueue, EnqueueNew, EnqueueDuplicate, redis
<1>2. ASSUME NEW t \in Tokens, NEW answered \in BOOLEAN, Receive(t, answered)
      PROVE  UNCHANGED <<tomb, doneAt>>
  BY <1>2, Zenon DEF Receive, ReceiveWith, ghost
<1>3. ASSUME NEW d \in issued, Fail(d)
      PROVE  UNCHANGED <<tomb, doneAt>>
  BY <1>3, Zenon DEF Fail
<1>4. ASSUME NEW d \in issued, Renew(d) \/ \E delay \in Delays : Retry(d, delay)
      PROVE  UNCHANGED <<tomb, doneAt>>
  BY <1>4 DEF Renew, Retry, ghost
<1>5. ASSUME NEW i \in Ids, ReplayFailed(i) \/ LoseRecord(i)
      PROVE  UNCHANGED <<tomb, doneAt>>
  BY <1>5 DEF ReplayFailed, LoseRecord, ghost
<1>6. CASE Tick \/ UNCHANGED vars
  BY <1>6 DEF Tick, vars, redis, ghost
<1>7. QED
  BY <1>1, <1>2, <1>3, <1>4, <1>5, <1>6 DEF Next

(* Payloads are confirmed by Enqueue only. *)
LEMMA ConfirmedStays ==
  ASSUME [Next]_vars,
         ~\E i \in Ids, c \in Contents, dedup \in BOOLEAN : Enqueue(i, c, dedup)
  PROVE  confirmed' = confirmed
<1>1. ASSUME NEW t \in Tokens, NEW answered \in BOOLEAN, Receive(t, answered)
      PROVE  confirmed' = confirmed
  BY <1>1, Zenon DEF Receive, ReceiveWith, ghost
<1>2. ASSUME NEW d \in issued, Fail(d)
      PROVE  confirmed' = confirmed
  BY <1>2, Zenon DEF Fail
<1>3. ASSUME NEW d \in issued, Ack(d) \/ Renew(d) \/ \E delay \in Delays : Retry(d, delay)
      PROVE  confirmed' = confirmed
  BY <1>3 DEF Ack, Renew, Retry, ghost
<1>4. ASSUME NEW i \in Ids, ReplayFailed(i) \/ LoseRecord(i)
      PROVE  confirmed' = confirmed
  BY <1>4 DEF ReplayFailed, LoseRecord, ghost
<1>5. CASE Tick \/ UNCHANGED vars
  BY <1>5 DEF Tick, vars, ghost
<1>6. QED
  BY <1>1, <1>2, <1>3, <1>4, <1>5 DEF Next

LEMMA KeptNext == TypeOK /\ KeptInv /\ [Next]_vars => KeptInv'
<1> SUFFICES ASSUME TypeOK, KeptInv, [Next]_vars PROVE KeptInv'
  OBVIOUS
<1>1. ASSUME NEW i \in Ids, NEW c \in Contents, <<i, c>> \in confirmed'
      PROVE  (Exists(i)' /\ rec'[i].h = c) \/ <<i, c>> \in settled'
  <2>1. CASE <<i, c>> \in confirmed
    BY <2>1, KeptStays DEF KeptInv, NoSilentLoss, Kept, Exists
  <2>2. CASE <<i, c>> \notin confirmed
    <3>1. PICK j \in Ids, k \in Contents, dedup \in BOOLEAN : Enqueue(j, k, dedup)
      BY <1>1, <2>2, ConfirmedStays
    <3>2. j = i /\ k = c
      BY <1>1, <2>2, <3>1 DEF Enqueue, EnqueueNew, EnqueueDuplicate
    <3>3. CASE EnqueueNew(i, c, dedup)
      BY <3>3 DEF EnqueueNew, Exists, NoRecord, TypeOK
    <3>4. CASE EnqueueDuplicate(i, c, dedup)
      <4>1. Kept(<<i, c>>)
        BY <3>4 DEF EnqueueDuplicate, Remembered, KeptInv, Kept
      <4>2. QED
        BY <4>1, KeptStays DEF Kept, Exists
    <3>5. QED
      BY <3>1, <3>2, <3>3, <3>4 DEF Enqueue
  <2>3. QED
    BY <2>1, <2>2
<1>2. ASSUME NEW i \in Ids, NEW c \in Contents, tomb'[i].until # NoScore, tomb'[i].h = c
      PROVE  (Exists(i)' /\ rec'[i].h = c) \/ <<i, c>> \in settled'
  <2>1. CASE tomb'[i] = tomb[i]
    <3>1. Kept(<<i, c>>)
      BY <1>2, <2>1 DEF KeptInv
    <3>2. QED
      BY <3>1, KeptStays DEF Kept, Exists
  <2>2. CASE tomb'[i] # tomb[i]
    <3>1. PICK d \in issued : Ack(d)
      BY <2>2, DoneStays
    <3>2. d.id \in Ids
      BY HoldsClaimType
    <3>3. i = d.id /\ tomb'[i].h = rec[i].h /\ <<i, rec[i].h>> \in settled'
      BY <2>2, <3>1, <3>2 DEF Ack, TypeOK
    <3>4. QED
      BY <1>2, <3>3
  <2>3. QED
    BY <2>1, <2>2
<1>3. confirmed' \in SUBSET (Ids \X Contents) /\ \A i \in Ids : tomb'[i].h \in Contents
  BY TypeNext DEF TypeOK
<1>4. NoSilentLoss'
  BY <1>1, <1>3 DEF NoSilentLoss, Exists
<1>5. ASSUME NEW i \in Ids, tomb'[i].until # NoScore
      PROVE  Kept(<<i, tomb[i].h>>)'
  BY <1>2, <1>3, <1>5 DEF Kept, Exists
<1>6. QED
  BY <1>4, <1>5 DEF KeptInv

(* No order of duplicates, conflicts, completions and replays loses a payload
   an Enqueue has confirmed. *)
THEOREM NoSilentLossCorrect == Spec => []NoSilentLoss
<1>1. Init => KeptInv
  BY DEF Init, KeptInv, NoSilentLoss, NoScore
<1>2. KeptInv => NoSilentLoss
  BY DEF KeptInv
<1>3. QED
  BY <1>1, <1>2, KeptNext, TypeCorrect, PTL DEF Spec

(* The tombstone of a completed stable id outlives its window. *)
DoneInv ==
  \A i \in Ids : doneAt[i] # NoScore =>
    /\ doneAt[i] <= clock
    /\ DedupWindow > 0 => tomb[i].until # NoScore /\ doneAt[i] + DedupWindow <= tomb[i].until

LEMMA ClockStep == TypeOK /\ [Next]_vars => clock <= clock'
<1> SUFFICES ASSUME TypeOK, [Next]_vars PROVE clock <= clock'
  OBVIOUS
<1>0. clock \in Nat
  BY DEF TypeOK, Time
<1>1. ASSUME NEW i \in Ids, NEW c \in Contents, NEW dedup \in BOOLEAN, Enqueue(i, c, dedup)
      PROVE  clock' = clock
  BY <1>1 DEF Enqueue, EnqueueNew, EnqueueDuplicate
<1>2. ASSUME NEW t \in Tokens, NEW answered \in BOOLEAN, Receive(t, answered)
      PROVE  clock' = clock
  BY <1>2, Zenon DEF Receive, ReceiveWith
<1>3. ASSUME NEW d \in issued, Fail(d)
      PROVE  clock' = clock
  BY <1>3, Zenon DEF Fail
<1>4. ASSUME NEW d \in issued, Ack(d) \/ Renew(d) \/ \E delay \in Delays : Retry(d, delay)
      PROVE  clock' = clock
  BY <1>4 DEF Ack, Renew, Retry
<1>5. ASSUME NEW i \in Ids, ReplayFailed(i) \/ LoseRecord(i)
      PROVE  clock' = clock
  BY <1>5 DEF ReplayFailed, LoseRecord
<1>6. CASE Tick \/ UNCHANGED vars
  BY <1>0, <1>6 DEF Tick, vars
<1>7. QED
  BY <1>0, <1>1, <1>2, <1>3, <1>4, <1>5, <1>6 DEF Next

LEMMA DoneNext == TypeOK /\ DoneInv /\ [Next]_vars => DoneInv'
<1> SUFFICES ASSUME TypeOK, DoneInv, [Next]_vars, NEW i \in Ids, doneAt'[i] # NoScore
             PROVE  /\ doneAt'[i] <= clock'
                    /\ DedupWindow > 0 => /\ tomb'[i].until # NoScore
                                          /\ doneAt'[i] + DedupWindow <= tomb'[i].until
  BY DEF DoneInv
<1>1. CASE doneAt'[i] = doneAt[i] /\ tomb'[i] = tomb[i]
  <2>1. clock \in Nat /\ clock' \in Nat /\ clock <= clock' /\ doneAt[i] \in Int
    BY TypeNext, ClockStep DEF TypeOK, Time, Scores, NoScore
  <2>2. QED
    BY <1>1, <2>1 DEF DoneInv
<1>2. ASSUME NEW d \in issued, Ack(d), d.id = i, rec[i].dd
      PROVE  /\ doneAt'[i] <= clock'
             /\ DedupWindow > 0 => /\ tomb'[i].until # NoScore
                                   /\ doneAt'[i] + DedupWindow <= tomb'[i].until
  <2>1. clock \in Nat /\ clock' = clock /\ doneAt'[i] = clock
    BY <1>2 DEF Ack, TypeOK, Time
  <2>2. DedupWindow > 0 => tomb'[i].until = clock + DedupWindow
    BY <1>2 DEF Ack, TypeOK
  <2>3. QED
    BY <2>1, <2>2 DEF NoScore
<1>3. ASSUME NEW d \in issued, Ack(d), ~(d.id = i /\ rec[i].dd)
      PROVE  doneAt'[i] = doneAt[i] /\ tomb'[i] = tomb[i]
  BY <1>3 DEF Ack, TypeOK
<1>4. QED
  BY <1>1, <1>2, <1>3, DoneStays

(* A stable id is not accepted again inside its deduplication window. *)
THEOREM DedupCorrect == Spec => DedupHonoured
<1>1. Init => DoneInv
  BY DEF Init, DoneInv
<1>2. ASSUME TypeOK, DoneInv, [Next]_vars, NEW i \in Ids, ~Exists(i), Exists(i)', rec'[i].dd
      PROVE  doneAt[i] = NoScore \/ doneAt[i] + DedupWindow <= clock
  <2>1. Added(i)
    <3>1. rec[i].s = "none" /\ rec'[i].s # "none"
      BY <1>2 DEF Exists
    <3>2. ~Woken(i) /\ ~Granted(i) /\ ~Pruned(i) /\ ~Replayed(i) /\ ~Vanished(i)
      BY <3>1 DEF Woken, IsDue, Granted, Pruned, Replayed, Vanished, NoRecord
    <3>3. ~Concluded(i)
      BY <3>1 DEF Concluded, HoldsClaim
    <3>4. QED
      BY <1>2, <3>1, <3>2, <3>3, Life DEF Lives
  <2>2. PICK c \in Contents, dedup \in BOOLEAN : EnqueueNew(i, c, dedup)
    BY <2>1 DEF Added
  <2>3. ~Remembered(i)
    BY <1>2, <2>2 DEF EnqueueNew, NoRecord, TypeOK
  <2>4. doneAt[i] \in Int /\ clock \in Int /\ tomb[i].until \in Int
    BY <1>2 DEF TypeOK, Scores, Time, NoScore
  <2>5. QED
    BY <1>2, <2>3, <2>4 DEF DoneInv, Remembered
<1>3. TypeOK /\ DoneInv /\ [Next]_vars =>
        [\A i \in Ids : ~Exists(i) /\ Exists(i)' /\ rec'[i].dd =>
            doneAt[i] = NoScore \/ doneAt[i] + DedupWindow <= clock]_vars
  BY <1>2
<1>4. QED
  BY <1>1, <1>3, DoneNext, TypeCorrect, PTL DEF Spec, DedupHonoured
----------------------------------------------------------------------------
(* Live records stay reachable, although others vanish.  Unlike IndexInv,
   these two hold in every state: they let an index hold members no record
   stands behind, and the stream entries nobody will claim. *)

EntryLive(R, st, last, del) ==
  /\ \A x \in st : x.eid <= last
  /\ \A x, y \in st : x.eid = y.eid => x = y
  /\ del <= last
  /\ \A i \in Ids : R[i].s = "inflight" => R[i].e <= del
  /\ \A i \in Ids : R[i].s = "ready" => \E x \in st : x.id = i /\ x.eid > del

ScoreLive(R, dl, ls, fl) ==
  \A i \in Ids :
    /\ R[i].s = "inflight" => ls[i] # NoScore
    /\ R[i].s = "delayed" => dl[i] # NoScore
    /\ R[i].s = "failed" => fl[i] # NoScore

LiveInv == EntryLive(rec, stream, lastEid, delivered) /\ ScoreLive(rec, delayed, leases, failed)

(* XADD gives a task an entry the group has not read. *)
LEMMA LiveAdd ==
  ASSUME NEW R, NEW R2, NEW st \in SUBSET Entries, NEW last \in Nat, NEW del \in Nat,
         NEW i \in Ids, EntryLive(R, st, last, del), R2[i].s = "ready",
         \A j \in Ids : j # i => R2[j] = R[j]
  PROVE  EntryLive(R2, st \cup {[eid |-> last + 1, id |-> i]}, last + 1, del)
<1> DEFINE new == [eid |-> last + 1, id |-> i]
           st2 == st \cup {new}
<1>1. /\ new \in st2 /\ new.id = i /\ new.eid = last + 1
      /\ del <= last /\ \A x \in st : x.eid \in Nat /\ x.eid <= last
  BY DEF EntryLive, Entries
<1>2. \A x \in st2 : x.eid <= last + 1
  BY <1>1
<1>3. \A x, y \in st2 : x.eid = y.eid => x = y
  BY <1>1 DEF EntryLive
<1>4. ASSUME NEW j \in Ids, R2[j].s = "ready"
      PROVE  \E x \in st2 : x.id = j /\ x.eid > del
  <2>1. CASE j = i
    <3>1. new.eid > del
      BY <1>1
    <3>2. QED
      BY <1>1, <2>1, <3>1
  <2>2. CASE j # i
    BY <1>4, <2>2 DEF EntryLive
  <2>3. QED
    BY <2>1, <2>2
<1>5. \A j \in Ids : R2[j].s = "inflight" => R2[j].e <= del
  BY DEF EntryLive
<1>6. QED
  BY <1>1, <1>2, <1>3, <1>4, <1>5 DEF EntryLive

(* Entries are deleted, records leave the queue; no entry of a ready task is
   deleted unless the group has read it. *)
LEMMA LiveTrim ==
  ASSUME NEW R, NEW R2, NEW st \in SUBSET Entries, NEW st2 \in SUBSET st, NEW last, NEW del,
         EntryLive(R, st, last, del),
         \A j \in Ids : R2[j].s \in {"ready", "inflight"} => R2[j].s = R[j].s /\ R2[j].e = R[j].e,
         \A x \in st : x.eid > del /\ R2[x.id].s = "ready" => x \in st2
  PROVE  EntryLive(R2, st2, last, del)
<1>1. ASSUME NEW j \in Ids, R2[j].s = "ready"
      PROVE  \E x \in st2 : x.id = j /\ x.eid > del
  <2>1. PICK x \in st : x.id = j /\ x.eid > del
    BY <1>1 DEF EntryLive
  <2>2. QED
    BY <1>1, <2>1
<1>2. QED
  BY <1>1 DEF EntryLive

(* XREADGROUP reads on to entry x; no ready task has an entry before it. *)
LEMMA LiveRead ==
  ASSUME NEW R \in [Ids -> Record], NEW R2, NEW st \in SUBSET Entries, NEW st2 \in SUBSET st,
         NEW last \in Nat, NEW del \in Nat, NEW x \in st,
         EntryLive(R, st, last, del), x.eid > del,
         \A y \in st : del < y.eid /\ y.eid < x.eid => R[y.id].s # "ready",
         \A y \in st : y.eid > x.eid => y \in st2,
         R2[x.id].s = "inflight", R2[x.id].e = x.eid,
         \A j \in Ids : j # x.id => R2[j] = R[j]
  PROVE  EntryLive(R2, st2, last, x.eid)
<1>1. \A y \in st : y.id \in Ids /\ y.eid \in Nat /\ y.eid <= last
  BY DEF Entries, EntryLive
<1>2. ASSUME NEW j \in Ids, R2[j].s = "ready"
      PROVE  \E y \in st2 : y.id = j /\ y.eid > x.eid
  <2>1. j # x.id /\ R[j].s = "ready"
    BY <1>2
  <2>2. PICK y \in st : y.id = j /\ y.eid > del
    BY <2>1 DEF EntryLive
  <2>3. y.eid # x.eid
    BY <2>1, <2>2 DEF EntryLive
  <2>4. y.eid > x.eid
    BY <1>1, <2>1, <2>2, <2>3
  <2>5. QED
    BY <2>2, <2>4
<1>3. ASSUME NEW j \in Ids, R2[j].s = "inflight"
      PROVE  R2[j].e <= x.eid
  <2>1. CASE j = x.id
    BY <1>1, <2>1
  <2>2. CASE j # x.id /\ R[j].e <= del /\ R2[j] = R[j]
    BY <1>1, <2>2 DEF Record
  <2>3. QED
    BY <1>3, <2>1, <2>2 DEF EntryLive
<1>4. QED
  BY <1>1, <1>2, <1>3 DEF EntryLive

(* Step 1 of receiveScript: every due retry that still has its record gets an
   entry behind all the others. *)
LEMMA LivePromote ==
  ASSUME TypeOK, LiveInv, NEW F \in SUBSET UpTo(delayed, clock),
         NEW at \in Positions(F), PromoteOK(F, at)
  PROVE  /\ EntryLive(Promote(F), Promoted(F, at), lastEid + Cardinality(Promotable(F)), delivered)
         /\ ScoreLive(Promote(F), [i \in Ids |-> IF i \in F THEN NoScore ELSE delayed[i]],
                      leases, failed)
         /\ Promoted(F, at) \in SUBSET Entries
         /\ \A i \in Ids : Promote(F)[i].s = "none" <=> ~Exists(i)
<1> DEFINE R == Promote(F)
           P == Promotable(F)
           st == Promoted(F, at)
           last == lastEid + Cardinality(P)
<1>0. EntryLive(rec, stream, lastEid, delivered) /\ ScoreLive(rec, delayed, leases, failed)
  BY DEF LiveInv
<1>1. P \subseteq F /\ P \subseteq Ids /\ \A i \in P : rec[i].s = "delayed" /\ Exists(i)
  BY DEF Promotable, PromoteOK, CheckRecord, UpTo
<1>2. /\ \A i \in Ids \ P : R[i] = rec[i]
      /\ \A i \in P : R[i].s = "ready"
  BY <1>1 DEF Promote, TypeOK, Record
<1>3. /\ stream \in SUBSET Entries /\ st \in SUBSET Entries
      /\ lastEid \in Nat /\ last \in Nat /\ delivered \in Nat /\ lastEid <= last
      /\ delivered <= lastEid
  <2>1. Cardinality(P) \in Nat /\ st \in SUBSET Entries
    BY PromoteType DEF UpTo, Entries
  <2>2. QED
    BY <1>0, <2>1 DEF TypeOK, Entries, EntryLive
<1>4. \A i \in P : at[i] \in Nat /\ lastEid < at[i] /\ at[i] <= last
  BY <1>3 DEF Positions
<1>5. \A i, j \in P : at[i] = at[j] => i = j
  BY DEF PromoteOK
<1>6. st = stream \cup {[eid |-> at[i], id |-> i] : i \in P}
  BY DEF Promoted
<1>7. \A i \in F \ P : rec[i].s = "none"
  BY DEF Promotable, Exists, UpTo
<1> HIDE DEF R, last, st, P
<1>8. \A x \in stream : x.eid \in Nat /\ x.eid <= lastEid
  BY <1>0, <1>3 DEF EntryLive, Entries
<1>9. \A x \in st : x \in stream \/ (x.id \in P /\ x = [eid |-> at[x.id], id |-> x.id])
  BY <1>6
<1>10. ASSUME NEW x \in st PROVE x.eid <= last
  BY <1>3, <1>4, <1>8, <1>9
<1>11. ASSUME NEW x \in st, NEW y \in st, x.eid = y.eid PROVE x = y
  <2>1. CASE x \in stream /\ y \in stream
    BY <1>0, <1>11, <2>1 DEF EntryLive
  <2>2. CASE x \in stream /\ y \notin stream
    <3>1. y.id \in P /\ y.eid = at[y.id]
      BY <1>9, <2>2
    <3>2. QED
      BY <1>3, <1>4, <1>8, <1>11, <2>2, <3>1
  <2>3. CASE x \notin stream /\ y \in stream
    <3>1. x.id \in P /\ x.eid = at[x.id]
      BY <1>9, <2>3
    <3>2. x.eid > lastEid /\ y.eid <= lastEid
      BY <1>3, <1>4, <1>8, <2>3, <3>1
    <3>3. QED
      BY <1>3, <1>8, <1>11, <2>3, <3>2
  <2>4. CASE x \notin stream /\ y \notin stream
    <3>1. /\ x.id \in P /\ x = [eid |-> at[x.id], id |-> x.id] /\ x.eid = at[x.id]
          /\ y.id \in P /\ y = [eid |-> at[y.id], id |-> y.id] /\ y.eid = at[y.id]
      BY <1>9, <2>4
    <3>2. x.id = y.id
      BY <1>5, <1>11, <3>1
    <3>3. QED
      BY <3>1, <3>2
  <2>5. QED
    BY <2>1, <2>2, <2>3, <2>4
<1>12. ASSUME NEW i \in Ids, R[i].s = "ready"
       PROVE  \E x \in st : x.id = i /\ x.eid > delivered
  <2>1. CASE i \in P
    <3>1. [eid |-> at[i], id |-> i] \in st /\ at[i] > delivered
      BY <1>3, <1>4, <1>6, <2>1
    <3>2. QED
      BY <3>1
  <2>2. CASE i \notin P
    <3>1. PICK x \in stream : x.id = i /\ x.eid > delivered
      BY <1>0, <1>2, <1>12, <2>2 DEF EntryLive
    <3>2. QED
      BY <1>6, <3>1
  <2>3. QED
    BY <2>1, <2>2
<1>13. \A i \in Ids : R[i].s = "inflight" => R[i].e <= delivered
  BY <1>0, <1>2 DEF EntryLive
<1>14. EntryLive(R, st, last, delivered)
  BY <1>3, <1>10, <1>11, <1>12, <1>13 DEF EntryLive
<1>15. ScoreLive(R, [i \in Ids |-> IF i \in F THEN NoScore ELSE delayed[i]], leases, failed)
  BY <1>0, <1>1, <1>2, <1>7 DEF ScoreLive
<1>16. \A i \in Ids : R[i].s = "none" <=> ~Exists(i)
  BY <1>1, <1>2 DEF Exists
<1>17. QED
  BY <1>3, <1>14, <1>15, <1>16 DEF R, last, st, P

LEMMA LiveReceive ==
  ASSUME TypeOK, LiveInv, NEW t \in Tokens, NEW answered \in BOOLEAN, Receive(t, answered)
  PROVE  LiveInv'
<1>1. PICK F \in SUBSET UpTo(delayed, clock), K \in SUBSET StaleLeases :
        \E at \in Positions(F) : ReceiveWith(t, answered, F, K, at)
  BY Zenon DEF Receive
<1>2. PICK at \in Positions(F) : ReceiveWith(t, answered, F, K, at)
  BY <1>1
<1> DEFINE R == Promote(F)
           st == Promoted(F, at)
<1>3. PromoteOK(F, at)
  BY <1>2, Zenon DEF ReceiveWith
<1>4. /\ lastEid' = lastEid + Cardinality(Promotable(F))
      /\ delayed' = [i \in Ids |-> IF i \in F THEN NoScore ELSE delayed[i]]
      /\ failed' = failed
  BY <1>2, Zenon DEF ReceiveWith
<1>5. R \in [Ids -> Record] /\ Cardinality(Promotable(F)) \in Nat
  BY PromoteType DEF UpTo
<1>6. /\ EntryLive(R, st, lastEid', delivered)
      /\ ScoreLive(R, delayed', leases, failed')
      /\ st \in SUBSET Entries
      /\ \A i \in Ids : R[i].s = "none" <=> ~Exists(i)
  BY <1>3, <1>4, LivePromote
<1>7. /\ lastEid' \in Nat /\ delivered \in Nat /\ clock + Lease # NoScore
      /\ K \subseteq Ids /\ \A i \in K : R[i].s = "none"
  BY <1>4, <1>5, <1>6 DEF TypeOK, Time, NoScore, StaleLeases, UpTo
<1> DEFINE Goal == /\ EntryLive(rec', stream', lastEid', delivered')
                   /\ ScoreLive(rec', delayed', leases', failed')
<1>8. ASSUME NEW i \in Ids, Recover(i, t, answered, K, R, st)
      PROVE  Goal
  <2> HIDE DEF R, st
  <2>1. R[i].s = "inflight" /\ R[i] \in Record
    BY <1>5, <1>8 DEF Recover, CheckRecord
  <2>2. rec'[i].s = "inflight" /\ rec'[i].e = R[i].e
    BY <1>5, <1>8, <2>1 DEF Recover, Record
  <2>3. \A j \in Ids : j # i => rec'[j] = R[j]
    BY <1>5, <1>8 DEF Recover
  <2>4. /\ stream' = st /\ delivered' = delivered
        /\ leases' = [j \in Ids |-> IF j = i THEN clock + Lease
                                    ELSE IF j \in K THEN NoScore ELSE leases[j]]
    BY <1>8 DEF Recover
  <2>5. ScoreLive(rec', delayed', leases', failed')
    BY <1>6, <1>7, <2>1, <2>2, <2>3, <2>4 DEF ScoreLive
  <2>6. EntryLive(rec', st, lastEid', delivered)
    BY <1>6, <2>1, <2>2, <2>3, LiveTrim
  <2>7. QED
    BY <2>4, <2>5, <2>6
<1>9. ASSUME NEW x \in st, ClaimNew(x, t, answered, K, R, st)
      PROVE  Goal
  <2> HIDE DEF R, st
  <2>0. x.id \in Ids /\ x.eid \in Nat /\ \A y \in st : y.id \in Ids /\ y.eid \in Nat
    BY <1>6 DEF Entries
  <2>1. R[x.id].s = "ready" /\ R[x.id] \in Record
    BY <1>5, <1>9, <2>0 DEF ClaimNew, CheckRecord
  <2>2. rec'[x.id].s = "inflight" /\ rec'[x.id].e = x.eid
    BY <1>5, <1>9, <2>0, <2>1 DEF ClaimNew, Record
  <2>3. \A j \in Ids : j # x.id => rec'[j] = R[j]
    BY <1>5, <1>9 DEF ClaimNew
  <2>4. x.eid > delivered /\ \A y \in st : delivered < y.eid /\ y.eid < x.eid => R[y.id].s # "ready"
    BY <1>6, <1>7, <1>9, <2>0 DEF ClaimNew, StaleBefore, Undelivered
  <2>5. /\ stream' = st \ StaleBefore(x, st) /\ delivered' = x.eid
        /\ leases' = [j \in Ids |-> IF j = x.id THEN clock + Lease
                                    ELSE IF j \in K THEN NoScore ELSE leases[j]]
    BY <1>9 DEF ClaimNew
  <2>6. stream' \in SUBSET st /\ \A y \in st : y.eid > x.eid => y \in stream'
    BY <2>0, <2>5 DEF StaleBefore
  <2>7. ScoreLive(rec', delayed', leases', failed')
    BY <1>6, <1>7, <2>0, <2>1, <2>2, <2>3, <2>5 DEF ScoreLive
  <2>8. EntryLive(rec', stream', lastEid', x.eid)
    <3>1. /\ R \in [Ids -> Record] /\ EntryLive(R, st, lastEid', delivered)
          /\ st \in SUBSET Entries /\ stream' \in SUBSET st /\ x \in st
          /\ lastEid' \in Nat /\ delivered \in Nat
      BY <1>5, <1>6, <1>7, <2>6
    <3>2. QED
      BY <2>2, <2>3, <2>4, <2>6, <3>1, LiveRead, Zenon
  <2>9. QED
    BY <2>5, <2>7, <2>8
<1>10. ASSUME ClaimNothing(t, K, R, st)
       PROVE  Goal
  <2> HIDE DEF R, st
  <2>1. rec' = R /\ delivered' = delivered
    BY <1>10 DEF ClaimNothing
  <2>2. leases' = [j \in Ids |-> IF j \in K THEN NoScore ELSE leases[j]]
    BY <1>10 DEF ClaimNothing
  <2>3. \E D \in SUBSET st : (\A y \in D : ~Exists(y.id)) /\ stream' = st \ D
    <3>1. \A x \in st : StaleBefore(x, st) \subseteq st
      BY DEF StaleBefore, Undelivered
    <3>2. Undelivered(st) \subseteq st
      BY DEF Undelivered
    <3>3. CASE stream' = st
      <4>1. {} \in SUBSET st /\ stream' = st \ {}
        BY <3>3
      <4>2. QED
        BY <4>1
    <3>4. CASE \E x \in Undelivered(st) : /\ \A y \in StaleBefore(x, st) : ~Exists(y.id)
                                         /\ stream' = st \ StaleBefore(x, st)
      BY <3>1, <3>2, <3>4
    <3>5. CASE \E D \in SUBSET Undelivered(st) : /\ \A y \in D : ~Exists(y.id)
                                                /\ stream' = st \ D
      BY <3>2, <3>5
    <3>6. QED
      BY <1>10, <3>3, <3>4, <3>5 DEF ClaimNothing
  <2>4. stream' \in SUBSET st /\ \A x \in st : R[x.id].s = "ready" => x \in stream'
    BY <1>6, <2>3 DEF Entries
  <2>5. EntryLive(R, stream', lastEid', delivered)
    BY <1>6, <2>4, LiveTrim
  <2>6. ScoreLive(R, delayed', leases', failed')
    BY <1>6, <1>7, <2>2 DEF ScoreLive
  <2>7. QED
    BY <2>1, <2>5, <2>6
<1>11. QED
  BY <1>2, <1>8, <1>9, <1>10 DEF ReceiveWith, LiveInv

(* release_entry takes no entry the group has not read. *)
LEMMA LiveRelease ==
  ASSUME TypeOK, LiveInv, NEW d \in issued, HoldsClaim(d), ReleaseEntry(rec[d.id].e), NEW R2,
         \A j \in Ids : R2[j].s \in {"ready", "inflight"} => R2[j] = rec[j]
  PROVE  EntryLive(R2, stream', lastEid, delivered)
<1>1. /\ EntryLive(rec, stream, lastEid, delivered) /\ stream \in SUBSET Entries
      /\ d.id \in Ids /\ rec[d.id].e \in Nat /\ delivered \in Nat
  BY HoldsClaimType DEF LiveInv, TypeOK, Entries, Record
<1>2. rec[d.id].e <= delivered
  BY <1>1 DEF EntryLive, HoldsClaim
<1>3. stream' \in SUBSET stream /\ \A x \in stream : x.eid > delivered => x \in stream'
  BY <1>1, <1>2 DEF ReleaseEntry, Entries
<1>4. QED
  BY <1>1, <1>3, LiveTrim

LEMMA LiveHolder ==
  ASSUME TypeOK, LiveInv, NEW d \in issued,
         Ack(d) \/ Renew(d) \/ \E delay \in Delays : Retry(d, delay)
  PROVE  LiveInv'
<1>0. /\ EntryLive(rec, stream, lastEid, delivered) /\ ScoreLive(rec, delayed, leases, failed)
      /\ d.id \in Ids /\ rec[d.id] \in Record /\ rec \in [Ids -> Record]
      /\ clock \in Nat /\ leases \in [Ids -> Scores] /\ delayed \in [Ids -> Scores]
  BY HoldsClaimType DEF LiveInv, TypeOK, Time
<1>1. CASE Ack(d)
  <2>1. \A j \in Ids : rec'[j] = IF j = d.id THEN NoRecord ELSE rec[j]
    BY <1>0, <1>1 DEF Ack
  <2>2. \A j \in Ids : rec'[j].s \in {"ready", "inflight"} => rec'[j] = rec[j]
    BY <2>1 DEF NoRecord
  <2>3. HoldsClaim(d) /\ ReleaseEntry(rec[d.id].e)
    BY <1>1 DEF Ack
  <2>4. EntryLive(rec', stream', lastEid, delivered)
    BY <2>2, <2>3, LiveRelease
  <2>5. ScoreLive(rec', delayed, leases', failed)
    BY <1>0, <1>1, <2>1 DEF Ack, ScoreLive, NoRecord
  <2>6. QED
    BY <1>1, <2>4, <2>5 DEF Ack, LiveInv
<1>2. CASE Renew(d)
  <2>1. ScoreLive(rec, delayed, leases', failed)
    BY <1>0, <1>2 DEF Renew, ScoreLive, NoScore
  <2>2. QED
    BY <1>0, <1>2, <2>1 DEF Renew, LiveInv
<1>3. ASSUME NEW delay \in Delays, Retry(d, delay)
      PROVE  LiveInv'
  <2>1. /\ \A j \in Ids : j # d.id => rec'[j] = rec[j]
        /\ rec'[d.id].s = "delayed"
    BY <1>0, <1>3 DEF Retry, Record
  <2>2. EntryLive(rec', stream', lastEid, delivered)
    BY <1>3, <2>1, LiveRelease DEF Retry
  <2>3. clock + delay # NoScore
    BY <1>0 DEF NoScore
  <2>4. ScoreLive(rec', delayed', leases', failed)
    BY <1>0, <1>3, <2>1, <2>3 DEF Retry, ScoreLive
  <2>5. QED
    BY <1>3, <2>2, <2>4 DEF Retry, LiveInv
<1>4. QED
  BY <1>1, <1>2, <1>3

LEMMA LiveFail ==
  ASSUME TypeOK, LiveInv, NEW d \in issued, Fail(d)
  PROVE  LiveInv'
<1> DEFINE R == [rec EXCEPT ![d.id] =
                   [rec[d.id] EXCEPT !.s = "failed", !.tok = NoToken, !.e = NoEntry]]
           Gone(old) == {j \in old : R[j].s = "failed"}
<1>0. /\ EntryLive(rec, stream, lastEid, delivered) /\ ScoreLive(rec, delayed, leases, failed)
      /\ d.id \in Ids /\ rec[d.id] \in Record /\ rec \in [Ids -> Record]
      /\ clock # NoScore /\ leases \in [Ids -> Scores]
  BY HoldsClaimType DEF LiveInv, TypeOK, Time, NoScore
<1>1. PICK old \in SUBSET UpTo(failed, Cutoff) :
        /\ rec' = [j \in Ids |-> IF j \in Gone(old) THEN NoRecord ELSE R[j]]
        /\ failed' = [j \in Ids |-> IF j \in old THEN NoScore
                                    ELSE IF j = d.id THEN clock ELSE failed[j]]
  BY Zenon DEF Fail
<1>2. /\ HoldsClaim(d) /\ ReleaseEntry(rec[d.id].e)
      /\ leases' = [leases EXCEPT ![d.id] = NoScore]
      /\ UNCHANGED <<lastEid, delivered, delayed>>
  BY Zenon DEF Fail
<1>3. \A j \in Ids : j # d.id => R[j] = rec[j]
  BY <1>0
<1>4. R[d.id].s = "failed"
  BY <1>0 DEF Record
<1> HIDE DEF R
<1>5. \A j \in Ids : rec'[j].s \in {"ready", "inflight"} => rec'[j] = rec[j]
  BY <1>1, <1>3, <1>4 DEF NoRecord
<1>6. EntryLive(rec', stream', lastEid, delivered)
  BY <1>2, <1>5, LiveRelease
<1>7. ASSUME NEW j \in Ids
      PROVE  /\ rec'[j].s = "inflight" => leases'[j] # NoScore
             /\ rec'[j].s = "delayed" => delayed[j] # NoScore
             /\ rec'[j].s = "failed" => failed'[j] # NoScore
  <2>1. CASE j \in Gone(old)
    BY <1>1, <2>1 DEF NoRecord
  <2>2. CASE j \notin Gone(old)
    <3>1. rec'[j] = R[j]
      BY <1>1, <2>2
    <3>2. CASE j = d.id
      BY <1>0, <1>1, <1>4, <2>2, <3>1, <3>2
    <3>3. CASE j # d.id
      <4>1. rec'[j] = rec[j] /\ leases'[j] = leases[j]
        BY <1>0, <1>2, <1>3, <3>1, <3>3
      <4>2. rec'[j].s = "failed" => failed'[j] = failed[j]
        BY <1>1, <2>2, <3>1, <3>3
      <4>3. QED
        BY <1>0, <4>1, <4>2 DEF ScoreLive
    <3>4. QED
      BY <3>2, <3>3
  <2>3. QED
    BY <2>1, <2>2
<1>8. QED
  BY <1>2, <1>6, <1>7 DEF LiveInv, ScoreLive

LEMMA LiveNext == TypeOK /\ LiveInv /\ [Next]_vars => LiveInv'
<1> SUFFICES ASSUME TypeOK, LiveInv, [Next]_vars PROVE LiveInv'
  OBVIOUS
<1>0. /\ EntryLive(rec, stream, lastEid, delivered) /\ ScoreLive(rec, delayed, leases, failed)
      /\ rec \in [Ids -> Record] /\ stream \in SUBSET Entries
      /\ lastEid \in Nat /\ delivered \in Nat
      /\ NoRecord.s = "none"
  BY DEF LiveInv, TypeOK, Entries, NoRecord
<1>1. ASSUME NEW i \in Ids, NEW c \in Contents, NEW dedup \in BOOLEAN, Enqueue(i, c, dedup)
      PROVE  LiveInv'
  <2>1. CASE EnqueueNew(i, c, dedup)
    <3>1. \A j \in Ids : j # i => rec'[j] = rec[j]
      BY <1>0, <2>1 DEF EnqueueNew
    <3>2. rec'[i].s = "ready"
      BY <1>0, <2>1 DEF EnqueueNew, NoRecord
    <3>3. EntryLive(rec', stream \cup {[eid |-> lastEid + 1, id |-> i]}, lastEid + 1, delivered)
      BY <1>0, <3>1, <3>2, LiveAdd
    <3>4. ScoreLive(rec', delayed, leases, failed)
      BY <1>0, <3>1, <3>2 DEF ScoreLive
    <3>5. QED
      BY <2>1, <3>3, <3>4 DEF EnqueueNew, LiveInv
  <2>2. CASE EnqueueDuplicate(i, c, dedup)
    BY <1>0, <2>2 DEF EnqueueDuplicate, redis, LiveInv
  <2>3. QED
    BY <1>1, <2>1, <2>2 DEF Enqueue
<1>2. ASSUME NEW i \in Ids, ReplayFailed(i)
      PROVE  LiveInv'
  <2>1. \A j \in Ids : j # i => rec'[j] = rec[j]
    BY <1>0, <1>2 DEF ReplayFailed
  <2>2. rec'[i].s = "ready"
    BY <1>0, <1>2 DEF ReplayFailed, Record
  <2>3. EntryLive(rec', stream \cup {[eid |-> lastEid + 1, id |-> i]}, lastEid + 1, delivered)
    BY <1>0, <2>1, <2>2, LiveAdd
  <2>4. \A j \in Ids : j # i => failed'[j] = failed[j]
    BY <1>2 DEF ReplayFailed, TypeOK
  <2>5. ScoreLive(rec', delayed, leases, failed')
    BY <1>0, <2>1, <2>2, <2>4 DEF ScoreLive
  <2>6. QED
    BY <1>2, <2>3, <2>5 DEF ReplayFailed, LiveInv
<1>3. ASSUME NEW i \in Ids, LoseRecord(i)
      PROVE  LiveInv'
  <2>1. \A j \in Ids : rec'[j] = IF j = i THEN NoRecord ELSE rec[j]
    BY <1>0, <1>3 DEF LoseRecord
  <2>2. EntryLive(rec', stream, lastEid, delivered)
    BY <1>0, <2>1, LiveTrim
  <2>3. ScoreLive(rec', delayed, leases, failed)
    BY <1>0, <2>1 DEF ScoreLive
  <2>4. QED
    BY <1>3, <2>2, <2>3 DEF LoseRecord, LiveInv
<1>4. CASE Tick \/ UNCHANGED vars
  BY <1>0, <1>4 DEF Tick, vars, redis, LiveInv
<1>5. QED
  BY <1>1, <1>2, <1>3, <1>4, LiveReceive, LiveHolder, LiveFail DEF Next

(* Every live record is in the index of its state, whatever other records
   vanish from outside and however the scripts clean up after them. *)
THEOREM LiveReachableCorrect == Spec => []LiveReachable
<1>1. Init => LiveInv
  BY DEF Init, LiveInv, EntryLive, ScoreLive, NoRecord, NoEntry
<1>2. LiveInv => LiveReachable
  BY DEF LiveInv, EntryLive, ScoreLive, LiveReachable, Inflight, Undelivered
<1>3. QED
  BY <1>1, <1>2, LiveNext, TypeCorrect, PTL DEF Spec
----------------------------------------------------------------------------
(* The refinement of ReliableQueue.  View is what a caller can tell of one
   record r, whose scores in the three sorted sets are ls, fl and dl, at the
   time k. *)

Left(score, k) == IF score > k THEN score - k ELSE 0

ViewState(r) ==
  IF r.s = "none" THEN "absent"
  ELSE IF r.s = "inflight" THEN "claimed"
  ELSE IF r.s = "failed" THEN "failed" ELSE "waiting"

ViewLeft(r, ls, fl, dl, k) ==
  IF r.s = "inflight" THEN Left(ls, k)
  ELSE IF r.s = "failed" THEN Left(fl + Retention, k)
  ELSE IF r.s = "delayed" THEN Left(dl, k) ELSE 0

View(r, ls, fl, dl, k) ==
  [st |-> ViewState(r), content |-> r.h, stable |-> r.dd, retries |-> r.r,
   holder |-> r.tok, left |-> ViewLeft(r, ls, fl, dl, k)]

LEMMA ViewTask ==
  /\ \A i \in Ids : AbstractTask[i] = View(rec[i], leases[i], failed[i], delayed[i], clock)
  /\ \A i \in Ids :
       AbstractTask'[i] = View(rec'[i], leases'[i], failed'[i], delayed'[i], clock')
<1>1. ASSUME NEW i \in Ids
      PROVE  /\ AbstractState(i) = ViewState(rec[i])
             /\ AbstractLeft(i) = ViewLeft(rec[i], leases[i], failed[i], delayed[i], clock)
  BY DEF AbstractState, AbstractLeft, ViewState, ViewLeft, Until, Left
<1>2. ASSUME NEW i \in Ids
      PROVE  /\ AbstractState(i)' = ViewState(rec'[i])
             /\ AbstractLeft(i)' = ViewLeft(rec'[i], leases'[i], failed'[i], delayed'[i], clock')
  BY DEF AbstractState, AbstractLeft, ViewState, ViewLeft, Until, Left
<1>3. QED
  BY <1>1, <1>2 DEF AbstractTask, View

LEMMA TaskFields ==
  ASSUME NEW i \in Ids
  PROVE  /\ AbstractTask[i].st = ViewState(rec[i])
         /\ AbstractTask[i].content = rec[i].h
         /\ AbstractTask[i].stable = rec[i].dd
         /\ AbstractTask[i].retries = rec[i].r
         /\ AbstractTask[i].holder = rec[i].tok
         /\ AbstractTask[i].left = ViewLeft(rec[i], leases[i], failed[i], delayed[i], clock)
<1>1. AbstractTask[i] = View(rec[i], leases[i], failed[i], delayed[i], clock)
  BY ViewTask
<1>2. QED
  BY <1>1 DEF View

LEMMA NextTaskFields ==
  ASSUME NEW i \in Ids
  PROVE  /\ AbstractTask'[i].st = ViewState(rec'[i])
         /\ AbstractTask'[i].content = rec'[i].h
         /\ AbstractTask'[i].stable = rec'[i].dd
         /\ AbstractTask'[i].retries = rec'[i].r
         /\ AbstractTask'[i].holder = rec'[i].tok
         /\ AbstractTask'[i].left = ViewLeft(rec'[i], leases'[i], failed'[i], delayed'[i], clock')
<1>1. AbstractTask'[i] = View(rec'[i], leases'[i], failed'[i], delayed'[i], clock')
  BY ViewTask
<1>2. QED
  BY <1>1 DEF View

LEMMA ViewDone ==
  /\ \A i \in Ids : AbstractDone[i] = Left(tomb[i].until, clock)
  /\ \A i \in Ids : AbstractDone'[i] = Left(tomb'[i].until, clock')
BY DEF AbstractDone, Until, Left

TaskRecord == [st : {"absent", "waiting", "claimed", "failed"}, content : Contents,
               stable : BOOLEAN, retries : Nat, holder : Nat, left : Nat]

LEMMA ViewType ==
  ASSUME NEW r \in Record, NEW ls \in Scores, NEW fl \in Scores, NEW dl \in Scores, NEW k \in Nat
  PROVE  View(r, ls, fl, dl, k) \in TaskRecord
<1>1. ls \in Int /\ fl \in Int /\ dl \in Int /\ Retention \in Int
  BY DEF Scores, Time, NoScore
<1>2. \A score \in Int : Left(score, k) \in Nat
  BY DEF Left
<1>3. ViewLeft(r, ls, fl, dl, k) \in Nat
  BY <1>1, <1>2 DEF ViewLeft
<1>4. ViewState(r) \in {"absent", "waiting", "claimed", "failed"}
  BY DEF ViewState
<1>5. r.h \in Contents /\ r.dd \in BOOLEAN /\ r.r \in Nat /\ r.tok \in Nat
  BY DEF Record
<1>6. QED
  BY <1>3, <1>4, <1>5 DEF View, TaskRecord

LEMMA TaskType == TypeOK => \A i \in Ids : AbstractTask[i] \in TaskRecord
BY ViewTask, ViewType DEF TypeOK, Time

LEMMA NextTaskType == TypeOK' => \A i \in Ids : AbstractTask'[i] \in TaskRecord
BY ViewTask, ViewType DEF TypeOK, Time

LEMMA SameTask ==
  ASSUME NEW X \in TaskRecord, NEW Y \in TaskRecord, X.st = Y.st, X.content = Y.content,
         X.stable = Y.stable, X.retries = Y.retries, X.holder = Y.holder, X.left = Y.left
  PROVE  X = Y
BY DEF TaskRecord

(* What each operation of the promise makes of the record of one task, field
   by field. *)
LEMMA SubmitRecord ==
  ASSUME NEW X \in TaskRecord, NEW V \in TaskRecord, NEW c \in Contents, NEW d \in BOOLEAN,
         V.st = "waiting", V.content = c, V.stable = d,
         V.retries = X.retries, V.holder = X.holder, V.left = X.left
  PROVE  V = [X EXCEPT !.st = "waiting", !.content = c, !.stable = d]
<1> DEFINE Y == [X EXCEPT !.st = "waiting", !.content = c, !.stable = d]
<1>1. Y \in TaskRecord
  BY DEF TaskRecord
<1>2. /\ Y.st = "waiting" /\ Y.content = c /\ Y.stable = d
      /\ Y.retries = X.retries /\ Y.holder = X.holder /\ Y.left = X.left
  BY DEF TaskRecord
<1> HIDE DEF Y
<1>3. V = Y
  BY <1>1, <1>2, SameTask
<1>4. QED
  BY <1>3 DEF Y

LEMMA ClaimRecord ==
  ASSUME NEW X \in TaskRecord, NEW V \in TaskRecord, NEW t \in Nat, NEW k \in Nat,
         V.st = "claimed", V.content = X.content, V.stable = X.stable,
         V.retries = X.retries, V.holder = t, V.left = k
  PROVE  V = [X EXCEPT !.st = "claimed", !.holder = t, !.left = k]
<1> DEFINE Y == [X EXCEPT !.st = "claimed", !.holder = t, !.left = k]
<1>1. Y \in TaskRecord
  BY DEF TaskRecord
<1>2. /\ Y.st = "claimed" /\ Y.content = X.content /\ Y.stable = X.stable
      /\ Y.retries = X.retries /\ Y.holder = t /\ Y.left = k
  BY DEF TaskRecord
<1> HIDE DEF Y
<1>3. V = Y
  BY <1>1, <1>2, SameTask
<1>4. QED
  BY <1>3 DEF Y

LEMMA RetryRecord ==
  ASSUME NEW X \in TaskRecord, NEW V \in TaskRecord, NEW t \in Nat, NEW k \in Nat, NEW n \in Nat,
         V.st = "waiting", V.content = X.content, V.stable = X.stable,
         V.retries = n, V.holder = t, V.left = k
  PROVE  V = [X EXCEPT !.st = "waiting", !.holder = t, !.left = k, !.retries = n]
<1> DEFINE Y == [X EXCEPT !.st = "waiting", !.holder = t, !.left = k, !.retries = n]
<1>1. Y \in TaskRecord
  BY DEF TaskRecord
<1>2. /\ Y.st = "waiting" /\ Y.content = X.content /\ Y.stable = X.stable
      /\ Y.retries = n /\ Y.holder = t /\ Y.left = k
  BY DEF TaskRecord
<1> HIDE DEF Y
<1>3. V = Y
  BY <1>1, <1>2, SameTask
<1>4. QED
  BY <1>3 DEF Y

LEMMA FailRecord ==
  ASSUME NEW X \in TaskRecord, NEW V \in TaskRecord, NEW t \in Nat, NEW k \in Nat,
         V.st = "failed", V.content = X.content, V.stable = X.stable,
         V.retries = X.retries, V.holder = t, V.left = k
  PROVE  V = [X EXCEPT !.st = "failed", !.holder = t, !.left = k]
<1> DEFINE Y == [X EXCEPT !.st = "failed", !.holder = t, !.left = k]
<1>1. Y \in TaskRecord
  BY DEF TaskRecord
<1>2. /\ Y.st = "failed" /\ Y.content = X.content /\ Y.stable = X.stable
      /\ Y.retries = X.retries /\ Y.holder = t /\ Y.left = k
  BY DEF TaskRecord
<1> HIDE DEF Y
<1>3. V = Y
  BY <1>1, <1>2, SameTask
<1>4. QED
  BY <1>3 DEF Y

LEMMA ReplayRecord ==
  ASSUME NEW X \in TaskRecord, NEW V \in TaskRecord, NEW n \in Nat, NEW k \in Nat,
         V.st = "waiting", V.content = X.content, V.stable = X.stable,
         V.retries = n, V.holder = X.holder, V.left = k
  PROVE  V = [X EXCEPT !.st = "waiting", !.retries = n, !.left = k]
<1> DEFINE Y == [X EXCEPT !.st = "waiting", !.retries = n, !.left = k]
<1>1. Y \in TaskRecord
  BY DEF TaskRecord
<1>2. /\ Y.st = "waiting" /\ Y.content = X.content /\ Y.stable = X.stable
      /\ Y.retries = n /\ Y.holder = X.holder /\ Y.left = k
  BY DEF TaskRecord
<1> HIDE DEF Y
<1>3. V = Y
  BY <1>1, <1>2, SameTask
<1>4. QED
  BY <1>3 DEF Y

LEMMA LeftRecord ==
  ASSUME NEW X \in TaskRecord, NEW V \in TaskRecord, NEW k \in Nat,
         V.st = X.st, V.content = X.content, V.stable = X.stable,
         V.retries = X.retries, V.holder = X.holder, V.left = k
  PROVE  V = [X EXCEPT !.left = k]
<1> DEFINE Y == [X EXCEPT !.left = k]
<1>1. Y \in TaskRecord
  BY DEF TaskRecord
<1>2. /\ Y.st = X.st /\ Y.content = X.content /\ Y.stable = X.stable
      /\ Y.retries = X.retries /\ Y.holder = X.holder /\ Y.left = k
  BY DEF TaskRecord
<1> HIDE DEF Y
<1>3. V = Y
  BY <1>1, <1>2, SameTask
<1>4. QED
  BY <1>3 DEF Y

(* A task whose record and whose scores stay looks the same. *)
LEMMA SameView ==
  ASSUME NEW i \in Ids, rec'[i] = rec[i], leases'[i] = leases[i], failed'[i] = failed[i],
         delayed'[i] = delayed[i], clock' = clock
  PROVE  AbstractTask'[i] = AbstractTask[i]
BY ViewTask

(* One task changes, the tasks in P are dropped. *)
LEMMA TaskTable ==
  ASSUME NEW P \in SUBSET Ids, NEW i \in Ids, NEW X, AbstractTask'[i] = X,
         \A j \in Ids : j # i => AbstractTask'[j] = IF j \in P THEN Promise!Absent
                                                    ELSE AbstractTask[j]
  PROVE  AbstractTask' = [Promise!Without(P) EXCEPT ![i] = X]
BY DEF Promise!Without, AbstractTask

LEMMA OneTask ==
  ASSUME NEW i \in Ids, NEW X, AbstractTask'[i] = X,
         \A j \in Ids : j # i => AbstractTask'[j] = AbstractTask[j]
  PROVE  /\ AbstractTask' = [AbstractTask EXCEPT ![i] = X]
         /\ AbstractTask' = [Promise!Without({}) EXCEPT ![i] = X]
BY DEF Promise!Without, AbstractTask

LEMMA AbsentView ==
  /\ \A ls, fl, dl, k : View(NoRecord, ls, fl, dl, k) = Promise!Absent
  /\ Promise!Absent \in TaskRecord
  /\ Promise!Absent.retries = 0 /\ Promise!Absent.holder = NoToken /\ Promise!Absent.left = 0
<1>1. \A ls, fl, dl, k : View(NoRecord, ls, fl, dl, k) = Promise!Absent
  BY DEF View, ViewState, ViewLeft, NoRecord, Promise!Absent, AnyContent, NoToken
<1>2. QED
  BY <1>1 DEF Promise!Absent, TaskRecord, NoToken

(* A key that does not exist is NoRecord in every field. *)
NoneInv == \A i \in Ids : rec[i].s = "none" => rec[i] = NoRecord

LEMMA NoneNext == TypeOK /\ NoneInv /\ [Next]_vars => NoneInv'
<1> SUFFICES ASSUME TypeOK, NoneInv, [Next]_vars, NEW i \in Ids, rec'[i].s = "none"
             PROVE  rec'[i] = NoRecord
  BY DEF NoneInv
<1>1. rec[i] \in Record
  BY DEF TypeOK
<1>2. ~Added(i)
  <2>1. ASSUME NEW c \in Contents, NEW dedup \in BOOLEAN, EnqueueNew(i, c, dedup) PROVE FALSE
    BY <2>1 DEF EnqueueNew, NoRecord, TypeOK
  <2>2. QED
    BY <2>1 DEF Added
<1>3. ~Woken(i) /\ ~Granted(i) /\ ~Replayed(i)
  BY <1>1 DEF Woken, Granted, Replayed, Record
<1>4. Concluded(i) => rec'[i] = NoRecord
  BY <1>1 DEF Concluded, Record
<1>5. QED
  BY <1>2, <1>3, <1>4, Life DEF Lives, NoneInv, Pruned, Vanished

RefineInv == TypeOK /\ FenceInv /\ IndexInv /\ NoneInv /\ lost = 0

LEMMA RefineSubmit ==
  ASSUME RefineInv, NEW i \in Ids, NEW c \in Contents, NEW dedup \in BOOLEAN,
         EnqueueNew(i, c, dedup), TypeOK'
  PROVE  Promise!Submit(i, c, dedup, {})
<1>0. dedup => ~Remembered(i)
  BY DEF EnqueueNew
<1>1. /\ rec[i].s = "none"
      /\ rec \in [Ids -> Record] /\ clock \in Nat /\ tomb[i].until \in Int
  BY DEF RefineInv, EnqueueNew, Exists, TypeOK, Time, Scores, NoScore
<1>2. AbstractTask[i].st = "absent"
  BY <1>1, TaskFields DEF ViewState
<1>3. dedup => AbstractDone[i] = 0
  <2>1. AbstractDone[i] = Left(tomb[i].until, clock)
    BY ViewDone
  <2>2. ~Remembered(i) => Left(tomb[i].until, clock) = 0
    BY <1>1 DEF Remembered, NoScore, Left
  <2>3. QED
    BY <1>0, <2>1, <2>2, Zenon
<1>4. rec' = [rec EXCEPT ![i] = [NoRecord EXCEPT !.s = "ready", !.h = c, !.dd = dedup]]
  BY DEF EnqueueNew
<1>5. AbstractTask'[i] = [Promise!Absent EXCEPT !.st = "waiting", !.content = c, !.stable = dedup]
  <2>1. /\ rec'[i].s = "ready" /\ rec'[i].h = c /\ rec'[i].dd = dedup
        /\ rec'[i].r = 0 /\ rec'[i].tok = NoToken
    BY <1>1, <1>4 DEF NoRecord
  <2>2. AbstractTask'[i].st = "waiting" /\ AbstractTask'[i].left = 0
    BY <2>1, NextTaskFields DEF ViewState, ViewLeft
  <2>3. AbstractTask'[i] \in TaskRecord
    BY NextTaskType DEF RefineInv
  <2>4. /\ AbstractTask'[i].content = c /\ AbstractTask'[i].stable = dedup
        /\ AbstractTask'[i].retries = 0 /\ AbstractTask'[i].holder = NoToken
    BY <2>1, NextTaskFields, Zenon
  <2>5. QED
    BY <2>2, <2>3, <2>4, AbsentView, SubmitRecord, Zenon
<1>6. ASSUME NEW j \in Ids, j # i PROVE AbstractTask'[j] = AbstractTask[j]
  BY <1>1, <1>4, <1>6, SameView DEF EnqueueNew
<1>7. AbstractTask' = [Promise!Without({}) EXCEPT ![i] =
         [Promise!Absent EXCEPT !.st = "waiting", !.content = c, !.stable = dedup]]
  BY <1>5, <1>6, OneTask
<1>8. AbstractDone' = AbstractDone /\ AbstractIssued' = AbstractIssued
  BY DEF EnqueueNew, AbstractDone, AbstractIssued, Until, client
<1>9. QED
  BY <1>2, <1>3, <1>7, <1>8 DEF Promise!Submit

(* A due retry looks the same when it is made ready. *)
LEMMA PromoteView ==
  ASSUME RefineInv, NEW F \in SUBSET UpTo(delayed, clock),
         NEW at \in Positions(F), PromoteOK(F, at), NEW i \in Ids, NEW X,
         X = View(Promote(F)[i], leases[i], failed[i],
                  IF i \in F THEN NoScore ELSE delayed[i], clock)
  PROVE  X = AbstractTask[i]
<1>0. /\ AbstractTask[i] = View(rec[i], leases[i], failed[i], delayed[i], clock)
      /\ rec[i] \in Record /\ clock \in Nat /\ F \subseteq Ids
      /\ leases[i] \in Scores /\ failed[i] \in Scores /\ delayed[i] \in Scores
  BY ViewTask DEF RefineInv, TypeOK, Time, UpTo
<1>1. CASE i \in F
  <2>1. rec[i].s = "delayed" /\ delayed[i] <= clock
    BY <1>1 DEF RefineInv, IndexInv, ScoreInv, UpTo
  <2>2. Promote(F)[i] = [rec[i] EXCEPT !.s = "ready"]
    BY <1>1, <2>1 DEF Promote, Promotable, Exists
  <2>3. /\ Promote(F)[i] \in Record /\ Promote(F)[i].s = "ready"
        /\ Promote(F)[i].h = rec[i].h /\ Promote(F)[i].dd = rec[i].dd
        /\ Promote(F)[i].r = rec[i].r /\ Promote(F)[i].tok = rec[i].tok
    BY <1>0, <2>2 DEF Record, States
  <2>4. X = View(Promote(F)[i], leases[i], failed[i], NoScore, clock)
    BY <1>1
  <2>5. X \in TaskRecord /\ AbstractTask[i] \in TaskRecord
    <3>1. NoScore \in Scores /\ TypeOK
      BY DEF Scores, RefineInv
    <3>2. X \in TaskRecord
      BY <1>0, <2>3, <2>4, <3>1, ViewType
    <3>3. QED
      BY <3>1, <3>2, TaskType
  <2>6. /\ X.st = "waiting" /\ X.left = 0 /\ X.content = rec[i].h /\ X.stable = rec[i].dd
        /\ X.retries = rec[i].r /\ X.holder = rec[i].tok
    BY <2>3, <2>4 DEF View, ViewState, ViewLeft
  <2>7. AbstractTask[i].st = "waiting" /\ AbstractTask[i].left = 0
    <3>1. delayed[i] \in Int /\ Left(delayed[i], clock) = 0
      BY <1>0, <2>1 DEF Scores, Time, NoScore, Left
    <3>2. QED
      BY <2>1, <3>1, TaskFields DEF ViewState, ViewLeft
  <2>8. /\ AbstractTask[i].content = rec[i].h /\ AbstractTask[i].stable = rec[i].dd
        /\ AbstractTask[i].retries = rec[i].r /\ AbstractTask[i].holder = rec[i].tok
    BY TaskFields
  <2>9. QED
    BY <2>5, <2>6, <2>7, <2>8, SameTask, Zenon
<1>2. CASE i \notin F
  BY <1>0, <1>2 DEF Promote, Promotable
<1>3. QED
  BY <1>1, <1>2

(* A claim, granted on a task that is free to take. *)
LEMMA RefineClaim ==
  ASSUME RefineInv, TypeOK', NEW i \in Ids, NEW t \in Tokens, NEW answered \in BOOLEAN, NEW n,
         TokenOfCall(t), Reply(t, i, n, answered), UNCHANGED <<tomb, clock>>,
         IsDue(i) \/ rec[i].s = "ready" \/ (rec[i].s = "inflight" /\ leases[i] <= clock),
         rec'[i].s = "inflight", rec'[i].h = rec[i].h, rec'[i].dd = rec[i].dd,
         rec'[i].r = rec[i].r, rec'[i].tok = t, leases'[i] = clock + Lease,
         \A j \in Ids : j # i => AbstractTask'[j] = AbstractTask[j]
  PROVE  Promise!Claim(i, t, answered, {})
<1>0. t \notin 1..tokens \ open
  BY DEF RefineInv, FenceInv, TokenOfCall, TypeOK
<1>1. clock \in Nat /\ leases[i] \in Int /\ Lease \in Nat /\ Lease > 0
  BY DEF RefineInv, TypeOK, Time, Scores, NoScore
<1>2. AbstractTask[i].st \in {"waiting", "claimed"}
  BY TaskFields DEF ViewState, IsDue
<1>3. AbstractTask[i].left = 0
  <2>1. delayed[i] \in Int
    BY DEF RefineInv, TypeOK, Time, Scores, NoScore
  <2>2. \A score \in Int : score <= clock => Left(score, clock) = 0
    BY <1>1 DEF Left
  <2>3. AbstractTask[i].left = ViewLeft(rec[i], leases[i], failed[i], delayed[i], clock)
    BY TaskFields
  <2>4. CASE IsDue(i)
    BY <2>1, <2>2, <2>3, <2>4 DEF ViewLeft, IsDue
  <2>5. CASE rec[i].s = "ready"
    BY <2>3, <2>5 DEF ViewLeft
  <2>6. CASE rec[i].s = "inflight" /\ leases[i] <= clock
    BY <1>1, <2>2, <2>3, <2>6 DEF ViewLeft
  <2>7. QED
    BY <2>4, <2>5, <2>6
<1>4. ASSUME NEW d \in issued PROVE d.tok # t
  BY DEF RefineInv, FenceInv, TokenOfCall, TypeOK, Delivery, Tokens
<1>5. AbstractTask[i] \in TaskRecord /\ AbstractTask'[i] \in TaskRecord
  BY TaskType, NextTaskType DEF RefineInv
<1>6. AbstractTask'[i].st = "claimed" /\ AbstractTask'[i].left = Lease
  BY <1>1, NextTaskFields DEF ViewState, ViewLeft, Left
<1>7. /\ AbstractTask'[i].content = AbstractTask[i].content
      /\ AbstractTask'[i].stable = AbstractTask[i].stable
      /\ AbstractTask'[i].retries = AbstractTask[i].retries
      /\ AbstractTask'[i].holder = t
  BY TaskFields, NextTaskFields, Zenon
<1>8. t \in Nat /\ Lease \in Nat
  BY DEF Tokens
<1>9. AbstractTask'[i] = [AbstractTask[i] EXCEPT !.st = "claimed", !.holder = t, !.left = Lease]
  <2> DEFINE X == AbstractTask[i]
             V == AbstractTask'[i]
  <2>1. /\ X \in TaskRecord /\ V \in TaskRecord
        /\ V.st = "claimed" /\ V.content = X.content /\ V.stable = X.stable
        /\ V.retries = X.retries /\ V.holder = t /\ V.left = Lease
    BY <1>5, <1>6, <1>7
  <2> HIDE DEF X, V
  <2>2. V = [X EXCEPT !.st = "claimed", !.holder = t, !.left = Lease]
    BY ONLY <1>8, <2>1, ClaimRecord, Zenon
  <2>3. QED
    BY <2>2 DEF X, V
<1>10. AbstractTask' = [Promise!Without({}) EXCEPT ![i] =
          [AbstractTask[i] EXCEPT !.st = "claimed", !.holder = t, !.left = Lease]]
  BY <1>9, OneTask
<1>11. AbstractIssued' = IF answered THEN AbstractIssued \cup {[id |-> i, tok |-> t]}
                                     ELSE AbstractIssued
  <2>1. CASE answered
    <3>1. issued' = issued \cup {[id |-> i, tok |-> t, n |-> n]}
      BY <1>0, <2>1 DEF Reply, LateRun
    <3>2. AbstractIssued' = {[id |-> d.id, tok |-> d.tok] : d \in issued'}
      BY DEF AbstractIssued
    <3>3. \A y : y \in AbstractIssued' <=> \E d \in issued' : y = [id |-> d.id, tok |-> d.tok]
      BY <3>2
    <3>4. \A y : y \in AbstractIssued' <=>
            y \in AbstractIssued \/ y = [id |-> i, tok |-> t]
      <4>1. \A y : y \in AbstractIssued <=> \E d \in issued : y = [id |-> d.id, tok |-> d.tok]
        BY DEF AbstractIssued
      <4>2. \A d : d \in issued' <=> d \in issued \/ d = [id |-> i, tok |-> t, n |-> n]
        BY <3>1
      <4> DEFINE new == [id |-> i, tok |-> t, n |-> n]
      <4>3. new.id = i /\ new.tok = t /\ new \in issued'
        BY <4>2
      <4> HIDE DEF new
      <4>4. \A d \in issued : d \in issued'
        BY <4>2
      <4>5. \A d \in issued' : d \in issued \/ d = new
        BY <4>2 DEF new
      <4>6. ASSUME NEW y \in AbstractIssued'
            PROVE  y \in AbstractIssued \/ y = [id |-> i, tok |-> t]
        <5>1. PICK d \in issued' : y = [id |-> d.id, tok |-> d.tok]
          BY <3>3, <4>6
        <5>2. CASE d \in issued
          BY <4>1, <5>1, <5>2
        <5>3. CASE d = new
          BY <4>3, <5>1, <5>3
        <5>4. QED
          BY <4>5, <5>2, <5>3
      <4>7. ASSUME NEW y \in AbstractIssued
            PROVE  y \in AbstractIssued'
        <5>1. PICK d \in issued : y = [id |-> d.id, tok |-> d.tok]
          BY <4>1, <4>7
        <5>2. QED
          BY ONLY <3>3, <4>4, <5>1, Zenon
      <4>8. [id |-> i, tok |-> t] \in AbstractIssued'
        BY <3>3, <4>3
      <4>9. QED
        BY <4>6, <4>7, <4>8
    <3>5. QED
      BY <2>1, <3>4
  <2>2. CASE ~answered
    BY <1>0, <2>2 DEF Reply, LateRun, AbstractIssued
  <2>3. QED
    BY <2>1, <2>2
<1>12. AbstractDone' = AbstractDone
  BY DEF AbstractDone, Until
<1>13. \A d \in AbstractIssued : d.tok # t
  BY <1>4 DEF AbstractIssued
<1>14. QED
  BY <1>2, <1>3, <1>10, <1>11, <1>12, <1>13
     DEF Promise!Claim, Promise!Claimable, Promise!Waiting, Promise!Claimed

LEMMA RefineReceive ==
  ASSUME RefineInv, TypeOK', NEW t \in Tokens, NEW answered \in BOOLEAN, Receive(t, answered)
  PROVE  \/ \E i \in Ids : Promise!Claim(i, t, answered, {})
         \/ UNCHANGED Promise!vars
<1>1. PICK F \in SUBSET UpTo(delayed, clock), K \in SUBSET StaleLeases :
        \E at \in Positions(F) : ReceiveWith(t, answered, F, K, at)
  BY Zenon DEF Receive
<1>2. PICK at \in Positions(F) : ReceiveWith(t, answered, F, K, at)
  BY <1>1
<1> DEFINE R == Promote(F)
           st == Promoted(F, at)
           Same(j) == View(R[j], leases[j], failed[j], delayed'[j], clock)
<1>3. PromoteOK(F, at) /\ TokenOfCall(t)
  BY <1>2, Zenon DEF ReceiveWith, Receive
<1>4. /\ delayed' = [j \in Ids |-> IF j \in F THEN NoScore ELSE delayed[j]]
      /\ UNCHANGED <<tomb, failed, clock>>
  BY <1>2, Zenon DEF ReceiveWith
<1>5. K = {}
  BY <1>3, PromoteIndex DEF RefineInv
<1>6. R \in [Ids -> Record] /\ st \in SUBSET Entries
  BY PromoteType DEF RefineInv, UpTo, Entries
<1>7. ASSUME NEW j \in Ids PROVE Same(j) = AbstractTask[j]
  BY <1>3, <1>4, PromoteView
<1>8. ASSUME NEW j \in Ids
      PROVE  /\ R[j].h = rec[j].h /\ R[j].dd = rec[j].dd /\ R[j].r = rec[j].r
             /\ R[j].s = "inflight" => rec[j].s = "inflight"
             /\ R[j].s = "ready" => rec[j].s = "ready" \/ IsDue(j)
  <2>1. CASE j \in Promotable(F)
    <3>1. rec[j].s = "delayed" /\ delayed[j] <= clock
      BY <1>3, <2>1 DEF PromoteOK, Promotable, CheckRecord, UpTo
    <3>2. R[j] = [rec[j] EXCEPT !.s = "ready"] /\ rec[j] \in Record
      BY <2>1 DEF Promote, RefineInv, TypeOK
    <3>3. QED
      BY <3>1, <3>2 DEF IsDue, Record
  <2>2. CASE j \notin Promotable(F)
    BY <2>2 DEF Promote
  <2>3. QED
    BY <2>1, <2>2
<1> HIDE DEF R, st
<1>9. ASSUME NEW j \in Ids, rec'[j] = R[j], leases'[j] = leases[j]
      PROVE  AbstractTask'[j] = AbstractTask[j]
  <2>1. AbstractTask'[j] = View(rec'[j], leases'[j], failed'[j], delayed'[j], clock')
    BY ViewTask
  <2>2. QED
    BY <1>4, <1>7, <1>9, <2>1
<1> HIDE DEF Same
<1>10. ASSUME NEW i \in Ids, Recover(i, t, answered, K, R, st)
       PROVE  Promise!Claim(i, t, answered, {})
  <2>1. R[i].s = "inflight" /\ leases[i] <= clock /\ R[i] \in Record
    BY <1>6, <1>10 DEF Recover, CheckRecord, UpTo
  <2>2. /\ rec'[i].s = "inflight" /\ rec'[i].h = R[i].h /\ rec'[i].dd = R[i].dd
        /\ rec'[i].r = R[i].r /\ rec'[i].tok = t
    BY <1>6, <1>10, <2>1 DEF Recover, Record
  <2>3. \A j \in Ids : j # i => rec'[j] = R[j] /\ leases'[j] = leases[j]
    BY <1>5, <1>6, <1>10 DEF Recover
  <2>4. leases'[i] = clock + Lease /\ Reply(t, i, R[i].n + 1, answered)
    BY <1>10 DEF Recover
  <2>5. \A j \in Ids : j # i => AbstractTask'[j] = AbstractTask[j]
    BY <1>9, <2>3
  <2>6. /\ rec[i].s = "inflight" /\ rec'[i].h = rec[i].h /\ rec'[i].dd = rec[i].dd
        /\ rec'[i].r = rec[i].r
    BY <1>8, <2>1, <2>2
  <2>7. QED
    BY ONLY RefineInv, TypeOK', t \in Tokens, answered \in BOOLEAN, i \in Ids,
       <1>3, <1>4, <2>1, <2>2, <2>4, <2>5, <2>6, RefineClaim, Zenon
<1>11. ASSUME NEW x \in st, ClaimNew(x, t, answered, K, R, st)
       PROVE  x.id \in Ids /\ Promise!Claim(x.id, t, answered, {})
  <2>0. x.id \in Ids
    BY <1>6 DEF Entries
  <2>1. R[x.id].s = "ready" /\ R[x.id] \in Record
    BY <1>6, <1>11, <2>0 DEF ClaimNew, CheckRecord
  <2>2. /\ rec'[x.id].s = "inflight" /\ rec'[x.id].h = R[x.id].h /\ rec'[x.id].dd = R[x.id].dd
        /\ rec'[x.id].r = R[x.id].r /\ rec'[x.id].tok = t
    BY <1>6, <1>11, <2>0, <2>1 DEF ClaimNew, Record
  <2>3. \A j \in Ids : j # x.id => rec'[j] = R[j] /\ leases'[j] = leases[j]
    BY <1>5, <1>6, <1>11 DEF ClaimNew
  <2>4. leases'[x.id] = clock + Lease /\ Reply(t, x.id, R[x.id].n + 1, answered)
    BY <1>11, <2>0 DEF ClaimNew
  <2>5. \A j \in Ids : j # x.id => AbstractTask'[j] = AbstractTask[j]
    BY <1>9, <2>3
  <2>6. /\ IsDue(x.id) \/ rec[x.id].s = "ready"
        /\ rec'[x.id].h = rec[x.id].h
        /\ rec'[x.id].dd = rec[x.id].dd /\ rec'[x.id].r = rec[x.id].r
    BY <1>8, <2>0, <2>1, <2>2
  <2>7. QED
    BY ONLY RefineInv, TypeOK', t \in Tokens, answered \in BOOLEAN,
       <1>3, <1>4, <2>0, <2>2, <2>4, <2>5, <2>6, RefineClaim, Zenon
<1>12. ASSUME ClaimNothing(t, K, R, st)
       PROVE  UNCHANGED Promise!vars
  <2>1. rec' = R /\ issued' = issued /\ \A j \in Ids : leases'[j] = leases[j]
    BY <1>5, <1>12 DEF ClaimNothing
  <2>2. \A j \in Ids : AbstractTask'[j] = AbstractTask[j]
    BY <1>9, <2>1
  <2>3. AbstractTask' = AbstractTask
    BY <2>2 DEF AbstractTask
  <2>4. AbstractDone' = AbstractDone /\ AbstractIssued' = AbstractIssued
    BY <1>4, <2>1 DEF AbstractDone, AbstractIssued, Until
  <2>5. QED
    BY <2>3, <2>4 DEF Promise!vars
<1>13. QED
  <2>1. \/ \E i \in Ids : Recover(i, t, answered, K, R, st)
        \/ \E x \in st : ClaimNew(x, t, answered, K, R, st)
        \/ ClaimNothing(t, K, R, st)
    BY <1>2, Zenon DEF ReceiveWith, R, st
  <2>2. QED
    BY <1>10, <1>11, <1>12, <2>1

(* The holder of a claim, as the promise sees it. *)
Seen(d) == [id |-> d.id, tok |-> d.tok]

LEMMA HolderView ==
  ASSUME RefineInv, NEW d \in issued, HoldsClaim(d)
  PROVE  /\ Seen(d) \in AbstractIssued /\ Seen(d).id = d.id /\ d.id \in Ids
         /\ Promise!Holds(Seen(d))
         /\ AbstractTask[d.id] \in TaskRecord
         /\ AbstractTask[d.id].stable = rec[d.id].dd
         /\ rec[d.id] \in Record /\ rec \in [Ids -> Record]
<1>1. d.id \in Ids /\ rec[d.id] \in Record /\ rec \in [Ids -> Record]
  BY HoldsClaimType DEF RefineInv, TypeOK
<1>2. Seen(d) \in AbstractIssued /\ Seen(d).id = d.id /\ Seen(d).tok = d.tok
  BY DEF AbstractIssued, Seen
<1>3. AbstractTask[d.id].st = "claimed" /\ AbstractTask[d.id].holder = d.tok
  BY <1>1, TaskFields DEF ViewState, HoldsClaim
<1>4. AbstractTask[d.id] \in TaskRecord /\ AbstractTask[d.id].stable = rec[d.id].dd
  BY <1>1, TaskType, TaskFields DEF RefineInv
<1>5. QED
  BY <1>1, <1>2, <1>3, <1>4 DEF Promise!Holds, Promise!Claimed

LEMMA RefineAck ==
  ASSUME RefineInv, NEW d \in issued, Ack(d)
  PROVE  Promise!Ack(Seen(d))
<1>1. /\ HoldsClaim(d) /\ rec' = [rec EXCEPT ![d.id] = NoRecord]
      /\ leases' = [leases EXCEPT ![d.id] = NoScore]
      /\ UNCHANGED <<delayed, failed, clock, issued>>
  BY DEF Ack, client
<1>2. \A j \in Ids : j # d.id => rec'[j] = rec[j] /\ leases'[j] = leases[j]
  BY <1>1, HolderView DEF RefineInv, TypeOK
<1>3. rec'[d.id] = NoRecord
  BY <1>1, HolderView
<1>4. \A j \in Ids : j # d.id => AbstractTask'[j] = AbstractTask[j]
  BY <1>1, <1>2, SameView
<1>5. AbstractTask'[d.id] = Promise!Absent
  BY <1>1, <1>3, HolderView, ViewTask, AbsentView
<1>6. AbstractTask' = [AbstractTask EXCEPT ![d.id] = Promise!Absent]
  BY <1>1, <1>4, <1>5, HolderView, OneTask
<1>7. tomb' = IF rec[d.id].dd /\ DedupWindow > 0
              THEN [tomb EXCEPT ![d.id] = [h |-> rec[d.id].h, until |-> clock + DedupWindow]]
              ELSE tomb
  BY DEF Ack
<1>8. AbstractDone' = IF rec[d.id].dd /\ DedupWindow > 0
                      THEN [AbstractDone EXCEPT ![d.id] = DedupWindow]
                      ELSE AbstractDone
  <2>0. clock \in Nat /\ tomb \in [Ids -> [h : Contents, until : Scores]] /\ d.id \in Ids
    BY <1>1, HolderView DEF RefineInv, TypeOK, Time
  <2>1. CASE rec[d.id].dd /\ DedupWindow > 0
    <3>1. tomb' = [tomb EXCEPT ![d.id] = [h |-> rec[d.id].h, until |-> clock + DedupWindow]]
      BY <1>7, <2>1
    <3>2. tomb'[d.id].until = clock + DedupWindow /\ \A j \in Ids : j # d.id => tomb'[j] = tomb[j]
      BY <2>0, <3>1
    <3>3. Left(clock + DedupWindow, clock) = DedupWindow
      BY <2>0 DEF Left
    <3>4. AbstractDone'[d.id] = DedupWindow
      BY <1>1, <2>0, <3>2, <3>3, ViewDone
    <3>5. \A j \in Ids : j # d.id => AbstractDone'[j] = AbstractDone[j]
      BY <1>1, <3>2, ViewDone
    <3>6. AbstractDone' = [AbstractDone EXCEPT ![d.id] = DedupWindow]
      BY <3>4, <3>5 DEF AbstractDone
    <3>7. QED
      BY <2>1, <3>6
  <2>2. CASE ~(rec[d.id].dd /\ DedupWindow > 0)
    <3>1. tomb' = tomb
      BY <1>7, <2>2
    <3>2. AbstractDone' = AbstractDone
      BY <1>1, <3>1 DEF AbstractDone, Until
    <3>3. QED
      BY <2>2, <3>2
  <2>3. QED
    BY <2>1, <2>2
<1>9. AbstractIssued' = AbstractIssued
  BY <1>1 DEF AbstractIssued
<1>10. QED
  BY <1>1, <1>6, <1>8, <1>9, HolderView DEF Promise!Ack

LEMMA RefineRenew ==
  ASSUME RefineInv, TypeOK', NEW d \in issued, Renew(d)
  PROVE  Promise!Renew(Seen(d))
<1>1. /\ HoldsClaim(d) /\ leases' = [leases EXCEPT ![d.id] = clock + Lease]
      /\ UNCHANGED <<rec, tomb, delayed, failed, clock, issued>>
  BY DEF Renew, client
<1>2. \A j \in Ids : j # d.id => leases'[j] = leases[j]
  BY <1>1 DEF RefineInv, TypeOK
<1>3. \A j \in Ids : j # d.id => AbstractTask'[j] = AbstractTask[j]
  BY <1>1, <1>2, SameView
<1>4. d.id \in Ids /\ AbstractTask[d.id] \in TaskRecord /\ AbstractTask'[d.id] \in TaskRecord
  BY <1>1, HolderView, NextTaskType
<1>5. /\ AbstractTask'[d.id].st = AbstractTask[d.id].st
      /\ AbstractTask'[d.id].content = AbstractTask[d.id].content
      /\ AbstractTask'[d.id].stable = AbstractTask[d.id].stable
      /\ AbstractTask'[d.id].retries = AbstractTask[d.id].retries
      /\ AbstractTask'[d.id].holder = AbstractTask[d.id].holder
  BY <1>1, <1>4, TaskFields, NextTaskFields
<1>6. AbstractTask'[d.id].left = Lease
  <2>1. leases'[d.id] = clock + Lease /\ clock \in Nat
    BY <1>1, <1>4 DEF RefineInv, TypeOK, Time
  <2>2. Left(clock + Lease, clock) = Lease
    BY <2>1 DEF Left
  <2>3. rec'[d.id].s = "inflight"
    BY <1>1 DEF HoldsClaim
  <2>4. QED
    BY <1>1, <1>4, <2>1, <2>2, <2>3, NextTaskFields DEF ViewLeft
<1>7. AbstractTask'[d.id] = [AbstractTask[d.id] EXCEPT !.left = Lease]
  <2>1. Lease \in Nat
    OBVIOUS
  <2>2. QED
    BY ONLY <1>4, <1>5, <1>6, <2>1, LeftRecord, Zenon
<1>8. AbstractTask' = [AbstractTask EXCEPT ![d.id] = [AbstractTask[d.id] EXCEPT !.left = Lease]]
  BY <1>3, <1>4, <1>7, OneTask
<1>9. AbstractDone' = AbstractDone /\ AbstractIssued' = AbstractIssued
  BY <1>1 DEF AbstractDone, AbstractIssued, Until
<1>10. QED
  BY <1>1, <1>8, <1>9, HolderView DEF Promise!Renew

LEMMA RefineRetry ==
  ASSUME RefineInv, TypeOK', NEW d \in issued, NEW delay \in Delays, Retry(d, delay)
  PROVE  Promise!Retry(Seen(d), delay)
<1>1. /\ HoldsClaim(d) /\ leases' = [leases EXCEPT ![d.id] = NoScore]
      /\ delayed' = [delayed EXCEPT ![d.id] = clock + delay]
      /\ rec' = [rec EXCEPT ![d.id] = [rec[d.id] EXCEPT !.s = "delayed", !.tok = NoToken,
                                                        !.e = NoEntry, !.r = rec[d.id].r + 1]]
      /\ UNCHANGED <<tomb, failed, clock, issued>>
  BY DEF Retry, client
<1>2. /\ d.id \in Ids /\ rec \in [Ids -> Record] /\ rec[d.id] \in Record
      /\ AbstractTask[d.id] \in TaskRecord /\ AbstractTask'[d.id] \in TaskRecord
  BY <1>1, HolderView, NextTaskType
<1>3. \A j \in Ids : j # d.id => /\ rec'[j] = rec[j] /\ leases'[j] = leases[j]
                                /\ delayed'[j] = delayed[j]
  BY <1>1, <1>2 DEF RefineInv, TypeOK
<1>4. \A j \in Ids : j # d.id => AbstractTask'[j] = AbstractTask[j]
  BY <1>1, <1>3, SameView
<1>5. /\ rec'[d.id].s = "delayed" /\ rec'[d.id].h = rec[d.id].h /\ rec'[d.id].dd = rec[d.id].dd
      /\ rec'[d.id].r = rec[d.id].r + 1 /\ rec'[d.id].tok = NoToken
  BY <1>1, <1>2 DEF Record
<1>6. AbstractTask'[d.id].left = delay
  <2>1. delayed'[d.id] = clock + delay /\ clock \in Nat /\ delay \in Nat
    BY <1>1, <1>2 DEF RefineInv, TypeOK, Time
  <2>2. Left(clock + delay, clock) = delay
    BY <2>1 DEF Left
  <2>3. QED
    BY <1>1, <1>2, <1>5, <2>1, <2>2, NextTaskFields DEF ViewLeft
<1>7. /\ AbstractTask'[d.id].st = "waiting"
      /\ AbstractTask'[d.id].content = AbstractTask[d.id].content
      /\ AbstractTask'[d.id].stable = AbstractTask[d.id].stable
      /\ AbstractTask'[d.id].retries = AbstractTask[d.id].retries + 1
      /\ AbstractTask'[d.id].holder = NoToken
  BY <1>2, <1>5, TaskFields, NextTaskFields DEF ViewState
<1>8. AbstractTask'[d.id] =
        [AbstractTask[d.id] EXCEPT !.st = "waiting", !.holder = NoToken, !.left = delay,
                                   !.retries = AbstractTask[d.id].retries + 1]
  <2> DEFINE X == AbstractTask[d.id]
             V == AbstractTask'[d.id]
             n == AbstractTask[d.id].retries + 1
  <2>1. delay \in Nat /\ NoToken \in Nat /\ n \in Nat
    BY <1>2 DEF NoToken, TaskRecord
  <2>2. /\ X \in TaskRecord /\ V \in TaskRecord
        /\ V.st = "waiting" /\ V.content = X.content /\ V.stable = X.stable
        /\ V.retries = n /\ V.holder = NoToken /\ V.left = delay
    BY <1>2, <1>6, <1>7
  <2> HIDE DEF X, V, n
  <2>3. V = [X EXCEPT !.st = "waiting", !.holder = NoToken, !.left = delay, !.retries = n]
    BY ONLY <2>1, <2>2, RetryRecord, Zenon
  <2>4. QED
    BY <2>3 DEF X, V, n
<1>9. AbstractTask' = [AbstractTask EXCEPT ![d.id] =
        [AbstractTask[d.id] EXCEPT !.st = "waiting", !.holder = NoToken, !.left = delay,
                                   !.retries = AbstractTask[d.id].retries + 1]]
  BY <1>2, <1>4, <1>8, OneTask
<1>10. AbstractDone' = AbstractDone /\ AbstractIssued' = AbstractIssued
  BY <1>1 DEF AbstractDone, AbstractIssued, Until
<1>11. QED
  BY <1>1, <1>9, <1>10, HolderView DEF Promise!Retry

LEMMA RefineFail ==
  ASSUME RefineInv, TypeOK', NEW d \in issued, Fail(d)
  PROVE  \E P \in SUBSET Promise!Outdated : Promise!Fail(Seen(d), P)
<1> DEFINE R == [rec EXCEPT ![d.id] =
                   [rec[d.id] EXCEPT !.s = "failed", !.tok = NoToken, !.e = NoEntry]]
           Gone(old) == {j \in old : R[j].s = "failed"}
<1>0. /\ HoldsClaim(d) /\ leases' = [leases EXCEPT ![d.id] = NoScore]
      /\ UNCHANGED <<tomb, delayed, clock, issued>>
  BY Zenon DEF Fail, client
<1>1. PICK old \in SUBSET UpTo(failed, Cutoff) :
        /\ OutdatedBatch(old)
        /\ rec' = [j \in Ids |-> IF j \in Gone(old) THEN NoRecord ELSE R[j]]
        /\ failed' = [j \in Ids |-> IF j \in old THEN NoScore
                                    ELSE IF j = d.id THEN clock ELSE failed[j]]
  BY Zenon DEF Fail
<1>2. /\ d.id \in Ids /\ rec \in [Ids -> Record] /\ rec[d.id] \in Record
      /\ AbstractTask[d.id] \in TaskRecord /\ AbstractTask'[d.id] \in TaskRecord
      /\ clock \in Nat
  BY <1>0, HolderView, NextTaskType DEF RefineInv, TypeOK, Time
<1>3. /\ R[d.id].s = "failed" /\ R[d.id].h = rec[d.id].h /\ R[d.id].dd = rec[d.id].dd
      /\ R[d.id].r = rec[d.id].r /\ R[d.id].tok = NoToken
      /\ \A j \in Ids : j # d.id => R[j] = rec[j]
  BY <1>2 DEF Record
<1>4. d.id \notin old
  BY <1>0, <1>1, <1>2 DEF RefineInv, IndexInv, ScoreInv, UpTo, HoldsClaim
<1> HIDE DEF R
<1>5. Gone(old) \in SUBSET Promise!Outdated
  <2> SUFFICES ASSUME NEW j \in Gone(old) PROVE j \in Promise!Outdated
    OBVIOUS
  <2>1. /\ j \in Ids /\ j # d.id /\ rec[j].s = "failed"
        /\ Retention > 0 /\ failed[j] <= Cutoff
    BY <1>1, <1>3, <1>4 DEF OutdatedBatch, UpTo
  <2>2. failed[j] \in Int
    BY <2>1 DEF RefineInv, TypeOK, Scores, Time, NoScore
  <2>3. Left(failed[j] + Retention, clock) = 0
    BY <1>2, <2>1, <2>2 DEF Left, Cutoff
  <2>4. AbstractTask[j].st = "failed" /\ AbstractTask[j].left = 0
    BY <2>1, <2>3, TaskFields DEF ViewState, ViewLeft
  <2>5. QED
    BY <2>1, <2>4 DEF Promise!Outdated, Promise!Failed
<1>6. ASSUME NEW j \in Ids, j # d.id
      PROVE  AbstractTask'[j] = IF j \in Gone(old) THEN Promise!Absent ELSE AbstractTask[j]
  <2>1. CASE j \in Gone(old)
    <3>1. rec'[j] = NoRecord
      BY <1>1, <2>1
    <3>2. AbstractTask'[j] = Promise!Absent
      BY <3>1, ViewTask, AbsentView
    <3>3. QED
      BY <2>1, <3>2
  <2>2. CASE j \notin Gone(old)
    <3>1. rec'[j] = rec[j] /\ leases'[j] = leases[j]
      BY <1>0, <1>1, <1>3, <1>6, <2>2 DEF RefineInv, TypeOK
    <3>2. CASE j \in old
      <4>1. rec[j].s # "failed"
        BY <1>3, <1>6, <2>2, <3>2
      <4>2. failed[j] = NoScore
        BY <4>1 DEF RefineInv, IndexInv, ScoreInv
      <4>3. QED
        BY <3>2, <4>2 DEF UpTo
    <3>3. CASE j \notin old
      <4>1. failed'[j] = failed[j]
        BY <1>1, <1>6, <3>3
      <4>2. QED
        BY <1>0, <2>2, <3>1, <4>1, SameView
    <3>4. QED
      BY <3>2, <3>3
  <2>3. QED
    BY <2>1, <2>2
<1>7. rec'[d.id] = R[d.id] /\ failed'[d.id] = clock
  BY <1>1, <1>2, <1>4
<1>8. AbstractTask'[d.id].left = Retention
  <2>1. Left(clock + Retention, clock) = Retention
    BY <1>2 DEF Left
  <2>2. QED
    BY <1>0, <1>2, <1>3, <1>7, <2>1, NextTaskFields DEF ViewLeft
<1>9. /\ AbstractTask'[d.id].st = "failed"
      /\ AbstractTask'[d.id].content = AbstractTask[d.id].content
      /\ AbstractTask'[d.id].stable = AbstractTask[d.id].stable
      /\ AbstractTask'[d.id].retries = AbstractTask[d.id].retries
      /\ AbstractTask'[d.id].holder = NoToken
  BY <1>2, <1>3, <1>7, TaskFields, NextTaskFields DEF ViewState
<1>10. AbstractTask'[d.id] =
         [AbstractTask[d.id] EXCEPT !.st = "failed", !.holder = NoToken, !.left = Retention]
  <2> DEFINE X == AbstractTask[d.id]
             V == AbstractTask'[d.id]
  <2>1. NoToken \in Nat /\ Retention \in Nat
    BY DEF NoToken
  <2>2. /\ X \in TaskRecord /\ V \in TaskRecord
        /\ V.st = "failed" /\ V.content = X.content /\ V.stable = X.stable
        /\ V.retries = X.retries /\ V.holder = NoToken /\ V.left = Retention
    BY <1>2, <1>8, <1>9
  <2> HIDE DEF X, V
  <2>3. V = [X EXCEPT !.st = "failed", !.holder = NoToken, !.left = Retention]
    BY ONLY <2>1, <2>2, FailRecord, Zenon
  <2>4. QED
    BY <2>3 DEF X, V
<1>11. Gone(old) \in SUBSET Ids
  BY DEF UpTo
<1>12. AbstractTask' = [Promise!Without(Gone(old)) EXCEPT ![d.id] =
         [AbstractTask[d.id] EXCEPT !.st = "failed", !.holder = NoToken, !.left = Retention]]
  <2> DEFINE X == [AbstractTask[d.id] EXCEPT !.st = "failed", !.holder = NoToken, !.left = Retention]
             P == Gone(old)
  <2>1. /\ P \in SUBSET Ids /\ d.id \in Ids /\ AbstractTask'[d.id] = X
        /\ \A j \in Ids : j # d.id => AbstractTask'[j] = IF j \in P THEN Promise!Absent
                                                         ELSE AbstractTask[j]
    BY <1>2, <1>6, <1>10, <1>11
  <2> HIDE DEF X, P
  <2>2. AbstractTask' = [Promise!Without(P) EXCEPT ![d.id] = X]
    BY <2>1, TaskTable
  <2>3. QED
    BY <2>2 DEF X, P
<1>13. AbstractDone' = AbstractDone /\ AbstractIssued' = AbstractIssued
  BY <1>0 DEF AbstractDone, AbstractIssued, Until
<1>14. Promise!Fail(Seen(d), Gone(old))
  BY <1>0, <1>12, <1>13, HolderView DEF Promise!Fail
<1>15. QED
  BY <1>5, <1>14

LEMMA RefineReplay ==
  ASSUME RefineInv, TypeOK', NEW i \in Ids, ReplayFailed(i)
  PROVE  Promise!ReplayFailed(i)
<1>1. /\ rec[i].s = "failed" /\ rec \in [Ids -> Record] /\ rec[i] \in Record
      /\ rec' = [rec EXCEPT ![i] = [rec[i] EXCEPT !.s = "ready", !.r = 0, !.rp = rec[i].rp + 1]]
      /\ failed' = [failed EXCEPT ![i] = NoScore]
      /\ UNCHANGED <<tomb, delayed, leases, clock, issued>>
      /\ AbstractTask[i] \in TaskRecord /\ AbstractTask'[i] \in TaskRecord
  BY TaskType, NextTaskType DEF ReplayFailed, CheckRecord, RefineInv, TypeOK, client
<1>2. \A j \in Ids : j # i => rec'[j] = rec[j] /\ failed'[j] = failed[j]
  BY <1>1 DEF RefineInv, TypeOK
<1>3. \A j \in Ids : j # i => AbstractTask'[j] = AbstractTask[j]
  BY <1>1, <1>2, SameView
<1>4. /\ rec'[i].s = "ready" /\ rec'[i].h = rec[i].h /\ rec'[i].dd = rec[i].dd
      /\ rec'[i].r = 0 /\ rec'[i].tok = rec[i].tok
  BY <1>1 DEF Record
<1>5. AbstractTask[i].st = "failed"
  BY <1>1, TaskFields DEF ViewState
<1>6. /\ AbstractTask'[i].st = "waiting" /\ AbstractTask'[i].left = 0
      /\ AbstractTask'[i].content = AbstractTask[i].content
      /\ AbstractTask'[i].stable = AbstractTask[i].stable
      /\ AbstractTask'[i].retries = 0
      /\ AbstractTask'[i].holder = AbstractTask[i].holder
  BY <1>4, TaskFields, NextTaskFields DEF ViewState, ViewLeft
<1>7. AbstractTask'[i] = [AbstractTask[i] EXCEPT !.st = "waiting", !.retries = 0, !.left = 0]
  <2> DEFINE X == AbstractTask[i]
             V == AbstractTask'[i]
  <2>1. /\ X \in TaskRecord /\ V \in TaskRecord /\ 0 \in Nat
        /\ V.st = "waiting" /\ V.content = X.content /\ V.stable = X.stable
        /\ V.retries = 0 /\ V.holder = X.holder /\ V.left = 0
    BY <1>1, <1>6
  <2> HIDE DEF X, V
  <2>2. V = [X EXCEPT !.st = "waiting", !.retries = 0, !.left = 0]
    BY ONLY <2>1, ReplayRecord, Zenon
  <2>3. QED
    BY <2>2 DEF X, V
<1>8. AbstractTask' = [AbstractTask EXCEPT ![i] =
         [AbstractTask[i] EXCEPT !.st = "waiting", !.retries = 0, !.left = 0]]
  BY <1>3, <1>7, OneTask
<1>9. AbstractDone' = AbstractDone /\ AbstractIssued' = AbstractIssued
  BY <1>1 DEF AbstractDone, AbstractIssued, Until
<1>10. QED
  BY <1>5, <1>8, <1>9 DEF Promise!ReplayFailed, Promise!Failed

(* Every remaining time is one tick less, or still nothing. *)
LEMMA LeftTick ==
  ASSUME NEW score \in Int, NEW k \in Nat
  PROVE  Left(score, k + 1) = Promise!Passed(Left(score, k))
BY DEF Left, Promise!Passed

LEMMA RefineTick ==
  ASSUME RefineInv, TypeOK', Tick
  PROVE  Promise!Tick
<1>1. clock \in Nat /\ clock' = clock + 1 /\ UNCHANGED <<rec, tomb, delayed, leases, failed, issued>>
  BY DEF Tick, redis, client, RefineInv, TypeOK, Time
<1>2. ASSUME NEW i \in Ids
      PROVE  AbstractTask'[i] =
               [AbstractTask[i] EXCEPT !.left = Promise!Passed(AbstractTask[i].left)]
  <2> DEFINE X == AbstractTask[i]
             V == AbstractTask'[i]
             k == Promise!Passed(AbstractTask[i].left)
  <2>1. X \in TaskRecord /\ V \in TaskRecord
    BY TaskType, NextTaskType DEF RefineInv
  <2>2. /\ V.st = X.st /\ V.content = X.content /\ V.stable = X.stable
        /\ V.retries = X.retries /\ V.holder = X.holder
    BY <1>1, TaskFields, NextTaskFields
  <2>3. /\ leases[i] \in Int /\ failed[i] + Retention \in Int /\ delayed[i] \in Int
        /\ Promise!Passed(0) = 0
    BY DEF RefineInv, TypeOK, Scores, Time, NoScore, Promise!Passed
  <2>4. /\ X.left = ViewLeft(rec[i], leases[i], failed[i], delayed[i], clock)
        /\ V.left = ViewLeft(rec[i], leases[i], failed[i], delayed[i], clock + 1)
    BY <1>1, TaskFields, NextTaskFields
  <2>5. V.left = k
    <3> HIDE DEF X, V
    <3>1. \A score \in Int : Left(score, clock + 1) = Promise!Passed(Left(score, clock))
      BY <1>1, LeftTick
    <3>2. QED
      BY <2>3, <2>4, <3>1 DEF ViewLeft, X
  <2>6. k \in Nat
    BY <2>1 DEF TaskRecord, Promise!Passed
  <2> HIDE DEF X, V, k
  <2>7. V = [X EXCEPT !.left = k]
    BY ONLY <2>1, <2>2, <2>5, <2>6, LeftRecord, Zenon
  <2>8. QED
    BY <2>7 DEF X, V, k
<1>3. AbstractTask' = [i \in Ids |-> [AbstractTask[i] EXCEPT
                                        !.left = Promise!Passed(AbstractTask[i].left)]]
  BY <1>2 DEF AbstractTask
<1>4. ASSUME NEW i \in Ids
      PROVE  AbstractDone'[i] = Promise!Passed(AbstractDone[i])
  <2>1. tomb[i].until \in Int
    BY DEF RefineInv, TypeOK, Scores, Time, NoScore
  <2>2. AbstractDone'[i] = Left(tomb[i].until, clock + 1)
    BY <1>1, ViewDone
  <2>3. QED
    BY <1>1, <2>1, <2>2, LeftTick, ViewDone
<1>5. AbstractDone' = [i \in Ids |-> Promise!Passed(AbstractDone[i])]
  BY <1>4 DEF AbstractDone
<1>6. AbstractIssued' = AbstractIssued
  BY <1>1 DEF AbstractIssued
<1>7. QED
  BY <1>3, <1>5, <1>6 DEF Promise!Tick

LEMMA RefineNext ==
  ASSUME RefineInv, TypeOK', lost' = 0, [Next]_vars
  PROVE  [Promise!Next]_Promise!vars
<1>1. ASSUME NEW i \in Ids, NEW c \in Contents, NEW dedup \in BOOLEAN, Enqueue(i, c, dedup)
      PROVE  [Promise!Next]_Promise!vars
  <2>1. CASE EnqueueNew(i, c, dedup)
    <3>1. Promise!Submit(i, c, dedup, {})
      BY <2>1, RefineSubmit
    <3>2. {} \in SUBSET Promise!Outdated
      OBVIOUS
    <3>3. QED
      BY ONLY i \in Ids, c \in Contents, dedup \in BOOLEAN, <3>1, <3>2, Zenon DEF Promise!Next
  <2>2. CASE EnqueueDuplicate(i, c, dedup)
    <3>1. UNCHANGED <<rec, tomb, delayed, leases, failed, clock, issued>>
      BY <2>2 DEF EnqueueDuplicate, redis, client
    <3>2. AbstractTask' = AbstractTask
      BY <3>1, SameView DEF AbstractTask
    <3>3. AbstractDone' = AbstractDone /\ AbstractIssued' = AbstractIssued
      BY <3>1 DEF AbstractDone, AbstractIssued, Until
    <3>4. QED
      BY <3>2, <3>3 DEF Promise!vars
  <2>3. QED
    BY <1>1, <2>1, <2>2 DEF Enqueue
<1>2. ASSUME NEW t \in Tokens, NEW answered \in BOOLEAN, Receive(t, answered)
      PROVE  [Promise!Next]_Promise!vars
  <2>1. CASE UNCHANGED Promise!vars
    BY <2>1
  <2>2. ASSUME NEW i \in Ids, Promise!Claim(i, t, answered, {})
        PROVE  Promise!Next
    <3>1. {} \in SUBSET Promise!Outdated
      OBVIOUS
    <3>2. QED
      BY ONLY i \in Ids, t \in Tokens, answered \in BOOLEAN, <2>2, <3>1, Zenon DEF Promise!Next
  <2>3. QED
    BY <1>2, <2>1, <2>2, RefineReceive
<1>3. ASSUME NEW d \in issued, Fail(d)
      PROVE  Promise!Next
  <2>1. Seen(d) \in AbstractIssued
    BY DEF AbstractIssued, Seen
  <2>2. PICK P \in SUBSET Promise!Outdated : Promise!Fail(Seen(d), P)
    BY <1>3, RefineFail
  <2>3. QED
    BY ONLY <2>1, <2>2, Zenon DEF Promise!Next
<1>4. ASSUME NEW d \in issued, Ack(d) \/ Renew(d) \/ \E delay \in Delays : Retry(d, delay)
      PROVE  Promise!Next
  <2>1. Seen(d) \in AbstractIssued
    BY DEF AbstractIssued, Seen
  <2>2. \/ Promise!Ack(Seen(d)) \/ Promise!Renew(Seen(d))
        \/ \E delay \in Delays : Promise!Retry(Seen(d), delay)
    BY <1>4, RefineAck, RefineRenew, RefineRetry
  <2>3. QED
    BY ONLY <2>1, <2>2, Zenon DEF Promise!Next
<1>5. ASSUME NEW i \in Ids, ReplayFailed(i)
      PROVE  Promise!Next
  <2>1. Promise!ReplayFailed(i)
    BY <1>5, RefineReplay
  <2>2. QED
    BY ONLY i \in Ids, <2>1, Zenon DEF Promise!Next
<1>6. ASSUME NEW i \in Ids, LoseRecord(i)
      PROVE  FALSE
  BY <1>6 DEF LoseRecord, RefineInv
<1>7. CASE Tick
  BY <1>7, RefineTick DEF Promise!Next
<1>8. CASE UNCHANGED vars
  <2>1. UNCHANGED <<rec, tomb, delayed, leases, failed, clock, issued>>
    BY <1>8 DEF vars, redis, client
  <2>2. AbstractTask' = AbstractTask
    BY <2>1, SameView DEF AbstractTask
  <2>3. AbstractDone' = AbstractDone /\ AbstractIssued' = AbstractIssued
    BY <2>1 DEF AbstractDone, AbstractIssued, Until
  <2>4. QED
    BY <2>2, <2>3 DEF Promise!vars
<1>9. QED
  BY <1>1, <1>2, <1>3, <1>4, <1>5, <1>6, <1>7, <1>8 DEF Next

LEMMA RefineInit == Init => Promise!Init
<1> SUFFICES ASSUME Init PROVE Promise!Init
  OBVIOUS
<1>1. \A i \in Ids : AbstractTask[i] = Promise!Absent
  BY ViewTask, AbsentView DEF Init
<1>2. \A i \in Ids : AbstractDone[i] = 0
  BY DEF Init, AbstractDone, Until, NoScore
<1>3. AbstractIssued = {}
  BY DEF Init, AbstractIssued
<1>4. AbstractTask = [i \in Ids |-> Promise!Absent] /\ AbstractDone = [i \in Ids |-> 0]
  BY <1>1, <1>2 DEF AbstractTask, AbstractDone
<1>5. QED
  BY <1>3, <1>4 DEF Promise!Init

(* As long as no record has been removed from outside, every script is one
   operation of the reliable queue callers are promised, or changes nothing
   they can tell: for any number of tasks, callers, claims and retries, and
   whatever replies are lost; unless a transmission of a Receive is run after
   another of its transmissions has been answered. *)
THEOREM RefinementCorrect ==
  ASSUME ~LateRuns PROVE Spec => ImplementsReliableQueue
<1>1. Init => FenceInv
  BY DEF Init, FenceInv, HolderIsLatestClaim
<1>2. Init => IndexInv
  BY IndexInit
<1>3. Init => NoneInv
  BY DEF Init, NoneInv
<1>4. TypeOK /\ FenceInv /\ IndexInv /\ NoneInv /\ TypeOK' /\ [Next]_vars
        => [lost' = 0 => [Promise!Next]_Promise!vars]_vars
  <2>1. TypeOK /\ [Next]_vars /\ lost' = 0 => lost = 0
    BY LostKept
  <2>2. QED
    BY <2>1, RefineNext DEF RefineInv
<1>5. QED
  BY <1>1, <1>2, <1>3, <1>4, RefineInit, FenceNext, IndexNext, NoneNext, TypeCorrect, PTL
     DEF Spec, ImplementsReliableQueue, Promise!Spec
=============================================================================
