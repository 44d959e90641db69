------------------------- MODULE RedisStreamEngine -------------------------
(***************************************************************************)
(* pkg/queue/engine/redis_stream.go: the reliable queue kept in Redis.     *)
(*                                                                         *)
(* Every operation is one Lua script, which Redis runs atomically, so that *)
(* an action is a whole script.  The concurrency is around the scripts:    *)
(* any number of processes call them in any order, a reply may be lost, a  *)
(* call may be sent a second time by the client library, a holder may stop *)
(* for ever or come back long after its lease has run out.                 *)
(*                                                                         *)
(* Replies change no state in Redis.  They show here as what callers come  *)
(* to know: the deliveries they have been handed (issued) and the payloads *)
(* they were told are in the queue (confirmed).                            *)
(***************************************************************************)
EXTENDS Integers, FiniteSets

CONSTANTS
  Ids,            \* task ids a caller may use
  Contents,       \* payloads; the code compares their SHA-256
  Lease,          \* ReliableOptions.LeaseDuration, in clock ticks
  DedupWindow,    \* ReliableOptions.DedupWindow
  Retention,      \* ReliableOptions.FailedRetention, 0 = keep for ever
  Delays,         \* delays passed to Retry; negative ones become 0 in Go
  MaxCount,       \* I64_MAX: the largest value of the counters n, r and rp
  PromoteBatch,   \* promoteBatch, delayed tasks made ready by one Receive
  PruneBatch,     \* failed records pruned by one Fail
  ScanLimit,      \* stale index entries one Receive looks through
  LateRuns,       \* may Redis run a transmission of a Receive after another of its
                  \*   transmissions has been answered
  MaxClock,       \* bound: how far the clock runs
  MaxToken,       \* bound: how many Receive calls are made
  MaxLost         \* bound: how many records vanish from outside

ASSUME ConstantsAssumption ==
  /\ IsFiniteSet(Ids) /\ Ids # {} /\ Contents # {}
  /\ Lease \in Nat \ {0} /\ DedupWindow \in Nat /\ Retention \in Nat
  /\ Delays \subseteq Nat
  /\ MaxCount \in Nat \ {0}
  /\ LateRuns \in BOOLEAN
  /\ PromoteBatch \in Nat \ {0} /\ PruneBatch \in Nat \ {0} /\ ScanLimit \in Nat \ {0}
  /\ MaxClock \in Nat /\ MaxToken \in Nat /\ MaxLost \in Nat

VARIABLES
  rec,        \* the hashes m:<id>; an absent key is NoRecord
  tomb,       \* the strings d:<id> with the time their PX runs out
  stream,     \* the stream "ready": its entries [eid, id]
  lastEid,    \* the last entry id XADD has generated
  delivered,  \* last-delivered-id of the consumer group
  pel,        \* pending entries list of the group: entry ids
  delayed,    \* the three sorted sets: score of each member, NoScore
  leases,     \*   for an id that is not a member
  failed,
  clock,      \* Redis TIME
  tokens,     \* how many Receive calls have drawn a token (newToken)
  open,       \* tokens of Receive calls still without an answer, which may run again
  issued,     \* deliveries handed to callers
  confirmed,  \* history: <<id, content>> an Enqueue has returned nil for
  settled,    \* history: <<id, content>> acknowledged, pruned or vanished
  doneAt,     \* history: when a stable id was last acknowledged
  lost        \* how many records have vanished from outside

redis  == <<rec, tomb, stream, lastEid, delivered, pel, delayed, leases, failed>>
client == <<tokens, open, issued>>
ghost  == <<confirmed, settled, doneAt>>
vars   == <<redis, clock, client, ghost, lost>>

----------------------------------------------------------------------------
(* Types *)

NoScore == -1
NoToken == 0
NoEntry == 0
Time    == Nat
Tokens  == 1..MaxToken
Scores  == Time \cup {NoScore}
States  == {"none", "ready", "inflight", "delayed", "failed"}
AnyContent == CHOOSE c \in Contents : TRUE

Record == [s : States, h : Contents, dd : BOOLEAN,
           n : 0..MaxCount, r : 0..MaxCount, rp : 0..MaxCount,
           tok : 0..MaxToken, e : Nat]

NoRecord == [s |-> "none", h |-> AnyContent, dd |-> FALSE,
             n |-> 0, r |-> 0, rp |-> 0, tok |-> NoToken, e |-> NoEntry]

Delivery == [id : Ids, tok : Tokens, n : 1..MaxCount]

(* The type invariant: what each key and each client-side set may hold. *)
TypeOK ==
  /\ rec \in [Ids -> Record]
  /\ tomb \in [Ids -> [h : Contents, until : Scores]]
  /\ stream \in SUBSET [eid : Nat, id : Ids]
  /\ lastEid \in Nat /\ delivered \in Nat /\ pel \in SUBSET Nat
  /\ delayed \in [Ids -> Scores] /\ leases \in [Ids -> Scores] /\ failed \in [Ids -> Scores]
  /\ clock \in Time
  /\ tokens \in 0..MaxToken /\ open \subseteq 1..tokens /\ issued \in SUBSET Delivery
  /\ confirmed \in SUBSET (Ids \X Contents) /\ settled \in SUBSET (Ids \X Contents)
  /\ doneAt \in [Ids -> Scores]
  /\ lost \in 0..MaxLost

Init ==
  /\ rec = [i \in Ids |-> NoRecord]
  /\ tomb = [i \in Ids |-> [h |-> AnyContent, until |-> NoScore]]
  /\ stream = {} /\ lastEid = NoEntry /\ delivered = NoEntry /\ pel = {}
  /\ delayed = [i \in Ids |-> NoScore]
  /\ leases = [i \in Ids |-> NoScore]
  /\ failed = [i \in Ids |-> NoScore]
  /\ clock = 0
  /\ tokens = 0 /\ open = {} /\ issued = {}
  /\ confirmed = {} /\ settled = {} /\ doneAt = [i \in Ids |-> NoScore]
  /\ lost = 0

----------------------------------------------------------------------------
(* What the scripts read *)

Exists(i) == rec[i].s # "none"

(* Mutant of CanInc: checked like a counter that is not raised (isint). *)
CanIncAtLimit(k) == k <= MaxCount

(* isinc: a counter HINCRBY can still raise. *)
CanInc(k) == k < MaxCount

(* check_record on a record R: its state is the wanted one and the counters
   the path is about to raise can be raised.  The payload is always there. *)
CheckRecord(R, want, incN, incR) ==
  /\ R.s = want
  /\ incN => CanInc(R.n)
  /\ incR => CanInc(R.r)

(* Mutant of UpTo: all members, whatever their score. *)
AllMembers(z, upto) == {i \in Ids : z[i] # NoScore}

(* ZRANGEBYSCORE z -inf upto *)
UpTo(z, upto) == {i \in Ids : z[i] # NoScore /\ z[i] <= upto}

(* F holds the first members of S in score order; equal scores are in any
   order (Redis orders them by name). *)
IsPrefix(F, S, score) ==
  /\ F \subseteq S
  /\ \A i \in F, j \in S \ F : score[i] <= score[j]

(* The answer to ZRANGEBYSCORE ... LIMIT 0 limit. *)
IsBatch(F, S, score, limit) ==
  /\ IsPrefix(F, S, score)
  /\ Cardinality(F) <= limit
  /\ F = S \/ Cardinality(F) = limit

(* Mutant of Remembered: the window ends a tick early. *)
RememberedTooShort(i) == tomb[i].until # NoScore /\ clock + 1 < tomb[i].until

(* The key d:<id> has not expired yet. *)
Remembered(i) == tomb[i].until # NoScore /\ clock <= tomb[i].until

(* Mutant of HoldsClaim: the token is not compared. *)
HoldsAnyClaim(d) == rec[d.id].s = "inflight"

(* The check every script called with a delivery makes before it writes. *)
HoldsClaim(d) == rec[d.id].s = "inflight" /\ rec[d.id].tok = d.tok

Undelivered(st) == {x \in st : x.eid > delivered}

(* Mutant of ReleaseEntry: XACK without XDEL. *)
AcknowledgeEntry(entry) == pel' = pel \ {entry} /\ stream' = stream

(* release_entry: XACK and XDEL of the entry a claim was read from. *)
ReleaseEntry(entry) ==
  /\ pel' = pel \ {entry}
  /\ stream' = {x \in stream : x.eid # entry}

----------------------------------------------------------------------------
(* enqueueScript.  Returns nil for a new task and for a duplicate; a task
   with other content under the same id is a conflict and changes nothing. *)
EnqueueNew(i, c, dedup) ==
  /\ ~Exists(i)
  /\ dedup => ~Remembered(i)
  /\ lastEid' = lastEid + 1
  /\ stream' = stream \cup {[eid |-> lastEid + 1, id |-> i]}
  /\ rec' = [rec EXCEPT ![i] = [NoRecord EXCEPT !.s = "ready", !.h = c, !.dd = dedup]]
  /\ confirmed' = confirmed \cup {<<i, c>>}
  /\ settled' = settled \ {<<i, c>>}
  /\ UNCHANGED <<tomb, delivered, pel, delayed, leases, failed, clock, client,
                 doneAt, lost>>

(* Mutant of EnqueueDuplicate: ids are compared and contents are not. *)
EnqueueSameId(i, c, dedup) ==
  /\ Exists(i) \/ (dedup /\ Remembered(i))
  /\ confirmed' = confirmed \cup {<<i, c>>}
  /\ UNCHANGED <<redis, clock, client, settled, doneAt, lost>>

EnqueueDuplicate(i, c, dedup) ==
  /\ \/ Exists(i) /\ rec[i].h = c
     \/ ~Exists(i) /\ dedup /\ Remembered(i) /\ tomb[i].h = c
  /\ confirmed' = confirmed \cup {<<i, c>>}
  /\ UNCHANGED <<redis, clock, client, settled, doneAt, lost>>

Enqueue(i, c, dedup) == EnqueueNew(i, c, dedup) \/ EnqueueDuplicate(i, c, dedup)

----------------------------------------------------------------------------
(* receiveScript: make due retries ready, then recover an expired lease,
   then claim from the stream. *)

(* Step 1.  F is the batch of due delayed ids, at the entry ids XADD gives
   those that have a record; the index of the others is stale.  One unsound
   record makes the script return CORRUPT before anything is written. *)
Promotable(F) == {i \in F : Exists(i)}

PromoteOK(F, at) ==
  LET P == Promotable(F) IN
  /\ IsBatch(F, UpTo(delayed, clock), delayed, PromoteBatch)
  /\ \A i \in P : CheckRecord(rec[i], "delayed", TRUE, FALSE)
  /\ \A i, j \in P : i # j => at[i] # at[j]
  /\ \A i, j \in P : delayed[i] < delayed[j] => at[i] < at[j]

Promote(F) == [i \in Ids |-> IF i \in Promotable(F) THEN [rec[i] EXCEPT !.s = "ready"]
                                                    ELSE rec[i]]

Promoted(F, at) == stream \cup {[eid |-> at[i], id |-> i] : i \in Promotable(F)}

(* A Receive call draws a token; the client library may send the script
   again with the same token as long as it has no answer.  A transmission whose
   answer did not come in time can still be run after that of a later one came. *)
LateRun(t) == t \in 1..tokens \ open

(* Mutant of TokenOfCall: a token is drawn again by a later call. *)
TokenOfAnyCall(t) == t \in 1..(tokens + 1) /\ t <= MaxToken

TokenOfCall(t) == t \in open \/ (t = tokens + 1 /\ t <= MaxToken) \/ (LateRuns /\ LateRun(t))

(* The call ends with a delivery, or its reply is lost.  Nobody reads that of a
   late run. *)
Reply(t, i, n, answered) ==
  /\ tokens' = IF t > tokens THEN t ELSE tokens
  /\ IF answered /\ ~LateRun(t)
     THEN open' = open \ {t} /\ issued' = issued \cup {[id |-> i, tok |-> t, n |-> n]}
     ELSE open' = (IF LateRun(t) THEN open ELSE open \cup {t}) /\ UNCHANGED issued

(* Step 2.  K are the stale lease indexes that come before the expired task
   i and are removed on the way.
   Mutant of StaleLeases: nobody looks whether the record is there. *)
ExpiredLeases == UpTo(leases, clock)

StaleLeases == {i \in UpTo(leases, clock) : ~Exists(i)}

Recover(i, t, answered, K, R, st) ==
  /\ K \subseteq StaleLeases /\ Cardinality(K) < ScanLimit
  /\ IsPrefix(K, UpTo(leases, clock), leases)
  /\ i \in UpTo(leases, clock) \ StaleLeases
  /\ IsPrefix(K \cup {i}, UpTo(leases, clock), leases)
  /\ CheckRecord(R[i], "inflight", TRUE, FALSE)
  /\ rec' = [R EXCEPT ![i] = [R[i] EXCEPT !.tok = t, !.n = R[i].n + 1]]
  /\ leases' = [j \in Ids |-> IF j = i THEN clock + Lease
                              ELSE IF j \in K THEN NoScore ELSE leases[j]]
  /\ stream' = st
  /\ UNCHANGED <<delivered, pel>>
  /\ Reply(t, i, R[i].n + 1, answered)

(* Step 2 finds nothing to recover, or its loop ends on stale indexes only. *)
NothingToRecover(K) ==
  /\ IsBatch(K, UpTo(leases, clock), leases, ScanLimit)
  /\ K \subseteq StaleLeases

(* Step 3.  Entries whose record is gone are deleted until one is found
   that can be claimed. *)
StaleBefore(x, st) == {y \in Undelivered(st) : y.eid < x.eid}

ClaimNew(x, t, answered, K, R, st) ==
  /\ NothingToRecover(K)
  /\ x \in Undelivered(st)
  /\ Exists(x.id)
  /\ \A y \in StaleBefore(x, st) : ~Exists(y.id)
  /\ Cardinality(StaleBefore(x, st)) < ScanLimit
  /\ CheckRecord(R[x.id], "ready", TRUE, FALSE)
  /\ stream' = st \ StaleBefore(x, st)
  /\ delivered' = x.eid
  /\ pel' = pel \cup {x.eid}
  /\ rec' = [R EXCEPT ![x.id] = [R[x.id] EXCEPT !.s = "inflight", !.tok = t, !.e = x.eid,
                                               !.n = R[x.id].n + 1]]
  /\ leases' = [j \in Ids |-> IF j = x.id THEN clock + Lease
                              ELSE IF j \in K THEN NoScore ELSE leases[j]]
  /\ Reply(t, x.id, R[x.id].n + 1, answered)

(* Nothing is claimed: an expired or a head record is unsound (CORRUPT), or
   nothing is left to look at.  No key keeps the token of the call. *)
ClaimNothing(t, K, R, st) ==
  /\ \/ /\ K \subseteq StaleLeases /\ Cardinality(K) < ScanLimit
        /\ \E i \in UpTo(leases, clock) \ StaleLeases :
             /\ IsPrefix(K, UpTo(leases, clock), leases)
             /\ IsPrefix(K \cup {i}, UpTo(leases, clock), leases)
             /\ ~CheckRecord(R[i], "inflight", TRUE, FALSE)
        /\ stream' = st
     \/ /\ NothingToRecover(K)
        /\ \E x \in Undelivered(st) :
             /\ Exists(x.id) /\ ~CheckRecord(R[x.id], "ready", TRUE, FALSE)
             /\ \A y \in StaleBefore(x, st) : ~Exists(y.id)
             /\ Cardinality(StaleBefore(x, st)) < ScanLimit
             /\ stream' = st \ StaleBefore(x, st)
     \/ /\ NothingToRecover(K)
        /\ \E D \in SUBSET Undelivered(st) :
             /\ \A y \in D : ~Exists(y.id)
             /\ \A y \in D, z \in Undelivered(st) \ D : y.eid < z.eid
             /\ D = Undelivered(st) \/ Cardinality(D) = ScanLimit
             /\ Cardinality(D) <= ScanLimit
             /\ stream' = st \ D
  /\ rec' = R
  /\ leases' = [j \in Ids |-> IF j \in K THEN NoScore ELSE leases[j]]
  /\ open' \in {open, open \ {t}}
  /\ UNCHANGED <<delivered, pel, tokens, issued>>

(* The whole script, for the batch F of due retries, placed at the entry ids
   at, and the stale lease indexes K. *)
Positions(F) ==
  LET k == Cardinality(Promotable(F)) IN [Promotable(F) -> (lastEid + 1)..(lastEid + k)]

ReceiveWith(t, answered, F, K, at) ==
  LET R == Promote(F)
      st == Promoted(F, at)
  IN /\ PromoteOK(F, at)
     /\ lastEid' = lastEid + Cardinality(Promotable(F))
     /\ delayed' = [i \in Ids |-> IF i \in F THEN NoScore ELSE delayed[i]]
     /\ \/ \E i \in Ids : Recover(i, t, answered, K, R, st)
        \/ \E x \in st : ClaimNew(x, t, answered, K, R, st)
        \/ ClaimNothing(t, K, R, st)
     /\ UNCHANGED <<tomb, failed, clock, ghost, lost>>

Receive(t, answered) ==
  /\ TokenOfCall(t)
  /\ \E F \in SUBSET UpTo(delayed, clock), K \in SUBSET StaleLeases :
       \E at \in Positions(F) : ReceiveWith(t, answered, F, K, at)

----------------------------------------------------------------------------
(* ackScript *)
Ack(d) ==
  /\ HoldsClaim(d)
  /\ tomb' = IF rec[d.id].dd /\ DedupWindow > 0
             THEN [tomb EXCEPT ![d.id] = [h |-> rec[d.id].h, until |-> clock + DedupWindow]]
             ELSE tomb
  /\ ReleaseEntry(rec[d.id].e)
  /\ leases' = [leases EXCEPT ![d.id] = NoScore]
  /\ rec' = [rec EXCEPT ![d.id] = NoRecord]
  /\ settled' = settled \cup {<<d.id, rec[d.id].h>>}
  /\ doneAt' = IF rec[d.id].dd THEN [doneAt EXCEPT ![d.id] = clock] ELSE doneAt
  /\ UNCHANGED <<lastEid, delivered, delayed, failed, clock, client, confirmed, lost>>

(* Mutant of Renew: the lease is extended for a caller who lost it. *)
RenewUnfenced(d) ==
  /\ leases[d.id] # NoScore
  /\ leases' = [leases EXCEPT ![d.id] = clock + Lease]
  /\ UNCHANGED <<rec, tomb, stream, lastEid, delivered, pel, delayed, failed, clock,
                 client, ghost, lost>>

(* renewScript: a lease that has run out can still be renewed as long as
   nobody has taken the task over. *)
Renew(d) ==
  /\ HoldsClaim(d)
  /\ leases' = [leases EXCEPT ![d.id] = clock + Lease]
  /\ UNCHANGED <<rec, tomb, stream, lastEid, delivered, pel, delayed, failed, clock,
                 client, ghost, lost>>

(* retryScript *)
Retry(d, delay) ==
  /\ HoldsClaim(d)
  /\ CheckRecord(rec[d.id], "inflight", FALSE, TRUE)
  /\ ReleaseEntry(rec[d.id].e)
  /\ rec' = [rec EXCEPT ![d.id] = [rec[d.id] EXCEPT !.s = "delayed", !.tok = NoToken,
                                                    !.e = NoEntry, !.r = rec[d.id].r + 1]]
  /\ delayed' = [delayed EXCEPT ![d.id] = clock + delay]
  /\ leases' = [leases EXCEPT ![d.id] = NoScore]
  /\ UNCHANGED <<tomb, lastEid, delivered, failed, clock, client, ghost, lost>>

(* Mutant of Cutoff: the retention is not subtracted. *)
CutoffNow == clock

(* Failed records up to this time have been retained long enough. *)
Cutoff == clock - Retention

(* failScript.  old are the failed records it prunes on the way. *)
OutdatedBatch(old) ==
  IF Retention > 0
  THEN IsBatch(old, UpTo(failed, Cutoff), failed, PruneBatch)
  ELSE old = {}

Fail(d) ==
  /\ HoldsClaim(d)
  /\ ReleaseEntry(rec[d.id].e)
  /\ leases' = [leases EXCEPT ![d.id] = NoScore]
  /\ \E old \in SUBSET UpTo(failed, Cutoff) :
       LET R == [rec EXCEPT ![d.id] = [rec[d.id] EXCEPT !.s = "failed", !.tok = NoToken,
                                                       !.e = NoEntry]]
           gone == {i \in old : R[i].s = "failed"}
       IN /\ OutdatedBatch(old)
          /\ rec' = [i \in Ids |-> IF i \in gone THEN NoRecord ELSE R[i]]
          /\ failed' = [i \in Ids |-> IF i \in old THEN NoScore
                                      ELSE IF i = d.id THEN clock ELSE failed[i]]
          /\ settled' = settled \cup {<<i, rec[i].h>> : i \in gone}
  /\ UNCHANGED <<tomb, lastEid, delivered, delayed, clock, client, confirmed, doneAt, lost>>

(* replayScript *)
ReplayFailed(i) ==
  /\ CheckRecord(rec[i], "failed", FALSE, FALSE)
  /\ CanInc(rec[i].rp)
  /\ lastEid' = lastEid + 1
  /\ stream' = stream \cup {[eid |-> lastEid + 1, id |-> i]}
  /\ rec' = [rec EXCEPT ![i] = [rec[i] EXCEPT !.s = "ready", !.r = 0, !.rp = rec[i].rp + 1]]
  /\ failed' = [failed EXCEPT ![i] = NoScore]
  /\ UNCHANGED <<tomb, delivered, pel, delayed, leases, clock, client, ghost, lost>>

----------------------------------------------------------------------------
(* The environment *)

(* The Redis clock: it is taken not to go back. *)
Tick ==
  /\ clock < MaxClock
  /\ clock' = clock + 1
  /\ UNCHANGED <<redis, client, ghost, lost>>

(* A record disappears from outside, evicted or deleted by hand: the one
   damage the scripts clean up after. *)
LoseRecord(i) ==
  /\ lost < MaxLost
  /\ Exists(i)
  /\ lost' = lost + 1
  /\ rec' = [rec EXCEPT ![i] = NoRecord]
  /\ settled' = settled \cup {<<i, rec[i].h>>}
  /\ UNCHANGED <<tomb, stream, lastEid, delivered, pel, delayed, leases, failed, clock,
                 client, confirmed, doneAt>>

(* A delivery, once handed out, may be used at any time and any number of
   times: calls may be late, repeated by the client library, or never come. *)
Next ==
  \/ \E i \in Ids, c \in Contents, dedup \in BOOLEAN : Enqueue(i, c, dedup)
  \/ \E t \in Tokens, answered \in BOOLEAN : Receive(t, answered)
  \/ \E d \in issued : Ack(d)
  \/ \E d \in issued : Renew(d)
  \/ \E d \in issued, delay \in Delays : Retry(d, delay)
  \/ \E d \in issued : Fail(d)
  \/ \E i \in Ids : ReplayFailed(i)
  \/ \E i \in Ids : LoseRecord(i)
  \/ Tick

Spec == Init /\ [][Next]_vars

----------------------------------------------------------------------------
(* Properties *)

Inflight(i) == rec[i].s = "inflight"

EntriesOf(i) == {x \in stream : x.id = i}

(* Every record is in exactly the indexes its state says: a ready one has one
   entry the group has not read, a claimed one its lease and its one pending
   entry, a delayed or failed one its sorted set, and nothing else mentions
   it.  Nine scripts have to keep this across five keys (redis_stream.go
   21-36); one forgotten ZREM or XDEL and a task is stuck or handed out twice. *)
HomesConsistent ==
  lost = 0 =>
    /\ \A i \in Ids :
         /\ leases[i] # NoScore <=> Inflight(i)
         /\ delayed[i] # NoScore <=> rec[i].s = "delayed"
         /\ failed[i] # NoScore <=> rec[i].s = "failed"
         /\ rec[i].tok # NoToken <=> Inflight(i)
         /\ rec[i].s \in {"none", "delayed", "failed"} => EntriesOf(i) = {}
         /\ rec[i].s = "ready" =>
              \E x \in Undelivered(stream) : EntriesOf(i) = {x}
         /\ Inflight(i) => EntriesOf(i) = {[eid |-> rec[i].e, id |-> i]}
    /\ pel = {x.eid : x \in stream \ Undelivered(stream)}

(* Every live record stays reachable through the index of its state, even
   when other records vanish and the scripts clean up after them: the
   clean-up never takes the index entry of a record that is still there
   (redis_stream.go 114-116, 143-145, 178-180). *)
LiveReachable ==
  \A i \in Ids :
    /\ Inflight(i) => leases[i] # NoScore
    /\ rec[i].s = "delayed" => delayed[i] # NoScore
    /\ rec[i].s = "failed" => failed[i] # NoScore
    /\ rec[i].s = "ready" => \E x \in Undelivered(stream) : x.id = i

(* A caller whose token still matches holds the latest claim: no later claim
   of the task has been granted since, although a Receive whose reply is lost
   is sent again with the same token.  An old token cannot change a new claim, says
   reliable.go 11-12.  Without LateRuns: a transmission that is run after another of
   its call has been answered claims the task under the token its holder has. *)
HolderIsLatestClaim ==
  \A d \in issued : HoldsClaim(d) => rec[d.id].n = d.n

(* What an Enqueue has confirmed is in the queue with that very content, or
   has been acknowledged, pruned or removed from outside since: no order of
   duplicates, conflicts, completions and replays loses a confirmed payload. *)
NoSilentLoss ==
  \A p \in confirmed : (Exists(p[1]) /\ rec[p[1]].h = p[2]) \/ p \in settled

(* A claim changes hands without its holder only when the lease it was granted
   or renewed for has run out on the Redis clock. *)
NoEarlyTakeover ==
  [][\A i \in Ids :
       Inflight(i) /\ Inflight(i)' /\ rec'[i].n # rec[i].n => leases[i] <= clock]_vars

(* A claimed task is settled, acknowledged or made to wait or to fail, only by
   a caller who has been handed the current claim. *)
OnlyHolderSettles ==
  [][\A i \in Ids : Inflight(i) /\ ~Inflight(i)' /\ lost' = lost =>
       \E d \in issued : d.id = i /\ d.tok = rec[i].tok]_vars

(* A stable id is not accepted as a new task while its last completion is
   younger than the deduplication window. *)
DedupHonoured ==
  [][\A i \in Ids : ~Exists(i) /\ Exists(i)' /\ rec'[i].dd =>
       doneAt[i] = NoScore \/ doneAt[i] + DedupWindow <= clock]_vars

(* A failed task leaves the failure retention only by a replay, or once its
   retention has passed; with retention 0 it is kept for ever.  The Fail that puts it
   there (reliable.go 70) does not prune it at once, with one exception: failScript reads
   the outdated members of the index before it adds its own task (286), and when a record
   of this id has vanished and left an outdated score there, deletes what it has just
   failed. *)
FailedRetained ==
  [][\A i \in Ids :
       /\ rec[i].s = "failed" /\ rec'[i].s \notin {"failed", "ready"} /\ lost' = lost =>
            Retention > 0 /\ failed[i] + Retention <= clock
       /\ \A d \in issued : d.id = i /\ Fail(d) =>
            \/ rec'[i].s = "failed" /\ failed'[i] = clock
            \/ lost > 0 /\ Retention > 0 /\ failed[i] # NoScore /\ failed[i] + Retention <= clock]_vars

(* The engine implements the reliable queue callers are promised. *)
AbstractState(i) ==
  CASE rec[i].s = "none"     -> "absent"
    [] rec[i].s = "inflight" -> "claimed"
    [] rec[i].s = "failed"   -> "failed"
    [] OTHER                 -> "waiting"

Until(time) == IF time > clock THEN time - clock ELSE 0

AbstractLeft(i) ==
  CASE rec[i].s = "inflight" -> Until(leases[i])
    [] rec[i].s = "failed"   -> Until(failed[i] + Retention)
    [] rec[i].s = "delayed"  -> Until(delayed[i])
    [] OTHER -> 0

AbstractTask ==
  [i \in Ids |-> [st |-> AbstractState(i), content |-> rec[i].h, stable |-> rec[i].dd,
                  retries |-> rec[i].r, holder |-> rec[i].tok, left |-> AbstractLeft(i)]]

AbstractDone == [i \in Ids |-> Until(tomb[i].until)]

AbstractIssued == {[id |-> d.id, tok |-> d.tok] : d \in issued}

Promise == INSTANCE ReliableQueue WITH
  task <- AbstractTask, doneLeft <- AbstractDone, issued <- AbstractIssued

(* As long as no record has vanished, every script is one operation of the reliable
   queue, or changes nothing a caller can tell. *)
ImplementsReliableQueue ==
  Promise!Init /\ [][lost' = 0 => [Promise!Next]_(Promise!vars)]_vars
=============================================================================
