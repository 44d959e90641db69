---------------------------- MODULE MemoryEngine ----------------------------
(***************************************************************************)
(* pkg/queue/engine/memory_engine.go: the reliable queue kept in the       *)
(* memory of one process.                                                  *)
(*                                                                         *)
(* Every method runs under one mutex from its first read to its last       *)
(* write, so that an action is a whole method, the pruning it starts with  *)
(* included.  Callers are goroutines in any number: a delivery can be      *)
(* used late, twice, or after somebody else has taken the task over.       *)
(***************************************************************************)
EXTENDS Integers, FiniteSets, SequencesExt

CONSTANTS
  Ids,          \* task ids a caller may use
  Contents,     \* payloads; the code compares their SHA-256
  Lease,        \* ReliableOptions.LeaseDuration, in clock ticks
  DedupWindow,  \* ReliableOptions.DedupWindow
  Retention,    \* ReliableOptions.FailedRetention, 0 = keep for ever
  Capacity,     \* ReliableOptions.Capacity, 0 = no limit
  Delays,       \* delays passed to Retry, negative ones included
  MaxClock,     \* bound: how far the clock runs
  MaxToken      \* bound: how many claims are granted

ASSUME MemoryAssumption ==
  /\ IsFiniteSet(Ids) /\ Ids # {} /\ Contents # {}
  /\ Lease \in Nat \ {0} /\ DedupWindow \in Nat /\ Retention \in Nat /\ Capacity \in Nat
  /\ Delays \subseteq Int
  /\ MaxClock \in Nat /\ MaxToken \in Nat

VARIABLES
  msgs,    \* the map from ids to tasks; NoMsg for a missing key
  ready,   \* the FIFO list of ready ids
  done,    \* tombstones of completed stable ids; NoTombstone when missing
  closed,  \* Close has been called
  clock,   \* what e.now() returns
  tokens,  \* how many tokens newToken has drawn
  issued   \* deliveries handed to callers

queue == <<msgs, ready, done, closed>>
vars  == <<queue, clock, tokens, issued>>

----------------------------------------------------------------------------
NoToken == 0
Never   == -1
AnyContent == CHOOSE c \in Contents : TRUE

(* leaseUntil, due and failedAt are one field, at: each of them is only read
   in the state that has just set it. *)
Msg == [state : {"absent", "ready", "inflight", "delayed", "failed"}, hash : Contents,
        dedup : BOOLEAN, token : 0..MaxToken, retries : 0..MaxToken, at : Nat]

NoMsg == [state |-> "absent", hash |-> AnyContent, dedup |-> FALSE, token |-> NoToken,
          retries |-> 0, at |-> 0]

NoTombstone == [hash |-> AnyContent, until |-> Never]

(* The type invariant. *)
TypeOK ==
  /\ msgs \in [Ids -> Msg]
  /\ ready \in Seq(Ids)
  /\ done \in [Ids -> [hash : Contents, until : Nat \cup {Never}]]
  /\ closed \in BOOLEAN
  /\ clock \in Nat
  /\ tokens \in 0..MaxToken
  /\ issued \in SUBSET [id : Ids, tok : 1..MaxToken]

Init ==
  /\ msgs = [i \in Ids |-> NoMsg]
  /\ ready = <<>>
  /\ done = [i \in Ids |-> NoTombstone]
  /\ closed = FALSE
  /\ clock = 0 /\ tokens = 0 /\ issued = {}

----------------------------------------------------------------------------
(* pruneLocked: what the two maps are once it has run. *)
Outdated == {i \in Ids : msgs[i].state = "failed" /\ Retention > 0
                         /\ clock - msgs[i].at >= Retention}

PrunedMsgs == [i \in Ids |-> IF i \in Outdated THEN NoMsg ELSE msgs[i]]

(* Mutant of PrunedDone: a tombstone goes a tick early. *)
PrunedEarly == [i \in Ids |-> IF done[i].until <= clock + 1 THEN NoTombstone ELSE done[i]]

PrunedDone == [i \in Ids |-> IF done[i].until <= clock THEN NoTombstone ELSE done[i]]

Live(M) == {i \in Ids : M[i].state # "absent"}

(* A new task is accepted while there is room, failed tasks counting too. *)
EnqueueNew(i, c, dedup) ==
  /\ i \notin Live(PrunedMsgs)
  /\ dedup => PrunedDone[i] = NoTombstone
  /\ Capacity > 0 => Cardinality(Live(PrunedMsgs)) < Capacity
  /\ msgs' = [PrunedMsgs EXCEPT ![i] =
                [NoMsg EXCEPT !.state = "ready", !.hash = c, !.dedup = dedup]]
  /\ ready' = Append(ready, i)

(* A duplicate, a conflict, or a full queue: only the pruning stays. *)
EnqueueOther(i, c, dedup) ==
  /\ \/ i \in Live(PrunedMsgs)
     \/ dedup /\ PrunedDone[i] # NoTombstone
     \/ Capacity > 0 /\ Cardinality(Live(PrunedMsgs)) >= Capacity
  /\ msgs' = PrunedMsgs
  /\ UNCHANGED ready

Enqueue(i, c, dedup) ==
  /\ ~closed
  /\ done' = PrunedDone
  /\ EnqueueNew(i, c, dedup) \/ EnqueueOther(i, c, dedup)
  /\ UNCHANGED <<closed, clock, tokens, issued>>

----------------------------------------------------------------------------
(* Receive *)

Due == {i \in Ids : msgs[i].state = "delayed" /\ msgs[i].at <= clock}

(* The tasks after pruning and once due retries are ready. *)
Woken == [i \in Ids |-> IF i \in Due THEN [msgs[i] EXCEPT !.state = "ready", !.at = 0]
                                     ELSE PrunedMsgs[i]]

Expired == {i \in Ids : msgs[i].state = "inflight" /\ msgs[i].at <= clock}

(* claimLocked *)
ClaimLocked(i) ==
  /\ tokens < MaxToken
  /\ tokens' = tokens + 1
  /\ msgs' = [Woken EXCEPT ![i] = [Woken[i] EXCEPT !.state = "inflight", !.token = tokens + 1,
                                                   !.at = clock + Lease]]
  /\ issued' = issued \cup {[id |-> i, tok |-> tokens + 1]}

(* Mutant of AfterPop: the id that is claimed stays in the list. *)
AfterPeek(q, k) == SubSeq(q, k, Len(q))

AfterPop(q, k) == SubSeq(q, k + 1, Len(q))

(* The claim with the oldest lease that has run out is taken over. *)
Recover(i, q) ==
  /\ i \in Expired
  /\ \A j \in Expired : msgs[i].at <= msgs[j].at
  /\ ClaimLocked(i)
  /\ ready' = q

(* The list is popped until an id is found whose task is ready. *)
ClaimReady(k, q) ==
  /\ Expired = {}
  /\ Woken[q[k]].state = "ready"
  /\ \A j \in 1..(k - 1) : Woken[q[j]].state # "ready"
  /\ ClaimLocked(q[k])
  /\ ready' = AfterPop(q, k)

QueueEmpty(q) ==
  /\ Expired = {}
  /\ \A j \in 1..Len(q) : Woken[q[j]].state # "ready"
  /\ msgs' = Woken
  /\ ready' = <<>>
  /\ UNCHANGED <<tokens, issued>>

(* The ids of due retries are appended in the order of a Go map: any order. *)
Receive ==
  /\ ~closed
  /\ done' = PrunedDone
  /\ \E woken \in SetToSeqs(Due) :
       LET q == ready \o woken
       IN \/ \E i \in Ids : Recover(i, q)
          \/ \E k \in 1..Len(q) : ClaimReady(k, q)
          \/ QueueEmpty(q)
  /\ UNCHANGED <<closed, clock>>

----------------------------------------------------------------------------
(* current *)
Current(d) == msgs[d.id].state = "inflight" /\ msgs[d.id].token = d.tok

Ack(d) ==
  /\ Current(d)
  /\ done' = IF msgs[d.id].dedup /\ DedupWindow > 0
             THEN [done EXCEPT ![d.id] = [hash |-> msgs[d.id].hash, until |-> clock + DedupWindow]]
             ELSE done
  /\ msgs' = [msgs EXCEPT ![d.id] = NoMsg]
  /\ UNCHANGED <<ready, closed, clock, tokens, issued>>

Renew(d) ==
  /\ Current(d)
  /\ msgs' = [msgs EXCEPT ![d.id] = [msgs[d.id] EXCEPT !.at = clock + Lease]]
  /\ UNCHANGED <<ready, done, closed, clock, tokens, issued>>

NotNegative(delay) == IF delay < 0 THEN 0 ELSE delay

Retry(d, delay) ==
  /\ Current(d)
  /\ msgs' = [msgs EXCEPT ![d.id] =
                [msgs[d.id] EXCEPT !.state = "delayed", !.token = NoToken,
                                   !.retries = msgs[d.id].retries + 1,
                                   !.at = clock + NotNegative(delay)]]
  /\ UNCHANGED <<ready, done, closed, clock, tokens, issued>>

Fail(d) ==
  /\ Current(d)
  /\ msgs' = [msgs EXCEPT ![d.id] = [msgs[d.id] EXCEPT !.state = "failed", !.token = NoToken,
                                                      !.at = clock]]
  /\ UNCHANGED <<ready, done, closed, clock, tokens, issued>>

ReplayFailed(i) ==
  /\ msgs[i].state = "failed"
  /\ msgs' = [msgs EXCEPT ![i] = [msgs[i] EXCEPT !.state = "ready", !.retries = 0, !.at = 0]]
  /\ ready' = Append(ready, i)
  /\ UNCHANGED <<done, closed, clock, tokens, issued>>

Close ==
  /\ closed' = TRUE
  /\ UNCHANGED <<msgs, ready, done, clock, tokens, issued>>

Tick ==
  /\ clock < MaxClock
  /\ clock' = clock + 1
  /\ UNCHANGED <<queue, tokens, issued>>

Next ==
  \/ \E i \in Ids, c \in Contents, dedup \in BOOLEAN : Enqueue(i, c, dedup)
  \/ Receive
  \/ \E d \in issued : Ack(d)
  \/ \E d \in issued : Renew(d)
  \/ \E d \in issued, delay \in Delays : Retry(d, delay)
  \/ \E d \in issued : Fail(d)
  \/ \E i \in Ids : ReplayFailed(i)
  \/ Close
  \/ Tick

Spec == Init /\ [][Next]_vars

----------------------------------------------------------------------------
(* Properties *)

(* The list of ready ids and the states in the map are two records of one
   fact that no method updates together (memory_engine.go 121-122, 141-142,
   157-159, 283-284): every ready task is in the list exactly once, so that
   it will be handed out, once, and nothing else is in it, so that the check
   of line 158 never drops anything. *)
ReadyExact ==
  /\ ToSet(ready) = {i \in Ids : msgs[i].state = "ready"}
  /\ IsInjective(ready)

(* The engine implements the reliable queue callers are promised. *)
AbstractState(i) ==
  CASE msgs[i].state = "absent"   -> "absent"
    [] msgs[i].state = "inflight" -> "claimed"
    [] msgs[i].state = "failed"   -> "failed"
    [] OTHER                      -> "waiting"

Until(time) == IF time > clock THEN time - clock ELSE 0

AbstractLeft(i) ==
  CASE msgs[i].state = "failed" -> Until(msgs[i].at + Retention)
    [] OTHER                    -> Until(msgs[i].at)

AbstractTask ==
  [i \in Ids |-> [st |-> AbstractState(i), content |-> msgs[i].hash, stable |-> msgs[i].dedup,
                  retries |-> msgs[i].retries, holder |-> msgs[i].token, left |-> AbstractLeft(i)]]

AbstractDone == [i \in Ids |-> Until(done[i].until)]

Promise == INSTANCE ReliableQueue WITH
  Tokens <- 1..MaxToken, Delays <- {NotNegative(delay) : delay \in Delays},
  task <- AbstractTask, doneLeft <- AbstractDone

(* Every method is one operation of the reliable queue, or changes nothing a
   caller can tell; pruning drops failed tasks and tombstones only when their
   time has come. *)
ImplementsReliableQueue == Promise!Spec
=============================================================================
