--------------------------- MODULE ReliableQueue ---------------------------
(***************************************************************************)
(* What a ReliableEngine (pkg/queue/engine/reliable.go) promises to its    *)
(* callers, with no word of how it is stored: at-least-once delivery of    *)
(* tasks under leases.  A task is waiting, claimed under a lease, or       *)
(* retained as failed; it goes away only when the holder of its current    *)
(* claim acknowledges it, or when its failure retention has run out.       *)
(*                                                                         *)
(* The Redis Stream engine and the in-memory engine are both checked to    *)
(* implement this module, and the queue manager is built on it.            *)
(***************************************************************************)
EXTENDS Integers

CONSTANTS
  Ids,          \* task identifiers
  Contents,     \* payloads, told apart by their hash
  Tokens,       \* claim tokens
  NoToken,      \* the holder of a task nobody has claimed
  Lease,        \* ReliableOptions.LeaseDuration
  DedupWindow,  \* ReliableOptions.DedupWindow
  Retention,    \* ReliableOptions.FailedRetention, 0 = keep for ever
  Delays        \* the delays callers pass to Retry

VARIABLES
  task,      \* [Ids -> task], the tasks the queue answers for
  doneLeft,  \* [Ids -> Nat], how long a completed stable id is still remembered
  issued     \* the deliveries callers hold: a task id and a token

vars == <<task, doneLeft, issued>>

(***************************************************************************)
(* "left" is what is left of the delay of a waiting task, of the lease of  *)
(* a claimed one, of the retention of a failed one.                        *)
(***************************************************************************)
Absent == [st |-> "absent", content |-> CHOOSE c \in Contents : TRUE,
           stable |-> FALSE, retries |-> 0, holder |-> NoToken, left |-> 0]

Waiting(i) == task[i].st = "waiting"
Claimed(i) == task[i].st = "claimed"
Failed(i)  == task[i].st = "failed"

Holds(d) == Claimed(d.id) /\ task[d.id].holder = d.tok

Init == /\ task = [i \in Ids |-> Absent]
        /\ doneLeft = [i \in Ids |-> 0]
        /\ issued = {}

(***************************************************************************)
(* Failed tasks whose retention has passed may be dropped along with any   *)
(* operation: Without(P) is the task table without them.                   *)
(***************************************************************************)
Outdated == {i \in Ids : Failed(i) /\ Retention > 0 /\ task[i].left = 0}

Without(P) == [i \in Ids |-> IF i \in P THEN Absent ELSE task[i]]

Submit(i, c, stable, P) ==
  /\ task[i].st = "absent" \/ i \in P
  /\ stable => doneLeft[i] = 0
  /\ task' = [Without(P) EXCEPT ![i] =
                [Absent EXCEPT !.st = "waiting", !.content = c, !.stable = stable]]
  /\ UNCHANGED <<doneLeft, issued>>

(***************************************************************************)
(* A claim is granted on a task that waits and is due, or whose lease has  *)
(* run out.  The reply may be lost, so that no caller holds the delivery.  *)
(* A token some caller holds already is never granted a second time.       *)
(***************************************************************************)
Claimable(i) == (Waiting(i) \/ Claimed(i)) /\ task[i].left = 0

Claim(i, t, delivered, P) ==
  /\ Claimable(i)
  /\ \A d \in issued : d.tok # t
  /\ task' = [Without(P) EXCEPT ![i] =
                [task[i] EXCEPT !.st = "claimed", !.holder = t, !.left = Lease]]
  /\ issued' = IF delivered THEN issued \cup {[id |-> i, tok |-> t]} ELSE issued
  /\ UNCHANGED doneLeft

Ack(d) ==
  /\ Holds(d)
  /\ task' = [task EXCEPT ![d.id] = Absent]
  /\ doneLeft' = IF task[d.id].stable /\ DedupWindow > 0
                 THEN [doneLeft EXCEPT ![d.id] = DedupWindow]
                 ELSE doneLeft
  /\ UNCHANGED issued

Renew(d) ==
  /\ Holds(d)
  /\ task' = [task EXCEPT ![d.id] = [task[d.id] EXCEPT !.left = Lease]]
  /\ UNCHANGED <<doneLeft, issued>>

Retry(d, delay) ==
  /\ Holds(d)
  /\ task' = [task EXCEPT ![d.id] =
                [task[d.id] EXCEPT !.st = "waiting", !.holder = NoToken, !.left = delay,
                                   !.retries = task[d.id].retries + 1]]
  /\ UNCHANGED <<doneLeft, issued>>

Fail(d, P) ==
  /\ Holds(d)
  /\ task' = [Without(P) EXCEPT ![d.id] =
                [task[d.id] EXCEPT !.st = "failed", !.holder = NoToken, !.left = Retention]]
  /\ UNCHANGED <<doneLeft, issued>>

ReplayFailed(i) ==
  /\ Failed(i)
  /\ task' = [task EXCEPT ![i] = [task[i] EXCEPT !.st = "waiting", !.retries = 0, !.left = 0]]
  /\ UNCHANGED <<doneLeft, issued>>

Prune(P) ==
  /\ task' = Without(P)
  /\ UNCHANGED <<doneLeft, issued>>

(* A caller drops a delivery and will not use it again. *)
Forget(d) ==
  /\ issued' = issued \ {d}
  /\ UNCHANGED <<task, doneLeft>>

Passed(k) == IF k > 0 THEN k - 1 ELSE 0

(* Time passes. *)
Tick ==
  /\ task' = [i \in Ids |-> [task[i] EXCEPT !.left = Passed(task[i].left)]]
  /\ doneLeft' = [i \in Ids |-> Passed(doneLeft[i])]
  /\ UNCHANGED issued

Next ==
  \/ \E P \in SUBSET Outdated :
       \/ \E i \in Ids, c \in Contents, stable \in BOOLEAN : Submit(i, c, stable, P)
       \/ \E i \in Ids, t \in Tokens, delivered \in BOOLEAN : Claim(i, t, delivered, P)
       \/ \E d \in issued : Fail(d, P)
       \/ Prune(P)
  \/ \E d \in issued : Ack(d) \/ Renew(d) \/ Forget(d) \/ \E delay \in Delays : Retry(d, delay)
  \/ \E i \in Ids : ReplayFailed(i)
  \/ Tick

Spec == Init /\ [][Next]_vars
=============================================================================
