------------------------ MODULE QueueManagerProofs ------------------------
(***************************************************************************)
(* The safety properties of QueueManager for every value of its constants. *)
(***************************************************************************)
EXTENDS QueueManager, TLAPS

USE ManagerAssumption

(* The points of handle at which the delivery may still be used. *)
Active == {"reply", "process", "join", "settle", "call"}

(* The claim the worker acts on is the current one. *)
Has(w) == worker[w].pc \in Active /\ Queue!Holds(DeliveryOf(w))

(***************************************************************************)
(* What holds of one worker.  The local lease, counted from lastOK and,    *)
(* once a renewal is executed, from sentAt, ends with that of the queue or *)
(* before it (cover); the retry count of the delivery is that of the task  *)
(* (budget); a result "nil" of a current claim has been recorded (result); *)
(* after the join the verdict on the lease does not change (verdict).      *)
(***************************************************************************)
Shape(w) ==
  /\ worker[w].pc \in Active \cup {"done"} => worker[w].id \in Ids
  /\ renewal[w].pc # "off" => worker[w].pc \in {"process", "join"}
  /\ ~used => worker[w].pc = "off"

Left(w) == task[worker[w].id].left

Cover(w) ==
  /\ worker[w].pc \in Active /\ renewal[w].age < Lease =>
       Has(w) /\ Left(w) + renewal[w].age >= Lease
  /\ renewal[w].pc = "ok" /\ renewal[w].sent < Lease =>
       Has(w) /\ Left(w) + renewal[w].sent >= Lease

Budget(w) == Has(w) => worker[w].retries = task[worker[w].id].retries

Result(w) ==
  Has(w) /\ worker[w].pc \in {"join", "settle", "call"} /\ worker[w].res = "nil" =>
    worker[w].id \in succeeded

Verdict(w) ==
  worker[w].pc \in {"settle", "call"} =>
    renewal[w].pc = "off" /\ worker[w].lost = renewal[w].lost

WorkerInv ==
  \A w \in Workers : Shape(w) /\ Cover(w) /\ Budget(w) /\ Result(w) /\ Verdict(w)

----------------------------------------------------------------------------
(* The steps of the queue, as the manager sees them *)

LEMMA NothingPruned == task \in [Ids -> Task] => Queue!Without({}) = task
BY DEF Queue!Without

LEMMA Ranges ==
  /\ 0 \in 0..MaxRetries /\ 0 \in 0..MaxAge /\ Lease \in Nat /\ Delay \in Nat
  /\ \A k \in 0..MaxRetries : k < MaxRetries => k + 1 \in 0..MaxRetries
BY DEF Lease

LEMMA RecordTypes ==
  /\ Idle \in Worker /\ NoRenewal \in RenewalState /\ Queue!Absent \in Task
  /\ Queue!Absent = [st |-> "absent", content |-> "payload", stable |-> FALSE,
                     retries |-> 0, holder |-> "no worker", left |-> 0]
<1>1. (CHOOSE c \in {"payload"} : TRUE) = "payload"
  OBVIOUS
<1>2. Queue!Absent = [st |-> "absent", content |-> "payload", stable |-> FALSE,
                      retries |-> 0, holder |-> "no worker", left |-> 0]
  BY <1>1 DEF Queue!Absent
<1>3. Queue!Absent \in Task
  BY <1>2, Ranges DEF Task
<1>4. Idle \in Worker
  BY Ranges DEF Idle, Worker, Results
<1>5. NoRenewal \in RenewalState
  BY Ranges DEF NoRenewal, RenewalState
<1>6. QED
  BY <1>2, <1>3, <1>4, <1>5

(* What each operation does to the task table. *)
LEMMA SubmitEffect ==
  ASSUME TypeOK, NEW i \in Ids, Queue!Submit(i, "payload", FALSE, {})
  PROVE  /\ task[i].st = "absent"
         /\ task' \in [Ids -> Task] /\ task'[i].st = "waiting"
         /\ \A j \in Ids \ {i} : task'[j] = task[j]
         /\ UNCHANGED <<doneLeft, issued>>
<1> DEFINE New == [Queue!Absent EXCEPT !.st = "waiting", !.content = "payload",
                                       !.stable = FALSE]
<1>1. New \in Task /\ New.st = "waiting"
  BY RecordTypes, Ranges DEF Task
<1>2. task' = [task EXCEPT ![i] = New] /\ task[i].st = "absent"
  BY NothingPruned DEF TypeOK, Queue!Submit
<1>3. QED
  BY <1>1, <1>2 DEF TypeOK, Queue!Submit

LEMMA ClaimEffect ==
  ASSUME TypeOK, NEW i \in Ids, NEW w \in Workers, Queue!Claim(i, w, TRUE, {})
  PROVE  /\ task[i].st \in {"waiting", "claimed"} /\ task[i].left = 0
         /\ task' = [task EXCEPT ![i] = [task[i] EXCEPT !.st = "claimed", !.holder = w,
                                                        !.left = Lease]]
         /\ task' \in [Ids -> Task]
         /\ issued' = issued \cup {[id |-> i, tok |-> w]}
         /\ UNCHANGED doneLeft
<1>1. [task[i] EXCEPT !.st = "claimed", !.holder = w, !.left = Lease] \in Task
  <2>1. task[i] \in Task
    BY DEF TypeOK
  <2>2. QED
    BY <2>1, Ranges DEF Task
<1>2. QED
  BY <1>1, NothingPruned DEF TypeOK, Queue!Claim, Queue!Claimable, Queue!Waiting, Queue!Claimed

LEMMA AckEffect ==
  ASSUME TypeOK, NEW i \in Ids, NEW w \in Workers, Queue!Ack([id |-> i, tok |-> w])
  PROVE  /\ task[i].st = "claimed" /\ task[i].holder = w
         /\ task' = [task EXCEPT ![i] = Queue!Absent]
         /\ task' \in [Ids -> Task]
         /\ UNCHANGED <<doneLeft, issued>>
<1>1. Queue!Absent \in Task
  BY RecordTypes
<1>2. doneLeft' = doneLeft
  BY DEF Queue!Ack
<1>3. QED
  BY <1>1, <1>2 DEF TypeOK, Queue!Ack, Queue!Holds, Queue!Claimed

LEMMA RenewEffect ==
  ASSUME TypeOK, NEW i \in Ids, NEW w \in Workers, Queue!Renew([id |-> i, tok |-> w])
  PROVE  /\ task[i].st = "claimed" /\ task[i].holder = w
         /\ task' = [task EXCEPT ![i] = [task[i] EXCEPT !.left = Lease]]
         /\ task' \in [Ids -> Task]
         /\ UNCHANGED <<doneLeft, issued>>
<1>1. [task[i] EXCEPT !.left = Lease] \in Task
  <2>1. task[i] \in Task
    BY DEF TypeOK
  <2>2. QED
    BY <2>1, Ranges DEF Task
<1>2. QED
  BY <1>1 DEF TypeOK, Queue!Renew, Queue!Holds, Queue!Claimed

LEMMA RetryEffect ==
  ASSUME TypeOK, NEW i \in Ids, NEW w \in Workers, Queue!Retry([id |-> i, tok |-> w], Delay),
         task[i].retries < MaxRetries
  PROVE  /\ task[i].st = "claimed" /\ task[i].holder = w
         /\ task' = [task EXCEPT ![i] = [task[i] EXCEPT
                        !.st = "waiting", !.holder = "no worker", !.left = Delay,
                        !.retries = task[i].retries + 1]]
         /\ task' \in [Ids -> Task] /\ task'[i].st = "waiting"
         /\ UNCHANGED <<doneLeft, issued>>
<1>1. [task[i] EXCEPT !.st = "waiting", !.holder = "no worker", !.left = Delay,
                      !.retries = task[i].retries + 1] \in Task
  <2>1. task[i] \in Task
    BY DEF TypeOK
  <2>2. QED
    BY <2>1, Ranges DEF Task
<1>2. task[i] \in Task
  BY DEF TypeOK
<1>3. QED
  BY <1>1, <1>2 DEF TypeOK, Task, Queue!Retry, Queue!Holds, Queue!Claimed

LEMMA FailEffect ==
  ASSUME TypeOK, NEW i \in Ids, NEW w \in Workers, Queue!Fail([id |-> i, tok |-> w], {})
  PROVE  /\ task[i].st = "claimed" /\ task[i].holder = w
         /\ task' = [task EXCEPT ![i] = [task[i] EXCEPT
                        !.st = "failed", !.holder = "no worker", !.left = 0]]
         /\ task' \in [Ids -> Task] /\ task'[i].st = "failed"
         /\ UNCHANGED <<doneLeft, issued>>
<1>1. [task[i] EXCEPT !.st = "failed", !.holder = "no worker", !.left = 0] \in Task
  <2>1. task[i] \in Task
    BY DEF TypeOK
  <2>2. QED
    BY <2>1, Ranges DEF Task
<1>2. task[i] \in Task
  BY DEF TypeOK
<1>3. task[i].st = "claimed" /\ task[i].holder = w /\ UNCHANGED <<doneLeft, issued>>
      /\ task' = [task EXCEPT ![i] = [task[i] EXCEPT
                    !.st = "failed", !.holder = "no worker", !.left = 0]]
  BY NothingPruned DEF TypeOK, Queue!Fail, Queue!Holds, Queue!Claimed
<1>4. QED
  BY <1>1, <1>2, <1>3 DEF TypeOK, Task

LEMMA ReplayEffect ==
  ASSUME TypeOK, NEW i \in Ids, Queue!ReplayFailed(i)
  PROVE  /\ task[i].st = "failed"
         /\ task' = [task EXCEPT ![i] = [task[i] EXCEPT !.st = "waiting", !.retries = 0,
                                                        !.left = 0]]
         /\ task' \in [Ids -> Task] /\ task'[i].st = "waiting"
         /\ UNCHANGED <<doneLeft, issued>>
<1>1. [task[i] EXCEPT !.st = "waiting", !.retries = 0, !.left = 0] \in Task
  <2>1. task[i] \in Task
    BY DEF TypeOK
  <2>2. QED
    BY <2>1, Ranges DEF Task
<1>2. task[i] \in Task
  BY DEF TypeOK
<1>3. QED
  BY <1>1, <1>2 DEF TypeOK, Task, Queue!ReplayFailed, Queue!Failed

LEMMA TickEffect ==
  ASSUME TypeOK, Queue!Tick
  PROVE  /\ task' = [i \in Ids |-> [task[i] EXCEPT !.left = Queue!Passed(task[i].left)]]
         /\ task' \in [Ids -> Task]
         /\ doneLeft' \in [Ids -> Nat]
         /\ UNCHANGED issued
<1>1. ASSUME NEW k \in Nat PROVE Queue!Passed(k) \in Nat
  BY DEF Queue!Passed
<1>2. ASSUME NEW i \in Ids
      PROVE  [task[i] EXCEPT !.left = Queue!Passed(task[i].left)] \in Task
  <2>1. task[i] \in Task
    BY DEF TypeOK
  <2>2. Queue!Passed(task[i].left) \in Nat
    BY <1>1, <2>1 DEF Task
  <2>3. QED
    BY <2>1, <2>2 DEF Task
<1>3. QED
  BY <1>1, <1>2 DEF TypeOK, Queue!Tick

----------------------------------------------------------------------------
(* Type correctness *)

LEMMA TypeInit == Init => TypeOK
<1> SUFFICES ASSUME Init PROVE TypeOK
  OBVIOUS
<1>1. task \in [Ids -> Task] /\ doneLeft \in [Ids -> Nat] /\ issued = {}
  BY RecordTypes DEF Init, Queue!Init
<1>2. worker \in [Workers -> Worker] /\ renewal \in [Workers -> RenewalState]
  BY RecordTypes DEF Init
<1>3. 0 \in 0..MaxFaults /\ 0 \in 0..MaxCrashes /\ producer \in [Ids -> {"new", "adding", "accepted"}]
  BY DEF Init
<1>4. QED
  BY <1>1, <1>2, <1>3 DEF Init, TypeOK

(* A worker that moves to another point, with the fields it sets. *)
LEMMA WorkerTypes ==
  ASSUME TypeOK, NEW w \in Workers
  PROVE  /\ \A pc \in {"loop", "sleep", "receive", "reply", "process", "join", "settle", "call",
                       "done", "exited"} :
              /\ [worker[w] EXCEPT !.pc = pc] \in Worker
              /\ [Idle EXCEPT !.pc = pc] \in Worker
              /\ \A r \in Results, b \in BOOLEAN :
                   [worker[w] EXCEPT !.pc = pc, !.res = r, !.cut = b] \in Worker
              /\ \A b \in BOOLEAN : [worker[w] EXCEPT !.pc = pc, !.lost = b] \in Worker
         /\ \A i \in Ids : [Idle EXCEPT !.pc = "reply", !.id = i, !.retries = task[i].retries]
                             \in Worker
<1>1. /\ worker[w] \in Worker /\ Idle \in Worker
      /\ \A i \in Ids : task[i].retries \in 0..MaxRetries
  BY RecordTypes DEF TypeOK, Task
<1>2. ASSUME NEW pc \in {"loop", "sleep", "receive", "reply", "process", "join", "settle", "call",
                         "done", "exited"}
      PROVE  /\ [worker[w] EXCEPT !.pc = pc] \in Worker
             /\ [Idle EXCEPT !.pc = pc] \in Worker
             /\ \A b \in BOOLEAN : [worker[w] EXCEPT !.pc = pc, !.lost = b] \in Worker
  BY <1>1 DEF Worker
<1>3. ASSUME NEW pc \in {"loop", "sleep", "receive", "reply", "process", "join", "settle", "call",
                         "done", "exited"},
             NEW r \in Results, NEW b \in BOOLEAN
      PROVE  [worker[w] EXCEPT !.pc = pc, !.res = r, !.cut = b] \in Worker
  BY <1>1 DEF Worker
<1>4. ASSUME NEW i \in Ids
      PROVE  [Idle EXCEPT !.pc = "reply", !.id = i, !.retries = task[i].retries] \in Worker
  BY <1>1 DEF Worker
<1>5. QED
  BY <1>2, <1>3, <1>4

LEMMA RenewalTypes ==
  ASSUME TypeOK, NEW w \in Workers
  PROVE  /\ renewal[w] \in RenewalState /\ NoRenewal \in RenewalState
         /\ \A pc \in {"off", "wait", "call", "ok"} :
              [renewal[w] EXCEPT !.pc = pc] \in RenewalState
         /\ \A b \in BOOLEAN : [renewal[w] EXCEPT !.cancel = b] \in RenewalState
         /\ [renewal[w] EXCEPT !.pc = "call", !.sent = 0, !.due = FALSE] \in RenewalState
         /\ [renewal[w] EXCEPT !.pc = "wait", !.sent = 0] \in RenewalState
         /\ [renewal[w] EXCEPT !.pc = "wait", !.sent = 0, !.age = LocalStart(w)] \in RenewalState
         /\ [renewal[w] EXCEPT !.pc = "off", !.sent = 0, !.lost = TRUE, !.cancel = TRUE]
               \in RenewalState
         /\ Aged(w) \in RenewalState
<1>1. renewal[w] \in RenewalState /\ NoRenewal \in RenewalState
  BY RecordTypes DEF TypeOK
<1>2. \A k \in 0..MaxAge : Older(k) \in 0..MaxAge
  BY DEF Older
<1>3. LocalStart(w) \in 0..MaxAge /\ 0 \in 0..MaxAge
  BY <1>1, Ranges DEF LocalStart, RenewalState
<1>4. Aged(w) \in RenewalState
  BY <1>1, <1>2, <1>3 DEF Aged, RenewalState
<1>5. QED
  BY <1>1, <1>3, <1>4 DEF RenewalState

(* The steps that leave the queue alone, but for deliveries given up. *)
LEMMA TypeQuiet ==
  ASSUME TypeOK, task' = task, doneLeft' = doneLeft, issued' \subseteq issued,
         worker' \in [Workers -> Worker], renewal' \in [Workers -> RenewalState],
         succeeded' \subseteq succeeded \cup Ids, UNCHANGED <<life, stopper, producer>>,
         Fault \/ UNCHANGED others
  PROVE  TypeOK'
<1>1. faults' \in 0..MaxFaults /\ crashes' \in 0..MaxCrashes
  BY DEF TypeOK, Fault, others
<1>2. QED
  BY <1>1 DEF TypeOK, life, stopper

LEMMA TypeWorker ==
  ASSUME TypeOK, WorkerInv, NEW w \in Workers, WorkerStep(w)
  PROVE  TypeOK'
<1> USE DEF queue, life, stopper
<1>1. worker \in [Workers -> Worker] /\ renewal \in [Workers -> RenewalState]
  BY DEF TypeOK
<1>2. CASE Poll(w)
  BY <1>1, <1>2, WorkerTypes, TypeQuiet DEF Poll, Go
<1>3. CASE SleepCut(w)
  BY <1>1, <1>3, WorkerTypes, TypeQuiet DEF SleepCut, Go
<1>4. CASE Exit(w)
  BY <1>1, <1>4, WorkerTypes, TypeQuiet DEF Exit, Go
<1>5. CASE ReceiveNothing(w)
  BY <1>1, <1>5, WorkerTypes, RenewalTypes, TypeQuiet DEF ReceiveNothing, Back
<1>6. CASE ReplyLost(w)
  BY <1>1, <1>6, WorkerTypes, RenewalTypes, TypeQuiet DEF ReplyLost, Back, Queue!Forget
<1>7. CASE Handle(w)
  BY <1>1, <1>7, WorkerTypes, RenewalTypes, TypeQuiet DEF Handle, Go
<1>8. CASE Join(w)
  <2>1. renewal[w].lost \in BOOLEAN
    BY <1>1 DEF RenewalState
  <2>2. QED
    BY <1>1, <1>8, <2>1, WorkerTypes, TypeQuiet DEF Join
<1>9. CASE Finish(w)
  BY <1>1, <1>9, WorkerTypes, RenewalTypes, TypeQuiet DEF Finish, Back, Queue!Forget
<1>0. CASE Decide(w)
  BY <1>1, <1>0, WorkerTypes, TypeQuiet DEF Decide, Go
<1>10. CASE SettleExecuted(w)
  <2>1. worker' \in [Workers -> Worker] /\ renewal' = renewal
    BY <1>1, <1>10, WorkerTypes DEF SettleExecuted, Go
  <2>2. CASE UNCHANGED queue
    BY <1>1, <1>10, <2>1, <2>2, TypeQuiet DEF SettleExecuted
  <2>3. worker[w].id \in Ids /\ worker[w].pc = "call"
    BY <1>10 DEF SettleExecuted, At, WorkerInv, Shape, Active
  <2>4. CASE SettleAck(w) /\ UNCHANGED others
    <3>1. task' \in [Ids -> Task] /\ UNCHANGED <<doneLeft, issued>>
      BY <2>3, <2>4, AckEffect DEF SettleAck, DeliveryOf
    <3>2. QED
      BY <1>10, <2>1, <2>4, <3>1 DEF SettleExecuted, TypeOK, others
  <2>5. CASE SettleRetry(w) /\ UNCHANGED others
    <3>1. task[worker[w].id].retries < MaxRetries
      BY <2>3, <2>5 DEF SettleRetry, BudgetLeft, WorkerInv, Budget, Has, Active, Queue!Retry
    <3>2. task' \in [Ids -> Task] /\ UNCHANGED <<doneLeft, issued>>
      BY <2>3, <2>5, <3>1, RetryEffect DEF SettleRetry, DeliveryOf
    <3>3. QED
      BY <1>10, <2>1, <2>5, <3>2 DEF SettleExecuted, TypeOK, others
  <2>6. CASE SettleFail(w) /\ UNCHANGED others
    <3>1. task' \in [Ids -> Task] /\ UNCHANGED <<doneLeft, issued>>
      BY <2>3, <2>6, FailEffect DEF SettleFail, DeliveryOf
    <3>2. QED
      BY <1>10, <2>1, <2>6, <3>1 DEF SettleExecuted, TypeOK, others
  <2>7. QED
    BY <1>10, <2>2, <2>4, <2>5, <2>6 DEF SettleExecuted
<1>11. ASSUME NEW i \in Ids, ReceiveClaims(w, i)
       PROVE  TypeOK'
  <2>1. worker' \in [Workers -> Worker]
    BY <1>1, <1>11, WorkerTypes DEF ReceiveClaims
  <2>2. task' \in [Ids -> Task] /\ doneLeft' = doneLeft
        /\ issued' = issued \cup {[id |-> i, tok |-> w]}
    BY <1>11, ClaimEffect DEF ReceiveClaims
  <2>3. QED
    BY <1>11, <2>1, <2>2 DEF ReceiveClaims, TypeOK, others
<1>12. QED
  BY <1>0, <1>2, <1>3, <1>4, <1>5, <1>6, <1>7, <1>8, <1>9, <1>10, <1>11 DEF WorkerStep

LEMMA TypeRenewal ==
  ASSUME TypeOK, WorkerInv, NEW w \in Workers, RenewalStep(w)
  PROVE  TypeOK'
<1> USE DEF queue, life, stopper
<1>1. worker \in [Workers -> Worker] /\ renewal \in [Workers -> RenewalState]
  BY DEF TypeOK
<1>2. CASE RenewalEnds(w)
  BY <1>1, <1>2, RenewalTypes, TypeQuiet DEF RenewalEnds
<1>3. CASE RenewSent(w)
  BY <1>1, <1>3, RenewalTypes, TypeQuiet DEF RenewSent
<1>4. CASE RenewConfirmed(w)
  BY <1>1, <1>4, RenewalTypes, TypeQuiet DEF RenewConfirmed
<1>5. CASE RenewRefused(w)
  BY <1>1, <1>5, RenewalTypes, TypeQuiet DEF RenewRefused, GiveUp
<1>6. CASE RenewFails(w)
  <2>1. renewal' \in [Workers -> RenewalState]
    BY <1>1, <1>6, RenewalTypes DEF RenewFails, GiveUp
  <2>2. QED
    BY <1>1, <1>6, <2>1, TypeQuiet DEF RenewFails
<1>7. CASE RenewExecuted(w)
  <2>1. worker[w].id \in Ids
    BY <1>7 DEF RenewExecuted, Renewal, WorkerInv, Shape, Active
  <2>2. task' \in [Ids -> Task] /\ UNCHANGED <<doneLeft, issued>>
    BY <1>7, <2>1, RenewEffect DEF RenewExecuted, DeliveryOf
  <2>3. renewal' \in [Workers -> RenewalState]
    BY <1>1, <1>7, RenewalTypes DEF RenewExecuted
  <2>4. QED
    BY <1>7, <2>2, <2>3 DEF RenewExecuted, TypeOK, others
<1>8. QED
  BY <1>2, <1>3, <1>4, <1>5, <1>6, <1>7 DEF RenewalStep

LEMMA TypeOthers ==
  ASSUME TypeOK, WorkerInv,
         \/ Start \/ StopBegins \/ StopStep \/ Tick \/ Crash
         \/ \E i \in Ids : AddChecked(i) \/ AddAccepted(i) \/ AddRefused(i) \/ ReplayFailed(i)
         \/ \E w \in Workers, r \in Results : ProcessorReturns(w, r)
  PROVE  TypeOK'
<1> USE DEF queue, life, stopper
<1>1. worker \in [Workers -> Worker] /\ renewal \in [Workers -> RenewalState]
  BY DEF TypeOK
<1>2. CASE Start
  <2>1. worker' \in [Workers -> Worker]
    BY <1>2, WorkerTypes DEF Start
  <2>2. QED
    BY <1>2, <2>1 DEF Start, TypeOK, others
<1>3. CASE StopBegins
  BY <1>3 DEF StopBegins, TypeOK, others
<1>4. CASE StopStep
  BY <1>4 DEF StopStep, StopClaims, Drain, StopDrained, StopTimeout, GraceOver, StopEnds,
              StopReturns, TypeOK, others
<1>5. CASE Tick
  <2>1. renewal' \in [Workers -> RenewalState]
    BY <1>5, RenewalTypes DEF Tick
  <2>2. worker' \in [Workers -> Worker]
    BY <1>1, <1>5, WorkerTypes DEF Tick
  <2>3. QED
    BY <1>5, <2>1, <2>2, TickEffect DEF Tick, TypeOK, others
<1>6. CASE Crash
  <2>1. crashes' \in 0..MaxCrashes
    BY <1>6 DEF Crash, TypeOK
  <2>2. producer' \in [Ids -> {"new", "adding", "accepted"}]
    BY <1>6 DEF Crash, TypeOK
  <2>3. worker' \in [Workers -> Worker] /\ renewal' \in [Workers -> RenewalState]
    BY <1>6, RecordTypes DEF Crash, NewProcess
  <2>4. QED
    BY <1>6, <2>1, <2>2, <2>3 DEF Crash, NewProcess, TypeOK
<1>7. ASSUME NEW i \in Ids, AddChecked(i) \/ AddRefused(i)
      PROVE  TypeOK'
  <2>1. producer' \in [Ids -> {"new", "adding", "accepted"}]
    BY <1>7 DEF AddChecked, AddRefused, TypeOK
  <2>2. QED
    BY <1>7, <2>1 DEF AddChecked, AddRefused, TypeOK, others
<1>8. ASSUME NEW i \in Ids, AddAccepted(i)
      PROVE  TypeOK'
  <2>1. task' \in [Ids -> Task] /\ UNCHANGED <<doneLeft, issued>>
    BY <1>8, SubmitEffect DEF AddAccepted
  <2>2. producer' \in [Ids -> {"new", "adding", "accepted"}]
    BY <1>8 DEF AddAccepted, TypeOK
  <2>3. QED
    BY <1>8, <2>1, <2>2 DEF AddAccepted, TypeOK, others
<1>9. ASSUME NEW i \in Ids, ReplayFailed(i)
      PROVE  TypeOK'
  <2>1. task' \in [Ids -> Task] /\ UNCHANGED <<doneLeft, issued>>
    BY <1>9, ReplayEffect DEF ReplayFailed
  <2>2. QED
    BY <1>9, <2>1 DEF ReplayFailed, TypeOK, others
<1>10. ASSUME NEW w \in Workers, NEW r \in Results, ProcessorReturns(w, r)
       PROVE  TypeOK'
  <2>0. procStop \in BOOLEAN
    BY DEF TypeOK
  <2>1. worker' \in [Workers -> Worker] /\ renewal' \in [Workers -> RenewalState]
    BY <1>1, <1>10, <2>0, WorkerTypes, RenewalTypes DEF ProcessorReturns, CancelOnReturn
  <2>2. worker[w].id \in Ids
    BY <1>10 DEF ProcessorReturns, At, WorkerInv, Shape, Active
  <2>3. succeeded' \in SUBSET Ids
    BY <1>10, <2>2 DEF ProcessorReturns, TypeOK
  <2>4. UNCHANGED <<queue, life, stopper, producer, others>>
    BY <1>10 DEF ProcessorReturns
  <2>5. QED
    BY <2>1, <2>3, <2>4 DEF TypeOK, others
<1>11. QED
  BY <1>2, <1>3, <1>4, <1>5, <1>6, <1>7, <1>8, <1>9, <1>10

LEMMA TypeNext == TypeOK /\ WorkerInv /\ [Next]_vars => TypeOK'
<1> SUFFICES ASSUME TypeOK, WorkerInv, [Next]_vars PROVE TypeOK'
  OBVIOUS
<1>1. CASE UNCHANGED vars
  BY <1>1 DEF TypeOK, vars, queue, life, stopper, others
<1>2. CASE Next
  BY <1>2, TypeWorker, TypeRenewal, TypeOthers DEF Next
<1>3. QED
  BY <1>1, <1>2

----------------------------------------------------------------------------
(* What holds of one worker *)

WI(w) == Shape(w) /\ Cover(w) /\ Budget(w) /\ Result(w) /\ Verdict(w)

LEMMA HasMeans ==
  \A w : Has(w) <=> /\ worker[w].pc \in Active
                    /\ task[worker[w].id].st = "claimed" /\ task[worker[w].id].holder = w
BY DEF Has, Queue!Holds, Queue!Claimed, DeliveryOf

LEMMA HasMeansNext ==
  \A w : Has(w)' <=> /\ worker'[w].pc \in Active
                     /\ task'[worker'[w].id].st = "claimed" /\ task'[worker'[w].id].holder = w
BY DEF Has, Queue!Holds, Queue!Claimed, DeliveryOf

(* A worker that takes no part in a step keeps its invariant, if its task is
   untouched, or was not its own any more and does not become its own. *)
LEMMA Bystander ==
  ASSUME TypeOK, NEW v \in Workers, WI(v),
         worker'[v] = worker[v], renewal'[v] = renewal[v], used' = used,
         \/ ~Has(v)'
         \/ worker[v].id \in succeeded => worker[v].id \in succeeded',
         \/ task'[worker[v].id] = task[worker[v].id]
         \/ (~Has(v) \/ Left(v) = 0) /\ ~Has(v)'
  PROVE  WI(v)'
<1>1. renewal[v].age \in Nat /\ renewal[v].sent \in Nat
  BY DEF TypeOK, RenewalState
<1>2. Shape(v)' /\ Verdict(v)'
  BY DEF WI, Shape, Verdict
<1>3. CASE (~Has(v) \/ Left(v) = 0) /\ ~Has(v)'
  <2>1. ~(worker[v].pc \in Active /\ renewal[v].age < Lease)
    BY <1>1, <1>3 DEF WI, Cover, Lease
  <2>2. ~(renewal[v].pc = "ok" /\ renewal[v].sent < Lease)
    BY <1>1, <1>3 DEF WI, Cover, Lease
  <2>3. QED
    BY <1>2, <1>3, <2>1, <2>2 DEF WI, Cover, Budget, Result
<1>4. CASE task'[worker[v].id] = task[worker[v].id]
  <2>1. Has(v)' <=> Has(v)
    BY <1>4, HasMeans, HasMeansNext
  <2>2. Left(v)' = Left(v)
    BY <1>4 DEF Left
  <2>3. QED
    BY <1>2, <1>4, <2>1, <2>2 DEF WI, Cover, Budget, Result
<1>5. QED
  BY <1>3, <1>4

LEMMA InvWorkerStep ==
  ASSUME TypeOK, WorkerInv, NEW w \in Workers, WorkerStep(w), NEW v \in Workers
  PROVE  WI(v)'
<1> USE DEF queue, life, stopper
<1>1. /\ worker \in [Workers -> Worker] /\ renewal \in [Workers -> RenewalState]
      /\ task \in [Ids -> Task]
      /\ WI(v) /\ WI(w) /\ used' = used
  <2>1. used' = used
    BY DEF WorkerStep, Poll, SleepCut, Exit, ReceiveNothing, ReplyLost, Handle, Join, Decide,
           SettleExecuted, Finish, ReceiveClaims
  <2>2. QED
    BY <2>1 DEF TypeOK, WorkerInv, WI
<1>2. CASE Poll(w)
  BY <1>1, <1>2, Bystander, HasMeans, HasMeansNext
  DEF Poll, Go, At, WI, Shape, Cover, Budget, Result, Verdict, Active
<1>3. CASE SleepCut(w)
  BY <1>1, <1>3, Bystander, HasMeans, HasMeansNext
  DEF SleepCut, Go, At, WI, Shape, Cover, Budget, Result, Verdict, Active
<1>4. CASE Exit(w)
  BY <1>1, <1>4, Bystander, HasMeans, HasMeansNext
  DEF Exit, Go, At, WI, Shape, Cover, Budget, Result, Verdict, Active
<1>5. CASE ReceiveNothing(w)
  BY <1>1, <1>5, Bystander, HasMeans, HasMeansNext
  DEF ReceiveNothing, Back, Idle, NoRenewal, At, WI, Shape, Cover, Budget, Result, Verdict, Active
<1>6. CASE ReplyLost(w)
  BY <1>1, <1>6, Bystander, HasMeans, HasMeansNext
  DEF ReplyLost, Back, Idle, NoRenewal, Queue!Forget, At, WI, Shape, Cover, Budget, Result,
      Verdict, Active
<1>7. CASE Handle(w)
  BY <1>1, <1>7, Bystander, HasMeans, HasMeansNext
  DEF Handle, Go, At, WI, Shape, Cover, Budget, Result, Verdict, Active, Left
<1>8. CASE Join(w)
  BY <1>1, <1>8, Bystander, HasMeans, HasMeansNext
  DEF Join, Renewal, At, WI, Shape, Cover, Budget, Result, Verdict, Active, Left
<1>9. CASE Finish(w)
  BY <1>1, <1>9, Bystander, HasMeans, HasMeansNext
  DEF Finish, Back, Idle, NoRenewal, Queue!Forget, At, WI, Shape, Cover, Budget, Result,
      Verdict, Active
<1>0. CASE Decide(w)
  BY <1>1, <1>0, Bystander, HasMeans, HasMeansNext
  DEF Decide, Go, At, WI, Shape, Cover, Budget, Result, Verdict, Active, Left
<1>10. CASE SettleExecuted(w)
  <2>1. worker[w].id \in Ids /\ worker[w].pc = "call" /\ worker'[w].pc = "done"
        /\ worker'[w].id = worker[w].id /\ renewal' = renewal /\ succeeded' = succeeded
        /\ (v # w => worker'[v] = worker[v])
    BY <1>1, <1>10 DEF SettleExecuted, Go, At, WI, Shape, Active
  <2>2. \/ task' = task
        \/ /\ task[worker[w].id].st = "claimed" /\ task[worker[w].id].holder = w
           /\ task'[worker[w].id].st # "claimed"
           /\ \A j \in Ids \ {worker[w].id} : task'[j] = task[j]
    <3>1. CASE SettleAck(w)
      <4>1. Queue!Ack([id |-> worker[w].id, tok |-> w])
        BY <3>1 DEF SettleAck, DeliveryOf
      <4>2. Queue!Absent.st = "absent"
        BY RecordTypes
      <4>3. QED
        BY <1>1, <2>1, <4>1, <4>2, AckEffect
    <3>2. CASE SettleRetry(w)
      <4>1. task[worker[w].id].retries < MaxRetries
        BY <1>1, <2>1, <3>2 DEF SettleRetry, BudgetLeft, WI, Budget, Has, Active, Queue!Retry
      <4>2. QED
        <5>1. Queue!Retry([id |-> worker[w].id, tok |-> w], Delay)
          BY <3>2 DEF SettleRetry, DeliveryOf
        <5> DEFINE New == [task[worker[w].id] EXCEPT
                               !.st = "waiting", !.holder = "no worker", !.left = Delay,
                               !.retries = task[worker[w].id].retries + 1]
        <5>2. /\ task[worker[w].id].st = "claimed" /\ task[worker[w].id].holder = w
              /\ task' = [task EXCEPT ![worker[w].id] = New]
              /\ task'[worker[w].id].st = "waiting"
          BY <2>1, <4>1, <5>1, RetryEffect
        <5> HIDE DEF New
        <5>3. QED
          BY <1>1, <2>1, <5>2
    <3>3. CASE SettleFail(w)
      <4>1. Queue!Fail([id |-> worker[w].id, tok |-> w], {})
        BY <3>3 DEF SettleFail, DeliveryOf
      <4>2. QED
        BY <1>1, <2>1, <4>1, FailEffect
    <3>4. QED
      BY <1>10, <3>1, <3>2, <3>3 DEF SettleExecuted
  <2>3. CASE v = w
    BY <1>1, <2>1, <2>3, HasMeansNext DEF WI, Shape, Cover, Budget, Result, Verdict, Active
  <2>4. CASE v # w /\ worker[v].pc \in Active
    <3>1. worker[v].id \in Ids
      BY <1>1, <2>4 DEF WI, Shape
    <3>2. \/ task'[worker[v].id] = task[worker[v].id]
          \/ ~Has(v) /\ ~Has(v)'
      BY <2>1, <2>2, <2>4, <3>1, HasMeans, HasMeansNext
    <3>3. QED
      BY <1>1, <2>1, <2>4, <3>2, Bystander
  <2>5. CASE v # w /\ worker[v].pc \notin Active
    <3>1. ~Has(v) /\ ~Has(v)'
      BY <2>1, <2>5, HasMeans, HasMeansNext
    <3>2. QED
      BY <1>1, <2>1, <2>5, <3>1, Bystander
  <2>6. QED
    BY <2>3, <2>4, <2>5
<1>11. ASSUME NEW i \in Ids, ReceiveClaims(w, i)
       PROVE  WI(v)'
  <2>1. /\ worker[w].pc = "receive" /\ renewal' = renewal /\ succeeded' = succeeded
        /\ worker' = [worker EXCEPT ![w] =
                        [Idle EXCEPT !.pc = "reply", !.id = i, !.retries = task[i].retries]]
    BY <1>11 DEF ReceiveClaims, At
  <2>2. /\ task[i].left = 0
        /\ task' = [task EXCEPT ![i] = [task[i] EXCEPT !.st = "claimed", !.holder = w,
                                                       !.left = Lease]]
    BY <1>11, ClaimEffect DEF ReceiveClaims
  <2>3. CASE v = w
    <3>1. /\ worker'[w].pc = "reply" /\ worker'[w].id = i
          /\ worker'[w].retries = task[i].retries
      BY <1>1, <2>1 DEF Idle
    <3>2. /\ task'[i].st = "claimed" /\ task'[i].holder = w /\ task'[i].left = Lease
          /\ task'[i].retries = task[i].retries
      BY <1>1, <2>2 DEF Task
    <3>3. Has(w)' /\ Left(w)' = Lease /\ renewal[w].pc = "off" /\ renewal[w].age \in Nat
      BY <1>1, <2>1, <3>1, <3>2, HasMeansNext DEF Active, Left, WI, Shape, RenewalState
    <3>4. QED
      BY <1>1, <2>1, <2>3, <3>1, <3>2, <3>3
      DEF WI, Shape, Cover, Budget, Result, Verdict, Active, Lease
  <2>4. CASE v # w /\ worker[v].pc \in Active
    <3>1. worker[v].id \in Ids /\ worker'[v] = worker[v]
      BY <1>1, <2>1, <2>4 DEF WI, Shape
    <3>2. \/ task'[worker[v].id] = task[worker[v].id]
          \/ Left(v) = 0 /\ ~Has(v)'
      <4>1. CASE worker[v].id = i
        <5>1. task'[i].holder = w
          BY <1>1, <2>2
        <5>2. QED
          BY <2>2, <2>4, <3>1, <4>1, <5>1, HasMeansNext DEF Left
      <4>2. CASE worker[v].id # i
        BY <1>1, <2>2, <3>1, <4>2
      <4>3. QED
        BY <4>1, <4>2
    <3>3. QED
      BY <1>1, <2>1, <2>4, <3>1, <3>2, Bystander
  <2>5. CASE v # w /\ worker[v].pc \notin Active
    <3>1. worker'[v] = worker[v]
      BY <1>1, <2>1, <2>5
    <3>2. ~Has(v) /\ ~Has(v)'
      BY <2>5, <3>1, HasMeans, HasMeansNext
    <3>3. QED
      BY <1>1, <2>1, <3>1, <3>2, Bystander
  <2>6. QED
    BY <2>3, <2>4, <2>5
<1>12. QED
  BY <1>0, <1>2, <1>3, <1>4, <1>5, <1>6, <1>7, <1>8, <1>9, <1>10, <1>11 DEF WorkerStep

LEMMA InvRenewalStep ==
  ASSUME TypeOK, WorkerInv, NEW w \in Workers, RenewalStep(w), NEW v \in Workers
  PROVE  WI(v)'
<1> USE DEF queue, life, stopper
<1>1. /\ worker \in [Workers -> Worker] /\ renewal \in [Workers -> RenewalState]
      /\ task \in [Ids -> Task]
      /\ WI(v) /\ WI(w) /\ used' = used
  <2>1. used' = used
    BY DEF RenewalStep, RenewalEnds, RenewSent, RenewExecuted, RenewConfirmed, RenewRefused,
           RenewFails
  <2>2. QED
    BY <2>1 DEF TypeOK, WorkerInv, WI
<1>2. CASE RenewalEnds(w)
  BY <1>1, <1>2, Bystander, HasMeans, HasMeansNext
  DEF RenewalEnds, Renewal, WI, Shape, Cover, Budget, Result, Verdict, Active, Left, RenewalState
<1>3. CASE RenewSent(w)
  BY <1>1, <1>3, Bystander, HasMeans, HasMeansNext
  DEF RenewSent, Renewal, WI, Shape, Cover, Budget, Result, Verdict, Active, Left, RenewalState
<1>4. CASE RenewConfirmed(w)
  BY <1>1, <1>4, Bystander, HasMeans, HasMeansNext
  DEF RenewConfirmed, LocalStart, Renewal, WI, Shape, Cover, Budget, Result, Verdict, Active,
      Left, RenewalState
<1>5. CASE RenewRefused(w) \/ RenewFails(w)
  <2>1. /\ renewal[w].pc \in {"call", "ok"}
        /\ \/ GiveUp(w)
           \/ renewal' = [renewal EXCEPT ![w] = [renewal[w] EXCEPT !.pc = "wait", !.sent = 0]]
        /\ task' = task /\ worker' = worker /\ succeeded' = succeeded
    BY <1>5 DEF RenewRefused, RenewFails, Renewal
  <2>2. /\ renewal'[w].pc \in {"off", "wait"} /\ renewal'[w].age = renewal[w].age
        /\ worker[w].pc \in {"process", "join"}
        /\ v # w => renewal'[v] = renewal[v]
    BY <1>1, <2>1 DEF GiveUp, WI, Shape, RenewalState
  <2>3. (Has(v)' <=> Has(v)) /\ Left(v)' = Left(v)
    BY <2>1, HasMeans, HasMeansNext DEF Left
  <2>4. CASE v = w
    BY <1>1, <2>1, <2>2, <2>3, <2>4 DEF WI, Shape, Cover, Budget, Result, Verdict, Active
  <2>5. CASE v # w
    BY <1>1, <2>1, <2>2, <2>5, Bystander
  <2>6. QED
    BY <2>4, <2>5
<1>7. CASE RenewExecuted(w)
  <2>1. /\ worker[w].id \in Ids /\ worker[w].pc \in {"process", "join"}
        /\ worker' = worker /\ succeeded' = succeeded
        /\ renewal' = [renewal EXCEPT ![w] = [renewal[w] EXCEPT !.pc = "ok"]]
    BY <1>1, <1>7 DEF RenewExecuted, Renewal, WI, Shape, Active
  <2>2. /\ task[worker[w].id].st = "claimed" /\ task[worker[w].id].holder = w
        /\ task' = [task EXCEPT ![worker[w].id] =
                      [task[worker[w].id] EXCEPT !.left = Lease]]
    BY <1>7, <2>1, RenewEffect DEF RenewExecuted, DeliveryOf
  <2>3. /\ task'[worker[w].id].st = "claimed" /\ task'[worker[w].id].holder = w
        /\ task'[worker[w].id].left = Lease
        /\ task'[worker[w].id].retries = task[worker[w].id].retries
    BY <1>1, <2>1, <2>2 DEF Task
  <2>4. CASE v = w
    <3>1. Has(w) /\ Has(w)' /\ Left(w)' = Lease
      BY <2>1, <2>2, <2>3, HasMeans, HasMeansNext DEF Active, Left
    <3>2. /\ renewal'[w].pc = "ok" /\ renewal'[w].age \in Nat /\ renewal'[w].sent \in Nat
      BY <1>1, <2>1 DEF RenewalState
    <3>3. QED
      BY <1>1, <2>1, <2>3, <2>4, <3>1, <3>2
      DEF WI, Shape, Cover, Budget, Result, Verdict, Active, Lease
  <2>5. CASE v # w /\ worker[v].pc \in Active
    <3>1. worker[v].id \in Ids /\ renewal'[v] = renewal[v]
      BY <1>1, <2>1, <2>5 DEF WI, Shape
    <3>2. \/ task'[worker[v].id] = task[worker[v].id]
          \/ ~Has(v) /\ ~Has(v)'
      BY <1>1, <2>1, <2>2, <2>3, <2>5, <3>1, HasMeans, HasMeansNext
    <3>3. QED
      BY <1>1, <2>1, <3>1, <3>2, Bystander
  <2>6. CASE v # w /\ worker[v].pc \notin Active
    <3>1. renewal'[v] = renewal[v] /\ ~Has(v) /\ ~Has(v)'
      BY <1>1, <2>1, <2>6, HasMeans, HasMeansNext
    <3>2. QED
      BY <1>1, <2>1, <3>1, Bystander
  <2>7. QED
    BY <2>4, <2>5, <2>6
<1>8. QED
  BY <1>2, <1>3, <1>4, <1>5, <1>7 DEF RenewalStep

LEMMA InvOthers ==
  ASSUME TypeOK, WorkerInv, NEW v \in Workers,
         \/ Start \/ StopBegins \/ StopStep \/ Tick \/ Crash
         \/ \E i \in Ids : AddChecked(i) \/ AddAccepted(i) \/ AddRefused(i) \/ ReplayFailed(i)
         \/ \E w \in Workers, r \in Results : ProcessorReturns(w, r)
  PROVE  WI(v)'
<1> USE DEF queue, life, stopper
<1>1. /\ worker \in [Workers -> Worker] /\ renewal \in [Workers -> RenewalState]
      /\ task \in [Ids -> Task]
      /\ WI(v)
  BY DEF TypeOK, WorkerInv, WI
<1>2. CASE Start
  <2>1. worker'[v].pc = "loop" /\ renewal' = renewal /\ ~Has(v)' /\ used' /\ ~used
    BY <1>2, HasMeansNext DEF Start, Idle, Active
  <2>2. QED
    BY <1>1, <2>1 DEF WI, Shape, Cover, Budget, Result, Verdict, Active
<1>3. CASE StopBegins \/ StopStep
  <2>1. UNCHANGED <<task, worker, renewal, succeeded, used>>
    BY <1>3 DEF StopBegins, StopStep, StopClaims, Drain, StopDrained, StopTimeout, GraceOver,
                StopEnds, StopReturns
  <2>2. QED
    BY <1>1, <2>1, Bystander
<1>4. CASE Tick
  <2>1. /\ worker'[v].id = worker[v].id /\ worker'[v].retries = worker[v].retries
        /\ worker'[v].res = worker[v].res /\ worker'[v].lost = worker[v].lost
        /\ worker[v].pc # "sleep" => worker'[v].pc = worker[v].pc
        /\ worker[v].pc = "sleep" => worker'[v].pc = "loop"
        /\ succeeded' = succeeded /\ used' = used
    BY <1>1, <1>4 DEF Tick, At, Worker
  <2>2. /\ renewal'[v].pc = renewal[v].pc /\ renewal'[v].lost = renewal[v].lost
        /\ worker[v].pc \in Active =>
              /\ renewal'[v].age = Older(renewal[v].age)
              /\ renewal[v].pc = "ok" => renewal'[v].sent = Older(renewal[v].sent)
        /\ renewal[v].age \in 0..MaxAge /\ renewal[v].sent \in 0..MaxAge
    BY <1>1, <1>4 DEF Tick, Aged, RenewalState, Active
  <2>3. \A k \in 0..MaxAge : Older(k) < Lease => k < Lease /\ Older(k) = k + 1
    BY DEF Older, Lease
  <2>4. CASE worker[v].pc \in Active
    <3>1. worker[v].id \in Ids
      BY <1>1, <2>4 DEF WI, Shape
    <3>2. task[worker[v].id] \in Task
      BY <1>1, <3>1
    <3>3. task'[worker[v].id] =
            [task[worker[v].id] EXCEPT !.left = Queue!Passed(task[worker[v].id].left)]
      BY <1>4, <3>1, TickEffect DEF Tick
    <3>4. /\ task'[worker[v].id].st = task[worker[v].id].st
          /\ task'[worker[v].id].holder = task[worker[v].id].holder
          /\ task'[worker[v].id].retries = task[worker[v].id].retries
          /\ task'[worker[v].id].left >= task[worker[v].id].left - 1
          /\ task[worker[v].id].left \in Nat /\ task'[worker[v].id].left \in Nat
      <4>1. \A k \in Nat : Queue!Passed(k) \in Nat /\ Queue!Passed(k) >= k - 1
        BY DEF Queue!Passed
      <4>2. QED
        BY <3>2, <3>3, <4>1 DEF Task
    <3>5. worker'[v].pc = worker[v].pc
      BY <2>1, <2>4 DEF Active
    <3>6. Has(v)' <=> Has(v)
      BY <2>1, <3>4, <3>5, HasMeans, HasMeansNext
    <3>7. Left(v)' >= Left(v) - 1 /\ Left(v) \in Nat /\ Left(v)' \in Nat
      BY <2>1, <3>4 DEF Left
    <3>8. Cover(v)'
      <4>1. ASSUME renewal'[v].age < Lease
            PROVE  Has(v)' /\ Left(v)' + renewal'[v].age >= Lease
        BY <1>1, <2>2, <2>3, <2>4, <3>6, <3>7, <4>1 DEF WI, Cover, Lease
      <4>2. ASSUME renewal[v].pc = "ok", renewal'[v].sent < Lease
            PROVE  Has(v)' /\ Left(v)' + renewal'[v].sent >= Lease
        BY <1>1, <2>2, <2>3, <2>4, <3>6, <3>7, <4>2 DEF WI, Cover, Lease
      <4>3. QED
        BY <2>2, <4>1, <4>2 DEF Cover
    <3>9. QED
      BY <1>1, <2>1, <2>2, <3>4, <3>5, <3>6, <3>8 DEF WI, Shape, Budget, Result, Verdict
  <2>5. CASE worker[v].pc \notin Active
    <3>1. worker'[v].pc \notin Active /\ ~Has(v)'
      BY <2>1, <2>5, HasMeansNext DEF Active
    <3>2. renewal[v].pc = "off"
      BY <1>1, <2>5 DEF WI, Shape, Active
    <3>3. QED
      BY <1>1, <2>1, <2>2, <2>5, <3>1, <3>2
      DEF WI, Shape, Cover, Budget, Result, Verdict, Active
  <2>6. QED
    BY <2>4, <2>5
<1>5. CASE Crash
  <2>1. worker'[v].pc = "off" /\ renewal'[v].pc = "off" /\ ~Has(v)'
    BY <1>5, HasMeansNext DEF Crash, NewProcess, Idle, NoRenewal, Active
  <2>2. QED
    BY <2>1 DEF WI, Shape, Cover, Budget, Result, Verdict, Active
<1>6. ASSUME NEW i \in Ids, AddChecked(i) \/ AddRefused(i)
      PROVE  WI(v)'
  <2>1. UNCHANGED <<task, worker, renewal, succeeded, used>>
    BY <1>6 DEF AddChecked, AddRefused
  <2>2. QED
    BY <1>1, <2>1, Bystander
<1>7. ASSUME NEW i \in Ids, AddAccepted(i) \/ ReplayFailed(i)
      PROVE  WI(v)'
  <2>1. /\ task[i].st # "claimed" /\ task'[i].st # "claimed"
        /\ \A j \in Ids \ {i} : task'[j] = task[j]
    <3>1. CASE AddAccepted(i)
      BY <3>1, SubmitEffect DEF AddAccepted
    <3>2. CASE ReplayFailed(i)
      <4>1. Queue!ReplayFailed(i)
        BY <3>2 DEF ReplayFailed
      <4>2. QED
        BY <1>1, <4>1, ReplayEffect
    <3>3. QED
      BY <1>7, <3>1, <3>2
  <2>2. worker' = worker /\ renewal' = renewal /\ used' = used /\ succeeded \subseteq succeeded' \cup {i}
    BY <1>7 DEF AddAccepted, ReplayFailed
  <2>3. CASE worker[v].pc \in Active /\ worker[v].id # i
    <3>1. worker[v].id \in Ids
      BY <1>1, <2>3 DEF WI, Shape
    <3>2. QED
      BY <1>1, <2>1, <2>2, <2>3, <3>1, Bystander
  <2>4. CASE worker[v].pc \notin Active \/ worker[v].id = i
    <3>1. ~Has(v) /\ ~Has(v)'
      BY <2>1, <2>2, <2>4, HasMeans, HasMeansNext
    <3>2. QED
      BY <1>1, <2>2, <3>1, Bystander
  <2>5. QED
    BY <2>3, <2>4
<1>8. ASSUME NEW w \in Workers, NEW r \in Results, ProcessorReturns(w, r)
      PROVE  WI(v)'
  <2>1. /\ worker[w].pc = "process" /\ task' = task /\ used' = used
        /\ worker' = [worker EXCEPT ![w] = [worker[w] EXCEPT !.pc = "join", !.res = r,
                                                              !.cut = procStop]]
        /\ renewal' = [renewal EXCEPT ![w] = [renewal[w] EXCEPT !.cancel = TRUE]]
        /\ succeeded' = IF r = "nil" THEN succeeded \cup {worker[w].id} ELSE succeeded
    BY <1>8 DEF ProcessorReturns, At, CancelOnReturn
  <2>2. CASE v = w
    <3>1. /\ worker'[w].pc = "join" /\ worker'[w].id = worker[w].id
          /\ worker'[w].retries = worker[w].retries /\ worker'[w].res = r
      BY <1>1, <2>1 DEF Worker
    <3>2. /\ renewal'[w].pc = renewal[w].pc /\ renewal'[w].age = renewal[w].age
          /\ renewal'[w].sent = renewal[w].sent
      BY <1>1, <2>1 DEF RenewalState
    <3>3. (Has(w)' <=> Has(w)) /\ Left(w)' = Left(w)
      BY <2>1, <3>1, HasMeans, HasMeansNext DEF Active, Left
    <3>4. QED
      BY <1>1, <2>1, <2>2, <3>1, <3>2, <3>3
      DEF WI, Shape, Cover, Budget, Result, Verdict, Active
  <2>3. CASE v # w
    <3>1. worker'[v] = worker[v] /\ renewal'[v] = renewal[v] /\ succeeded \subseteq succeeded'
      BY <1>1, <2>1, <2>3
    <3>2. QED
      BY <1>1, <2>1, <3>1, Bystander
  <2>4. QED
    BY <2>2, <2>3
<1>9. QED
  BY <1>2, <1>3, <1>4, <1>5, <1>6, <1>7, <1>8

LEMMA InvNext == TypeOK /\ WorkerInv /\ [Next]_vars => WorkerInv'
<1> SUFFICES ASSUME TypeOK, WorkerInv, [Next]_vars PROVE WorkerInv'
  OBVIOUS
<1>1. SUFFICES ASSUME NEW v \in Workers PROVE WI(v)'
  BY DEF WorkerInv, WI
<1>2. CASE UNCHANGED vars
  BY <1>2, Bystander DEF WorkerInv, WI, vars, queue, life, stopper, others
<1>3. CASE Next
  BY <1>3, InvWorkerStep, InvRenewalStep, InvOthers DEF Next
<1>4. QED
  BY <1>2, <1>3

LEMMA InvInit == Init => WorkerInv
<1> SUFFICES ASSUME Init, NEW w \in Workers PROVE WI(w)
  BY DEF WorkerInv, WI
<1>1. worker[w].pc = "off" /\ renewal[w].pc = "off" /\ ~Has(w)
  BY HasMeans DEF Init, Idle, NoRenewal, Active
<1>2. QED
  BY <1>1 DEF WI, Shape, Cover, Budget, Result, Verdict, Active

LEMMA Base == Spec => [](TypeOK /\ WorkerInv)
<1>1. Init => TypeOK /\ WorkerInv
  BY TypeInit, InvInit
<1>2. TypeOK /\ WorkerInv /\ [Next]_vars => TypeOK' /\ WorkerInv'
  BY TypeNext, InvNext
<1>3. QED
  BY <1>1, <1>2, PTL DEF Spec

(* The state of the manager is well formed; a task is never retried more   *)
(* often than its budget allows (settle, manager.go 419).                  *)
THEOREM ManagerTypeCorrect == Spec => []TypeOK
BY Base, PTL

(* The local lease ends no later than that of the queue (manager.go        *)
(* 290-292, 361), whatever the timing.                                     *)
THEOREM LeaseCoveredCorrect == Spec => []LeaseCovered
<1>1. TypeOK /\ WorkerInv => LeaseCovered
  BY DEF WorkerInv, Cover, Has, LeaseCovered, Active
<1>2. QED
  BY <1>1, Base, PTL

----------------------------------------------------------------------------
(* Verdicts, losses and Stop *)

(* What a worker has decided to tell the engine: it comes neither from a run
   known to have lost its lease nor from one that Stop had cut short. *)
Cuts(w) ==
  /\ worker[w].cut => procStop
  /\ At(w, "call") => ~worker[w].lost
  /\ At(w, "call") /\ worker[w].cut => worker[w].res \notin {"retryable", "fatal"}

CutInv == \A w \in Workers : Cuts(w)

LEMMA CutNext == TypeOK /\ CutInv /\ [Next]_vars => CutInv'
<1> SUFFICES ASSUME TypeOK, CutInv, [Next]_vars, NEW v \in Workers PROVE Cuts(v)'
  BY DEF CutInv
<1> USE DEF queue, life, stopper
<1>1. worker \in [Workers -> Worker] /\ Cuts(v) /\ worker[v] \in Worker
  BY DEF TypeOK, CutInv
<1>2. ASSUME worker'[v] = worker[v], procStop => procStop' PROVE Cuts(v)'
  BY <1>1, <1>2 DEF Cuts, At
<1>3. ASSUME NEW w \in Workers, WorkerStep(w) PROVE Cuts(v)'
  <2>1. procStop' = procStop /\ (v # w => worker'[v] = worker[v])
    BY <1>1, <1>3 DEF WorkerStep, Poll, SleepCut, Exit, ReceiveNothing, ReplyLost, Handle, Join,
                      Decide, SettleExecuted, Finish, ReceiveClaims, Go, Back
  <2>2. CASE Decide(w) /\ v = w
    <3>1. CASE LeaveForRecovery(w)
      BY <1>1, <2>1, <2>2, <3>1 DEF Decide, Go, Cuts, At, Worker
    <3>2. CASE ~LeaveForRecovery(w)
      <4>1. /\ ~worker[w].lost
            /\ procStop => worker[w].res \notin {"retryable", "fatal"}
        BY <3>2 DEF LeaveForRecovery, Interrupted
      <4>2. worker'[w] = [worker[w] EXCEPT !.pc = "call"]
        BY <1>1, <2>2, <3>2 DEF Decide, Go
      <4>3. /\ worker'[w].lost = worker[w].lost /\ worker'[w].cut = worker[w].cut
            /\ worker'[w].res = worker[w].res
        BY <1>1, <2>2, <4>2 DEF Worker
      <4>4. QED
        BY <1>1, <2>1, <2>2, <4>1, <4>3 DEF Cuts, At
    <3>3. QED
      BY <3>1, <3>2
  <2>3. CASE ~Decide(w) /\ v = w
    <3> DEFINE Ok == worker'[w].pc # "call" /\ (worker'[w].cut => worker[w].cut)
    <3>11. ASSUME Poll(w) \/ SleepCut(w) \/ Exit(w) \/ Handle(w) \/ SettleExecuted(w)
           PROVE  Ok
      <4>1. PICK pc \in {"receive", "loop", "exited", "process", "done"} :
              worker' = [worker EXCEPT ![w] = [worker[w] EXCEPT !.pc = pc]]
        BY <3>11 DEF Poll, SleepCut, Exit, Handle, SettleExecuted, Go
      <4>2. Ok
        BY <1>1, <2>3, <4>1 DEF Worker
      <4>3. QED
        BY <4>2
    <3>12. ASSUME ReceiveNothing(w) \/ ReplyLost(w) \/ Finish(w)
           PROVE  Ok
      <4>1. PICK pc \in {"sleep", "loop"} : Back(w, pc)
        BY <3>12 DEF ReceiveNothing, ReplyLost, Finish
      <4>2. QED
        BY <1>1, <4>1 DEF Back, Idle
    <3>13. ASSUME Join(w) PROVE Ok
      BY <1>1, <2>3, <3>13 DEF Join, Worker
    <3>14. ASSUME \E i \in Ids : ReceiveClaims(w, i) PROVE Ok
      BY <1>1, <3>14 DEF ReceiveClaims, Idle
    <3>1. Ok
      BY <1>3, <2>3, <3>11, <3>12, <3>13, <3>14 DEF WorkerStep
    <3>2. QED
      BY <1>1, <2>1, <2>3, <3>1 DEF Cuts, At
  <2>4. QED
    BY <1>2, <2>1, <2>2, <2>3
<1>4. ASSUME NEW w \in Workers, RenewalStep(w) PROVE Cuts(v)'
  BY <1>2, <1>4 DEF RenewalStep, RenewalEnds, RenewSent, RenewExecuted, RenewConfirmed,
                    RenewRefused, RenewFails
<1>5. ASSUME NEW w \in Workers, NEW r \in Results, ProcessorReturns(w, r) PROVE Cuts(v)'
  <2>1. procStop' = procStop /\ (v # w => worker'[v] = worker[v])
    BY <1>1, <1>5 DEF ProcessorReturns
  <2>2. v = w => worker'[v].pc = "join" /\ worker'[v].cut = procStop
    BY <1>1, <1>5 DEF ProcessorReturns, Worker
  <2>3. QED
    BY <1>2, <2>1, <2>2 DEF Cuts, At
<1>6. CASE Start \/ Crash
  BY <1>6 DEF Start, Crash, NewProcess, Cuts, At, Idle
<1>7. CASE Tick
  <2>1. procStop' = procStop /\ (worker'[v] = worker[v] \/ worker'[v] = [worker[v] EXCEPT !.pc = "loop"])
    BY <1>1, <1>7 DEF Tick
  <2>2. CASE worker'[v] = [worker[v] EXCEPT !.pc = "loop"]
    <3>1. worker'[v].pc = "loop" /\ worker'[v].cut = worker[v].cut
      BY <1>1, <2>2 DEF Worker
    <3>2. QED
      BY <1>1, <2>1, <3>1 DEF Cuts, At
  <2>3. QED
    BY <1>2, <2>1, <2>2
<1>8. CASE StopBegins \/ StopStep \/ UNCHANGED vars
           \/ \E i \in Ids : AddChecked(i) \/ AddAccepted(i) \/ AddRefused(i) \/ ReplayFailed(i)
  <2>1. worker' = worker
    BY <1>8
    DEF StopBegins, StopStep, StopClaims, Drain, StopDrained, StopTimeout, GraceOver, StopEnds,
        StopReturns, AddChecked, AddAccepted, AddRefused, ReplayFailed, vars
  <2>2. procStop' = procStop \/ procStop' = TRUE
    BY <1>8
    DEF StopBegins, StopStep, StopClaims, Drain, StopDrained, StopTimeout, GraceOver, StopEnds,
        StopReturns, AddChecked, AddAccepted, AddRefused, ReplayFailed, vars
  <2>3. procStop => procStop'
    BY <2>2, Zenon
  <2>4. QED
    BY <1>2, <2>1, <2>3
<1>9. QED
  BY <1>3, <1>4, <1>5, <1>6, <1>7, <1>8 DEF Next

(* The result of a run whose lease was judged lost changes nothing in the  *)
(* queue, nor does an error that came after Stop's cancel, whatever Stop   *)
(* does between the return of the processor and the call to the engine     *)
(* (manager.go 332, 392, 405-410).                                         *)
THEOREM VerdictStandsCorrect == Spec => VerdictStands
<1> DEFINE Stands ==
      \A w \in Workers :
        /\ worker[w].pc \in {"settle", "call"} /\ worker'[w] # worker[w]
        /\ \/ renewal[w].lost
           \/ worker[w].cut /\ worker[w].res \in {"retryable", "fatal"}
        => task' = task
<1>1. TypeOK /\ WorkerInv /\ CutInv /\ [Next]_vars => [Stands]_vars
  <2> SUFFICES ASSUME TypeOK, WorkerInv, CutInv, Next, NEW w \in Workers,
                      worker[w].pc \in {"settle", "call"}, worker'[w] # worker[w],
                      \/ renewal[w].lost
                      \/ worker[w].cut /\ worker[w].res \in {"retryable", "fatal"}
               PROVE  task' = task
    BY DEF vars
  <2> USE DEF queue, life, stopper, others
  <2>1. worker \in [Workers -> Worker] /\ worker[w].lost = renewal[w].lost
    BY DEF TypeOK, WorkerInv, Verdict
  <2>2. worker[w].pc = "settle"
    BY <2>1 DEF CutInv, Cuts, At
  <2>3. ASSUME NEW v \in Workers, WorkerStep(v) PROVE task' = task
    <3>1. v = w
      BY <2>1, <2>3
      DEF WorkerStep, Poll, SleepCut, Exit, ReceiveNothing, ReplyLost, Handle, Join, Decide,
          SettleExecuted, Finish, ReceiveClaims, Go, Back
    <3>2. QED
      BY <2>2, <2>3, <3>1
      DEF WorkerStep, Poll, SleepCut, Exit, ReceiveNothing, ReplyLost, Handle, Join, Decide,
          SettleExecuted, Finish, ReceiveClaims, At
  <2>4. ASSUME RenewalStep(w) \/ StopStep \/ Tick \/ \E i \in Ids : AddAccepted(i) PROVE FALSE
    BY <2>1, <2>2, <2>4
    DEF RenewalStep, RenewalEnds, RenewSent, RenewExecuted, RenewConfirmed, RenewRefused,
        RenewFails, StopStep, StopClaims, Drain, StopDrained, StopTimeout, GraceOver, StopEnds,
        StopReturns, Tick, AddAccepted, At
  <2>5. ASSUME NEW v \in Workers, RenewalStep(v) PROVE FALSE
    BY <2>5 DEF RenewalStep, RenewalEnds, RenewSent, RenewExecuted, RenewConfirmed,
                RenewRefused, RenewFails
  <2>6. QED
    BY <2>3, <2>4, <2>5
    DEF Next, Start, AddChecked, AddRefused, ReplayFailed, ProcessorReturns, StopBegins, Crash
<1>2. Init => CutInv
  BY DEF Init, CutInv, Cuts, At, Idle
<1>3. QED
  BY <1>1, <1>2, CutNext, Base, PTL DEF Spec, VerdictStands

(* A task leaves the queue only when a processor has succeeded. *)
LEMMA LeavesDone ==
  ASSUME TypeOK, WorkerInv, Next, NEW i \in Ids, task'[i].st = "absent"
  PROVE  /\ task[i].st = "absent" \/ i \in succeeded
         /\ i \in succeeded => i \in succeeded'
         /\ producer'[i] = "accepted" => producer[i] = "accepted"
<1> USE DEF queue, life, stopper, others
<1>1. /\ worker \in [Workers -> Worker] /\ task \in [Ids -> Task]
      /\ producer \in [Ids -> {"new", "adding", "accepted"}]
  BY DEF TypeOK
<1>2. ASSUME NEW w \in Workers, WorkerStep(w)
      PROVE  /\ task[i].st = "absent" \/ i \in succeeded
             /\ succeeded' = succeeded /\ producer' = producer
  <2>1. succeeded' = succeeded /\ producer' = producer
    BY <1>2 DEF WorkerStep, Poll, SleepCut, Exit, ReceiveNothing, ReplyLost, Handle, Join,
                Decide, SettleExecuted, Finish, ReceiveClaims
  <2>2. CASE task' = task
    BY <2>1, <2>2
  <2>3. ASSUME NEW j \in Ids, ReceiveClaims(w, j) PROVE task[i].st = "absent"
    <3>1. Queue!Claim(j, w, TRUE, {})
      BY <2>3 DEF ReceiveClaims
    <3>2. task' = [task EXCEPT ![j] = [task[j] EXCEPT !.st = "claimed", !.holder = w,
                                                     !.left = Lease]]
      BY <3>1, ClaimEffect
    <3>3. task[j] \in Task
      BY <1>1
    <3>4. QED
      BY <1>1, <3>2, <3>3 DEF Task
  <2>4. CASE SettleExecuted(w)
    <3>1. worker[w].id \in Ids /\ worker[w].pc = "call" /\ Result(w) /\ Budget(w)
      BY <2>4 DEF SettleExecuted, At, WorkerInv, Shape, Active
    <3>2. CASE SettleAck(w)
      <4>1. Queue!Ack([id |-> worker[w].id, tok |-> w]) /\ worker[w].res = "nil"
        BY <3>2 DEF SettleAck, DeliveryOf, Done
      <4>2. Has(w)
        BY <3>1, <4>1, AckEffect, HasMeans DEF Active
      <4>3. worker[w].id \in succeeded
        BY <3>1, <4>1, <4>2 DEF Result
      <4>4. \A j \in Ids \ {worker[w].id} : task'[j] = task[j]
        BY <1>1, <3>1, <4>1, AckEffect
      <4>5. QED
        BY <2>1, <4>3, <4>4
    <3>3. CASE SettleRetry(w)
      <4>1. Queue!Retry([id |-> worker[w].id, tok |-> w], Delay)
        BY <3>3 DEF SettleRetry, DeliveryOf
      <4>2. task[worker[w].id].retries < MaxRetries
        BY <3>1, <3>3 DEF SettleRetry, BudgetLeft, Budget, Has, Active, Queue!Retry
      <4> DEFINE New == [task[worker[w].id] EXCEPT
                           !.st = "waiting", !.holder = "no worker", !.left = Delay,
                           !.retries = task[worker[w].id].retries + 1]
      <4>3. task' = [task EXCEPT ![worker[w].id] = New] /\ task'[worker[w].id].st = "waiting"
        BY <3>1, <4>1, <4>2, RetryEffect
      <4> HIDE DEF New
      <4>4. QED
        BY <1>1, <2>1, <3>1, <4>3
    <3>4. CASE SettleFail(w)
      <4>1. Queue!Fail([id |-> worker[w].id, tok |-> w], {})
        BY <3>4 DEF SettleFail, DeliveryOf
      <4>2. QED
        BY <1>1, <2>1, <3>1, <4>1, FailEffect
    <3>5. QED
      BY <2>2, <2>4, <3>2, <3>3, <3>4 DEF SettleExecuted
  <2>5. QED
    BY <1>2, <2>1, <2>2, <2>3, <2>4
    DEF WorkerStep, Poll, SleepCut, Exit, ReceiveNothing, ReplyLost, Handle, Join, Decide,
        Finish, Queue!Forget
<1>3. ASSUME NEW w \in Workers, RenewalStep(w)
      PROVE  task[i].st = "absent" /\ succeeded' = succeeded /\ producer' = producer
  <2>1. succeeded' = succeeded /\ producer' = producer
    BY <1>3 DEF RenewalStep, RenewalEnds, RenewSent, RenewExecuted, RenewConfirmed,
                RenewRefused, RenewFails
  <2>2. CASE RenewExecuted(w)
    <3>1. worker[w].id \in Ids /\ Queue!Renew([id |-> worker[w].id, tok |-> w])
      BY <2>2 DEF RenewExecuted, Renewal, WorkerInv, Shape, Active, DeliveryOf
    <3>2. task' = [task EXCEPT ![worker[w].id] = [task[worker[w].id] EXCEPT !.left = Lease]]
      BY <3>1, RenewEffect
    <3>3. task[worker[w].id] \in Task
      BY <1>1, <3>1
    <3>4. QED
      BY <1>1, <2>1, <3>2, <3>3 DEF Task
  <2>3. QED
    BY <1>3, <2>1, <2>2 DEF RenewalStep, RenewalEnds, RenewSent, RenewConfirmed, RenewRefused,
                            RenewFails
<1>4. CASE Start \/ StopBegins \/ StopStep
  BY <1>4 DEF Start, StopBegins, StopStep, StopClaims, Drain, StopDrained, StopTimeout,
              GraceOver, StopEnds, StopReturns
<1>5. CASE Tick
  <2>1. task'[i] = [task[i] EXCEPT !.left = Queue!Passed(task[i].left)] /\ task[i] \in Task
    BY <1>1, <1>5, TickEffect DEF Tick
  <2>2. QED
    BY <1>5, <2>1 DEF Tick, Task
<1>6. CASE Crash
  BY <1>1, <1>6 DEF Crash
<1>7. ASSUME NEW j \in Ids, AddChecked(j) \/ AddRefused(j)
      PROVE  /\ task' = task /\ succeeded' = succeeded
             /\ producer'[i] = "accepted" => producer[i] = "accepted"
  BY <1>1, <1>7 DEF AddChecked, AddRefused
<1>8. ASSUME NEW j \in Ids, AddAccepted(j)
      PROVE  task'[i] = task[i] /\ succeeded' = succeeded /\ producer'[i] = producer[i]
  <2>1. i # j /\ task'[i] = task[i]
    BY <1>8, SubmitEffect DEF AddAccepted
  <2>2. QED
    BY <1>1, <1>8, <2>1 DEF AddAccepted
<1>9. ASSUME NEW j \in Ids, ReplayFailed(j)
      PROVE  task'[i] = task[i] /\ succeeded' = succeeded \ {j} /\ i # j /\ producer' = producer
  <2>1. task'[j].st = "waiting" /\ \A k \in Ids \ {j} : task'[k] = task[k]
    BY <1>1, <1>9, ReplayEffect DEF ReplayFailed
  <2>2. QED
    BY <1>9, <2>1 DEF ReplayFailed
<1>10. ASSUME NEW w \in Workers, NEW r \in Results, ProcessorReturns(w, r)
       PROVE  task' = task /\ succeeded \subseteq succeeded' /\ producer' = producer
  BY <1>10 DEF ProcessorReturns
<1>11. CASE \E j \in Ids : AddChecked(j) \/ AddAccepted(j) \/ AddRefused(j) \/ ReplayFailed(j)
  BY <1>7, <1>8, <1>9, <1>11
<1>12. CASE \E w \in Workers : WorkerStep(w) \/ RenewalStep(w)
                               \/ \E r \in Results : ProcessorReturns(w, r)
  BY <1>2, <1>3, <1>10, <1>12
<1>13. QED
  BY <1>4, <1>5, <1>6, <1>11, <1>12 DEF Next

(* No accepted task disappears without a processor having returned nil for *)
(* it, through crashes, lost answers, takeovers and Stop.                  *)
THEOREM NoLossCorrect == Spec => []NoLoss
<1>1. Init => NoLoss
  BY DEF Init, NoLoss
<1>2. TypeOK /\ WorkerInv /\ NoLoss /\ [Next]_vars => NoLoss'
  <2>1. TypeOK /\ WorkerInv /\ NoLoss /\ Next => NoLoss'
    BY LeavesDone DEF NoLoss
  <2>2. NoLoss /\ UNCHANGED vars => NoLoss'
    BY DEF NoLoss, vars, queue
  <2>3. QED
    BY <2>1, <2>2
<1>3. QED
  BY <1>1, <1>2, Base, PTL DEF Spec

(* Where Stop can be, and who holds a delivery. *)
StopInv ==
  /\ closed => drained
  /\ drained => used /\ AllDone
  /\ stop \in {"end", "close", "returned"} /\ ~stopErr => drained
  /\ stop = "grace" => stopErr
  /\ \A d \in issued : worker[d.tok].pc \in Active \cup {"done"} /\ worker[d.tok].id = d.id

LEMMA StopKept ==
  ASSUME TypeOK, StopInv, UNCHANGED <<life, stopper, worker, issued>>
  PROVE  StopInv'
BY DEF StopInv, AllDone, At, life, stopper

(* A worker that moves is not one that has left. *)
LEMMA StopMove ==
  ASSUME TypeOK, StopInv, NEW w \in Workers, worker[w].pc # "exited",
         UNCHANGED <<life, stopper>>,
         \A v \in Workers \ {w} : worker'[v] = worker[v],
         \A d \in issued' : IF d.tok = w
                             THEN /\ worker'[w].pc \in Active \cup {"done"}
                                  /\ worker'[w].id = d.id
                             ELSE d \in issued
  PROVE  StopInv'
<1>1. ~drained
  BY DEF StopInv, AllDone, At
<1>2. ~drained' /\ closed' = closed /\ stop' = stop /\ stopErr' = stopErr
  BY <1>1 DEF life, stopper
<1>3. ASSUME NEW d \in issued'
      PROVE  worker'[d.tok].pc \in Active \cup {"done"} /\ worker'[d.tok].id = d.id
  <2>1. CASE d.tok = w
    BY <2>1
  <2>2. CASE d.tok # w
    <3>1. d \in issued /\ d.tok \in Workers
      BY <2>2 DEF TypeOK
    <3>2. QED
      BY <2>2, <3>1 DEF StopInv
  <2>3. QED
    BY <2>1, <2>2
<1>4. QED
  BY <1>1, <1>2, <1>3 DEF StopInv

LEMMA StopWorker ==
  ASSUME TypeOK, WorkerInv, StopInv, NEW w \in Workers, WorkerStep(w)
  PROVE  StopInv'
<1> USE DEF queue
<1>1. /\ worker \in [Workers -> Worker] /\ issued \in SUBSET [id : Ids, tok : Workers]
      /\ \A d \in issued : worker[d.tok].pc \in Active \cup {"done"} /\ worker[d.tok].id = d.id
  BY DEF TypeOK, StopInv
<1>2. CASE Poll(w) \/ SleepCut(w) \/ Exit(w) \/ ReceiveNothing(w)
  <2>1. /\ worker[w].pc \in {"loop", "sleep", "receive"} /\ issued' = issued
        /\ UNCHANGED <<life, stopper>> /\ \A v \in Workers \ {w} : worker'[v] = worker[v]
    <3>1. CASE Poll(w)
      BY <1>1, <3>1 DEF Poll, At, Go
    <3>2. CASE SleepCut(w)
      BY <1>1, <3>2 DEF SleepCut, At, Go
    <3>3. CASE Exit(w)
      BY <1>1, <3>3 DEF Exit, At, Go
    <3>4. CASE ReceiveNothing(w)
      BY <1>1, <3>4 DEF ReceiveNothing, At, Back
    <3>5. QED
      BY <1>2, <3>1, <3>2, <3>3, <3>4
  <2>2. QED
    BY <1>1, <2>1, StopMove DEF Active
<1>3. CASE ReplyLost(w) \/ Finish(w)
  <2>1. /\ worker[w].pc \in {"reply", "done"} /\ issued' = issued \ {DeliveryOf(w)}
        /\ UNCHANGED <<life, stopper>> /\ \A v \in Workers \ {w} : worker'[v] = worker[v]
    BY <1>1, <1>3 DEF ReplyLost, Finish, At, Back, Queue!Forget
  <2>2. \A d \in issued : d.tok = w => d = DeliveryOf(w)
    BY <1>1 DEF DeliveryOf
  <2>3. QED
    BY <1>1, <2>1, <2>2, StopMove
<1>4. CASE Handle(w) \/ Join(w) \/ Decide(w) \/ SettleExecuted(w)
  <2>1. issued' = issued
    <3>1. CASE SettleExecuted(w)
      <4>1. worker[w].id \in Ids
        BY <3>1 DEF SettleExecuted, At, WorkerInv, Shape, Active
      <4>2. QED
        BY <3>1 DEF SettleExecuted, SettleAck, SettleRetry, SettleFail, Queue!Ack, Queue!Retry,
                    Queue!Fail
    <3>2. QED
      BY <1>4, <3>1 DEF Handle, Join, Decide
  <2>2. /\ worker[w].pc \in Active /\ worker'[w].pc \in Active \cup {"done"}
        /\ worker'[w].id = worker[w].id
        /\ UNCHANGED <<life, stopper>> /\ \A v \in Workers \ {w} : worker'[v] = worker[v]
    <3>1. CASE Handle(w)
      BY <1>1, <3>1 DEF Handle, At, Go, Worker, Active
    <3>2. CASE Join(w)
      BY <1>1, <3>2 DEF Join, At, Worker, Active
    <3>3. CASE Decide(w)
      BY <1>1, <3>3 DEF Decide, At, Go, Worker, Active
    <3>4. CASE SettleExecuted(w)
      BY <1>1, <3>4 DEF SettleExecuted, At, Go, Worker, Active
    <3>5. QED
      BY <1>4, <3>1, <3>2, <3>3, <3>4
  <2>3. QED
    BY <1>1, <2>1, <2>2, StopMove DEF Active
<1>5. ASSUME NEW i \in Ids, ReceiveClaims(w, i) PROVE StopInv'
  <2>1. /\ worker[w].pc = "receive" /\ UNCHANGED <<life, stopper>>
        /\ worker'[w].pc = "reply" /\ worker'[w].id = i
        /\ \A v \in Workers \ {w} : worker'[v] = worker[v]
    BY <1>1, <1>5 DEF ReceiveClaims, At, Idle
  <2>2. issued' = issued \cup {[id |-> i, tok |-> w]}
    BY <1>5, ClaimEffect DEF ReceiveClaims
  <2>3. QED
    BY <1>1, <2>1, <2>2, StopMove DEF Active
<1>6. QED
  BY <1>2, <1>3, <1>4, <1>5 DEF WorkerStep

LEMMA StopNext == TypeOK /\ WorkerInv /\ StopInv /\ [Next]_vars => StopInv'
<1> SUFFICES ASSUME TypeOK, WorkerInv, StopInv, [Next]_vars PROVE StopInv'
  OBVIOUS
<1> USE DEF queue
<1>1. /\ worker \in [Workers -> Worker] /\ issued \in SUBSET [id : Ids, tok : Workers]
      /\ stop \in {"idle", "cancel", "drain", "grace", "end", "close", "returned"}
      /\ drained \in BOOLEAN
  BY DEF TypeOK
<1>2. ASSUME NEW w \in Workers, RenewalStep(w) PROVE StopInv'
  BY <1>2, StopKept DEF RenewalStep, RenewalEnds, RenewSent, RenewExecuted, RenewConfirmed,
                        RenewRefused, RenewFails, Queue!Renew
<1>3. ASSUME NEW w \in Workers, NEW r \in Results, ProcessorReturns(w, r) PROVE StopInv'
  <2>1. /\ worker[w].pc = "process" /\ worker'[w].pc = "join" /\ issued' = issued
        /\ worker'[w].id = worker[w].id
        /\ UNCHANGED <<life, stopper>> /\ \A v \in Workers \ {w} : worker'[v] = worker[v]
    BY <1>1, <1>3 DEF ProcessorReturns, At, Worker
  <2>2. \A d \in issued : worker[d.tok].id = d.id
    BY DEF StopInv
  <2>3. QED
    BY <1>1, <2>1, <2>2, StopMove DEF Active
<1>4. ASSUME NEW i \in Ids, AddChecked(i) \/ AddAccepted(i) \/ AddRefused(i) \/ ReplayFailed(i)
      PROVE  StopInv'
  BY <1>4, StopKept DEF AddChecked, AddAccepted, AddRefused, ReplayFailed, Queue!Submit,
                        Queue!ReplayFailed
<1>5. CASE Start
  <2>1. ~drained /\ \A w \in Workers : worker[w].pc = "off"
    BY <1>5 DEF Start, StopInv, WorkerInv, Shape
  <2>2. issued = {}
    BY <1>1, <2>1 DEF StopInv, Active
  <2>3. QED
    BY <1>5, <2>1, <2>2 DEF Start, StopInv, stopper
<1>6. CASE StopBegins \/ StopStep
  <2>1. UNCHANGED <<issued, worker, used>>
    BY <1>6 DEF StopBegins, StopStep, StopClaims, Drain, StopDrained, StopTimeout, GraceOver,
                StopEnds, StopReturns, life
  <2>2. \A d \in issued' : worker'[d.tok].pc \in Active \cup {"done"} /\ worker'[d.tok].id = d.id
    BY <2>1 DEF StopInv
  <2>3. AllDone' <=> AllDone
    BY <2>1 DEF AllDone, At
  <2>4. CASE StopReturns
    BY <2>1, <2>2, <2>3, <2>4 DEF StopReturns, StopInv
  <2>5. CASE Drain
    <3>1. used
      <4>1. PICK w \in Workers : TRUE
        OBVIOUS
      <4>2. worker[w].pc = "exited"
        BY <2>5 DEF Drain, AllDone, At
      <4>3. QED
        BY <4>2 DEF WorkerInv, Shape
    <3>2. QED
      BY <2>1, <2>2, <2>3, <2>5, <3>1 DEF Drain, StopInv, life
  <2>6. CASE StopBegins \/ StopClaims \/ StopDrained \/ StopTimeout \/ GraceOver \/ StopEnds
    <3>1. drained' = drained /\ closed' = closed
      BY <2>6 DEF StopBegins, StopClaims, StopDrained, StopTimeout, GraceOver, StopEnds, life
    <3>2. /\ stop' \in {"end", "close", "returned"} /\ ~stopErr' => drained
          /\ stop' = "grace" => stopErr'
        BY <2>6 DEF StopInv, StopBegins, StopClaims, StopDrained, StopTimeout, GraceOver,
                          StopEnds
    <3>3. QED
      BY <2>1, <2>2, <2>3, <3>1, <3>2 DEF StopInv
  <2>7. QED
    BY <1>6, <2>4, <2>5, <2>6 DEF StopStep
<1>7. CASE Tick
  <2>1. issued' = issued /\ UNCHANGED <<life, stopper>>
    BY <1>7 DEF Tick, Queue!Tick
  <2>2. \A w \in Workers :
          /\ worker[w].pc # "sleep" => worker'[w] = worker[w]
          /\ worker[w].pc = "exited" => worker'[w].pc = "exited"
    BY <1>7 DEF Tick, At
  <2>3. ASSUME NEW d \in issued
        PROVE  worker'[d.tok].pc \in Active \cup {"done"} /\ worker'[d.tok].id = d.id
    BY <1>1, <2>2 DEF StopInv, Active
  <2>4. AllDone => AllDone'
    BY <2>2 DEF AllDone, At
  <2>5. QED
    BY <2>1, <2>3, <2>4 DEF StopInv, life, stopper
<1>8. CASE Crash
  BY <1>8 DEF Crash, NewProcess, StopInv
<1>9. CASE UNCHANGED vars
  BY <1>9, StopKept DEF vars
<1>10. QED
  BY <1>2, <1>3, <1>4, <1>5, <1>6, <1>7, <1>8, <1>9, StopWorker DEF Next

(* Stop closes the engine, and returns nil, only when no worker, no        *)
(* renewal and no delivery is left (manager.go 149-153, 182-188).          *)
THEOREM StopCleanCorrect == Spec => []StopClean
<1>1. Init => StopInv
  BY DEF Init, StopInv, Queue!Init
<1>2. TypeOK /\ WorkerInv /\ StopInv => StopClean
  <2> SUFFICES ASSUME TypeOK, WorkerInv, StopInv, drained PROVE NobodyLeft
    BY DEF StopInv, StopClean
  <2>1. \A w \in Workers : At(w, "exited") /\ Renewal(w, "off")
    BY DEF StopInv, AllDone, At, Renewal, WorkerInv, Shape
  <2>2. issued = {}
    BY <2>1 DEF StopInv, TypeOK, At, Active
  <2>3. QED
    BY <2>1, <2>2 DEF NobodyLeft
<1>3. QED
  BY <1>1, <1>2, StopNext, Base, PTL DEF Spec
----------------------------------------------------------------------------
(***************************************************************************)
(* How old the local lease can be when goroutines run on time.  Before the *)
(* renewal goroutine runs, at most as old as the Receive took; while it    *)
(* waits for its ticker, younger than the lease, or just as old when the   *)
(* ticker has fired; during a call, what it was at the start of the call   *)
(* and what the call has taken.  It leaves the processor only cancelled.   *)
(***************************************************************************)
Told(w) ==
  /\ worker[w].pc \in {"off", "loop", "sleep", "exited"} => renewal[w] = NoRenewal
  /\ worker[w].pc \in {"receive", "reply"} => renewal[w].age <= 1
  /\ renewal[w].pc = "wait" =>
       renewal[w].age <= Lease /\ (~renewal[w].due => renewal[w].age < Lease)
  /\ renewal[w].pc \in {"call", "ok"} =>
       renewal[w].sent <= 1 /\ renewal[w].age <= Lease + renewal[w].sent
  /\ worker[w].pc = "process" /\ renewal[w].pc = "off" => Cancelled(w)

ToldInv == \A w \in Workers : Told(w)

(* A step that leaves a worker, its renewal and its contexts alone. *)
LEMMA ToldSame ==
  ASSUME NEW w \in Workers, Told(w), worker'[w] = worker[w], renewal'[w] = renewal[w],
         procStop => procStop'
  PROVE  Told(w)'
BY DEF Told, Cancelled

LEMMA ToldWorker ==
  ASSUME TypeOK, WorkerInv, ToldInv, NEW w \in Workers, WorkerStep(w)
  PROVE  ToldInv'
<1>1. worker \in [Workers -> Worker] /\ renewal \in [Workers -> RenewalState] /\ renewal[w] \in RenewalState
  BY DEF TypeOK
<1>2. procStop' = procStop
  BY DEF WorkerStep, Poll, SleepCut, Exit, ReceiveNothing, ReplyLost, Handle, Join, Decide,
         SettleExecuted, Finish,
         ReceiveClaims, life
<1>3. \A v \in Workers \ {w} : worker'[v] = worker[v] /\ renewal'[v] = renewal[v]
  BY <1>1 DEF WorkerStep, Poll, SleepCut, Exit, ReceiveNothing, ReplyLost, Handle, Join, Decide,
              SettleExecuted, Finish, ReceiveClaims, Go, Back
<1>4. \A v \in Workers \ {w} : Told(v)'
  BY <1>2, <1>3, ToldSame DEF ToldInv
<1>5. Told(w) /\ Shape(w)
  BY DEF ToldInv, WorkerInv
<1>6. CASE Poll(w) \/ SleepCut(w) \/ Exit(w)
  <2>1. /\ worker[w].pc \in {"loop", "sleep"} /\ worker'[w].pc \in {"loop", "exited", "receive"}
        /\ renewal'[w] = renewal[w]
    BY <1>1, <1>6 DEF Poll, SleepCut, Exit, At, Go, Worker
  <2>2. renewal[w] = NoRenewal
    BY <1>5, <2>1 DEF Told
  <2>3. QED
    BY <1>4, <2>1, <2>2 DEF Told, ToldInv, NoRenewal
<1>7. CASE ReceiveNothing(w) \/ ReplyLost(w) \/ Finish(w)
  <2>1. worker'[w].pc \in {"loop", "sleep"} /\ renewal'[w] = NoRenewal
    BY <1>1, <1>7 DEF ReceiveNothing, ReplyLost, Finish, Back, Idle
  <2>2. QED
    BY <1>4, <2>1 DEF Told, ToldInv, NoRenewal
<1>8. CASE Handle(w)
  <2>1. /\ worker[w].pc = "reply" /\ worker'[w].pc = "process"
        /\ renewal'[w].pc = "wait" /\ renewal'[w].age = renewal[w].age
    BY <1>1, <1>8 DEF Handle, At, Go, Worker, RenewalState
  <2>2. renewal[w].age <= 1 /\ renewal[w].age \in Nat
    BY <1>1, <1>5, <2>1 DEF Told, RenewalState
  <2>3. QED
    BY <1>4, <2>1, <2>2 DEF Told, ToldInv, Lease
<1>9. CASE Join(w) \/ Decide(w) \/ SettleExecuted(w)
  <2>1. worker'[w].pc \in {"settle", "call", "done"} /\ renewal'[w] = renewal[w]
    BY <1>1, <1>9 DEF Join, Decide, SettleExecuted, Go, Worker
  <2>2. QED
    BY <1>4, <1>5, <2>1 DEF Told, ToldInv
<1>10. ASSUME NEW i \in Ids, ReceiveClaims(w, i) PROVE ToldInv'
  <2>1. worker[w].pc = "receive" /\ worker'[w].pc = "reply" /\ renewal'[w] = renewal[w]
    BY <1>1, <1>10 DEF ReceiveClaims, At, Idle
  <2>2. QED
    BY <1>4, <1>5, <2>1 DEF Told, ToldInv
<1>11. QED
  BY <1>6, <1>7, <1>8, <1>9, <1>10 DEF WorkerStep

LEMMA ToldRenewal ==
  ASSUME TypeOK, ToldInv, NEW w \in Workers, RenewalStep(w)
  PROVE  ToldInv'
<1>1. /\ renewal \in [Workers -> RenewalState] /\ renewal[w] \in RenewalState
      /\ UNCHANGED <<worker, procStop>>
  BY DEF TypeOK, RenewalStep, RenewalEnds, RenewSent, RenewExecuted, RenewConfirmed, RenewRefused,
         RenewFails, life
<1>2. \A v \in Workers \ {w} : renewal'[v] = renewal[v]
  BY <1>1 DEF RenewalStep, RenewalEnds, RenewSent, RenewExecuted, RenewConfirmed, RenewRefused,
              RenewFails, GiveUp
<1>3. \A v \in Workers \ {w} : Told(v)'
  BY <1>1, <1>2, ToldSame DEF ToldInv
<1>4. /\ Told(w) /\ renewal[w].age \in Nat /\ renewal[w].sent \in Nat /\ renewal[w].pc # "off"
      /\ worker[w].pc \notin {"off", "loop", "sleep", "exited"}
  <2>1. Told(w) /\ renewal[w].age \in Nat /\ renewal[w].sent \in Nat
    BY <1>1 DEF ToldInv, RenewalState
  <2>2. renewal[w].pc \in {"wait", "call", "ok"}
    BY DEF RenewalStep, RenewalEnds, RenewSent, RenewExecuted, RenewConfirmed, RenewRefused,
           RenewFails, Renewal
  <2>3. QED
    BY <2>1, <2>2 DEF Told, NoRenewal
<1>5. CASE RenewalEnds(w)
  <2>1. /\ Cancelled(w) /\ renewal'[w].pc = "off" /\ renewal'[w].age = renewal[w].age
        /\ renewal'[w].cancel = renewal[w].cancel
    BY <1>1, <1>5 DEF RenewalEnds, RenewalState
  <2>2. QED
    BY <1>1, <1>3, <1>4, <2>1 DEF Told, ToldInv, Cancelled
<1>6. CASE RenewSent(w)
  <2>1. /\ renewal[w].pc = "wait" /\ renewal'[w].pc = "call" /\ renewal'[w].age = renewal[w].age
        /\ renewal'[w].sent = 0
    BY <1>1, <1>6 DEF RenewSent, Renewal, RenewalState
  <2>2. renewal[w].age <= Lease
    BY <1>4, <2>1 DEF Told
  <2>3. QED
    BY <1>1, <1>3, <1>4, <2>1, <2>2 DEF Told, ToldInv, Lease
<1>7. CASE RenewExecuted(w)
  <2>1. /\ renewal[w].pc = "call" /\ renewal'[w].pc = "ok" /\ renewal'[w].age = renewal[w].age
        /\ renewal'[w].sent = renewal[w].sent
    BY <1>1, <1>7 DEF RenewExecuted, Renewal, RenewalState
  <2>2. QED
    BY <1>1, <1>3, <1>4, <2>1 DEF Told, ToldInv
<1>8. CASE RenewConfirmed(w)
  <2>1. /\ renewal[w].pc = "ok" /\ renewal'[w].pc = "wait" /\ renewal'[w].age = renewal[w].sent
    BY <1>1, <1>8 DEF RenewConfirmed, Renewal, RenewalState, LocalStart
  <2>2. renewal[w].sent <= 1
    BY <1>4, <2>1 DEF Told
  <2>3. worker[w].pc \in {"receive", "reply"} => renewal'[w].age <= 1
    BY <2>1, <2>2
  <2>4. QED
    BY <1>1, <1>3, <1>4, <2>1, <2>2, <2>3 DEF Told, ToldInv, Lease
<1>9. CASE (RenewRefused(w) \/ RenewFails(w)) /\ GiveUp(w)
  <2>1. renewal'[w].pc = "off" /\ renewal'[w].cancel /\ renewal'[w].age = renewal[w].age
    BY <1>1, <1>9 DEF GiveUp, RenewalState
  <2>2. QED
    BY <1>1, <1>3, <1>4, <2>1 DEF Told, ToldInv, Cancelled
<1>10. CASE RenewFails(w) /\ ~PresumedExpired(w)
  <2>1. renewal'[w].pc = "wait" /\ renewal'[w].age = renewal[w].age
    BY <1>1, <1>10 DEF RenewFails, RenewalState
  <2>2. renewal[w].age < Lease
    BY <1>4, <1>10 DEF PresumedExpired, Lease
  <2>3. QED
    BY <1>1, <1>3, <1>4, <2>1, <2>2 DEF Told, ToldInv, Lease
<1>11. QED
  BY <1>5, <1>6, <1>7, <1>8, <1>9, <1>10 DEF RenewalStep, RenewRefused, RenewFails

(* A tick finds no goroutine with something to do. *)
LEMMA ToldTick ==
  ASSUME Punctual, CallTime <= 1, TypeOK, WorkerInv, ToldInv, Tick
  PROVE  ToldInv'
<1> SUFFICES ASSUME NEW w \in Workers PROVE Told(w)'
  BY DEF ToldInv
<1>1. /\ worker[w] \in Worker /\ renewal[w] \in RenewalState /\ Told(w) /\ ~Busy(w) /\ Shape(w)
      /\ renewal'[w] = Aged(w) /\ procStop' = procStop
  BY DEF TypeOK, ToldInv, Tick, life, WorkerInv
<1>2. /\ renewal[w].age \in Nat /\ renewal[w].sent \in Nat
      /\ \A k \in Nat : Older(k) \in Nat /\ Older(k) <= k + 1
  BY <1>1 DEF RenewalState, Older
<1>3. CASE worker[w].pc \in {"off", "loop", "sleep", "exited"}
  <2>1. worker'[w].pc \in {"off", "loop", "exited"}
    BY <1>1, <1>3 DEF Tick, At, Worker
  <2>2. renewal'[w] = NoRenewal
    BY <1>1, <1>3 DEF Aged, Told
  <2>3. QED
    BY <2>1, <2>2 DEF Told, NoRenewal
<1>4. CASE worker[w].pc \notin {"off", "loop", "sleep", "exited"}
  <2>1. worker'[w] = worker[w]
    BY <1>4 DEF Tick, At
  <2>2. /\ renewal'[w].pc = renewal[w].pc /\ renewal'[w].cancel = renewal[w].cancel
        /\ renewal'[w].age = Older(renewal[w].age)
        /\ renewal[w].pc \in {"call", "ok"} => renewal'[w].sent = Older(renewal[w].sent)
        /\ renewal[w].pc # "off" => renewal'[w].due
    BY <1>1, <1>4 DEF Aged, RenewalState
  <2>3. worker[w].pc \in {"receive", "reply"} => renewal'[w].age <= 1
    BY <1>1, <1>2, <2>2 DEF Busy
  <2>4. renewal[w].pc = "wait" => renewal'[w].age <= Lease
    BY <1>1, <1>2, <2>2 DEF Busy, Renewal, Told, Lease
  <2>5. renewal[w].pc \in {"call", "ok"} =>
          renewal'[w].sent <= 1 /\ renewal'[w].age <= Lease + renewal'[w].sent
    <3> SUFFICES ASSUME renewal[w].pc \in {"call", "ok"}
                 PROVE  renewal'[w].sent <= 1 /\ renewal'[w].age <= Lease + renewal'[w].sent
      OBVIOUS
    <3>1. renewal[w].sent = 0
      <4>1. ~(renewal[w].sent >= CallTime)
        BY <1>1, Zenon DEF Busy
      <4>2. \A k \in Nat : ~(k >= CallTime) => k = 0
        OBVIOUS
      <4>3. renewal[w].sent \in Nat
        BY <1>2
      <4>4. QED
        BY ONLY <4>1, <4>2, <4>3
    <3>2. renewal'[w].sent = 1
      BY <2>2, <3>1 DEF Older
    <3>3. renewal[w].age <= Lease
      BY <1>1, <3>1 DEF Told, Lease
    <3>4. QED
      BY <1>2, <2>2, <3>2, <3>3 DEF Lease
  <2>6. QED
    BY <1>1, <1>4, <2>1, <2>2, <2>3, <2>4, <2>5 DEF Told, Cancelled
<1>5. QED
  BY <1>3, <1>4

LEMMA ToldNext ==
  ASSUME Punctual, CallTime <= 1
  PROVE  TypeOK /\ WorkerInv /\ ToldInv /\ [Next]_vars => ToldInv'
<1> SUFFICES ASSUME TypeOK, WorkerInv, ToldInv, [Next]_vars PROVE ToldInv'
  OBVIOUS
<1>0. worker \in [Workers -> Worker] /\ renewal \in [Workers -> RenewalState]
  BY DEF TypeOK
<1>1. ASSUME UNCHANGED <<worker, renewal>>, procStop => procStop' PROVE ToldInv'
  BY <1>1, ToldSame DEF ToldInv
<1>2. CASE Start
  <2>1. \A w \in Workers : worker[w].pc = "off"
    BY <1>2 DEF Start, WorkerInv, Shape
  <2>2. \A w \in Workers : renewal'[w] = NoRenewal /\ worker'[w].pc = "loop"
    BY <1>2, <2>1 DEF Start, ToldInv, Told, Idle
  <2>3. QED
    BY <2>2 DEF ToldInv, Told, NoRenewal
<1>3. ASSUME NEW i \in Ids, AddChecked(i) \/ AddAccepted(i) \/ AddRefused(i) \/ ReplayFailed(i)
      PROVE  ToldInv'
  BY <1>1, <1>3 DEF AddChecked, AddAccepted, AddRefused, ReplayFailed, life
<1>4. ASSUME NEW w \in Workers, NEW r \in Results, ProcessorReturns(w, r) PROVE ToldInv'
  <2>1. /\ worker'[w].pc = "join" /\ renewal'[w].pc = renewal[w].pc
        /\ renewal'[w].age = renewal[w].age /\ renewal'[w].sent = renewal[w].sent
        /\ renewal'[w].due = renewal[w].due
    BY <1>0, <1>4 DEF ProcessorReturns, Worker, RenewalState
  <2>2. Told(w)'
    BY <2>1 DEF Told, ToldInv
  <2>3. \A v \in Workers \ {w} : worker'[v] = worker[v] /\ renewal'[v] = renewal[v]
    BY <1>0, <1>4 DEF ProcessorReturns
  <2>4. procStop' = procStop
    BY <1>4 DEF ProcessorReturns, life
  <2>5. QED
    BY <2>2, <2>3, <2>4, ToldSame DEF ToldInv
<1>5. CASE StopBegins \/ StopStep
  BY <1>1, <1>5 DEF StopBegins, StopStep, StopClaims, Drain, StopDrained, StopTimeout, GraceOver,
                    StopEnds, StopReturns, life
<1>6. CASE Crash
  <2>1. \A w \in Workers : renewal'[w] = NoRenewal /\ worker'[w].pc = "off"
    BY <1>6 DEF Crash, NewProcess, Idle
  <2>2. QED
    BY <2>1 DEF ToldInv, Told, NoRenewal
<1>7. CASE UNCHANGED vars
  BY <1>1, <1>7 DEF vars, life
<1>8. QED
  BY <1>2, <1>3, <1>4, <1>5, <1>6, <1>7, ToldWorker, ToldRenewal, ToldTick DEF Next

(* A processor that the lease no longer covers has been told so before one
   more interval has passed, in every run in which goroutines run on time and
   a call takes at most the interval Renew is limited to (manager.go 362,
   375). *)
THEOREM ToldSoonCorrect ==
  ASSUME Punctual, CallTime <= 1
  PROVE  Spec => []ToldSoon
<1>1. Init => ToldInv
  BY DEF Init, ToldInv, Told, NoRenewal, Idle
<1>2. TypeOK /\ WorkerInv /\ ToldInv => ToldSoon
  <2> SUFFICES ASSUME TypeOK, ToldInv, NEW w \in Workers, At(w, "process"), ~Cancelled(w)
               PROVE  renewal[w].age <= Lease + 1
    BY DEF ToldSoon
  <2>1. /\ Told(w) /\ renewal[w].age \in Nat /\ renewal[w].sent \in Nat
        /\ renewal[w].pc \in {"off", "wait", "call", "ok"}
    BY DEF ToldInv, TypeOK, RenewalState
  <2>2. renewal[w].pc # "off"
    BY <2>1 DEF Told, At
  <2>3. QED
    BY <2>1, <2>2 DEF Told, Lease
<1>3. QED
  BY <1>1, <1>2, ToldNext, Base, PTL DEF Spec
=============================================================================
