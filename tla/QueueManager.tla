---------------------------- MODULE QueueManager ----------------------------
(***************************************************************************)
(* pkg/queue/manager.go: the workers of one Manager, the goroutine that    *)
(* renews the lease of each delivery being processed, Start, Stop and the  *)
(* producers, over the promise of the engine (ReliableQueue).              *)
(*                                                                         *)
(* The unit of time is the renewal interval, LeaseDuration/3.  A call to   *)
(* the engine is two steps, its execution and the arrival of its answer,   *)
(* so that time can pass and others can act in between.                    *)
(***************************************************************************)
EXTENDS Integers, FiniteSets

CONSTANTS
  Ids,         \* tasks, each submitted once
  Workers,     \* Config.WorkerCount goroutines
  MaxRetries,  \* Config.MaxRetries
  Delay,       \* what retryDelay yields, in ticks
  Punctual,    \* goroutines run before the clock moves on
  CallTime,    \* if Punctual: how many ticks a call may take
  MaxAge,      \* bound: ages of a lease are counted up to this one
  CanStop,     \* somebody may call Stop
  MaxFaults,   \* bound: calls that fail for no reason of the queue
  MaxCrashes   \* bound: times the process dies and is started again

ASSUME ManagerAssumption ==
  /\ MaxAge \in Nat /\ MaxAge >= 3
  /\ MaxRetries \in Nat /\ Delay \in Nat /\ CallTime \in Nat
  /\ Punctual \in BOOLEAN /\ CanStop \in BOOLEAN
  /\ MaxFaults \in Nat /\ MaxCrashes \in Nat
  /\ IsFiniteSet(Workers) /\ Workers # {}

VARIABLES
  task, doneLeft, issued,  \* the queue: see ReliableQueue
  status,    \* Manager.status
  used,      \* Manager.used
  claimStop, \* claimCtx is cancelled
  procStop,  \* procCtx is cancelled
  closed,    \* the engine is closed
  stop,      \* where the one Stop call is
  stopErr,   \* its stopErr is not nil
  drained,   \* its channel done is closed
  worker,    \* the worker goroutines
  renewal,   \* the renewal goroutine of each worker
  producer,  \* where the AddData call of each task is
  succeeded, \* history: tasks a processor has returned nil for
  faults, crashes

queue   == <<task, doneLeft, issued>>
life    == <<status, used, claimStop, procStop, closed>>
stopper == <<stop, stopErr, drained>>
others  == <<faults, crashes>>
vars    == <<queue, life, stopper, worker, renewal, producer, succeeded, others>>

----------------------------------------------------------------------------
(* LeaseDuration in renewal intervals. *)
Lease == 3

NoTask == "no task"

(* A token is drawn for every claim and given up before the worker's next
   one: the worker itself can stand for it. *)
Queue == INSTANCE ReliableQueue WITH
  Contents <- {"payload"}, Tokens <- Workers, NoToken <- "no worker",
  DedupWindow <- 0, Retention <- 0, Delays <- {Delay}

Results == {"nil", "retryable", "fatal", "panic"}

(* "off" before Start, "exited" after the loop; the others are the points of
   workOnce, handle and settle.  lost: what handle read of leaseLost; cut,
   history: Stop had cancelled procCtx when the processor returned. *)
Idle == [pc |-> "off", id |-> NoTask, retries |-> 0, res |-> "nil", lost |-> FALSE,
         cut |-> FALSE]

(* age: time since lastOK; sent: time since sentAt; due: the ticker has
   fired; lost: leaseLost; cancel: the context of this delivery is cancelled. *)
NoRenewal == [pc |-> "off", age |-> 0, sent |-> 0, due |-> FALSE, lost |-> FALSE,
              cancel |-> FALSE]

Task == [st : {"absent", "waiting", "claimed", "failed"}, content : {"payload"},
         stable : {FALSE}, retries : 0..MaxRetries, holder : Workers \cup {"no worker"},
         left : Nat]

Worker == [pc : {"off", "loop", "sleep", "receive", "reply", "process", "join", "settle",
                 "call", "done", "exited"},
           id : Ids \cup {NoTask}, retries : 0..MaxRetries, res : Results, lost : BOOLEAN,
           cut : BOOLEAN]

RenewalState == [pc : {"off", "wait", "call", "ok"}, age : 0..MaxAge, sent : 0..MaxAge,
                 due : BOOLEAN, lost : BOOLEAN, cancel : BOOLEAN]

(* The type invariant; the retry count of a task stays in its budget. *)
TypeOK ==
  /\ task \in [Ids -> Task]
  /\ doneLeft \in [Ids -> Nat]
  /\ issued \in SUBSET [id : Ids, tok : Workers]
  /\ status \in {"stopped", "running", "stopping"}
  /\ used \in BOOLEAN /\ claimStop \in BOOLEAN /\ procStop \in BOOLEAN /\ closed \in BOOLEAN
  /\ stop \in {"idle", "cancel", "drain", "grace", "end", "close", "returned"}
  /\ stopErr \in BOOLEAN /\ drained \in BOOLEAN
  /\ worker \in [Workers -> Worker]
  /\ renewal \in [Workers -> RenewalState]
  /\ producer \in [Ids -> {"new", "adding", "accepted"}]
  /\ succeeded \in SUBSET Ids
  /\ faults \in 0..MaxFaults /\ crashes \in 0..MaxCrashes

NewProcess ==
  /\ status' = "stopped" /\ used' = FALSE
  /\ claimStop' = FALSE /\ procStop' = FALSE /\ closed' = FALSE
  /\ stop' = "idle" /\ stopErr' = FALSE /\ drained' = FALSE
  /\ worker' = [w \in Workers |-> Idle]
  /\ renewal' = [w \in Workers |-> NoRenewal]

Init ==
  /\ Queue!Init
  /\ status = "stopped" /\ used = FALSE
  /\ claimStop = FALSE /\ procStop = FALSE /\ closed = FALSE
  /\ stop = "idle" /\ stopErr = FALSE /\ drained = FALSE
  /\ worker = [w \in Workers |-> Idle]
  /\ renewal = [w \in Workers |-> NoRenewal]
  /\ producer = [i \in Ids |-> "new"]
  /\ succeeded = {} /\ faults = 0 /\ crashes = 0

----------------------------------------------------------------------------
At(w, pc) == worker[w].pc = pc

Go(w, pc) == worker' = [worker EXCEPT ![w] = [worker[w] EXCEPT !.pc = pc]]

(* The worker is done with this delivery. *)
Back(w, pc) ==
  /\ worker' = [worker EXCEPT ![w] = [Idle EXCEPT !.pc = pc]]
  /\ renewal' = [renewal EXCEPT ![w] = NoRenewal]

DeliveryOf(w) == [id |-> worker[w].id, tok |-> w]

(* A call fails although the queue would have answered it. *)
Fault == faults < MaxFaults /\ faults' = faults + 1 /\ UNCHANGED crashes

(* Mutant of Cancelled: the renewal is given a context nobody cancels. *)
NeverCancelled(w) == FALSE

(* The context handed to the processor is a child of procCtx. *)
Cancelled(w) == renewal[w].cancel \/ procStop

----------------------------------------------------------------------------
(* Start and the producers *)

Start ==
  /\ status = "stopped" /\ ~used
  /\ used' = TRUE /\ status' = "running"
  /\ claimStop' = FALSE /\ procStop' = FALSE
  /\ worker' = [w \in Workers |-> [Idle EXCEPT !.pc = "loop"]]
  /\ UNCHANGED <<queue, closed, stopper, renewal, producer, succeeded, others>>

(* add looks at the status, and calls the engine without holding a lock. *)
AddChecked(i) ==
  /\ producer[i] = "new" /\ status = "running"
  /\ producer' = [producer EXCEPT ![i] = "adding"]
  /\ UNCHANGED <<queue, life, stopper, worker, renewal, succeeded, others>>

(* Closing the engine does not keep a late call out of Redis, whose engine
   has nothing to close; the engine in memory refuses it. *)
AddAccepted(i) ==
  /\ producer[i] = "adding"
  /\ Queue!Submit(i, "payload", FALSE, {})
  /\ producer' = [producer EXCEPT ![i] = "accepted"]
  /\ UNCHANGED <<life, stopper, worker, renewal, succeeded, others>>

AddRefused(i) ==
  /\ producer[i] = "adding" /\ closed
  /\ producer' = [producer EXCEPT ![i] = "new"]
  /\ UNCHANGED <<queue, life, stopper, worker, renewal, succeeded, others>>

ReplayFailed(i) ==
  /\ Queue!ReplayFailed(i)
  /\ succeeded' = succeeded \ {i}
  /\ UNCHANGED <<life, stopper, worker, renewal, producer, others>>

----------------------------------------------------------------------------
(* workerLoop and workOnce *)

(* receiveStart is taken here, before the request is sent: the age of the
   lease starts to count. *)
Poll(w) ==
  /\ At(w, "loop") /\ ~claimStop
  /\ Go(w, "receive")
  /\ UNCHANGED <<queue, life, stopper, renewal, producer, succeeded, others>>

(* sleep is cut short when claims are stopped; otherwise see Tick. *)
SleepCut(w) ==
  /\ At(w, "sleep") /\ claimStop
  /\ Go(w, "loop")
  /\ UNCHANGED <<queue, life, stopper, renewal, producer, succeeded, others>>

Exit(w) ==
  /\ At(w, "loop") /\ claimStop
  /\ Go(w, "exited")
  /\ UNCHANGED <<queue, life, stopper, renewal, producer, succeeded, others>>

ReceiveClaims(w, i) ==
  /\ At(w, "receive")
  /\ Queue!Claim(i, w, TRUE, {})
  /\ worker' = [worker EXCEPT ![w] =
                  [Idle EXCEPT !.pc = "reply", !.id = i, !.retries = task[i].retries]]
  /\ UNCHANGED <<life, stopper, renewal, producer, succeeded, others>>

(* The queue is empty, or the request fails before it is executed. *)
ReceiveNothing(w) ==
  /\ At(w, "receive")
  /\ \/ (\A i \in Ids : ~Queue!Claimable(i)) /\ UNCHANGED others
     \/ (claimStop \/ closed) /\ UNCHANGED others
     \/ Fault
  /\ Back(w, "sleep")
  /\ UNCHANGED <<queue, life, stopper, producer, succeeded>>

(* The answer is lost, or the context of the call is cancelled before it
   comes: a claim nobody knows of. *)
ReplyLost(w) ==
  /\ At(w, "reply")
  /\ Fault \/ (claimStop /\ UNCHANGED others)
  /\ Queue!Forget(DeliveryOf(w))
  /\ Back(w, "sleep")
  /\ UNCHANGED <<life, stopper, producer, succeeded>>

(* handle starts the renewal goroutine and the processor. *)
Handle(w) ==
  /\ At(w, "reply")
  /\ Go(w, "process")
  /\ renewal' = [renewal EXCEPT ![w] = [renewal[w] EXCEPT !.pc = "wait"]]
  /\ UNCHANGED <<queue, life, stopper, producer, succeeded, others>>

(* Mutant of CancelOnReturn: the cancel is left to the defer of handle, which
   runs after the wait for the renewal. *)
OnlyDeferred(w) == renewal[w].cancel

CancelOnReturn(w) == TRUE

(* The processor comes back, whether its context was cancelled or not. *)
ProcessorReturns(w, r) ==
  /\ At(w, "process")
  /\ worker' = [worker EXCEPT ![w] = [worker[w] EXCEPT !.pc = "join", !.res = r,
                                                        !.cut = procStop]]
  /\ renewal' = [renewal EXCEPT ![w] = [renewal[w] EXCEPT !.cancel = CancelOnReturn(w)]]
  /\ succeeded' = IF r = "nil" THEN succeeded \cup {worker[w].id} ELSE succeeded
  /\ UNCHANGED <<queue, life, stopper, producer, others>>

(* Mutant of Join: leaseLost is read without waiting for renewDone. *)
JoinAtOnce(w) ==
  /\ At(w, "join")
  /\ worker' = [worker EXCEPT ![w] = [worker[w] EXCEPT !.pc = "settle", !.lost = renewal[w].lost]]
  /\ UNCHANGED <<queue, life, stopper, renewal, producer, succeeded, others>>

Join(w) ==
  /\ At(w, "join") /\ renewal[w].pc = "off"
  /\ worker' = [worker EXCEPT ![w] = [worker[w] EXCEPT !.pc = "settle", !.lost = renewal[w].lost]]
  /\ UNCHANGED <<queue, life, stopper, renewal, producer, succeeded, others>>

----------------------------------------------------------------------------
(* settle *)

Panicked(w) == worker[w].res = "panic"

(* Mutant of Interrupted: a cancelled run counts like any other. *)
NeverInterrupted(w) == FALSE

(* A result that came after Stop had cancelled the processor says nothing. *)
Interrupted(w) == worker[w].res \in {"retryable", "fatal"} /\ procStop

LeaveForRecovery(w) == worker[w].lost \/ Interrupted(w)

(* Mutant of BudgetLeft: one retry too many. *)
BudgetLeftOff(w) == worker[w].retries <= MaxRetries

BudgetLeft(w) == worker[w].retries < MaxRetries

(* Mutant of Done: a task out of its budget is acknowledged, not retained. *)
DoneOrGivenUp(w) ==
  worker[w].res = "nil" \/ (worker[w].res = "retryable" /\ worker[w].retries = MaxRetries)

Done(w) == worker[w].res = "nil"

SettleAck(w) == Done(w) /\ Queue!Ack(DeliveryOf(w))

SettleRetry(w) ==
  /\ worker[w].res = "retryable" \/ Panicked(w)
  /\ BudgetLeft(w)
  /\ Queue!Retry(DeliveryOf(w), Delay)

SettleFail(w) ==
  /\ \/ worker[w].res = "fatal"
     \/ (worker[w].res = "retryable" \/ Panicked(w)) /\ ~BudgetLeft(w)
  /\ Queue!Fail(DeliveryOf(w), {})

(* settle looks at the verdict on the lease and at procCtx; Stop may cancel
   the latter at any moment after that. *)
Decide(w) ==
  /\ At(w, "settle")
  /\ Go(w, IF LeaveForRecovery(w) THEN "done" ELSE "call")
  /\ UNCHANGED <<queue, life, stopper, renewal, producer, succeeded, others>>

(* One call to the engine, with a time limit of its own; it is refused when
   the claim is not the current one, and an error is only logged. *)
SettleExecuted(w) ==
  /\ At(w, "call")
  /\ \/ (SettleAck(w) \/ SettleRetry(w) \/ SettleFail(w)) /\ UNCHANGED others
     \/ ~Queue!Holds(DeliveryOf(w)) /\ UNCHANGED <<queue, others>>
     \/ Fault /\ UNCHANGED queue
  /\ Go(w, "done")
  /\ UNCHANGED <<life, stopper, renewal, producer, succeeded>>

(* handle returns: nobody uses this delivery again. *)
Finish(w) ==
  /\ At(w, "done")
  /\ Queue!Forget(DeliveryOf(w))
  /\ Back(w, "loop")
  /\ UNCHANGED <<life, stopper, producer, succeeded, others>>

----------------------------------------------------------------------------
(* renewLoop *)

Renewal(w, pc) == renewal[w].pc = pc

RenewalEnds(w) ==
  /\ Renewal(w, "wait") /\ Cancelled(w)
  /\ renewal' = [renewal EXCEPT ![w] = [renewal[w] EXCEPT !.pc = "off"]]
  /\ UNCHANGED <<queue, life, stopper, worker, producer, succeeded, others>>

(* When the context is cancelled too, select takes either. *)
RenewSent(w) ==
  /\ Renewal(w, "wait") /\ renewal[w].due
  /\ renewal' = [renewal EXCEPT ![w] = [renewal[w] EXCEPT !.pc = "call", !.sent = 0, !.due = FALSE]]
  /\ UNCHANGED <<queue, life, stopper, worker, producer, succeeded, others>>

RenewExecuted(w) ==
  /\ Renewal(w, "call")
  /\ Queue!Renew(DeliveryOf(w))
  /\ renewal' = [renewal EXCEPT ![w] = [renewal[w] EXCEPT !.pc = "ok"]]
  /\ UNCHANGED <<life, stopper, worker, producer, succeeded, others>>

(* Mutant of LocalStart: the lease is counted from the arrival of the answer. *)
FromAnswer(w) == 0

(* The local lease starts anew when the request was sent. *)
LocalStart(w) == renewal[w].sent

RenewConfirmed(w) ==
  /\ Renewal(w, "ok")
  /\ renewal' = [renewal EXCEPT ![w] = [renewal[w] EXCEPT !.pc = "wait", !.sent = 0,
                                                            !.age = LocalStart(w)]]
  /\ UNCHANGED <<queue, life, stopper, worker, producer, succeeded, others>>

GiveUp(w) ==
  renewal' = [renewal EXCEPT ![w] = [renewal[w] EXCEPT !.pc = "off", !.sent = 0, !.lost = TRUE,
                                                       !.cancel = TRUE]]

RenewRefused(w) ==
  /\ Renewal(w, "call")
  /\ ~Queue!Holds(DeliveryOf(w))
  /\ GiveUp(w)
  /\ UNCHANGED <<queue, life, stopper, worker, producer, succeeded, others>>

(* Mutant of PresumedExpired: counted from the request, not from lastOK. *)
SinceSent(w) == renewal[w].sent >= Lease

PresumedExpired(w) == renewal[w].age >= Lease

(* The call fails, or its time limit of one interval passes. *)
RenewFails(w) ==
  /\ renewal[w].pc \in {"call", "ok"}
  /\ Fault \/ (renewal[w].sent >= 1 /\ UNCHANGED others)
  /\ IF PresumedExpired(w)
     THEN GiveUp(w)
     ELSE renewal' = [renewal EXCEPT ![w] = [renewal[w] EXCEPT !.pc = "wait", !.sent = 0]]
  /\ UNCHANGED <<queue, life, stopper, worker, producer, succeeded>>

----------------------------------------------------------------------------
(* Stop.  A second call is refused, so that there is only one. *)

StopBegins ==
  /\ CanStop /\ status = "running"
  /\ status' = "stopping" /\ stop' = "cancel"
  /\ UNCHANGED <<queue, used, claimStop, procStop, closed, stopErr, drained, worker, renewal,
                 producer, succeeded, others>>

StopClaims ==
  /\ stop = "cancel"
  /\ claimStop' = TRUE /\ stop' = "drain"
  /\ UNCHANGED <<queue, status, used, procStop, closed, stopErr, drained, worker, renewal,
                 producer, succeeded, others>>

(* Mutant of AllDone: workers inside a Receive are not waited for. *)
NoneProcessing == \A w \in Workers : worker[w].pc \notin {"process", "join", "settle", "call"}

(* wg.Wait *)
AllDone == \A w \in Workers : At(w, "exited")

Drain ==
  /\ stop \in {"drain", "grace", "end", "close"} /\ ~drained
  /\ AllDone
  /\ drained' = TRUE
  /\ UNCHANGED <<queue, life, stop, stopErr, worker, renewal, producer, succeeded, others>>

StopDrained ==
  /\ stop \in {"drain", "grace"} /\ drained
  /\ stop' = "end"
  /\ UNCHANGED <<queue, life, stopErr, drained, worker, renewal, producer, succeeded, others>>

(* Config.Timeout or the caller's context. *)
StopTimeout ==
  /\ stop = "drain"
  /\ stopErr' = TRUE /\ procStop' = TRUE /\ stop' = "grace"
  /\ UNCHANGED <<queue, status, used, claimStop, closed, drained, worker, renewal,
                 producer, succeeded, others>>

(* Mutant of GraceOver: the second wait has no limit. *)
NoGrace == FALSE /\ UNCHANGED vars

GraceOver ==
  /\ stop = "grace"
  /\ stop' = "end"
  /\ UNCHANGED <<queue, life, stopErr, drained, worker, renewal, producer, succeeded, others>>

StopEnds ==
  /\ stop = "end"
  /\ procStop' = TRUE /\ status' = "stopped" /\ stop' = "close"
  /\ UNCHANGED <<queue, used, claimStop, closed, stopErr, drained, worker, renewal,
                 producer, succeeded, others>>

(* The engine is closed only if the workers are known to be gone. *)
StopReturns ==
  /\ stop = "close"
  /\ closed' = drained /\ stop' = "returned"
  /\ UNCHANGED <<queue, status, used, claimStop, procStop, stopErr, drained, worker, renewal,
                 producer, succeeded, others>>

----------------------------------------------------------------------------
(* Time and crashes *)

Older(k) == IF k < MaxAge THEN k + 1 ELSE k

Aged(w) ==
  IF worker[w].pc \in {"off", "loop", "sleep", "exited"} THEN renewal[w]
  ELSE [renewal[w] EXCEPT
          !.age = Older(renewal[w].age),
          !.sent = IF renewal[w].pc \in {"call", "ok"} THEN Older(renewal[w].sent) ELSE 0,
          !.due = (renewal[w].pc # "off")]

(* A goroutine has something to do that takes no time. *)
Busy(w) ==
  \/ worker[w].pc \in {"settle", "call", "done"}
  \/ worker[w].pc \in {"receive", "reply"} /\ renewal[w].age >= CallTime
  \/ At(w, "join") /\ Renewal(w, "off")
  \/ Renewal(w, "wait") /\ (renewal[w].due \/ Cancelled(w))
  \/ renewal[w].pc \in {"call", "ok"} /\ renewal[w].sent >= CallTime

(* The poll interval is one tick. *)
Tick ==
  /\ Punctual => \A w \in Workers : ~Busy(w)
  /\ Queue!Tick
  /\ renewal' = [w \in Workers |-> Aged(w)]
  /\ worker' = [w \in Workers |->
                  IF At(w, "sleep") THEN [worker[w] EXCEPT !.pc = "loop"] ELSE worker[w]]
  /\ UNCHANGED <<life, stopper, producer, succeeded, others>>

(* The process dies, or ends after Stop, and another one is started. *)
Crash ==
  /\ crashes < MaxCrashes /\ used
  /\ crashes' = crashes + 1
  /\ NewProcess
  /\ issued' = {}
  /\ producer' = [i \in Ids |-> IF producer[i] = "adding" THEN "new" ELSE producer[i]]
  /\ UNCHANGED <<task, doneLeft, succeeded, faults>>

WorkerStep(w) ==
  \/ Poll(w) \/ SleepCut(w) \/ Exit(w) \/ ReceiveNothing(w) \/ ReplyLost(w) \/ Handle(w)
  \/ Join(w) \/ Decide(w) \/ SettleExecuted(w) \/ Finish(w)
  \/ \E i \in Ids : ReceiveClaims(w, i)

RenewalStep(w) ==
  \/ RenewalEnds(w) \/ RenewSent(w) \/ RenewExecuted(w) \/ RenewConfirmed(w)
  \/ RenewRefused(w) \/ RenewFails(w)

StopStep ==
  \/ StopClaims \/ Drain \/ StopDrained \/ StopTimeout \/ GraceOver \/ StopEnds \/ StopReturns

Next ==
  \/ Start
  \/ \E i \in Ids : AddChecked(i) \/ AddAccepted(i) \/ AddRefused(i) \/ ReplayFailed(i)
  \/ \E w \in Workers : WorkerStep(w)
  \/ \E w \in Workers : RenewalStep(w)
  \/ \E w \in Workers, r \in Results : ProcessorReturns(w, r)
  \/ StopBegins
  \/ StopStep
  \/ Tick
  \/ Crash

Spec == Init /\ [][Next]_vars

(* Assumed of the code when Stop is called: its goroutine goes on.  Nothing is
   asked of the processors. *)
StopSpec == Spec /\ WF_vars(StopStep)

(* Every goroutine that can go on does.  A processor returns at last; of two
   ready cases of a select either is taken if the choice comes up for ever;
   and time passes. *)
Fairness ==
  /\ WF_vars(Start) /\ SF_vars(Tick)
  /\ \A w \in Workers :
       /\ WF_vars(WorkerStep(w)) /\ WF_vars(RenewalStep(w)) /\ SF_vars(RenewalEnds(w))
       /\ WF_vars(\E r \in Results : ProcessorReturns(w, r))

FairSpec == Spec /\ Fairness

----------------------------------------------------------------------------
(* Properties *)

(***************************************************************************)
(* The local lease never outlives the one of the queue: as long as less    *)
(* than LeaseDuration has passed since lastOK, the claim a worker          *)
(* processes or settles is the current one (manager.go 290-292 and 361).   *)
(* However late goroutines run and answers come.                           *)
(***************************************************************************)
LeaseCovered ==
  \A w \in Workers :
    worker[w].pc \in {"reply", "process", "join", "settle", "call"} /\ renewal[w].age < Lease
      => Queue!Holds(DeliveryOf(w))

(***************************************************************************)
(* A submission the producer was told of disappears from the queue only    *)
(* after a processor has returned nil for it, through crashes of the       *)
(* process, lost answers, takeovers and Stop (settle, 386-432).            *)
(***************************************************************************)
NoLoss ==
  \A i \in Ids :
    producer[i] = "accepted" /\ task[i].st = "absent" => i \in succeeded

(***************************************************************************)
(* Once the lease has been judged lost, the result of the run changes      *)
(* nothing in the queue, even if the verdict came after the processor had  *)
(* returned; nor does an error with which the processor returned after     *)
(* Stop had cancelled it, whatever Stop does between the return, the look  *)
(* at procCtx and the call (332, 392, 405-410).  An error from before the  *)
(* cancel may still be settled after it.                                   *)
(***************************************************************************)
VerdictStands ==
  [][\A w \in Workers :
       /\ worker[w].pc \in {"settle", "call"} /\ worker'[w] # worker[w]
       /\ \/ renewal[w].lost
          \/ worker[w].cut /\ worker[w].res \in {"retryable", "fatal"}
       => task' = task]_vars

(***************************************************************************)
(* The engine is closed under nobody: when Stop has closed it, and also    *)
(* when Stop has returned nil, no worker and no renewal is left and no     *)
(* delivery is in anybody's hands (manager.go 149-153, 182-188).           *)
(***************************************************************************)
NobodyLeft == issued = {} /\ \A w \in Workers : At(w, "exited") /\ Renewal(w, "off")

StopClean == closed \/ (stop = "returned" /\ ~stopErr) => NobodyLeft

(***************************************************************************)
(* A processor that the lease no longer covers is told so at most one      *)
(* interval late, when goroutines run on time and no call takes more than  *)
(* the time limit of a Renew (362, 375).                                   *)
(***************************************************************************)
ToldSoon ==
  \A w \in Workers :
    At(w, "process") /\ ~Cancelled(w) => renewal[w].age <= Lease + 1

(***************************************************************************)
(* Stop comes back, whatever processors and the engine do (155-175).       *)
(***************************************************************************)
StopTerminates == (stop = "cancel") ~> (stop = "returned")

(***************************************************************************)
(* After Stop every worker leaves its loop, if processors return and calls *)
(* end: none is kept by a renewal, a verdict or a task still waiting       *)
(* (273-278, 330-332, 356-358).                                            *)
(***************************************************************************)
WorkersLeave == Fairness => (claimStop ~> \A w \in Workers : At(w, "exited"))

(***************************************************************************)
(* A task the queue has accepted is completed or retained as failed, with  *)
(* failing calls, lost answers and a crash on the way, if processors       *)
(* return and the manager runs (281-432).                                  *)
(***************************************************************************)
TasksSettle ==
  \A i \in Ids : (task[i].st \in {"waiting", "claimed"}) ~> (task[i].st \in {"absent", "failed"})
=============================================================================
