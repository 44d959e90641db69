--------------------------- MODULE LegacyEngines ---------------------------
(***************************************************************************)
(* pkg/queue/engine/channel_engine.go and redis_engine.go: the two         *)
(* implementations of the old Engine interface, whose pop is destructive.  *)
(* `kind` says which of them runs.  Several callers use one queue and its  *)
(* delay queue.                                                            *)
(*                                                                         *)
(* A call on the channel engine looks its channel up and then waits in a   *)
(* select, so that Close may come in between; the delay map is under a     *)
(* lock.  A call on the Redis engine is one command, PopDelayed is two;    *)
(* the reply of a command can be lost, and go-redis may send it again.     *)
(***************************************************************************)
EXTENDS Integers, FiniteSets, SequencesExt

CONSTANTS
  Callers,
  Payloads,   \* the bytes of an entry
  Capacity,   \* queueSize of the channel engine
  Counts,     \* values of count
  PerSecond,  \* clock ticks in a second; due times are kept in seconds
  Delays,     \* in clock ticks
  MaxNow,     \* bound: the clock
  MaxPut,     \* bound: entries written
  MaxFaults   \* bound: commands of the Redis engine whose reply is lost

ASSUME LegacyAssumption ==
  /\ IsFiniteSet(Callers) /\ Payloads # {} /\ Capacity \in Nat \ {0} /\ Counts \subseteq Nat \ {0}
  /\ PerSecond \in Nat \ {0} /\ Delays \subseteq Nat
  /\ MaxNow \in Nat /\ MaxPut \in Nat /\ MaxFaults \in Nat

VARIABLES
  kind,     \* "channel" or "redis"
  closed,   \* Close has been called (channel)
  queue,    \* the channel's buffer, or the Redis list
  delayed,  \* the delay map, or the sorted set, which has no bytes twice
  call,     \* what each caller is doing
  handed,   \* the entries each caller was given
  gone,     \* entries out of the engine that nobody was given
  put,      \* how many entries have been written
  faults, now

vars == <<kind, closed, queue, delayed, call, handed, gone, put, faults, now>>

Entry == [n : Nat, due : Int, data : Payloads]  \* n is the order of insertion
Idle  == [op |-> "idle", blocking |-> FALSE, want |-> 0, got |-> {}, cancelled |-> FALSE]
Seconds(t) == t \div PerSecond
Channel == kind = "channel"

(* The type invariant. *)
TypeOK ==
  /\ kind \in {"channel", "redis"} /\ closed \in BOOLEAN
  /\ queue \in Seq(Entry) /\ delayed \subseteq Entry /\ (Channel => Len(queue) <= Capacity)
  /\ call \in [Callers -> [op : {"idle", "push", "pop", "batch", "delayed"}, blocking : BOOLEAN,
                           want : Nat,  \* entries still wanted
                           got : SUBSET Entry, cancelled : BOOLEAN]]
  /\ handed \in [Callers -> SUBSET Entry] /\ gone \subseteq Entry
  /\ put \in 0..MaxPut /\ faults \in 0..MaxFaults /\ now \in 0..MaxNow

Init ==
  /\ kind \in {"channel", "redis"} /\ closed = FALSE
  /\ queue = <<>> /\ delayed = {} /\ call = [c \in Callers |-> Idle]
  /\ handed = [c \in Callers |-> {}] /\ gone = {}
  /\ put = 0 /\ faults = 0 /\ now = 0

----------------------------------------------------------------------------
Busy(c, op) == call[c].op = op
New(due, data) == [n |-> put + 1, due |-> due, data |-> data]
Write == put < MaxPut /\ put' = put + 1
Lost  == ~Channel /\ faults < MaxFaults /\ faults' = faults + 1

Return(c, entries) ==
  /\ call' = [call EXCEPT ![c] = Idle]
  /\ handed' = [handed EXCEPT ![c] = @ \union entries]

HasRoom == ~Channel \/ Len(queue) < Capacity

(* Push*, Pop* and BatchPop*: getQueue.  Close empties the map it looks into.
   A batch of one is a pop. *)
Start(c) ==
  /\ call[c] = Idle /\ ~closed
  /\ \E op \in {"push", "pop", "batch"}, b \in BOOLEAN, k \in Counts \union {1} :
       /\ (op = "batch") = (k > 1)
       /\ call' = [call EXCEPT ![c] = [Idle EXCEPT !.op = op, !.blocking = b, !.want = k]]
  /\ UNCHANGED <<kind, closed, queue, delayed, handed, gone, put, faults, now>>

(* The caller's context ends. *)
Cancel(c) ==
  /\ call[c] # Idle /\ ~call[c].cancelled
  /\ call' = [call EXCEPT ![c].cancelled = TRUE]
  /\ UNCHANGED <<kind, closed, queue, delayed, handed, gone, put, faults, now>>

(* PushBlocking, PushNonBlocking, pushData.  When the reply is lost the entry is
   there, and the caller is told of an error or the command is sent again. *)
Push(c) ==
  /\ Busy(c, "push") /\ ~closed /\ HasRoom
  /\ Write /\ \E data \in Payloads : queue' = Append(queue, New(-1, data))
  /\ \/ Return(c, {}) /\ UNCHANGED faults
     \/ Lost /\ (Return(c, {}) \/ UNCHANGED <<call, handed>>)
  /\ UNCHANGED <<kind, closed, delayed, gone, now>>

(* A push that is cancelled, finds the queue full without waiting, or meets a
   closed channel, whose panic is recovered; a command that does not get through. *)
PushFails(c) ==
  /\ Busy(c, "push") /\ Return(c, {})
  /\ \/ Lost
     \/ /\ UNCHANGED faults
        /\ call[c].cancelled \/ closed \/ (~call[c].blocking /\ ~HasRoom)
  /\ UNCHANGED <<kind, closed, queue, delayed, gone, put, now>>

GoesOn(c, got) ==
  /\ call' = [call EXCEPT ![c].want = @ - 1, ![c].got = got]
  /\ UNCHANGED handed

(* PopBlocking, PopNonBlocking, and the loop of the batch calls: one more entry. *)
Pop(c) ==
  LET got == call[c].got \union {Head(queue)} IN
  /\ (Busy(c, "pop") \/ Busy(c, "batch")) /\ queue # <<>>
  /\ queue' = Tail(queue)
  /\ IF call[c].want <= 1 THEN Return(c, got) ELSE GoesOn(c, got)
  /\ UNCHANGED <<kind, closed, delayed, gone, put, faults, now>>

(* RPOP or BRPOP whose reply is lost: the entry is gone.  The call goes on with
   the command sent again, or returns what it has. *)
PopLost(c) ==
  /\ (Busy(c, "pop") \/ Busy(c, "batch")) /\ queue # <<>> /\ Lost
  /\ queue' = Tail(queue) /\ gone' = gone \union {Head(queue)}
  /\ Return(c, call[c].got) \/ UNCHANGED <<call, handed>>
  /\ UNCHANGED <<kind, closed, delayed, put, now>>

(* A closed and empty channel yields nil without waiting. *)
PopNil(c) ==
  /\ (Busy(c, "pop") \/ Busy(c, "batch")) /\ closed /\ queue = <<>>
  /\ IF call[c].want <= 1 THEN Return(c, call[c].got) ELSE GoesOn(c, call[c].got)
  /\ UNCHANGED <<kind, closed, queue, delayed, gone, put, faults, now>>

(* Nothing there and the call does not wait, or its context has ended, or an error.  The
   channel's BatchPopNonBlocking returns nil in the second case, whatever it has
   taken by then. *)
PopEnds(c) ==
  LET drops == Channel /\ Busy(c, "batch") /\ ~call[c].blocking IN
  /\ Busy(c, "pop") \/ Busy(c, "batch")
  /\ \/ ~call[c].blocking /\ queue = <<>> /\ ~closed /\ ~(Channel /\ call[c].cancelled)
        /\ Return(c, call[c].got) /\ UNCHANGED <<gone, faults>>
     \/ /\ (call[c].cancelled /\ UNCHANGED faults) \/ Lost
        /\ Return(c, IF drops THEN {} ELSE call[c].got)
        /\ gone' = IF drops THEN gone \union call[c].got ELSE gone
  /\ UNCHANGED <<kind, closed, queue, delayed, put, now>>

----------------------------------------------------------------------------
(* PushDelayed: append to the list of that second; ZADD, which moves the member
   when the set has the same bytes already. *)
PushDelayed(c) ==
  /\ call[c] = Idle /\ Write /\ UNCHANGED faults
  /\ \E d \in Delays, data \in Payloads :
       LET same == {e \in delayed : ~Channel /\ e.data = data} IN
       /\ delayed' = (delayed \ same) \union {New(now + d, data)}
       /\ gone' = gone \union same
  /\ UNCHANGED <<kind, closed, queue, call, handed, now>>

(* Mutant of Due: the next second counts. *)
DueNextSecond(e) == Seconds(e.due) <= Seconds(now) + 1
Due(e) == Seconds(e.due) <= Seconds(now)
Second(e) == Seconds(e.due)

(* The sets of at most count entries that can be taken of what is due.  Channel: the
   seconds in the order of Go's map, which is none, each from its front, so that
   count cuts one at most.  Redis: by score, and members of one score by their
   bytes, which may put them in any order. *)
Takings(count) ==
  LET due == {e \in delayed : Due(e)}
      Goes(taken, e, f) == f \in taken => e \in taken
      Cut(taken) == {Second(e) : e \in taken} \intersect {Second(e) : e \in due \ taken}
  IN {taken \in SUBSET due :
        /\ Cardinality(taken) <= count /\ (Cardinality(taken) < count => taken = due)
        /\ IF Channel
           THEN /\ \A e, f \in due : Second(e) = Second(f) /\ e.n < f.n => Goes(taken, e, f)
                /\ Cardinality(Cut(taken)) <= 1
           ELSE \A e, f \in due : Second(e) < Second(f) => Goes(taken, e, f)}

(* Mutants of Without: the second goes although count has cut it in two; nothing
   is deleted. *)
WithoutSeconds(taken) == {e \in delayed : \A f \in taken : Second(f) # Second(e)}
Undeleted(taken) == delayed
Without(taken) == delayed \ taken

(* ZREM names its members by their bytes: an entry delayed again since they were
   read goes too. *)
WithoutBytes(taken) == {e \in delayed : \A f \in taken : f.data # e.data}

(* PopDelayed of the channel engine, in one critical section. *)
PopDelayed(c) ==
  /\ Channel /\ call[c] = Idle
  /\ \E k \in Counts : \E taken \in Takings(k) : Return(c, taken) /\ delayed' = Without(taken)
  /\ UNCHANGED <<kind, closed, queue, gone, put, faults, now>>

(* PopDelayed of the Redis engine: ZRANGEBYSCORE ... *)
RangeDelayed(c) ==
  /\ ~Channel /\ call[c] = Idle
  /\ \E k \in Counts : \E taken \in Takings(k) \ {{}} :
       call' = [call EXCEPT ![c] = [Idle EXCEPT !.op = "delayed", !.got = taken]]
  /\ UNCHANGED <<kind, closed, queue, delayed, handed, gone, put, faults, now>>

(* ... and ZREM, after which what was read is returned. *)
RemoveDelayed(c) ==
  /\ Busy(c, "delayed") /\ delayed' = WithoutBytes(call[c].got)
  /\ gone' = gone \union ((delayed \ delayed') \ call[c].got)
  /\ Return(c, call[c].got)
  /\ UNCHANGED <<kind, closed, queue, put, faults, now>>

(* An error of ZREM, which may have been executed, or a context that has ended. *)
RemoveFails(c) ==
  /\ Busy(c, "delayed") /\ Return(c, {})
  /\ \/ /\ Lost /\ delayed' = WithoutBytes(call[c].got)
        /\ gone' = gone \union (delayed \ delayed')
     \/ /\ Lost \/ (call[c].cancelled /\ UNCHANGED faults)
        /\ UNCHANGED <<delayed, gone>>
  /\ UNCHANGED <<kind, closed, queue, put, now>>

(* Close of the channel engine; that of the Redis engine does nothing.  What was
   in the channel can still be taken by the calls that have found it. *)
Close ==
  /\ Channel /\ closed' = TRUE /\ delayed' = {}
  /\ UNCHANGED <<kind, queue, call, handed, gone, put, faults, now>>

Tick ==
  /\ now < MaxNow /\ now' = now + 1
  /\ UNCHANGED <<kind, closed, queue, delayed, call, handed, gone, put, faults>>

----------------------------------------------------------------------------
Answer(c) == Push(c) \/ PushFails(c) \/ Pop(c) \/ PopNil(c) \/ PopEnds(c) \/ RemoveDelayed(c)

Next ==
  \/ \E c \in Callers :
       \/ Start(c) \/ Cancel(c) \/ Answer(c) \/ PopLost(c)
       \/ PushDelayed(c) \/ PopDelayed(c) \/ RangeDelayed(c) \/ RemoveFails(c)
  \/ Close \/ Tick

Spec == Init /\ [][Next]_vars

----------------------------------------------------------------------------
Held(c) == IF Busy(c, "delayed") THEN {} ELSE call[c].got
Given(c) == handed[c] \union Held(c)

(* Until Close, an entry is in the engine, has been handed out, or is one of
   those a lost reply, a cancelled BatchPopNonBlocking, a ZADD of the same bytes or
   a ZREM of the same bytes took; what PopDelayed leaves behind when count cuts
   a second in two stays there.  As long as the Redis engine has lost no reply, the bytes of
   whatever it dropped in the last two ways are still in it, or were handed out. *)
Accounted ==
  /\ ~closed =>
       {e.n : e \in UNION ({ToSet(queue), delayed, gone} \union {Given(c) : c \in Callers})}
         = 1..put
  /\ ~Channel /\ faults = 0 =>
       \A e \in gone : \E f \in delayed \union UNION {Given(c) : c \in Callers} : f.data = e.data

(* What has been handed out is no longer in the engine, and no caller is handed an
   entry twice.  So one entry is handed to two callers only when both had read it
   before either removed it: a delayed entry of the Redis engine, in two calls of
   PopDelayed that overlap. *)
GivenOnce ==
  /\ \A c \in Callers :
       /\ call[c].got \intersect handed[c] = {}
       /\ Given(c) \intersect (ToSet(queue) \union delayed) = {}
  /\ \A c, d \in Callers : c # d =>
       \A e \in Given(c) \intersect Given(d) : ~Channel /\ e.due # -1

(* The comment on the ZREM of RedisEngine.PopDelayed (redis_engine.go 226): it removes
   what was fetched, so that nothing is processed twice.  So an entry goes to one
   caller. *)
GivenToOneCaller ==
  \A c, d \in Callers : c # d => Given(c) \intersect Given(d) = {}

(* A delayed entry is given out less than one second before it is due: due times
   are cut to seconds on both sides. *)
NotEarly ==
  [][\A c \in Callers : \A e \in handed'[c] \ handed[c] : now > e.due - PerSecond]_vars
=============================================================================
