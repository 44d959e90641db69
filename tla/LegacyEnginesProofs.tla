------------------------- MODULE LegacyEnginesProofs -------------------------
(***************************************************************************)
(* Proofs about LegacyEngines, for both engines, any number of callers and *)
(* entries and any number of lost replies.                                 *)
(*                                                                         *)
(* An entry is known by its number, so that what has just been written is  *)
(* new, and an entry that was pushed is told from one that was delayed by  *)
(* its due time.  The last part is about due times.                        *)
(***************************************************************************)
EXTENDS LegacyEngines, SequenceTheorems, TLAPS

Calls == [op : {"idle", "push", "pop", "batch", "delayed"}, blocking : BOOLEAN, want : Nat,
          got : SUBSET Entry, cancelled : BOOLEAN]

(* A caller that is not taking anything holds nothing. *)
EmptyHanded == \A c \in Callers : call[c].op \in {"idle", "push"} => call[c].got = {}

(* Whatever has been written and is accounted for. *)
Stock == ToSet(queue) \union delayed \union gone \union UNION {Given(c) : c \in Callers}

(* Numbers are drawn once; due times tell where an entry has been; an entry that a
   PopDelayed of the Redis engine has read has not left the stock since. *)
Apart ==
  /\ \A e \in Stock : e.n <= put
  /\ \A e \in ToSet(queue) : e.due = -1
  /\ \A e \in delayed : e.due # -1
  /\ IsInjective(queue)
  /\ \A c \in Callers : Busy(c, "delayed") =>
        ~Channel /\ call[c].got \subseteq Stock /\ \A e \in call[c].got : e.due # -1

(* The two halves of Accounted. *)
Numbered == ~closed => {e.n : e \in Stock} = 1..put
AllGiven == UNION {Given(c) : c \in Callers}
BytesKept ==
  ~Channel /\ faults = 0 => \A e \in gone : \E f \in delayed \union AllGiven : f.data = e.data

LInv == TypeOK /\ EmptyHanded /\ Apart /\ Numbered /\ GivenOnce

----------------------------------------------------------------------------
(* The front and the back of the queue. *)
LEMMA AppendSet ==
  ASSUME NEW S, NEW q \in Seq(S), NEW e \in S
  PROVE  ToSet(Append(q, e)) = ToSet(q) \union {e}
<1>1. /\ Len(q) \in Nat /\ DOMAIN q = 1..Len(q)
      /\ DOMAIN Append(q, e) = 1..(Len(q) + 1)
  OBVIOUS
<1>2. \A i \in 1..Len(q) : Append(q, e)[i] = q[i]
  OBVIOUS
<1>3. Append(q, e)[Len(q) + 1] = e
  OBVIOUS
<1>4. 1..(Len(q) + 1) = (1..Len(q)) \union {Len(q) + 1}
  BY <1>1
<1>. QED BY <1>1, <1>2, <1>3, <1>4 DEF ToSet

LEMMA HeadTailSet ==
  ASSUME NEW S, NEW q \in Seq(S), q # <<>>
  PROVE  /\ Head(q) \in S /\ Tail(q) \in Seq(S)
         /\ Len(q) \in Nat /\ Len(Tail(q)) = Len(q) - 1
         /\ ToSet(q) = ToSet(Tail(q)) \union {Head(q)}
<1>1. /\ Len(q) \in Nat \ {0} /\ Head(q) = q[1] /\ Head(q) \in S /\ Tail(q) \in Seq(S)
      /\ Len(Tail(q)) = Len(q) - 1
  BY HeadTailProperties, EmptySeq
<1>2. DOMAIN q = 1..Len(q) /\ DOMAIN Tail(q) = 1..(Len(q) - 1)
  BY <1>1
<1>3. \A i \in 1..(Len(q) - 1) : Tail(q)[i] = q[i + 1]
  BY <1>1
<1>4. ToSet(q) \subseteq ToSet(Tail(q)) \union {Head(q)}
  <2>1. SUFFICES ASSUME NEW i \in 1..Len(q) PROVE q[i] \in ToSet(Tail(q)) \union {q[1]}
    BY <1>1, <1>2 DEF ToSet
  <2>2. CASE i = 1
    BY <2>2
  <2>3. CASE i # 1
    <3>1. i - 1 \in 1..(Len(q) - 1) /\ (i - 1) + 1 = i
      BY <1>1, <2>3
    <3>2. Tail(q)[i - 1] = q[i]
      BY <1>3, <3>1
    <3>. QED BY <1>2, <3>1, <3>2 DEF ToSet
  <2>. QED BY <2>2, <2>3
<1>5. ToSet(Tail(q)) \union {Head(q)} \subseteq ToSet(q)
  <2>1. \A i \in 1..(Len(q) - 1) : i + 1 \in 1..Len(q)
    BY <1>1
  <2>2. 1 \in 1..Len(q)
    BY <1>1
  <2>. QED BY <1>1, <1>2, <1>3, <2>1, <2>2 DEF ToSet
<1>. QED BY <1>1, <1>4, <1>5

----------------------------------------------------------------------------
(* Types. *)
LEMMA LegacyInit == Init => LInv
<1>. SUFFICES ASSUME Init PROVE LInv
  OBVIOUS
<1>1. Idle \in Calls
  BY DEF Idle, Calls
<1>2. TypeOK
  <2>1. call \in [Callers -> Calls] /\ handed \in [Callers -> SUBSET Entry]
    BY <1>1 DEF Init
  <2>2. queue \in Seq(Entry) /\ Len(queue) = 0
    BY DEF Init
  <2>3. Channel => Len(queue) <= Capacity
    BY <2>2, LegacyAssumption
  <2>4. put \in 0..MaxPut /\ faults \in 0..MaxFaults /\ now \in 0..MaxNow
    BY LegacyAssumption DEF Init
  <2>5. kind \in {"channel", "redis"} /\ closed \in BOOLEAN /\ delayed \subseteq Entry /\ gone \subseteq Entry
    BY DEF Init
  <2>. QED BY <2>1, <2>2, <2>3, <2>4, <2>5 DEF TypeOK, Calls
<1>3. EmptyHanded
  BY DEF Init, EmptyHanded, Idle
<1>4. \A c \in Callers : Given(c) = {}
  BY DEF Init, Given, Held, Idle
<1>5. ToSet(queue) = {} /\ delayed = {} /\ gone = {} /\ 1..put = {}
  BY DEF Init, ToSet
<1>6. Numbered
  BY <1>4, <1>5 DEF Numbered, Stock
<1>7. Apart
  <2>1. Stock = {}
    BY <1>4, <1>5 DEF Stock
  <2>2. IsInjective(queue)
    BY DEF Init, IsInjective
  <2>3. \A c \in Callers : ~Busy(c, "delayed")
    BY DEF Init, Busy, Idle
  <2>. QED BY <1>5, <2>1, <2>2, <2>3 DEF Apart
<1>8. GivenOnce
  BY <1>4, <1>5 DEF GivenOnce, Init, Idle
<1>. QED BY <1>2, <1>3, <1>6, <1>7, <1>8 DEF LInv

LEMMA CallsType == TypeOK => call \in [Callers -> Calls]
  BY DEF TypeOK, Calls

LEMMA ReturnType ==
  ASSUME TypeOK, NEW c \in Callers, NEW entries \in SUBSET Entry, Return(c, entries)
  PROVE  /\ call' \in [Callers -> Calls] /\ handed' \in [Callers -> SUBSET Entry]
         /\ call'[c] = Idle /\ handed'[c] = handed[c] \union entries
         /\ \A d \in Callers \ {c} : call'[d] = call[d] /\ handed'[d] = handed[d]
<1>1. Idle \in Calls
  BY DEF Idle, Calls
<1>. QED BY <1>1, CallsType DEF Return, TypeOK

LEMMA GoesOnType ==
  ASSUME TypeOK, NEW c \in Callers, NEW got \in SUBSET Entry, call[c].want > 1, GoesOn(c, got)
  PROVE  /\ call' \in [Callers -> Calls] /\ handed' = handed
         /\ call'[c].got = got /\ call'[c].op = call[c].op
         /\ \A d \in Callers \ {c} : call'[d] = call[d]
<1>1. call[c] \in Calls /\ call \in [Callers -> Calls]
  BY CallsType
<1>2. call[c].want \in Nat
  BY <1>1 DEF Calls
<1>3. call[c].want - 1 \in Nat
  BY <1>2
<1>4. [call[c] EXCEPT !.want = call[c].want - 1, !.got = got] \in Calls
  BY <1>1, <1>3 DEF Calls
<1>5. /\ [call[c] EXCEPT !.want = call[c].want - 1, !.got = got].got = got
      /\ [call[c] EXCEPT !.want = call[c].want - 1, !.got = got].op = call[c].op
  BY <1>1 DEF Calls
<1>6. /\ call' = [call EXCEPT ![c] = call'[c]]
      /\ call'[c] = [call[c] EXCEPT !.want = call[c].want - 1, !.got = got]
  BY <1>1 DEF GoesOn, Calls
<1>. QED BY <1>1, <1>4, <1>5, <1>6 DEF GoesOn

LEMMA WriteType ==
  ASSUME TypeOK, Write
  PROVE  /\ put' \in 0..MaxPut /\ put' = put + 1 /\ put \in Nat /\ 1..put' = (1..put) \union {put + 1}
         /\ \A b \in Payloads : New(-1, b) \in Entry
         /\ \A d \in Delays, b \in Payloads : New(now + d, b) \in Entry /\ now + d >= 0
<1>1. put \in Nat /\ put + 1 \in Nat /\ put' = put + 1 /\ now \in Nat
  BY LegacyAssumption DEF TypeOK, Write
<1>2. put' \in 0..MaxPut
  BY <1>1, LegacyAssumption DEF Write
<1>3. 1..put' = (1..put) \union {put + 1}
  BY <1>1
<1>4. -1 \in Int /\ \A d \in Delays : now + d \in Int /\ now + d >= 0
  BY <1>1, LegacyAssumption
<1>. QED BY <1>1, <1>2, <1>3, <1>4 DEF New, Entry

LEMMA LostType == ASSUME TypeOK, Lost \/ UNCHANGED faults PROVE faults' \in 0..MaxFaults
  BY LegacyAssumption DEF TypeOK, Lost

LEMMA StartType == ASSUME TypeOK, NEW c \in Callers, Start(c) PROVE TypeOK'
<1>1. PICK op \in {"push", "pop", "batch"}, b \in BOOLEAN, k \in Counts \union {1} :
        call' = [call EXCEPT ![c] = [Idle EXCEPT !.op = op, !.blocking = b, !.want = k]]
  BY DEF Start
<1>2. k \in Nat
  BY LegacyAssumption
<1>3. [Idle EXCEPT !.op = op, !.blocking = b, !.want = k] \in Calls
  BY <1>2 DEF Idle, Calls
<1>4. call' \in [Callers -> Calls]
  BY <1>1, <1>3, CallsType
<1>. QED BY <1>4 DEF TypeOK, Start, Calls, Channel

LEMMA CancelType == ASSUME TypeOK, NEW c \in Callers, Cancel(c) PROVE TypeOK'
<1>1. call[c] \in Calls /\ call \in [Callers -> Calls]
  BY CallsType
<1>2. [call[c] EXCEPT !.cancelled = TRUE] \in Calls
  BY <1>1 DEF Calls
<1>3. call' \in [Callers -> Calls]
  BY <1>1, <1>2 DEF Cancel
<1>. QED BY <1>3 DEF TypeOK, Cancel, Calls, Channel

LEMMA PushType == ASSUME TypeOK, NEW c \in Callers, Push(c) PROVE TypeOK'
<1>1. PICK b \in Payloads : queue' = Append(queue, New(-1, b))
  BY DEF Push
<1>6. New(-1, b) \in Entry /\ put' \in 0..MaxPut
  BY WriteType DEF Push
<1>2. queue' \in Seq(Entry) /\ Len(queue') = Len(queue) + 1 /\ Len(queue) \in Nat
  BY <1>1, <1>6 DEF TypeOK
<1>3. Channel => Len(queue') <= Capacity
  BY <1>2, LegacyAssumption DEF Push, HasRoom
<1>4. call' \in [Callers -> Calls] /\ handed' \in [Callers -> SUBSET Entry]
  <2>1. CASE Return(c, {})
    BY <2>1, ReturnType
  <2>2. CASE UNCHANGED <<call, handed>>
    BY <2>2, CallsType DEF TypeOK
  <2>. QED BY <2>1, <2>2 DEF Push
<1>5. faults' \in 0..MaxFaults
  BY LostType DEF Push
<1>. QED BY <1>2, <1>3, <1>4, <1>5, <1>6 DEF TypeOK, Push, Calls, Channel

LEMMA PushFailsType == ASSUME TypeOK, NEW c \in Callers, PushFails(c) PROVE TypeOK'
<1>1. call' \in [Callers -> Calls] /\ handed' \in [Callers -> SUBSET Entry]
  BY ReturnType DEF PushFails
<1>2. faults' \in 0..MaxFaults
  BY LostType DEF PushFails
<1>. QED BY <1>1, <1>2 DEF TypeOK, PushFails, Calls, Channel

LEMMA TailType ==
  ASSUME TypeOK, queue # <<>>, queue' = Tail(queue), UNCHANGED kind
  PROVE  queue' \in Seq(Entry) /\ Head(queue) \in Entry /\ (Channel' => Len(queue') <= Capacity)
<1>1. /\ Head(queue) \in Entry /\ Tail(queue) \in Seq(Entry) /\ Len(queue) \in Nat
      /\ Len(Tail(queue)) = Len(queue) - 1
  BY HeadTailSet DEF TypeOK
<1>. QED BY <1>1, LegacyAssumption DEF TypeOK, Channel

LEMMA GotType == ASSUME TypeOK, NEW c \in Callers PROVE call[c].got \in SUBSET Entry /\ call[c].want \in Nat
  BY CallsType DEF Calls

LEMMA PopType == ASSUME TypeOK, NEW c \in Callers, Pop(c) PROVE TypeOK'
<1>. DEFINE got == call[c].got \union {Head(queue)}
<1>1. /\ queue' \in Seq(Entry) /\ Head(queue) \in Entry /\ (Channel' => Len(queue') <= Capacity)
  BY TailType DEF Pop
<1>2. got \in SUBSET Entry /\ call[c].want \in Nat
  BY <1>1, GotType
<1>3. Return(c, got) \/ (call[c].want > 1 /\ GoesOn(c, got))
  BY <1>2 DEF Pop
<1>4. call' \in [Callers -> Calls] /\ handed' \in [Callers -> SUBSET Entry]
  <2>. HIDE DEF got
  <2>. QED BY <1>2, <1>3, ReturnType, GoesOnType DEF TypeOK
<1>. QED BY <1>1, <1>4 DEF TypeOK, Pop, Calls

LEMMA PopLostType == ASSUME TypeOK, NEW c \in Callers, PopLost(c) PROVE TypeOK'
<1>1. /\ queue' \in Seq(Entry) /\ Head(queue) \in Entry /\ (Channel' => Len(queue') <= Capacity)
  BY TailType DEF PopLost
<1>2. call' \in [Callers -> Calls] /\ handed' \in [Callers -> SUBSET Entry]
  <2>1. CASE Return(c, call[c].got)
    BY <2>1, GotType, ReturnType
  <2>2. CASE UNCHANGED <<call, handed>>
    BY <2>2, CallsType DEF TypeOK
  <2>. QED BY <2>1, <2>2 DEF PopLost
<1>3. faults' \in 0..MaxFaults
  BY LostType DEF PopLost
<1>. QED BY <1>1, <1>2, <1>3 DEF TypeOK, PopLost, Calls

LEMMA PopNilType == ASSUME TypeOK, NEW c \in Callers, PopNil(c) PROVE TypeOK'
<1>1. Return(c, call[c].got) \/ (call[c].want > 1 /\ GoesOn(c, call[c].got))
  BY GotType DEF PopNil
<1>2. call' \in [Callers -> Calls] /\ handed' \in [Callers -> SUBSET Entry]
  BY <1>1, GotType, ReturnType, GoesOnType DEF TypeOK
<1>. QED BY <1>2 DEF TypeOK, PopNil, Calls, Channel

LEMMA PopEndsType == ASSUME TypeOK, NEW c \in Callers, PopEnds(c) PROVE TypeOK'
<1>1. PICK entries \in {{}, call[c].got} : Return(c, entries)
  BY DEF PopEnds
<1>2. call' \in [Callers -> Calls] /\ handed' \in [Callers -> SUBSET Entry]
  BY <1>1, GotType, ReturnType
<1>3. gone' \in {gone, gone \union call[c].got} /\ faults' \in 0..MaxFaults
  BY LostType DEF PopEnds
<1>4. gone' \subseteq Entry
  BY <1>3, GotType DEF TypeOK
<1>. QED BY <1>2, <1>3, <1>4 DEF TypeOK, PopEnds, Calls, Channel

LEMMA DelayedType ==
  ASSUME TypeOK, NEW c \in Callers,
         PushDelayed(c) \/ PopDelayed(c) \/ RangeDelayed(c) \/ RemoveDelayed(c) \/ RemoveFails(c)
  PROVE  TypeOK'
<1>0. \A k : Takings(k) \subseteq SUBSET delayed
  BY DEF Takings
<1>1. CASE PushDelayed(c)
  <2>1. PICK d \in Delays, b \in Payloads :
          /\ delayed' \subseteq delayed \union {New(now + d, b)}
          /\ gone' \subseteq gone \union delayed
    BY <1>1 DEF PushDelayed
  <2>2. New(now + d, b) \in Entry /\ put' \in 0..MaxPut
    BY <1>1, WriteType DEF PushDelayed
  <2>. QED BY <1>1, <2>1, <2>2 DEF TypeOK, PushDelayed, Channel
<1>2. CASE PopDelayed(c)
  <2>1. PICK taken \in SUBSET delayed : Return(c, taken) /\ delayed' = Without(taken)
    BY <1>0, <1>2 DEF PopDelayed
  <2>2. taken \in SUBSET Entry /\ delayed' \subseteq Entry
    BY <2>1 DEF TypeOK, Without
  <2>3. call' \in [Callers -> Calls] /\ handed' \in [Callers -> SUBSET Entry]
    BY <2>1, <2>2, ReturnType
  <2>. QED BY <1>2, <2>2, <2>3 DEF TypeOK, PopDelayed, Calls, Channel
<1>3. CASE RangeDelayed(c)
  <2>1. PICK taken \in SUBSET delayed :
          call' = [call EXCEPT ![c] = [Idle EXCEPT !.op = "delayed", !.got = taken]]
    BY <1>0, <1>3 DEF RangeDelayed
  <2>2. taken \in SUBSET Entry
    BY <2>1 DEF TypeOK
  <2>3. [Idle EXCEPT !.op = "delayed", !.got = taken] \in Calls
    BY <2>2 DEF Idle, Calls
  <2>4. call' \in [Callers -> Calls]
    BY <2>1, <2>3, CallsType
  <2>. QED BY <1>3, <2>4 DEF TypeOK, RangeDelayed, Calls, Channel
<1>4. CASE RemoveDelayed(c)
  <2>1. call' \in [Callers -> Calls] /\ handed' \in [Callers -> SUBSET Entry]
    BY <1>4, GotType, ReturnType DEF RemoveDelayed
  <2>2. delayed' \subseteq Entry /\ gone' \subseteq Entry
    BY <1>4 DEF RemoveDelayed, WithoutBytes, TypeOK
  <2>. QED BY <1>4, <2>1, <2>2 DEF TypeOK, RemoveDelayed, Calls, Channel
<1>5. CASE RemoveFails(c)
  <2>1. call' \in [Callers -> Calls] /\ handed' \in [Callers -> SUBSET Entry]
    BY <1>5, ReturnType DEF RemoveFails
  <2>2. delayed' \subseteq Entry /\ gone' \subseteq Entry
    BY <1>5 DEF RemoveFails, WithoutBytes, TypeOK
  <2>3. faults' \in 0..MaxFaults
    BY <1>5, LostType DEF RemoveFails
  <2>. QED BY <1>5, <2>1, <2>2, <2>3 DEF TypeOK, RemoveFails, Calls, Channel
<1>. QED BY <1>1, <1>2, <1>3, <1>4, <1>5

LEMMA TypeStep == TypeOK /\ [Next]_vars => TypeOK'
<1>. SUFFICES ASSUME TypeOK, [Next]_vars PROVE TypeOK'
  OBVIOUS
<1>1. CASE Close
  BY <1>1 DEF TypeOK, Close, Channel
<1>2. CASE Tick
  BY <1>2, LegacyAssumption DEF TypeOK, Tick, Channel
<1>3. CASE UNCHANGED vars
  BY <1>3 DEF TypeOK, vars, Channel
<1>. QED BY <1>1, <1>2, <1>3, StartType, CancelType, PushType, PushFailsType, PopType, PopLostType,
            PopNilType, PopEndsType, DelayedType DEF Next, Answer

----------------------------------------------------------------------------
(* Who has what. *)
Others(c) == \A d \in Callers \ {c} : call'[d] = call[d] /\ handed'[d] = handed[d]

LEMMA OthersKeep ==
  ASSUME NEW c \in Callers, Others(c)
  PROVE  \A d \in Callers \ {c} : Given(d)' = Given(d)
  BY DEF Others, Given, Held, Busy

LEMMA GivenByReturn ==
  ASSUME TypeOK, NEW c \in Callers, NEW entries \in SUBSET Entry, Return(c, entries)
  PROVE  /\ Others(c) /\ Given(c)' = handed[c] \union entries
         /\ call'[c].op = "idle" /\ call'[c].got = {}
<1>1. /\ call'[c] = Idle /\ handed'[c] = handed[c] \union entries
      /\ \A d \in Callers \ {c} : call'[d] = call[d] /\ handed'[d] = handed[d]
  BY ReturnType
<1>. QED BY <1>1 DEF Given, Held, Busy, Idle, Others

LEMMA GivenByGoesOn ==
  ASSUME TypeOK, NEW c \in Callers, NEW got \in SUBSET Entry, call[c].want > 1, GoesOn(c, got),
         Busy(c, "pop") \/ Busy(c, "batch")
  PROVE  /\ Others(c) /\ Given(c)' = handed[c] \union got /\ handed'[c] = handed[c]
         /\ call'[c].op \in {"pop", "batch"} /\ call'[c].got = got
<1>1. /\ handed' = handed /\ call'[c].got = got /\ call'[c].op = call[c].op
      /\ \A d \in Callers \ {c} : call'[d] = call[d]
  BY GoesOnType
<1>. QED BY <1>1 DEF Given, Held, Busy, Others

LEMMA Accounts ==
  ASSUME NEW c \in Callers, Others(c)
  PROVE  LET rest == UNION {Given(d) : d \in Callers \ {c}} IN
         /\ Stock = ToSet(queue) \union delayed \union gone \union Given(c) \union rest
         /\ Stock' = ToSet(queue') \union delayed' \union gone' \union Given(c)' \union rest
<1>1. UNION {Given(d) : d \in Callers} = Given(c) \union UNION {Given(d) : d \in Callers \ {c}}
  OBVIOUS
<1>2. UNION {Given(d)' : d \in Callers} = Given(c)' \union UNION {Given(d)' : d \in Callers \ {c}}
  OBVIOUS
<1>3. UNION {Given(d)' : d \in Callers \ {c}} = UNION {Given(d) : d \in Callers \ {c}}
  BY OthersKeep
<1>. QED BY <1>1, <1>2, <1>3 DEF Stock

LEMMA StockType == ASSUME TypeOK PROVE Stock \subseteq Entry
<1>1. ToSet(queue) \subseteq Entry
  BY DEF TypeOK, ToSet
<1>2. \A c \in Callers : Given(c) \subseteq Entry
  BY CallsType DEF Given, Held, Calls, TypeOK
<1>. QED BY <1>1, <1>2 DEF Stock, TypeOK

(* One caller's step, with what it writes and what it is given. *)
LEMMA OneStep ==
  ASSUME TypeOK, Apart, GivenOnce, NEW c \in Callers, Others(c), UNCHANGED kind,
         NEW written \in SUBSET Entry, NEW taken \in SUBSET Entry,
         \A e \in written : e.n > put,
         ToSet(queue') \union delayed' \subseteq ToSet(queue) \union delayed \union written,
         Given(c)' \subseteq Given(c) \union taken, taken \subseteq Stock,
         taken \intersect (ToSet(queue') \union delayed') = {},
         \A d \in Callers \ {c} : \A e \in taken \intersect Given(d) : ~Channel /\ e.due # -1,
         call'[c].got \intersect handed'[c] = {}
  PROVE  GivenOnce'
<1>1. \A e \in Stock : e \notin written
  <2>1. put \in Nat /\ \A e \in Stock : e.n \in Nat /\ e.n <= put
    BY StockType, LegacyAssumption DEF TypeOK, Entry, Apart
  <2>2. \A e \in Stock : ~(e.n > put)
    BY <2>1
  <2>. QED BY <2>2
<1>2. \A d \in Callers : Given(d) \subseteq Stock
  BY DEF Stock
<1>3. \A d \in Callers \ {c} : Given(d)' = Given(d)
  BY OthersKeep
<1>4. \A d \in Callers : Given(d)' \intersect (ToSet(queue') \union delayed') = {}
  <2>1. ASSUME NEW d \in Callers, NEW e \in Given(d), e \in ToSet(queue') \union delayed' PROVE FALSE
    BY <1>1, <1>2, <2>1 DEF GivenOnce
  <2>. QED BY <1>3, <2>1
<1>5. \A d \in Callers : call'[d].got \intersect handed'[d] = {}
  BY DEF Others, GivenOnce
<1>6. ASSUME NEW a \in Callers, NEW b \in Callers, a # b, NEW e, e \in Given(a)', e \in Given(b)'
      PROVE  ~Channel' /\ e.due # -1
  <2>1. \A d \in Callers \ {c} : e \in Given(c)' /\ e \in Given(d) => ~Channel /\ e.due # -1
    BY DEF GivenOnce
  <2>2. ~Channel /\ e.due # -1
    BY <1>3, <1>6, <2>1 DEF GivenOnce
  <2>. QED BY <2>2 DEF Channel
<1>. QED BY <1>4, <1>5, <1>6 DEF GivenOnce

(* The same step seen from the numbers. *)
LEMMA OneStock ==
  ASSUME TypeOK, Apart, Numbered, UNCHANGED closed, put \in Nat, put' \in Nat,
         \/ Stock' = Stock /\ put' = put
         \/ /\ put' = put + 1 /\ 1..put' = (1..put) \union {put + 1}
            /\ \E due, data : Stock' = Stock \union {New(due, data)}
  PROVE  Numbered' /\ (\A e \in Stock' : e.n <= put') /\ Stock \subseteq Stock'
<1>1. Numbered <=> (~closed => {e.n : e \in Stock} = 1..put)
  BY DEF Numbered, Stock
<1>2. Numbered' <=> (~closed' => {e.n : e \in Stock'} = 1..put')
  BY DEF Numbered, Stock
<1>3. CASE Stock' = Stock /\ put' = put
  BY <1>1, <1>2, <1>3 DEF Apart
<1>4. CASE /\ put' = put + 1 /\ 1..put' = (1..put) \union {put + 1}
           /\ \E due, data : Stock' = Stock \union {New(due, data)}
  <2>1. PICK due, data : Stock' = Stock \union {New(due, data)}
    BY <1>4
  <2>6. New(due, data).n = put + 1
    BY DEF New
  <2>2. {e.n : e \in Stock'} = {e.n : e \in Stock} \union {put + 1}
    BY <2>1, <2>6
  <2>3. \A e \in Stock : e.n <= put
    BY DEF Apart
  <2>4. Numbered'
    BY <1>1, <1>2, <1>4, <2>2
  <2>5. ASSUME NEW e \in Stock' PROVE e.n <= put'
    <3>1. CASE e \in Stock
      <4>1. e.n \in Nat /\ e.n <= put
        BY <2>3, <3>1, StockType DEF Entry
      <4>. QED BY <1>4, <4>1
    <3>2. CASE e = New(due, data)
      BY <1>4, <2>6, <3>2
    <3>. QED BY <2>1, <3>1, <3>2
  <2>. QED BY <2>1, <2>4, <2>5
<1>. QED BY <1>3, <1>4

LEMMA Concluding ==
  ASSUME EmptyHanded, Apart, NEW c \in Callers, Others(c), UNCHANGED kind,
         \A e \in Stock' : e.n <= put', Stock \subseteq Stock',
         \A e \in ToSet(queue') : e.due = -1, \A e \in delayed' : e.due # -1, IsInjective(queue'),
         call'[c].op = "delayed" =>
           ~Channel /\ call'[c].got \subseteq Stock /\ \A e \in call'[c].got : e.due # -1,
         call'[c].op \in {"idle", "push"} => call'[c].got = {}
  PROVE  EmptyHanded' /\ Apart'
<1>1. EmptyHanded'
  BY DEF EmptyHanded, Others
<1>2. ASSUME NEW d \in Callers, Busy(d, "delayed")'
      PROVE  ~Channel' /\ call'[d].got \subseteq Stock' /\ \A e \in call'[d].got : e.due # -1
  <2>1. CASE d = c
    BY <1>2, <2>1 DEF Busy, Channel
  <2>2. CASE d # c
    BY <1>2, <2>2 DEF Busy, Channel, Others, Apart
  <2>. QED BY <2>1, <2>2
<1>3. Apart'
  BY <1>2 DEF Apart
<1>. QED BY <1>1, <1>3

(* A step that moves nothing. *)
LEMMA QuietStep ==
  ASSUME LInv, NEW c \in Callers, Others(c), UNCHANGED <<kind, closed, queue, delayed, gone, put>>,
         Given(c)' = Given(c), call'[c].got \intersect handed'[c] = {},
         call'[c].op = "delayed" =>
           ~Channel /\ call'[c].got \subseteq Stock /\ \A e \in call'[c].got : e.due # -1,
         call'[c].op \in {"idle", "push"} => call'[c].got = {}
  PROVE  EmptyHanded' /\ Apart' /\ Numbered' /\ GivenOnce'
<1>0. TypeOK /\ EmptyHanded /\ Apart /\ Numbered /\ GivenOnce
  BY DEF LInv
<1>1. Stock' = Stock
  <2>. DEFINE rest == UNION {Given(d) : d \in Callers \ {c}}
  <2>1. Stock = ToSet(queue) \union delayed \union gone \union Given(c) \union rest
    BY Accounts
  <2>2. Stock' = ToSet(queue') \union delayed' \union gone' \union Given(c)' \union rest
    BY Accounts
  <2>. HIDE DEF rest
  <2>. QED BY <2>1, <2>2
<1>2. Numbered' /\ (\A e \in Stock' : e.n <= put') /\ Stock \subseteq Stock'
  <2>1. put \in Nat
    BY <1>0, LegacyAssumption DEF TypeOK
  <2>. QED BY <1>0, <1>1, <2>1, OneStock
<1>3. GivenOnce'
  <2>. DEFINE none == {}
  <2>1. none \in SUBSET Entry
    OBVIOUS
  <2>2. ToSet(queue') \union delayed' \subseteq ToSet(queue) \union delayed \union none
    BY DEF ToSet
  <2>. QED BY <1>0, <2>1, <2>2, OneStep
<1>4. /\ \A e \in ToSet(queue') : e.due = -1
      /\ \A e \in delayed' : e.due # -1
      /\ IsInjective(queue')
  BY <1>0 DEF Apart, ToSet, IsInjective
<1>5. EmptyHanded' /\ Apart'
  BY <1>0, <1>2, <1>4, Concluding
<1>. QED BY <1>2, <1>3, <1>5

LEMMA StartMoves == ASSUME LInv, NEW c \in Callers, Start(c) PROVE EmptyHanded' /\ Apart' /\ Numbered' /\ GivenOnce'
<1>0. TypeOK /\ EmptyHanded
  BY DEF LInv
<1>1. PICK op \in {"push", "pop", "batch"}, b \in BOOLEAN, k \in Counts \union {1} :
        call' = [call EXCEPT ![c] = [Idle EXCEPT !.op = op, !.blocking = b, !.want = k]]
  BY DEF Start
<1>2. call'[c] = [Idle EXCEPT !.op = op, !.blocking = b, !.want = k] /\ Others(c)
  BY <1>0, <1>1, CallsType DEF Start, Others
<1>3. call'[c].op = op /\ call'[c].got = {}
  BY <1>2 DEF Idle
<1>4. Given(c)' = handed[c] /\ Given(c) = handed[c]
  BY <1>0, <1>3 DEF Given, Held, Busy, Start, Idle
<1>. QED BY <1>2, <1>3, <1>4, QuietStep DEF Start

LEMMA CancelMoves == ASSUME LInv, NEW c \in Callers, Cancel(c) PROVE EmptyHanded' /\ Apart' /\ Numbered' /\ GivenOnce'
<1>0. TypeOK /\ EmptyHanded /\ Apart /\ GivenOnce /\ call[c] \in Calls
  BY CallsType DEF LInv
<1>1. call'[c] = [call[c] EXCEPT !.cancelled = TRUE] /\ Others(c)
  BY <1>0, CallsType DEF Cancel, Others
<1>2. call'[c].op = call[c].op /\ call'[c].got = call[c].got
  BY <1>0, <1>1 DEF Calls
<1>3. Given(c)' = Given(c) /\ call'[c].got \intersect handed'[c] = {}
  BY <1>0, <1>2 DEF Given, Held, Busy, Cancel, GivenOnce
<1>4. /\ call'[c].op = "delayed" =>
           ~Channel /\ call'[c].got \subseteq Stock /\ \A e \in call'[c].got : e.due # -1
      /\ call'[c].op \in {"idle", "push"} => call'[c].got = {}
  BY <1>0, <1>2 DEF Apart, EmptyHanded, Busy
<1>. QED BY <1>1, <1>3, <1>4, QuietStep DEF Cancel

LEMMA PushFailsMoves == ASSUME LInv, NEW c \in Callers, PushFails(c) PROVE EmptyHanded' /\ Apart' /\ Numbered' /\ GivenOnce'
<1>0. TypeOK /\ EmptyHanded
  BY DEF LInv
<1>1. Others(c) /\ Given(c)' = handed[c] /\ call'[c].op = "idle" /\ call'[c].got = {}
  BY <1>0, GivenByReturn DEF PushFails
<1>2. Given(c) = handed[c]
  BY <1>0 DEF Given, Held, Busy, PushFails, EmptyHanded
<1>. QED BY <1>1, <1>2, QuietStep DEF PushFails

LEMMA PopNilMoves == ASSUME LInv, NEW c \in Callers, PopNil(c) PROVE EmptyHanded' /\ Apart' /\ Numbered' /\ GivenOnce'
<1>0. TypeOK /\ GivenOnce /\ call[c].got \in SUBSET Entry /\ call[c].want \in Nat
  BY GotType DEF LInv
<1>1. Given(c) = handed[c] \union call[c].got
  BY DEF Given, Held, Busy, PopNil
<1>2. CASE Return(c, call[c].got)
  <2>1. Others(c) /\ Given(c)' = Given(c) /\ call'[c].op = "idle" /\ call'[c].got = {}
    BY <1>0, <1>1, <1>2, GivenByReturn
  <2>. QED BY <2>1, QuietStep DEF PopNil
<1>3. CASE call[c].want > 1 /\ GoesOn(c, call[c].got)
  <2>1. /\ Others(c) /\ Given(c)' = Given(c) /\ call'[c].op \in {"pop", "batch"}
        /\ call'[c].got = call[c].got /\ handed'[c] = handed[c]
    BY <1>0, <1>1, <1>3, GivenByGoesOn DEF PopNil
  <2>2. call'[c].got \intersect handed'[c] = {}
    BY <1>0, <2>1 DEF GivenOnce
  <2>. QED BY <2>1, <2>2, QuietStep DEF PopNil
<1>. QED BY <1>0, <1>2, <1>3 DEF PopNil

LEMMA RangeMoves ==
  ASSUME LInv, NEW c \in Callers, RangeDelayed(c) PROVE EmptyHanded' /\ Apart' /\ Numbered' /\ GivenOnce'
<1>0. TypeOK /\ EmptyHanded /\ Apart /\ GivenOnce
  BY DEF LInv
<1>1. PICK taken \in SUBSET delayed :
        call' = [call EXCEPT ![c] = [Idle EXCEPT !.op = "delayed", !.got = taken]]
  BY DEF RangeDelayed, Takings
<1>2. call'[c] = [Idle EXCEPT !.op = "delayed", !.got = taken] /\ Others(c)
  BY <1>0, <1>1, CallsType DEF RangeDelayed, Others
<1>3. call'[c].op = "delayed" /\ call'[c].got = taken
  BY <1>2 DEF Idle
<1>4. Given(c)' = handed[c] /\ Given(c) = handed[c]
  BY <1>0, <1>3 DEF Given, Held, Busy, RangeDelayed, Idle
<1>5. taken \subseteq Stock /\ \A e \in taken : e.due # -1
  BY <1>0 DEF Stock, Apart
<1>6. call'[c].got \intersect handed'[c] = {}
  BY <1>0, <1>3, <1>4 DEF RangeDelayed, GivenOnce
<1>7. ~Channel
  BY DEF RangeDelayed
<1>. QED BY <1>2, <1>3, <1>4, <1>5, <1>6, <1>7, QuietStep DEF RangeDelayed

(* A step that takes entries out of the engine. *)
LEMMA TakeStep ==
  ASSUME LInv, NEW c \in Callers, Others(c), UNCHANGED <<kind, closed, put>>, Stock' = Stock,
         NEW taken \in SUBSET Stock, ToSet(queue') \subseteq ToSet(queue), delayed' \subseteq delayed,
         Given(c)' \subseteq Given(c) \union taken,
         taken \intersect (ToSet(queue') \union delayed') = {},
         \A d \in Callers \ {c} : \A e \in taken \intersect Given(d) : ~Channel /\ e.due # -1,
         IsInjective(queue'), call'[c].got \intersect handed'[c] = {},
         call'[c].op # "delayed", call'[c].op \in {"idle", "push"} => call'[c].got = {}
  PROVE  EmptyHanded' /\ Apart' /\ Numbered' /\ GivenOnce'
<1>0. TypeOK /\ EmptyHanded /\ Apart /\ Numbered /\ GivenOnce
  BY DEF LInv
<1>1. Numbered' /\ (\A e \in Stock' : e.n <= put') /\ Stock \subseteq Stock'
  <2>1. put \in Nat
    BY <1>0, LegacyAssumption DEF TypeOK
  <2>. QED BY <1>0, <2>1, OneStock
<1>2. GivenOnce'
  <2>. DEFINE none == {}
  <2>1. none \in SUBSET Entry /\ taken \in SUBSET Entry
    BY <1>0, StockType
  <2>2. ToSet(queue') \union delayed' \subseteq ToSet(queue) \union delayed \union none
    OBVIOUS
  <2>. QED BY <1>0, <2>1, <2>2, OneStep
<1>3. /\ \A e \in ToSet(queue') : e.due = -1
      /\ \A e \in delayed' : e.due # -1
  BY <1>0 DEF Apart
<1>4. EmptyHanded' /\ Apart'
  BY <1>0, <1>1, <1>3, Concluding
<1>. QED BY <1>1, <1>2, <1>4

(* A step that writes an entry. *)
LEMMA WriteStep ==
  ASSUME LInv, NEW c \in Callers, Others(c), UNCHANGED <<kind, closed>>, Write, NEW due, NEW data, New(due, data) \in Entry,
         ToSet(queue') \union delayed' \union gone'
           = ToSet(queue) \union delayed \union gone \union {New(due, data)},
         ToSet(queue') \union delayed' \subseteq ToSet(queue) \union delayed \union {New(due, data)},
         Given(c)' = Given(c), IsInjective(queue'), call'[c].got \intersect handed'[c] = {},
         \A e \in ToSet(queue') : e.due = -1, \A e \in delayed' : e.due # -1,
         call'[c].op # "delayed", call'[c].op \in {"idle", "push"} => call'[c].got = {}
  PROVE  EmptyHanded' /\ Apart' /\ Numbered' /\ GivenOnce'
<1>0. TypeOK /\ EmptyHanded /\ Apart /\ Numbered /\ GivenOnce
  BY DEF LInv
<1>1. put \in Nat /\ put' = put + 1 /\ 1..put' = (1..put) \union {put + 1} /\ put' \in Nat
  BY <1>0, WriteType, LegacyAssumption
<1>2. Stock' = Stock \union {New(due, data)}
  <2>. DEFINE rest == UNION {Given(d) : d \in Callers \ {c}}
  <2>1. Stock = ToSet(queue) \union delayed \union gone \union Given(c) \union rest
    BY Accounts
  <2>2. Stock' = ToSet(queue') \union delayed' \union gone' \union Given(c)' \union rest
    BY Accounts
  <2>. HIDE DEF rest
  <2>. QED BY <2>1, <2>2
<1>4. Numbered' /\ (\A e \in Stock' : e.n <= put') /\ Stock \subseteq Stock'
  BY <1>0, <1>1, <1>2, OneStock
<1>5. GivenOnce'
  <2>. DEFINE none == {}
              written == {New(due, data)}
  <2>1. none \in SUBSET Entry /\ written \in SUBSET Entry /\ none \subseteq Stock
    OBVIOUS
  <2>2. \A e \in written : e.n > put
    <3>1. New(due, data).n = put + 1
      BY DEF New
    <3>2. New(due, data).n > put
      BY <1>1, <3>1
    <3>. QED BY <3>2
  <2>3. /\ none \intersect (ToSet(queue') \union delayed') = {}
        /\ \A d \in Callers \ {c} : \A e \in none \intersect Given(d) : ~Channel /\ e.due # -1
        /\ Given(c)' \subseteq Given(c) \union none
        /\ ToSet(queue') \union delayed' \subseteq ToSet(queue) \union delayed \union written
    OBVIOUS
  <2>. HIDE DEF none, written
  <2>. QED BY <1>0, <2>1, <2>2, <2>3, OneStep
<1>6. EmptyHanded' /\ Apart'
  BY <1>0, <1>4, Concluding
<1>. QED BY <1>4, <1>5, <1>6

LEMMA SeqDomain ==
  ASSUME NEW S, NEW q \in Seq(S), NEW e \in S
  PROVE  Len(q) \in Nat /\ DOMAIN q = 1..Len(q) /\ DOMAIN Append(q, e) = 1..(Len(q) + 1)
  OBVIOUS

LEMMA AppendStaysInjective ==
  ASSUME NEW S, NEW q \in Seq(S), NEW e \in S, IsInjective(q), e \notin ToSet(q),
         NEW r, r = Append(q, e)
  PROVE  IsInjective(r)
<1>. DEFINE n == Len(q)
<1>0. n \in Nat /\ DOMAIN q = 1..n /\ DOMAIN r = 1..(n + 1)
  BY SeqDomain
<1>1. r[n + 1] = e
  OBVIOUS
<1>2. \A i \in 1..n : r[i] = q[i]
  OBVIOUS
<1>. HIDE DEF n
<1>3. \A i \in 1..n : r[i] # e
  BY <1>0, <1>2 DEF ToSet
<1>4. \A i \in 1..(n + 1) : i \in 1..n \/ i = n + 1
  BY <1>0
<1>5. \A i, j \in 1..n : r[i] = r[j] => i = j
  BY <1>0, <1>2 DEF IsInjective
<1>6. \A i, j \in 1..(n + 1) : r[i] = r[j] => i = j
  BY <1>1, <1>3, <1>4, <1>5
<1>. QED BY <1>0, <1>6, Zenon DEF IsInjective

LEMMA TailStaysInjective ==
  ASSUME NEW S, NEW q \in Seq(S), q # <<>>, IsInjective(q)
  PROVE  IsInjective(Tail(q)) /\ Head(q) \notin ToSet(Tail(q))
<1>1. /\ Len(q) \in Nat \ {0} /\ Head(q) = q[1] /\ Tail(q) \in Seq(S) /\ Len(Tail(q)) = Len(q) - 1
  BY HeadTailProperties, EmptySeq
<1>2. DOMAIN q = 1..Len(q) /\ DOMAIN Tail(q) = 1..(Len(q) - 1)
  BY <1>1
<1>3. \A i \in 1..(Len(q) - 1) : Tail(q)[i] = q[i + 1] /\ i + 1 \in 1..Len(q) /\ i + 1 # 1
  BY <1>1
<1>4. 1 \in 1..Len(q)
  BY <1>1
<1>5. \A i, j \in 1..Len(q) : q[i] = q[j] => i = j
  BY <1>2 DEF IsInjective
<1>6. Head(q) \notin ToSet(Tail(q))
  BY <1>1, <1>2, <1>3, <1>4, <1>5 DEF ToSet
<1>7. ASSUME NEW i \in 1..(Len(q) - 1), NEW j \in 1..(Len(q) - 1), Tail(q)[i] = Tail(q)[j] PROVE i = j
  <2>1. i + 1 = j + 1
    BY <1>3, <1>5, <1>7
  <2>. QED BY <1>1, <2>1
<1>. QED BY <1>2, <1>6, <1>7 DEF IsInjective

LEMMA PushMoves ==
  ASSUME LInv, NEW c \in Callers, Push(c) PROVE EmptyHanded' /\ Apart' /\ Numbered' /\ GivenOnce'
<1>0. TypeOK /\ EmptyHanded /\ Apart /\ GivenOnce /\ queue \in Seq(Entry)
  BY DEF LInv, TypeOK
<1>. PICK data \in Payloads : queue' = Append(queue, New(-1, data))
  BY DEF Push
<1>. DEFINE new == New(-1, data)
<1>1. /\ Write /\ queue' = Append(queue, new) /\ UNCHANGED <<kind, closed, delayed, gone>>
      /\ call[c].op = "push" /\ call[c].got = {}
  BY <1>0 DEF Push, Busy, EmptyHanded
<1>2. Others(c) /\ Given(c)' = Given(c) /\ call'[c].op \in {"idle", "push"} /\ call'[c].got = {}
  <2>1. CASE Return(c, {})
    <3>1. Given(c) = handed[c]
      BY <1>1 DEF Given, Held, Busy
    <3>. QED BY <1>0, <2>1, <3>1, GivenByReturn
  <2>2. CASE UNCHANGED <<call, handed>>
    BY <1>1, <2>2 DEF Given, Held, Busy, Others
  <2>. QED BY <2>1, <2>2 DEF Push
<1>3. new \in Entry /\ new.due = -1 /\ put \in Nat /\ new.n = put + 1
  BY <1>0, <1>1, WriteType DEF New
<1>. HIDE DEF new
<1>4. new \notin ToSet(queue)
  <2>1. \A e \in ToSet(queue) : e.n <= put
    BY <1>0 DEF Apart, Stock
  <2>. QED BY <1>3, <2>1
<1>5. ToSet(queue') = ToSet(queue) \union {new} /\ IsInjective(queue')
  <2>1. IsInjective(queue)
    BY <1>0 DEF Apart
  <2>2. IsInjective(queue')
    <3>1. new \in Entry /\ queue' = Append(queue, new)
      BY <1>1, <1>3
    <3>. QED BY <1>0, <1>4, <2>1, <3>1, AppendStaysInjective
  <2>. QED BY <1>0, <1>1, <1>3, <2>2, AppendSet
<1>6. \A e \in ToSet(queue') : e.due = -1
  BY <1>0, <1>3, <1>5 DEF Apart
<1>7. \A e \in delayed' : e.due # -1
  BY <1>0, <1>1 DEF Apart
<1>8. /\ ToSet(queue') \union delayed' \union gone'
           = ToSet(queue) \union delayed \union gone \union {new}
      /\ ToSet(queue') \union delayed' \subseteq ToSet(queue) \union delayed \union {new}
  BY <1>1, <1>5
<1>. QED BY <1>1, <1>2, <1>3, <1>5, <1>6, <1>7, <1>8, WriteStep DEF new

(* The front of the queue, which nobody has been given. *)
LEMMA FrontOfQueue ==
  ASSUME LInv, queue # <<>>, queue' = Tail(queue)
  PROVE  /\ Head(queue) \in Entry /\ Head(queue) \in Stock
         /\ ToSet(queue) = ToSet(queue') \union {Head(queue)}
         /\ IsInjective(queue') /\ Head(queue) \notin ToSet(queue') \union delayed
         /\ \A c \in Callers : Head(queue) \notin Given(c)
<1>1. queue \in Seq(Entry) /\ Apart /\ GivenOnce
  BY DEF LInv, TypeOK
<1>2. Head(queue) \in Entry /\ ToSet(queue) = ToSet(queue') \union {Head(queue)}
  BY <1>1, HeadTailSet
<1>3. IsInjective(queue') /\ Head(queue) \notin ToSet(queue')
  BY <1>1, TailStaysInjective DEF Apart
<1>4. Head(queue) \in Stock
  BY <1>2 DEF Stock
<1>5. Head(queue) \notin delayed
  BY <1>1, <1>2 DEF Apart
<1>6. \A c \in Callers : Head(queue) \notin Given(c)
  BY <1>1, <1>2 DEF GivenOnce
<1>. QED BY <1>2, <1>3, <1>4, <1>5, <1>6

(* When a caller takes what the engine or the caller itself had, the stock stays. *)
LEMMA SameStock ==
  ASSUME NEW c \in Callers, Others(c),
         ToSet(queue') \union delayed' \union gone' \union Given(c)' \subseteq Stock,
         ToSet(queue) \union delayed \union gone \union Given(c)
           \subseteq ToSet(queue') \union delayed' \union gone' \union Given(c)'
  PROVE  Stock' = Stock
<1>. DEFINE rest == UNION {Given(d) : d \in Callers \ {c}}
<1>1. Stock = ToSet(queue) \union delayed \union gone \union Given(c) \union rest
  BY Accounts
<1>2. Stock' = ToSet(queue') \union delayed' \union gone' \union Given(c)' \union rest
  BY Accounts
<1>. HIDE DEF rest
<1>. QED BY <1>1, <1>2

LEMMA PopMoves ==
  ASSUME LInv, NEW c \in Callers, Pop(c) PROVE EmptyHanded' /\ Apart' /\ Numbered' /\ GivenOnce'
<1>. DEFINE head == Head(queue)
            got == call[c].got \union {head}
<1>0. /\ TypeOK /\ GivenOnce /\ call[c].got \in SUBSET Entry /\ call[c].want \in Nat
      /\ queue # <<>> /\ queue' = Tail(queue) /\ UNCHANGED <<kind, closed, delayed, gone, put>>
      /\ Busy(c, "pop") \/ Busy(c, "batch")
  BY GotType DEF LInv, Pop
<1>1. /\ head \in Entry /\ head \in Stock /\ ToSet(queue) = ToSet(queue') \union {head}
      /\ IsInjective(queue') /\ head \notin ToSet(queue') \union delayed
      /\ \A d \in Callers : head \notin Given(d)
  BY <1>0, FrontOfQueue
<1>2. Return(c, got) \/ (call[c].want > 1 /\ GoesOn(c, got))
  BY <1>0 DEF Pop
<1>. HIDE DEF head
<1>3. Given(c) = handed[c] \union call[c].got
  BY <1>0 DEF Given, Held, Busy
<1>4. got \in SUBSET Entry
  BY <1>0, <1>1
<1>5. /\ Others(c) /\ Given(c)' = Given(c) \union {head}
      /\ call'[c].got \intersect handed'[c] = {}
      /\ call'[c].op # "delayed"
      /\ call'[c].op \in {"idle", "push"} => call'[c].got = {}
  <2>1. CASE Return(c, got)
    <3>1. Others(c) /\ Given(c)' = handed[c] \union got /\ call'[c].op = "idle" /\ call'[c].got = {}
      BY <1>0, <1>4, <2>1, GivenByReturn
    <3>. QED BY <1>3, <3>1
  <2>2. CASE call[c].want > 1 /\ GoesOn(c, got)
    <3>1. /\ Others(c) /\ Given(c)' = handed[c] \union got /\ call'[c].op \in {"pop", "batch"}
          /\ call'[c].got = got /\ handed'[c] = handed[c]
      BY <1>0, <1>4, <2>2, GivenByGoesOn
    <3>2. got \intersect handed[c] = {}
      BY <1>0, <1>1, <1>3 DEF GivenOnce
    <3>. QED BY <1>3, <3>1, <3>2
  <2>. QED BY <1>2, <2>1, <2>2
<1>6. Stock' = Stock
  <2>1. /\ ToSet(queue') \union delayed' \union gone' \union Given(c)' \subseteq Stock
        /\ ToSet(queue) \union delayed \union gone \union Given(c)
             \subseteq ToSet(queue') \union delayed' \union gone' \union Given(c)'
    BY <1>0, <1>1, <1>5 DEF Stock
  <2>. QED BY <1>5, <2>1, SameStock
<1>. DEFINE taken == {head}
<1>7. /\ taken \in SUBSET Stock /\ taken \intersect (ToSet(queue') \union delayed') = {}
      /\ \A d \in Callers \ {c} : \A e \in taken \intersect Given(d) : ~Channel /\ e.due # -1
      /\ Given(c)' \subseteq Given(c) \union taken
      /\ ToSet(queue') \subseteq ToSet(queue) /\ delayed' \subseteq delayed
  BY <1>0, <1>1, <1>5
<1>. HIDE DEF taken
<1>. QED BY <1>0, <1>1, <1>5, <1>6, <1>7, TakeStep

LEMMA PopLostMoves ==
  ASSUME LInv, NEW c \in Callers, PopLost(c) PROVE EmptyHanded' /\ Apart' /\ Numbered' /\ GivenOnce'
<1>. DEFINE head == Head(queue)
            none == {}
<1>0. /\ TypeOK /\ GivenOnce /\ call[c].got \in SUBSET Entry /\ call[c].op \in {"pop", "batch"}
      /\ queue # <<>> /\ queue' = Tail(queue) /\ UNCHANGED <<kind, closed, delayed, put>>
      /\ gone' = gone \union {head}
  BY GotType DEF LInv, PopLost, Busy
<1>1. /\ head \in Entry /\ head \in Stock /\ ToSet(queue) = ToSet(queue') \union {head}
      /\ IsInjective(queue')
  BY <1>0, FrontOfQueue
<1>. HIDE DEF head
<1>2. /\ Others(c) /\ Given(c)' = Given(c) /\ call'[c].got \intersect handed'[c] = {}
      /\ call'[c].op # "delayed"
      /\ call'[c].op \in {"idle", "push"} => call'[c].got = {}
  <2>1. CASE Return(c, call[c].got)
    <3>1. Given(c) = handed[c] \union call[c].got
      BY <1>0 DEF Given, Held, Busy
    <3>. QED BY <1>0, <2>1, <3>1, GivenByReturn
  <2>2. CASE UNCHANGED <<call, handed>>
    BY <1>0, <2>2 DEF Given, Held, Busy, Others, GivenOnce
  <2>. QED BY <2>1, <2>2 DEF PopLost
<1>3. Stock' = Stock
  <2>1. /\ ToSet(queue') \union delayed' \union gone' \union Given(c)' \subseteq Stock
        /\ ToSet(queue) \union delayed \union gone \union Given(c)
             \subseteq ToSet(queue') \union delayed' \union gone' \union Given(c)'
    BY <1>0, <1>1, <1>2 DEF Stock
  <2>. QED BY <1>2, <2>1, SameStock
<1>4. /\ none \in SUBSET Stock /\ none \intersect (ToSet(queue') \union delayed') = {}
      /\ \A d \in Callers \ {c} : \A e \in none \intersect Given(d) : ~Channel /\ e.due # -1
      /\ Given(c)' \subseteq Given(c) \union none
      /\ ToSet(queue') \subseteq ToSet(queue) /\ delayed' \subseteq delayed
  BY <1>0, <1>1, <1>2
<1>. HIDE DEF none
<1>. QED BY <1>0, <1>1, <1>2, <1>3, <1>4, TakeStep

LEMMA PopEndsMoves ==
  ASSUME LInv, NEW c \in Callers, PopEnds(c) PROVE EmptyHanded' /\ Apart' /\ Numbered' /\ GivenOnce'
<1>. DEFINE got == call[c].got
            none == {}
<1>0. /\ TypeOK /\ got \in SUBSET Entry /\ none \in SUBSET Entry /\ call[c].op \in {"pop", "batch"}
      /\ IsInjective(queue) /\ UNCHANGED <<kind, closed, queue, delayed, put>>
  BY GotType DEF LInv, Apart, PopEnds, Busy
<1>1. Given(c) = handed[c] \union got
  BY <1>0 DEF Given, Held, Busy
<1>2. \/ Return(c, got) /\ gone' = gone
      \/ Return(c, none) /\ gone' = gone \union got
  BY DEF PopEnds
<1>. HIDE DEF got, none
<1>3. /\ Others(c) /\ call'[c].op = "idle" /\ call'[c].got = {}
      /\ \/ Given(c)' = handed[c] \union got /\ gone' = gone
         \/ Given(c)' = handed[c] \union none /\ gone' = gone \union got
  BY <1>0, <1>2, GivenByReturn
<1>. USE DEF none
<1>4. Stock' = Stock
  <2>1. /\ ToSet(queue') \union delayed' \union gone' \union Given(c)' \subseteq Stock
        /\ ToSet(queue) \union delayed \union gone \union Given(c)
             \subseteq ToSet(queue') \union delayed' \union gone' \union Given(c)'
    BY <1>0, <1>1, <1>3 DEF Stock
  <2>. QED BY <1>3, <2>1, SameStock
<1>5. /\ none \in SUBSET Stock /\ none \intersect (ToSet(queue') \union delayed') = {}
      /\ \A d \in Callers \ {c} : \A e \in none \intersect Given(d) : ~Channel /\ e.due # -1
      /\ Given(c)' \subseteq Given(c) \union none
      /\ ToSet(queue') \subseteq ToSet(queue) /\ delayed' \subseteq delayed
      /\ IsInjective(queue') /\ call'[c].got \intersect handed'[c] = {}
  BY <1>0, <1>1, <1>3
<1>. HIDE DEF none
<1>. QED BY <1>0, <1>3, <1>4, <1>5, TakeStep

LEMMA PushDelayedMoves ==
  ASSUME LInv, NEW c \in Callers, PushDelayed(c) PROVE EmptyHanded' /\ Apart' /\ Numbered' /\ GivenOnce'
<1>0. /\ TypeOK /\ EmptyHanded /\ Apart /\ GivenOnce /\ Write /\ call[c].op = "idle"
      /\ UNCHANGED <<kind, closed, queue, call, handed>>
  BY DEF LInv, PushDelayed, Idle
<1>1. PICK d \in Delays, data \in Payloads :
        LET same == {e \in delayed : ~Channel /\ e.data = data} IN
        /\ delayed' = (delayed \ same) \union {New(now + d, data)}
        /\ gone' = gone \union same
  BY DEF PushDelayed
<1>. DEFINE due == now + d
            new == New(due, data)
<1>2. new \in Entry /\ due >= 0 /\ new.due = due
  BY <1>0, WriteType DEF New
<1>3. due # -1
  BY <1>2
<1>. HIDE DEF due, new
<1>4. /\ delayed' \union gone' = delayed \union gone \union {new}
      /\ delayed' \subseteq delayed \union {new}
  BY <1>1 DEF new, due
<1>5. \A e \in delayed' : e.due # -1
  BY <1>0, <1>2, <1>3, <1>4 DEF Apart
<1>6. /\ \A e \in ToSet(queue') : e.due = -1
      /\ IsInjective(queue')
  BY <1>0 DEF Apart
<1>7. /\ Others(c) /\ Given(c)' = Given(c) /\ call'[c].got \intersect handed'[c] = {}
      /\ call'[c].op # "delayed" /\ (call'[c].op \in {"idle", "push"} => call'[c].got = {})
  BY <1>0 DEF Others, Given, Held, Busy, GivenOnce, EmptyHanded
<1>8. /\ ToSet(queue') \union delayed' \union gone'
           = ToSet(queue) \union delayed \union gone \union {New(due, data)}
      /\ ToSet(queue') \union delayed' \subseteq ToSet(queue) \union delayed \union {New(due, data)}
      /\ New(due, data) \in Entry
  BY <1>0, <1>2, <1>4 DEF new
<1>. QED BY <1>0, <1>5, <1>6, <1>7, <1>8, WriteStep

LEMMA PopDelayedMoves ==
  ASSUME LInv, NEW c \in Callers, PopDelayed(c) PROVE EmptyHanded' /\ Apart' /\ Numbered' /\ GivenOnce'
<1>0. /\ TypeOK /\ Apart /\ GivenOnce /\ call[c].op = "idle" /\ call[c].got = {}
      /\ UNCHANGED <<kind, closed, queue, gone, put>>
  BY DEF LInv, PopDelayed, Idle
<1>1. PICK taken \in SUBSET delayed : Return(c, taken) /\ delayed' = delayed \ taken
  BY DEF PopDelayed, Takings, Without
<1>2. taken \in SUBSET Entry /\ taken \in SUBSET Stock
  BY <1>0 DEF TypeOK, Stock
<1>3. Others(c) /\ Given(c)' = handed[c] \union taken /\ call'[c].op = "idle" /\ call'[c].got = {}
  BY <1>0, <1>1, <1>2, GivenByReturn
<1>4. Given(c) = handed[c]
  BY <1>0 DEF Given, Held, Busy
<1>5. /\ taken \intersect (ToSet(queue') \union delayed') = {}
      /\ \A d \in Callers \ {c} : \A e \in taken \intersect Given(d) : ~Channel /\ e.due # -1
      /\ Given(c)' \subseteq Given(c) \union taken
      /\ ToSet(queue') \subseteq ToSet(queue) /\ delayed' \subseteq delayed
      /\ IsInjective(queue') /\ call'[c].got \intersect handed'[c] = {}
  BY <1>0, <1>1, <1>3, <1>4 DEF Apart, GivenOnce
<1>6. Stock' = Stock
  <2>1. /\ ToSet(queue') \union delayed' \union gone' \union Given(c)' \subseteq Stock
        /\ ToSet(queue) \union delayed \union gone \union Given(c)
             \subseteq ToSet(queue') \union delayed' \union gone' \union Given(c)'
    BY <1>0, <1>1, <1>3, <1>4 DEF Stock
  <2>. QED BY <1>3, <2>1, SameStock
<1>. QED BY <1>0, <1>2, <1>3, <1>5, <1>6, TakeStep

LEMMA RemoveDelayedMoves ==
  ASSUME LInv, NEW c \in Callers, RemoveDelayed(c) PROVE EmptyHanded' /\ Apart' /\ Numbered' /\ GivenOnce'
<1>. DEFINE taken == call[c].got
<1>0. /\ TypeOK /\ Apart /\ GivenOnce /\ call[c].op = "delayed" /\ Return(c, taken)
      /\ delayed' = WithoutBytes(taken) /\ UNCHANGED <<kind, closed, queue, put>>
      /\ gone' = gone \union ((delayed \ delayed') \ taken)
      /\ taken \in SUBSET Entry
  BY GotType DEF LInv, RemoveDelayed, Busy
<1>6. delayed' \subseteq delayed \ taken
  BY <1>0 DEF WithoutBytes
<1>1. ~Channel /\ taken \in SUBSET Stock /\ \A e \in taken : e.due # -1
  BY <1>0 DEF Apart, Busy
<1>2. Given(c) = handed[c]
  BY <1>0 DEF Given, Held, Busy
<1>. HIDE DEF taken
<1>3. Others(c) /\ Given(c)' = handed[c] \union taken /\ call'[c].op = "idle" /\ call'[c].got = {}
  BY <1>0, GivenByReturn
<1>4. /\ taken \intersect (ToSet(queue') \union delayed') = {}
      /\ \A d \in Callers \ {c} : \A e \in taken \intersect Given(d) : ~Channel /\ e.due # -1
      /\ Given(c)' \subseteq Given(c) \union taken
      /\ ToSet(queue') \subseteq ToSet(queue) /\ delayed' \subseteq delayed
      /\ IsInjective(queue') /\ call'[c].got \intersect handed'[c] = {}
  BY <1>0, <1>1, <1>2, <1>3, <1>6 DEF Apart
<1>5. Stock' = Stock
  <2>1. /\ ToSet(queue') \union delayed' \union gone' \union Given(c)' \subseteq Stock
        /\ ToSet(queue) \union delayed \union gone \union Given(c)
             \subseteq ToSet(queue') \union delayed' \union gone' \union Given(c)'
    BY <1>0, <1>1, <1>2, <1>3, <1>6 DEF Stock
  <2>. QED BY <1>3, <2>1, SameStock
<1>. QED BY <1>0, <1>1, <1>3, <1>4, <1>5, <1>6, TakeStep

LEMMA RemoveFailsMoves ==
  ASSUME LInv, NEW c \in Callers, RemoveFails(c) PROVE EmptyHanded' /\ Apart' /\ Numbered' /\ GivenOnce'
<1>. DEFINE got == call[c].got
            none == {}
<1>0. /\ TypeOK /\ IsInjective(queue) /\ call[c].op = "delayed" /\ Return(c, none)
      /\ UNCHANGED <<kind, closed, queue, put>>
      /\ \/ delayed' = WithoutBytes(got) /\ gone' = gone \union (delayed \ delayed')
         \/ UNCHANGED <<delayed, gone>>
  BY DEF LInv, Apart, RemoveFails, Busy
<1>5. delayed' \subseteq delayed
  BY <1>0 DEF WithoutBytes
<1>1. Given(c) = handed[c]
  BY <1>0 DEF Given, Held, Busy
<1>. HIDE DEF got
<1>2. Others(c) /\ Given(c)' = Given(c) /\ call'[c].op = "idle" /\ call'[c].got = {}
  BY <1>0, <1>1, GivenByReturn
<1>3. Stock' = Stock
  <2>1. /\ ToSet(queue') \union delayed' \union gone' \union Given(c)' \subseteq Stock
        /\ ToSet(queue) \union delayed \union gone \union Given(c)
             \subseteq ToSet(queue') \union delayed' \union gone' \union Given(c)'
    BY <1>0, <1>2, <1>5 DEF Stock
  <2>. QED BY <1>2, <2>1, SameStock
<1>4. /\ none \in SUBSET Stock /\ none \intersect (ToSet(queue') \union delayed') = {}
      /\ \A d \in Callers \ {c} : \A e \in none \intersect Given(d) : ~Channel /\ e.due # -1
      /\ Given(c)' \subseteq Given(c) \union none
      /\ ToSet(queue') \subseteq ToSet(queue) /\ delayed' \subseteq delayed
      /\ IsInjective(queue') /\ call'[c].got \intersect handed'[c] = {}
  BY <1>0, <1>2, <1>5
<1>. HIDE DEF none
<1>. QED BY <1>0, <1>2, <1>3, <1>4, <1>5, TakeStep

LEMMA CloseMoves == ASSUME LInv, Close PROVE EmptyHanded' /\ Apart' /\ Numbered' /\ GivenOnce'
<1>0. /\ EmptyHanded /\ Apart /\ GivenOnce /\ Channel /\ closed' = TRUE /\ delayed' = {}
      /\ UNCHANGED <<kind, queue, call, handed, gone, put>>
  BY DEF LInv, Close
<1>1. \A d \in Callers : Given(d)' = Given(d) /\ Busy(d, "delayed")' = Busy(d, "delayed")
  BY <1>0 DEF Given, Held, Busy
<1>2. EmptyHanded' /\ Numbered'
  BY <1>0 DEF EmptyHanded, Numbered
<1>3. GivenOnce'
  BY <1>0, <1>1 DEF GivenOnce, Channel
<1>4. Apart'
  <2>1. Stock' \subseteq Stock
    BY <1>0, <1>1 DEF Stock
  <2>2. \A d \in Callers : ~Busy(d, "delayed")'
    BY <1>0, <1>1 DEF Apart
  <2>. QED BY <1>0, <2>1, <2>2 DEF Apart
<1>. QED BY <1>2, <1>3, <1>4

LEMMA IdleMoves == ASSUME LInv, Tick \/ UNCHANGED vars PROVE EmptyHanded' /\ Apart' /\ Numbered' /\ GivenOnce'
<1>0. /\ EmptyHanded /\ Apart /\ Numbered /\ GivenOnce
      /\ UNCHANGED <<kind, closed, queue, delayed, call, handed, gone, put>>
  BY DEF LInv, Tick, vars
<1>1. \A d \in Callers : Given(d)' = Given(d) /\ Busy(d, "delayed")' = Busy(d, "delayed")
  BY <1>0 DEF Given, Held, Busy
<1>2. Stock' = Stock
  BY <1>0, <1>1 DEF Stock
<1>3. EmptyHanded' /\ GivenOnce' /\ Apart'
  BY <1>0, <1>1, <1>2 DEF EmptyHanded, GivenOnce, Apart, Channel
<1>4. Numbered'
  BY <1>0, <1>2 DEF Numbered, Stock
<1>. QED BY <1>3, <1>4

----------------------------------------------------------------------------
LEMMA LegacyNext == LInv /\ [Next]_vars => LInv'
<1>. SUFFICES ASSUME LInv, [Next]_vars PROVE LInv'
  OBVIOUS
<1>1. TypeOK'
  BY TypeStep DEF LInv
<1>2. EmptyHanded' /\ Apart' /\ Numbered' /\ GivenOnce'
  <2>1. ASSUME NEW c \in Callers,
               \/ Start(c) \/ Cancel(c) \/ Answer(c) \/ PopLost(c)
               \/ PushDelayed(c) \/ PopDelayed(c) \/ RangeDelayed(c) \/ RemoveFails(c)
        PROVE  EmptyHanded' /\ Apart' /\ Numbered' /\ GivenOnce'
    BY <2>1, StartMoves, CancelMoves, PushMoves, PushFailsMoves, PopMoves, PopLostMoves, PopNilMoves,
       PopEndsMoves, PushDelayedMoves, PopDelayedMoves, RangeMoves, RemoveDelayedMoves,
       RemoveFailsMoves DEF Answer
  <2>. QED BY <2>1, CloseMoves, IdleMoves DEF Next
<1>. QED BY <1>1, <1>2 DEF LInv

LEMMA LegacyInvariant == Spec => []LInv
<1>1. Init => LInv
  BY LegacyInit
<1>2. LInv /\ [Next]_vars => LInv'
  BY LegacyNext
<1>. QED BY <1>1, <1>2, PTL DEF Spec

(* Every reachable state of both engines is a state of the types above; in particular
   the channel never holds more than its capacity. *)
THEOREM LegacyTypeCorrect == Spec => []TypeOK
<1>1. LInv => TypeOK
  BY DEF LInv
<1>. QED BY <1>1, LegacyInvariant, PTL

----------------------------------------------------------------------------
(* What is dropped for being the same bytes.  Nobody gives back what was given,
   and in the Redis engine an entry leaves the delay queue for a caller, or
   because the same bytes are there or are given. *)
Unlost == ~Channel' /\ faults' = 0 => UNCHANGED kind /\ faults = 0

LEMMA BytesStay ==
  ASSUME BytesKept, Unlost,
         ~Channel' /\ faults' = 0 => AllGiven \subseteq AllGiven',
         ~Channel' /\ faults' = 0 =>
           \A e \in delayed \union (gone' \ gone) : \E f \in delayed' \union AllGiven' : f.data = e.data
  PROVE  BytesKept'
<1>. SUFFICES ASSUME ~Channel', faults' = 0, NEW e \in gone'
              PROVE  \E f \in delayed' \union AllGiven' : f.data = e.data
  BY DEF BytesKept
<1>1. ~Channel /\ faults = 0
  BY DEF Unlost, Channel
<1>2. CASE e \in gone
  <2>1. PICK f \in delayed \union AllGiven : f.data = e.data
    BY <1>1, <1>2 DEF BytesKept
  <2>2. CASE f \in delayed
    <3>1. PICK g \in delayed' \union AllGiven' : g.data = f.data
      BY <2>2
    <3>. QED BY <2>1, <3>1
  <2>3. CASE f \in AllGiven
    BY <2>1, <2>3
  <2>. QED BY <2>2, <2>3
<1>. QED BY <1>2

LEMMA GivenGrows ==
  ASSUME NEW c \in Callers, Others(c), Given(c) \subseteq Given(c)'
  PROVE  AllGiven \subseteq AllGiven'
<1>1. \A d \in Callers \ {c} : Given(d)' = Given(d)
  BY OthersKeep
<1>2. \A d \in Callers : Given(d) \subseteq Given(d)'
  BY <1>1
<1>. QED BY <1>2 DEF AllGiven

(* A return gives what the call has, and what it had given before. *)
LEMMA ReturnGrows ==
  ASSUME TypeOK, NEW c \in Callers, NEW entries \in SUBSET Entry, Return(c, entries),
         call[c].got \subseteq entries \/ Held(c) = {}
  PROVE  AllGiven \subseteq AllGiven' /\ entries \subseteq AllGiven'
<1>1. Others(c) /\ Given(c)' = handed[c] \union entries
  BY GivenByReturn
<1>2. Given(c) \subseteq Given(c)'
  BY <1>1 DEF Given, Held
<1>. QED BY <1>1, <1>2, GivenGrows DEF AllGiven

LEMMA QuietGrows ==
  ASSUME BytesKept, Unlost, delayed' = delayed, gone' = gone, AllGiven \subseteq AllGiven'
  PROVE  BytesKept'
BY BytesStay

LEMMA BytesCaller ==
  ASSUME LInv, BytesKept, NEW c \in Callers,
         \/ Start(c) \/ Cancel(c) \/ Answer(c) \/ PopLost(c)
         \/ PushDelayed(c) \/ PopDelayed(c) \/ RangeDelayed(c) \/ RemoveFails(c)
  PROVE  BytesKept'
<1>0. /\ TypeOK /\ EmptyHanded /\ call \in [Callers -> Calls] /\ call[c].got \in SUBSET Entry
      /\ call[c].want \in Nat /\ faults \in Nat
  BY CallsType, GotType, LegacyAssumption DEF LInv, TypeOK
<1>1. CASE Channel
  <2>1. Channel'
    BY <1>1 DEF Channel, Start, Cancel, Answer, Push, PushFails, Pop, PopNil, PopEnds, RemoveDelayed,
                PopLost, PushDelayed, PopDelayed, RangeDelayed, RemoveFails
  <2>. QED BY <2>1 DEF BytesKept
<1>2. CASE Lost
  <2>1. faults' # 0
    BY <1>0, <1>2 DEF Lost
  <2>. QED BY <2>1 DEF BytesKept
<1>3. SUFFICES ASSUME ~Channel, ~Lost PROVE BytesKept'
  BY <1>1, <1>2
<1>4. Unlost /\ ~Channel' /\ faults' = faults
  BY <1>3 DEF Unlost, Channel, Start, Cancel, Answer, Push, PushFails, Pop, PopNil, PopEnds, RemoveDelayed,
              PopLost, PushDelayed, PopDelayed, RangeDelayed, RemoveFails
<1>5. ASSUME Given(c)' = Given(c), Others(c) PROVE AllGiven \subseteq AllGiven'
  BY <1>5, GivenGrows
<1>6. {} \in SUBSET Entry
  OBVIOUS
<1>7. CASE Start(c)
  <2>1. PICK op \in {"push", "pop", "batch"}, b \in BOOLEAN, k \in Counts \union {1} :
          call' = [call EXCEPT ![c] = [Idle EXCEPT !.op = op, !.blocking = b, !.want = k]]
    BY <1>7 DEF Start
  <2>2. Others(c) /\ call'[c].got = {} /\ handed' = handed
    BY <1>0, <1>7, <2>1 DEF Start, Others, Idle
  <2>5. call[c] = Idle /\ Idle.got = {}
    BY <1>7 DEF Start, Idle
  <2>3. Given(c) = handed[c] /\ Given(c)' = handed[c]
    BY <2>2, <2>5 DEF Given, Held, Busy
  <2>4. delayed' = delayed /\ gone' = gone
    BY <1>7 DEF Start
  <2>. QED BY <1>4, <1>5, <2>2, <2>3, <2>4, QuietGrows
<1>8. CASE Cancel(c)
  <2>1. Others(c) /\ call'[c].op = call[c].op /\ call'[c].got = call[c].got /\ handed' = handed
    BY <1>0, <1>8 DEF Cancel, Others, Calls
  <2>2. Given(c)' = Given(c)
    BY <2>1 DEF Given, Held, Busy
  <2>3. delayed' = delayed /\ gone' = gone
    BY <1>8 DEF Cancel
  <2>. QED BY <1>4, <1>5, <2>1, <2>2, <2>3, QuietGrows
<1>9. CASE Push(c) \/ PushFails(c)
  <2>1. call[c].got = {} /\ Return(c, {}) /\ delayed' = delayed /\ gone' = gone
    BY <1>0, <1>3, <1>9 DEF Push, PushFails, Busy, EmptyHanded
  <2>2. AllGiven \subseteq AllGiven'
    BY <1>0, <1>6, <2>1, ReturnGrows
  <2>. QED BY <1>4, <2>1, <2>2, QuietGrows
<1>10. CASE Pop(c) \/ PopNil(c)
  <2>. DEFINE got == IF Pop(c) THEN call[c].got \union {Head(queue)} ELSE call[c].got
  <2>1. /\ IF call[c].want <= 1 THEN Return(c, got) ELSE GoesOn(c, got)
        /\ delayed' = delayed /\ gone' = gone /\ (Busy(c, "pop") \/ Busy(c, "batch"))
    BY <1>10, Zenon DEF Pop, PopNil
  <2>2. got \in SUBSET Entry /\ call[c].got \subseteq got
    BY <1>0, HeadTailSet DEF Pop, TypeOK
  <2>. HIDE DEF got
  <2>3. CASE call[c].want <= 1
    <3>1. AllGiven \subseteq AllGiven'
      BY <1>0, <2>1, <2>2, <2>3, ReturnGrows
    <3>. QED BY <1>4, <2>1, <3>1, QuietGrows
  <2>4. CASE ~(call[c].want <= 1)
    <3>1. Others(c) /\ Given(c)' = handed[c] \union got
      BY <1>0, <2>1, <2>2, <2>4, GivenByGoesOn
    <3>2. Given(c) \subseteq Given(c)'
      BY <2>2, <3>1 DEF Given, Held
    <3>. QED BY <1>4, <2>1, <3>1, <3>2, GivenGrows, QuietGrows
  <2>. QED BY <2>3, <2>4
<1>11. CASE PopEnds(c)
  <2>1. Return(c, call[c].got) /\ delayed' = delayed /\ gone' = gone
    BY <1>3, <1>11, Zenon DEF PopEnds
  <2>2. AllGiven \subseteq AllGiven'
    BY <1>0, <2>1, ReturnGrows
  <2>. QED BY <1>4, <2>1, <2>2, QuietGrows
<1>12. CASE PopLost(c)
  BY <1>3, <1>12 DEF PopLost
<1>13. CASE PopDelayed(c)
  BY <1>3, <1>13 DEF PopDelayed
<1>14. CASE PushDelayed(c)
  <2>1. PICK d \in Delays, data \in Payloads :
          LET same == {e \in delayed : ~Channel /\ e.data = data} IN
          /\ delayed' = (delayed \ same) \union {New(now + d, data)}
          /\ gone' = gone \union same
    BY <1>14 DEF PushDelayed
  <2>2. New(now + d, data).data = data
    BY DEF New
  <2>3. \A e \in delayed \union (gone' \ gone) : \E f \in delayed' : f.data = e.data
    BY <2>1, <2>2
  <2>4. Others(c) /\ Given(c)' = Given(c)
    BY <1>14 DEF PushDelayed, Others, Given, Held, Busy
  <2>. QED BY <1>4, <1>5, <2>3, <2>4, BytesStay
<1>15. CASE RangeDelayed(c)
  <2>1. PICK k \in Counts : \E taken \in Takings(k) :
          call' = [call EXCEPT ![c] = [Idle EXCEPT !.op = "delayed", !.got = taken]]
    BY <1>15, Zenon DEF RangeDelayed
  <2>2. PICK taken \in Takings(k) :
          call' = [call EXCEPT ![c] = [Idle EXCEPT !.op = "delayed", !.got = taken]]
    BY <2>1
  <2>3. call[c] = Idle /\ handed' = handed /\ delayed' = delayed /\ gone' = gone
    BY <1>15, Zenon DEF RangeDelayed
  <2>4. Others(c) /\ call'[c].op = "delayed"
    BY <1>0, <2>2, <2>3 DEF Others, Idle
  <2>5. Given(c) = handed[c] /\ Given(c)' = handed[c]
    BY <2>3, <2>4 DEF Idle, Given, Held, Busy
  <2>. QED BY <1>4, <1>5, <2>3, <2>4, <2>5, QuietGrows
<1>16. CASE RemoveDelayed(c)
  <2>. DEFINE got == call[c].got
  <2>1. /\ delayed' = WithoutBytes(got) /\ gone' = gone \union ((delayed \ delayed') \ got)
        /\ Return(c, got) /\ Held(c) = {}
    BY <1>16 DEF RemoveDelayed, Held
  <2>2. AllGiven \subseteq AllGiven' /\ got \subseteq AllGiven'
    BY <1>0, <2>1, ReturnGrows
  <2>. HIDE DEF got
  <2>3. \A e \in delayed : e \in delayed' \/ \E f \in got : f.data = e.data
    BY <2>1 DEF WithoutBytes
  <2>4. \A e \in delayed : \E f \in delayed' \union AllGiven' : f.data = e.data
    BY <2>2, <2>3
  <2>5. \A e \in gone' \ gone : e \in delayed
    BY <2>1
  <2>. QED BY <1>4, <2>2, <2>4, <2>5, BytesStay
<1>17. CASE RemoveFails(c)
  <2>1. Return(c, {}) /\ Held(c) = {} /\ delayed' = delayed /\ gone' = gone
    BY <1>3, <1>17 DEF RemoveFails, Held
  <2>2. AllGiven \subseteq AllGiven'
    BY <1>0, <1>6, <2>1, ReturnGrows
  <2>. QED BY <1>4, <2>1, <2>2, QuietGrows
<1>. QED BY <1>7, <1>8, <1>9, <1>10, <1>11, <1>12, <1>13, <1>14, <1>15, <1>16, <1>17 DEF Answer

LEMMA BytesNext == LInv /\ BytesKept /\ [Next]_vars => BytesKept'
<1>. SUFFICES ASSUME LInv, BytesKept, [Next]_vars PROVE BytesKept'
  OBVIOUS
<1>1. CASE Close
  BY <1>1 DEF Close, BytesKept, Channel
<1>2. CASE Tick \/ UNCHANGED vars
  <2>1. UNCHANGED <<kind, faults, delayed, gone, call, handed>>
    BY <1>2 DEF Tick, vars
  <2>2. AllGiven' = AllGiven
    BY <2>1 DEF AllGiven, Given, Held, Busy
  <2>. QED BY <2>1, <2>2 DEF BytesKept, Channel
<1>. QED BY <1>1, <1>2, BytesCaller DEF Next

(* Until Close, whatever was pushed or delayed is in the engine, was handed out, or
   is among the entries a lost reply, a cancelled BatchPopNonBlocking or the same
   bytes account for; and as long as the Redis engine has lost no reply, the bytes of
   what it has dropped are still in it or were handed out. *)
THEOREM AccountedCorrect == Spec => []Accounted
<1>1. Init => BytesKept
  BY DEF Init, BytesKept
<1>2. LInv /\ BytesKept /\ [Next]_vars => BytesKept'
  BY BytesNext
<1>3. LInv /\ BytesKept => Accounted
  BY DEF LInv, Numbered, Stock, BytesKept, AllGiven, Accounted
<1>. QED BY <1>1, <1>2, <1>3, LegacyInvariant, PTL DEF Spec

(* Whatever was handed out has left the engine, and no caller has it twice; two
   callers have one entry only by overlapping calls of PopDelayed on the Redis engine. *)
THEOREM GivenOnceCorrect == Spec => []GivenOnce
<1>1. LInv => GivenOnce
  BY DEF LInv
<1>. QED BY <1>1, LegacyInvariant, PTL
----------------------------------------------------------------------------
(* Due times.  Seconds cuts off less than a second, for the due time and for
   the time it is compared with. *)
LEMMA SecondsClose ==
  ASSUME NEW s \in Int, NEW t \in Int, NEW p \in Nat \ {0}, s \div p <= t \div p
  PROVE  t > s - p
OBVIOUS

(* The entry may be given out: it is due within a second. *)
Ripe(e) == now > e.due - PerSecond

(* Whatever a caller has been given so far, or has read, was ripe then, and the
   clock does not go back. *)
RipeInv == \A c \in Callers : \A e \in call[c].got : Ripe(e)

GivenRipe == \A c \in Callers : \A e \in handed'[c] \ handed[c] : Ripe(e)

LEMMA DueRipe == ASSUME TypeOK, NEW e \in Entry, Due(e) PROVE Ripe(e)
<1>1. e.due \in Int /\ now \in Int /\ PerSecond \in Nat \ {0}
  BY LegacyAssumption DEF TypeOK, Entry
<1>2. e.due \div PerSecond <= now \div PerSecond
  BY DEF Due, Seconds
<1>. QED BY <1>1, <1>2, SecondsClose DEF Ripe

LEMMA FrontRipe ==
  ASSUME TypeOK, Apart, queue # <<>>
  PROVE  Head(queue) \in Entry /\ Ripe(Head(queue))
<1>1. Head(queue) \in Entry /\ Head(queue).due = -1
  BY HeadTailSet DEF TypeOK, Apart
<1>2. now \in Nat /\ PerSecond \in Nat \ {0}
  BY LegacyAssumption DEF TypeOK
<1>. QED BY <1>1, <1>2 DEF Ripe

(* Some caller returns with entries that are ripe, keeps them, or nothing is
   given to anybody. *)
LEMMA RipeReturn ==
  ASSUME TypeOK, RipeInv, now' = now, NEW c \in Callers, NEW entries \in SUBSET Entry,
         \A e \in entries : Ripe(e), Return(c, entries)
  PROVE  RipeInv' /\ GivenRipe
<1>1. /\ call'[c] = Idle /\ handed'[c] = handed[c] \union entries
      /\ \A d \in Callers \ {c} : call'[d] = call[d] /\ handed'[d] = handed[d]
  BY ReturnType
<1>2. Idle.got = {}
  BY DEF Idle
<1>3. RipeInv'
  BY <1>1, <1>2 DEF RipeInv, Ripe
<1>4. GivenRipe
  BY <1>1 DEF GivenRipe
<1>. QED BY <1>3, <1>4

LEMMA RipeGoesOn ==
  ASSUME TypeOK, RipeInv, now' = now, NEW c \in Callers, NEW entries \in SUBSET Entry,
         \A e \in entries : Ripe(e), call[c].want > 1, GoesOn(c, entries)
  PROVE  RipeInv' /\ GivenRipe
<1>1. /\ call'[c].got = entries /\ handed' = handed
      /\ \A d \in Callers \ {c} : call'[d] = call[d]
  BY GoesOnType
<1>. QED BY <1>1 DEF RipeInv, GivenRipe, Ripe

LEMMA RipeSame ==
  ASSUME TypeOK, RipeInv, handed' = handed, now' \in Int, now <= now',
         \A c \in Callers : call'[c].got \subseteq call[c].got
  PROVE  RipeInv' /\ GivenRipe
<1>1. GivenRipe
  BY DEF GivenRipe
<1>2. ASSUME NEW c \in Callers, NEW e \in call'[c].got PROVE now' > e.due - PerSecond
  <2>1. e \in call[c].got /\ e \in Entry /\ now > e.due - PerSecond
    BY <1>2, GotType DEF RipeInv, Ripe
  <2>2. e.due \in Int /\ PerSecond \in Nat /\ now \in Int
    BY <2>1, LegacyAssumption DEF Entry, TypeOK
  <2>. QED BY <2>1, <2>2
<1>3. RipeInv'
  BY <1>2 DEF RipeInv, Ripe
<1>. QED BY <1>1, <1>3

LEMMA RipeCaller ==
  ASSUME LInv, RipeInv, NEW c \in Callers,
         \/ Start(c) \/ Cancel(c) \/ Answer(c) \/ PopLost(c)
         \/ PushDelayed(c) \/ PopDelayed(c) \/ RangeDelayed(c) \/ RemoveFails(c)
  PROVE  RipeInv' /\ GivenRipe
<1>0. /\ TypeOK /\ Apart /\ call \in [Callers -> Calls] /\ call[c].got \in SUBSET Entry
      /\ call[c].want \in Nat /\ now \in Int
      /\ \A e \in call[c].got : Ripe(e)
  BY CallsType, GotType DEF LInv, RipeInv, TypeOK
<1>1. now' = now
  BY DEF Start, Cancel, Answer, Push, PushFails, Pop, PopNil, PopEnds, RemoveDelayed, PopLost,
         PushDelayed, PopDelayed, RangeDelayed, RemoveFails
<1>2. {} \in SUBSET Entry /\ \A e \in {} : Ripe(e)
  OBVIOUS
<1>3. ASSUME Return(c, {}) PROVE RipeInv' /\ GivenRipe
  BY <1>0, <1>1, <1>2, <1>3, RipeReturn
<1>4. ASSUME Return(c, call[c].got) PROVE RipeInv' /\ GivenRipe
  BY <1>0, <1>1, <1>4, RipeReturn
<1>5. ASSUME UNCHANGED <<call, handed>> PROVE RipeInv' /\ GivenRipe
  BY <1>0, <1>1, <1>5, RipeSame
<1>6. CASE Start(c)
  <2>1. handed' = handed /\ \E op \in {"push", "pop", "batch"}, b \in BOOLEAN, k \in Counts \union {1} :
          call' = [call EXCEPT ![c] = [Idle EXCEPT !.op = op, !.blocking = b, !.want = k]]
    BY <1>6 DEF Start
  <2>2. \A d \in Callers : call'[d].got \subseteq call[d].got
    BY <1>0, <2>1 DEF Idle
  <2>. QED BY <1>0, <1>1, <2>1, <2>2, RipeSame
<1>7. CASE Cancel(c)
  <2>1. handed' = handed /\ call' = [call EXCEPT ![c].cancelled = TRUE]
    BY <1>7 DEF Cancel
  <2>2. \A d \in Callers : call'[d].got \subseteq call[d].got
    BY <1>0, <2>1 DEF Calls
  <2>. QED BY <1>0, <1>1, <2>1, <2>2, RipeSame
<1>8. CASE Push(c) \/ PushFails(c)
  BY <1>3, <1>5, <1>8 DEF Push, PushFails
<1>9. CASE Pop(c)
  <2>. DEFINE got == call[c].got \union {Head(queue)}
  <2>1. queue # <<>> /\ IF call[c].want <= 1 THEN Return(c, got) ELSE GoesOn(c, got)
    BY <1>9, Zenon DEF Pop
  <2>2. got \in SUBSET Entry /\ \A e \in got : Ripe(e)
    BY <1>0, <2>1, FrontRipe
  <2>. HIDE DEF got
  <2>3. CASE call[c].want <= 1
    BY <1>0, <1>1, <2>1, <2>2, <2>3, RipeReturn
  <2>4. CASE ~(call[c].want <= 1)
    BY <1>0, <1>1, <2>1, <2>2, <2>4, RipeGoesOn
  <2>. QED BY <2>3, <2>4
<1>10. CASE PopNil(c)
  <2>1. IF call[c].want <= 1 THEN Return(c, call[c].got) ELSE GoesOn(c, call[c].got)
    BY <1>10 DEF PopNil
  <2>2. CASE call[c].want <= 1
    BY <1>4, <2>1, <2>2
  <2>3. CASE ~(call[c].want <= 1)
    BY <1>0, <1>1, <2>1, <2>3, RipeGoesOn
  <2>. QED BY <2>2, <2>3
<1>11. CASE PopEnds(c)
  <2>1. Return(c, {}) \/ Return(c, call[c].got)
    BY <1>11, Zenon DEF PopEnds
  <2>. QED BY <1>3, <1>4, <2>1
<1>12. CASE PopLost(c)
  BY <1>4, <1>5, <1>12 DEF PopLost
<1>13. CASE RemoveDelayed(c) \/ RemoveFails(c)
  BY <1>3, <1>4, <1>13 DEF RemoveDelayed, RemoveFails
<1>14. CASE PushDelayed(c)
  BY <1>5, <1>14 DEF PushDelayed
<1>15. ASSUME NEW k \in Counts, NEW taken \in Takings(k)
       PROVE  taken \in SUBSET Entry /\ \A e \in taken : Ripe(e)
  <2>1. taken \subseteq {e \in delayed : Due(e)}
    BY DEF Takings
  <2>2. delayed \subseteq Entry
    BY <1>0 DEF TypeOK
  <2>. QED BY <1>0, <2>1, <2>2, DueRipe
<1>16. CASE PopDelayed(c)
  <2>1. PICK k \in Counts : \E taken \in Takings(k) : Return(c, taken)
    BY <1>16, Zenon DEF PopDelayed
  <2>. QED BY <1>0, <1>1, <1>15, <2>1, RipeReturn
<1>17. CASE RangeDelayed(c)
  <2>1. PICK k \in Counts : \E taken \in Takings(k) :
          call' = [call EXCEPT ![c] = [Idle EXCEPT !.op = "delayed", !.got = taken]]
    BY <1>17, Zenon DEF RangeDelayed
  <2>2. handed' = handed
    BY <1>17, Zenon DEF RangeDelayed
  <2>3. PICK taken \in Takings(k) :
          call' = [call EXCEPT ![c] = [Idle EXCEPT !.op = "delayed", !.got = taken]]
    BY <2>1, Zenon
  <2>4. call'[c].got = taken /\ \A d \in Callers \ {c} : call'[d] = call[d]
    BY <1>0, <2>3 DEF Idle
  <2>5. \A e \in taken : Ripe(e)
    BY <1>15
  <2>. QED BY <1>1, <2>2, <2>4, <2>5 DEF RipeInv, GivenRipe, Ripe
<1>. QED BY <1>6, <1>7, <1>8, <1>9, <1>10, <1>11, <1>12, <1>13, <1>14, <1>16, <1>17 DEF Answer

LEMMA RipeNext == LInv /\ RipeInv /\ [Next]_vars => RipeInv' /\ GivenRipe
<1>. SUFFICES ASSUME LInv, RipeInv, [Next]_vars PROVE RipeInv' /\ GivenRipe
  OBVIOUS
<1>1. TypeOK /\ now \in Int
  BY DEF LInv, TypeOK
<1>2. CASE Close \/ Tick \/ UNCHANGED vars
  <2>1. UNCHANGED <<call, handed>> /\ now' \in Int /\ now <= now'
    BY <1>1, <1>2 DEF Close, Tick, vars
  <2>. QED BY <1>1, <2>1, RipeSame
<1>. QED BY <1>2, RipeCaller DEF Next

(* No caller is ever given a delayed entry a second or more before it is due:
   neither in one step, nor by the Redis engine, which reads and removes in two. *)
THEOREM NotEarlyCorrect == Spec => NotEarly
<1>1. Init => RipeInv
  BY DEF Init, RipeInv, Idle
<1>2. LInv /\ RipeInv /\ [Next]_vars
        => \A c \in Callers : \A e \in handed'[c] \ handed[c] : now > e.due - PerSecond
  BY RipeNext DEF GivenRipe, Ripe
<1>3. LInv /\ RipeInv /\ [Next]_vars => RipeInv'
  BY RipeNext
<1>. QED BY <1>1, <1>2, <1>3, LegacyInvariant, PTL DEF Spec, NotEarly
=============================================================================
