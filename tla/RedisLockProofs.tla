-------------------------- MODULE RedisLockProofs --------------------------
(***************************************************************************)
(* Proofs about RedisLock, for any number of clients and any bounds.       *)
(*                                                                         *)
(* A client's window is covered by the key: while the window is open the   *)
(* key carries the client's value and outlives the window.  An answer on   *)
(* its way covers the window it will open.  What keeps it so is that an    *)
(* Unlock under way never carries a value in use.                          *)
(***************************************************************************)
EXTENDS RedisLock, TLAPS

Holds(c) == key.owner = c /\ key.n = acq[c]

UnlockIsLast ==
  /\ \A c \in Clients : acq[c] <= drawn
  /\ \A r \in net : /\ r.n <= drawn
                    /\ r.op = "unlock" /\ r.n = acq[r.c] => phase[r.c] \in {"unlock", "idle"}

WindowCovered ==
  \A c \in Clients : window[c] > 0 => phase[c] \in {"held", "renew"} /\ Holds(c) /\ key.ttl >= window[c]

AnswerCovered ==
  \A c \in Clients : reply[c] = "yes" /\ phase[c] \in {"lock", "renew"} /\ age[c] < Expire
                        => Holds(c) /\ key.ttl >= Expire - age[c]

LInv == TypeOK /\ UnlockIsLast /\ WindowCovered /\ AnswerCovered

LEMMA LInit == Init => LInv
  BY LockAssumption DEF Init, LInv, TypeOK, UnlockIsLast, WindowCovered, AnswerCovered, Free, Ops

(* What a script may do to the key. *)
LEMMA ScriptCases ==
  ASSUME NEW r \in Requests
  PROVE  \/ Script(r) = <<key, "no">> \/ Script(r) = <<key, "expired">>
         \/ /\ Script(r) = <<Held(r), "yes">> /\ r.op # "unlock"
            /\ \/ Mine(r)
               \/ key = Free /\ r.op = "lock"
         \/ Script(r) = <<Free, "yes">> /\ r.op = "unlock" /\ Mine(r)
<1>1. r.op \in {"lock", "renew", "unlock"}
  BY DEF Requests, Ops
<1>2. CASE r.op = "lock"
  <2>1. Script(r) = LockScript(r)
    BY <1>2 DEF Script
  <2>. QED BY <1>2, <2>1 DEF LockScript
<1>3. CASE r.op = "renew"
  <2>1. Script(r) = RenewScript(r)
    BY <1>3 DEF Script
  <2>2. CASE Mine(r) /\ key.ttl > 0
    BY <1>3, <2>1, <2>2 DEF RenewScript, Mine
  <2>3. CASE Mine(r) /\ ~(key.ttl > 0)
    BY <1>3, <2>1, <2>3 DEF RenewScript
  <2>4. CASE ~Mine(r)
    BY <1>3, <2>1, <2>4 DEF RenewScript
  <2>. QED BY <2>2, <2>3, <2>4
<1>4. CASE r.op = "unlock"
  <2>1. Script(r) = UnlockScript(r)
    BY <1>4 DEF Script
  <2>. QED BY <1>4, <2>1 DEF UnlockScript
<1>. QED BY <1>1, <1>2, <1>3, <1>4

Keys == [owner : Clients, n : 0..MaxAcq, ttl : 0..Expire] \union {Free}

LEMMA ScriptType ==
  ASSUME TypeOK, NEW r \in Requests
  PROVE  Script(r)[1] \in Keys /\ Script(r)[2] \in {"yes", "no", "expired"}
<1>1. key \in Keys /\ Free \in Keys
  BY DEF TypeOK, Keys
<1>2. r.c \in Clients /\ r.n \in 0..MaxAcq /\ Expire \in 0..Expire
  BY LockAssumption DEF Requests
<1>3. Held(r) \in Keys
  BY <1>2 DEF Keys, Held
<1>. QED BY <1>1, <1>3, ScriptCases

(* The type invariant alone. *)
LEMMA TypeStep == TypeOK /\ [Next]_vars => TypeOK'
<1>. SUFFICES ASSUME TypeOK, [Next]_vars PROVE TypeOK'
  OBVIOUS
<1>. USE LockAssumption DEF TypeOK
<1>1. ASSUME NEW c \in Clients, Client(c) PROVE TypeOK'
  <2>1. CASE CallLock(c)
    BY <2>1 DEF CallLock, Send, Requests, Ops
  <2>2. CASE Acquired(c) \/ Refused(c) \/ GiveUp(c) \/ LockFails(c) \/ RenewReturns(c) \/ UnlockReturns(c) \/ Abandon(c)
    BY <2>2 DEF Acquired, Refused, GiveUp, LockFails, RenewReturns, UnlockReturns, Abandon, Enter, Ops
  <2>3. CASE TryAgain(c) \/ CallRenew(c) \/ CallUnlock(c)
    BY <2>3 DEF TryAgain, CallRenew, CallUnlock, Send, Requests, Ops
  <2>. QED BY <1>1, <2>1, <2>2, <2>3 DEF Client
<1>2. ASSUME NEW r \in net, Execute(r) PROVE TypeOK'
  <2>1. r \in Requests
    OBVIOUS
  <2>2. r.c \in Clients
    BY <2>1 DEF Requests
  <2>3. key' = Script(r)[1] /\ (reply' = reply \/ reply' = [reply EXCEPT ![r.c] = Script(r)[2]])
    BY <1>2 DEF Execute
  <2>4. key' \in Keys /\ Script(r)[2] \in {"yes", "no", "expired"}
    BY <2>1, <2>3, ScriptType
  <2>5. reply' \in [Clients -> {"none", "yes", "no", "expired"}]
    BY <2>2, <2>3, <2>4
  <2>. QED BY <1>2, <2>4, <2>5 DEF Execute, Keys
<1>3. ASSUME NEW r \in net, Lost(r) PROVE TypeOK'
  BY <1>3 DEF Lost
<1>4. ASSUME Tick PROVE TypeOK'
  BY <1>4 DEF Tick, Aged, Free
<1>5. CASE UNCHANGED vars
  BY <1>5 DEF vars
<1>. QED BY <1>1, <1>2, <1>3, <1>4, <1>5 DEF Next

----------------------------------------------------------------------------
(* One step for each action, for the three parts that make up LInv. *)

Rest == UnlockIsLast /\ WindowCovered /\ AnswerCovered

(* A client's own step concerns that client alone; it sends at most one request. *)
LEMMA ClientStep == ASSUME LInv, NEW c \in Clients, Client(c), TypeOK' PROVE Rest'
<1>. USE LockAssumption DEF LInv, TypeOK, Rest, UnlockIsLast, WindowCovered, AnswerCovered, Holds, Requests, Ops
<1>1. CASE CallLock(c)
  BY <1>1 DEF CallLock, Send
<1>2. CASE Acquired(c)
  BY <1>2 DEF Acquired, Enter
<1>3. CASE Refused(c) \/ GiveUp(c) \/ LockFails(c) \/ UnlockReturns(c)
  BY <1>3 DEF Refused, GiveUp, LockFails, UnlockReturns, Enter
<1>4. CASE RenewReturns(c)
  BY <1>4 DEF RenewReturns, Enter
<1>5. CASE Abandon(c)
  BY <1>5 DEF Abandon, Enter
<1>6. CASE TryAgain(c) \/ CallRenew(c)
  BY <1>6 DEF TryAgain, CallRenew, Send
<1>7. CASE CallUnlock(c)
  BY <1>7 DEF CallUnlock, Send
<1>. QED BY <1>1, <1>2, <1>3, <1>4, <1>5, <1>6, <1>7 DEF Client

(* A script run for one value leaves a key with another value alone. *)
LEMMA ExecuteStep == ASSUME LInv, NEW r \in net, Execute(r), TypeOK' PROVE Rest'
<1>. USE LockAssumption DEF LInv, TypeOK
<1>1. r \in Requests /\ r.c \in Clients
  BY DEF Requests
<1>2. /\ key' = Script(r)[1] /\ net' \subseteq net
      /\ UNCHANGED <<phase, acq, drawn, age, window>>
  BY DEF Execute
<1>7. \/ UNCHANGED reply
      \/ phase[r.c] = r.op /\ acq[r.c] = r.n /\ reply' = [reply EXCEPT ![r.c] = Script(r)[2]]
  BY Zenon DEF Execute
<1>3. UnlockIsLast'
  BY <1>2 DEF UnlockIsLast
<1>4. ASSUME NEW c \in Clients, Holds(c), key.ttl > 0, phase[c] \in {"held", "lock", "renew"}
      PROVE  Holds(c)' /\ key'.ttl >= key.ttl
  <2>1. key # Free /\ key.ttl \in 0..Expire
    BY <1>4 DEF Free, Holds
  <2>2. ~(r.op = "unlock" /\ Mine(r))
    BY <1>4 DEF UnlockIsLast, Mine, Holds
  <2>. QED BY <1>1, <1>2, <1>4, <2>1, <2>2, ScriptCases DEF Holds, Held, Mine
<1>5. WindowCovered'
  <2>. SUFFICES ASSUME NEW c \in Clients, window[c] > 0
                PROVE  phase[c] \in {"held", "renew"} /\ Holds(c)' /\ key'.ttl >= window[c]
    BY <1>2 DEF WindowCovered
  <2>1. phase[c] \in {"held", "renew"} /\ Holds(c) /\ key.ttl >= window[c]
    BY DEF WindowCovered
  <2>2. key.ttl > 0 /\ key.ttl \in 0..Expire /\ window[c] \in 0..Expire /\ key'.ttl \in 0..Expire
    <3>1. key.ttl \in 0..Expire /\ key'.ttl \in 0..Expire
      BY DEF Free
    <3>. QED BY <2>1, <3>1
  <2>. QED BY <2>1, <2>2, <1>4
<1>6. AnswerCovered'
  <2>. SUFFICES ASSUME NEW c \in Clients, reply'[c] = "yes", phase[c] \in {"lock", "renew"}, age[c] < Expire
                PROVE  Holds(c)' /\ key'.ttl >= Expire - age[c]
    BY <1>2 DEF AnswerCovered
  <2>1. CASE reply[c] = "yes"
    <3>1. Holds(c) /\ key.ttl >= Expire - age[c]
      BY <2>1 DEF AnswerCovered
    <3>2. key.ttl \in 0..Expire /\ key'.ttl \in 0..Expire /\ age[c] \in 0..Expire
      BY DEF Free
    <3>3. key.ttl > 0
      BY <3>1, <3>2
    <3>. QED BY <3>1, <3>2, <3>3, <1>4
  <2>2. CASE reply[c] # "yes"
    <3>1. c = r.c /\ phase[c] = r.op /\ acq[c] = r.n /\ Script(r)[2] = "yes"
      BY <2>2, <1>1, <1>2, <1>7
    <3>2. key' = Held(r)
      BY <3>1, <1>1, <1>2, ScriptCases
    <3>. QED BY <3>1, <3>2, <1>2 DEF Held, Holds
  <2>. QED BY <2>1, <2>2
<1>. QED BY <1>3, <1>5, <1>6 DEF Rest

LEMMA TickStep == ASSUME LInv, Tick, TypeOK' PROVE Rest'
<1>. USE LockAssumption DEF LInv, TypeOK
<1>1. UnlockIsLast'
  BY DEF Tick, Aged, UnlockIsLast
<1>2. ASSUME NEW c \in Clients, Holds(c), key.ttl > 0 PROVE Holds(c)' /\ key'.ttl = key.ttl - 1
  BY <1>2 DEF Tick, Aged, Holds
<1>3. WindowCovered'
  <2>. SUFFICES ASSUME NEW c \in Clients, window'[c] > 0
                PROVE  phase[c] \in {"held", "renew"} /\ Holds(c)' /\ key'.ttl >= window'[c]
    BY DEF Tick, Aged, WindowCovered
  <2>1. window[c] \in 0..Expire /\ window[c] > 0 /\ window'[c] = window[c] - 1
    BY DEF Tick, Aged
  <2>2. phase[c] \in {"held", "renew"} /\ Holds(c) /\ key.ttl >= window[c]
    BY <2>1 DEF WindowCovered
  <2>3. key.ttl \in 0..Expire
    BY DEF Free
  <2>. QED BY <2>1, <2>2, <2>3, <1>2
<1>4. AnswerCovered'
  <2>. SUFFICES ASSUME NEW c \in Clients, reply[c] = "yes", phase[c] \in {"lock", "renew"}, age'[c] < Expire
                PROVE  Holds(c)' /\ key'.ttl >= Expire - age'[c]
    BY DEF Tick, Aged, AnswerCovered
  <2>1. age[c] \in 0..Expire /\ age[c] < Expire /\ age'[c] = age[c] + 1
    BY DEF Tick, Aged, Ops
  <2>2. Holds(c) /\ key.ttl >= Expire - age[c]
    BY <2>1 DEF AnswerCovered
  <2>3. key.ttl \in 0..Expire
    BY DEF Free
  <2>. QED BY <2>1, <2>2, <2>3, <1>2
<1>. QED BY <1>1, <1>3, <1>4 DEF Rest

LEMMA LNext == LInv /\ [Next]_vars => LInv'
<1>. SUFFICES ASSUME LInv, [Next]_vars PROVE LInv'
  OBVIOUS
<1>1. TypeOK'
  BY TypeStep DEF LInv
<1>2. Rest'
  <2>1. CASE \E c \in Clients : Client(c)
    BY <2>1, <1>1, ClientStep
  <2>2. CASE \E r \in net : Execute(r)
    BY <2>2, <1>1, ExecuteStep
  <2>3. CASE \E r \in net : Lost(r)
    BY <2>3 DEF Lost, LInv, Rest, UnlockIsLast, WindowCovered, AnswerCovered, Holds
  <2>4. CASE Tick
    BY <2>4, <1>1, TickStep
  <2>5. CASE UNCHANGED vars
    BY <2>5 DEF vars, LInv, Rest, UnlockIsLast, WindowCovered, AnswerCovered, Holds
  <2>. QED BY <2>1, <2>2, <2>3, <2>4, <2>5 DEF Next
<1>. QED BY <1>1, <1>2 DEF LInv, Rest

LEMMA LInvariant == Spec => []LInv
  BY LInit, LNext, PTL DEF Spec

----------------------------------------------------------------------------
(* Type correctness of the lock and its clients. *)
THEOREM LockTypeCorrect == Spec => []TypeOK
<1>1. LInv => TypeOK
  BY DEF LInv
<1>. QED BY <1>1, LInvariant, PTL

(* At most one client at a time may rely on the lock, for any number of clients,
   any expiry and any number of repeated or delayed scripts. *)
THEOREM MutualExclusionCorrect == Spec => []MutualExclusion
<1>1. LInv => MutualExclusion
  BY DEF LInv, WindowCovered, MutualExclusion, Holds
<1>. QED BY <1>1, LInvariant, PTL

(* A client that only renews never gets an expired lock back: a lock changes hands
   by a Lock request alone. *)
THEOREM NoRevivalCorrect == Spec => NoRevival
<1>1. ASSUME TypeOK, [Next]_vars, NEW c \in Clients, key.owner # c, key'.owner = c
      PROVE  \E r \in net : r.c = c /\ r.op = "lock"
  <2>1. CASE \E d \in Clients : Client(d)
    <3>1. key' = key
      BY <2>1 DEF Client, CallLock, Acquired, Refused, TryAgain, GiveUp, LockFails, CallRenew,
                  RenewReturns, CallUnlock, UnlockReturns, Abandon, Send, Enter
    <3>. QED BY <1>1, <3>1
  <2>2. CASE \E r \in net : Execute(r)
    <3>1. PICK r \in net : Execute(r)
      BY <2>2
    <3>2. r \in Requests /\ key' = Script(r)[1] /\ Free.owner \notin Clients /\ Held(r).owner = r.c
      BY <1>1, <3>1, LockAssumption DEF TypeOK, Execute, Free, Held
    <3>3. key' = Held(r) /\ r.op # "unlock" /\ (Mine(r) \/ (key = Free /\ r.op = "lock"))
      BY <1>1, <3>2, ScriptCases
    <3>. QED BY <1>1, <3>2, <3>3 DEF Mine
  <2>3. CASE \E r \in net : Lost(r)
    BY <1>1, <2>3 DEF Lost
  <2>4. CASE Tick
    BY <1>1, <2>4, LockAssumption DEF Tick, Aged, Free
  <2>5. CASE UNCHANGED vars
    BY <1>1, <2>5 DEF vars
  <2>. QED BY <1>1, <2>1, <2>2, <2>3, <2>4, <2>5 DEF Next
<1>2. TypeOK /\ [Next]_vars
        => [\A c \in Clients : key.owner # c /\ key'.owner = c
              => \E r \in net : r.c = c /\ r.op = "lock"]_vars
  BY <1>1
<1>. QED BY <1>2, LockTypeCorrect, PTL DEF Spec, NoRevival
=============================================================================
