----------------------------- MODULE RedisLock -----------------------------
(***************************************************************************)
(* pkg/redisx/redis.go: Lock, TryLock, RenewLock and Unlock on one lock    *)
(* key.  Each is one Lua script, run by Redis in one step at some moment   *)
(* after the call; go-redis may transmit a script again, and a transmission *)
(* may arrive after the client has given the call up.                      *)
(*                                                                         *)
(* A client chooses a new lockValue for every acquisition, as the usage    *)
(* example at the end of the file does.  Time is relative: what is left of *)
(* the key's expiry, and how long ago a request was sent.                  *)
(***************************************************************************)
EXTENDS Integers, FiniteSets

CONSTANTS
  Clients,
  NoClient,  \* the owner of a missing key
  Expire,    \* lockExpireTime, in clock ticks
  MaxAcq,    \* bound: lock values drawn
  MaxDups    \* bound: transmissions repeated

ASSUME LockAssumption ==
  /\ NoClient \notin Clients
  /\ Expire \in Nat \ {0} /\ MaxAcq \in Nat /\ MaxDups \in Nat

VARIABLES
  key,     \* the lock key in Redis: whose, which value, time to live
  phase,   \* what each client is doing
  acq,     \* each client's current lockValue, a number
  drawn,   \* how many have been drawn
  age,     \* ticks since the client's current request was sent, Expire at most
  window,  \* ticks for which the client may still rely on the lock
  reply,   \* the script's answer on its way to the client
  net,     \* transmissions that may still reach Redis
  dups     \* how many were repeated

vars == <<key, phase, acq, drawn, age, window, reply, net, dups>>

Free == [owner |-> NoClient, n |-> 0, ttl |-> 0]
Ops  == {"lock", "renew", "unlock"}
Requests == [c : Clients, n : 0..MaxAcq, op : Ops]

(* The type invariant. *)
TypeOK ==
  /\ key \in [owner : Clients, n : 0..MaxAcq, ttl : 0..Expire] \union {Free}
  /\ phase \in [Clients -> {"idle", "pause", "held"} \union Ops]
  /\ acq \in [Clients -> 0..MaxAcq] /\ drawn \in 0..MaxAcq
  /\ age \in [Clients -> 0..Expire]
  /\ window \in [Clients -> 0..Expire]
  /\ reply \in [Clients -> {"none", "yes", "no", "expired"}]
  /\ net \subseteq Requests
  /\ dups \in 0..MaxDups

Init ==
  /\ key = Free
  /\ phase = [c \in Clients |-> "idle"]
  /\ acq = [c \in Clients |-> 0] /\ drawn = 0
  /\ age = [c \in Clients |-> 0]
  /\ window = [c \in Clients |-> 0]
  /\ reply = [c \in Clients |-> "none"]
  /\ net = {} /\ dups = 0

----------------------------------------------------------------------------
(* The clients. *)

Send(c, n, op) ==
  /\ phase' = [phase EXCEPT ![c] = op]
  /\ age' = [age EXCEPT ![c] = 0]
  /\ reply' = [reply EXCEPT ![c] = "none"]
  /\ net' = net \union {[c |-> c, n |-> n, op |-> op]}
  /\ UNCHANGED <<key, dups>>

Enter(c, p) ==
  /\ phase' = [phase EXCEPT ![c] = p]
  /\ age' = [age EXCEPT ![c] = 0] /\ reply' = [reply EXCEPT ![c] = "none"]
  /\ UNCHANGED <<key, acq, drawn, net, dups>>

(* Lock, or the first round of TryLock. *)
CallLock(c) ==
  /\ phase[c] = "idle" /\ drawn < MaxAcq
  /\ drawn' = drawn + 1 /\ acq' = [acq EXCEPT ![c] = drawn']
  /\ Send(c, drawn', "lock")
  /\ UNCHANGED window

(* The lock is held for what is left of the expiry since the request was sent. *)
Acquired(c) ==
  /\ phase[c] = "lock" /\ reply[c] = "yes"
  /\ Enter(c, "held") /\ window' = [window EXCEPT ![c] = Expire - age[c]]

(* Lock returns false; TryLock sleeps. *)
Refused(c) == phase[c] = "lock" /\ reply[c] = "no" /\ Enter(c, "pause") /\ UNCHANGED window

(* TryLock goes round again with the same value; it stops at its deadline or
   when its context is done, as Lock does at once. *)
TryAgain(c) == phase[c] = "pause" /\ Send(c, acq[c], "lock") /\ UNCHANGED <<acq, drawn, window>>
GiveUp(c)   == phase[c] = "pause" /\ Enter(c, "idle") /\ UNCHANGED window

(* An error: the client does not know whether the script ran. *)
LockFails(c) == phase[c] = "lock" /\ Enter(c, "idle") /\ UNCHANGED window

CallRenew(c) == phase[c] = "held" /\ Send(c, acq[c], "renew") /\ UNCHANGED <<acq, drawn, window>>

(* The renewal goroutine of the example stops at the first error or refusal; the
   holder goes on with what is left of its window. *)
RenewReturns(c) ==
  /\ phase[c] = "renew" /\ Enter(c, "held")
  /\ window' = IF reply[c] = "yes" THEN [window EXCEPT ![c] = Expire - age[c]] ELSE window

CallUnlock(c) ==
  /\ phase[c] = "held" /\ Send(c, acq[c], "unlock")
  /\ window' = [window EXCEPT ![c] = 0] /\ UNCHANGED <<acq, drawn>>

UnlockReturns(c) == phase[c] = "unlock" /\ Enter(c, "idle") /\ UNCHANGED window

(* The process dies, or leaves without Unlock. *)
Abandon(c) ==
  /\ phase[c] # "idle" /\ Enter(c, "idle") /\ window' = [window EXCEPT ![c] = 0]

----------------------------------------------------------------------------
(* Redis. *)

Mine(r) == key.owner = r.c /\ key.n = r.n

(* The scripts: the key they leave and what they return. *)
Held(r) == [owner |-> r.c, n |-> r.n, ttl |-> Expire]

LockScript(r) == IF key = Free \/ Mine(r) THEN <<Held(r), "yes">> ELSE <<key, "no">>

(* Mutant of RenewScript: a missing key is set again. *)
RenewOrTake(r) == IF Mine(r) \/ key = Free THEN <<Held(r), "yes">> ELSE <<key, "no">>

RenewScript(r) ==
  IF Mine(r) THEN IF key.ttl > 0 THEN <<Held(r), "yes">> ELSE <<key, "expired">>
  ELSE <<key, "no">>

(* Mutant of UnlockScript: the value is not compared. *)
UnlockAny(r) == IF key.ttl > 0 THEN <<Free, "yes">> ELSE <<key, "expired">>

UnlockScript(r) ==
  IF Mine(r) THEN IF key.ttl > 0 THEN <<Free, "yes">> ELSE <<key, "expired">>
  ELSE <<key, "no">>

Script(r) ==
  IF r.op = "lock" THEN LockScript(r) ELSE IF r.op = "renew" THEN RenewScript(r) ELSE UnlockScript(r)

(* A transmission runs; its answer reaches the client only while the call waits. *)
Execute(r) ==
  /\ r \in net
  /\ \/ net' = net \ {r} /\ UNCHANGED dups
     \/ dups < MaxDups /\ dups' = dups + 1 /\ UNCHANGED net
  /\ key' = Script(r)[1]
  /\ \/ UNCHANGED reply
     \/ /\ phase[r.c] = r.op /\ acq[r.c] = r.n
        /\ reply' = [reply EXCEPT ![r.c] = Script(r)[2]]
  /\ UNCHANGED <<phase, acq, drawn, age, window>>

Lost(r) == r \in net /\ net' = net \ {r} /\ UNCHANGED <<key, phase, acq, drawn, age, window, reply, dups>>

(* A key is still there in the millisecond in which its time to live is 0. *)
Aged == IF key.ttl > 0 THEN [owner |-> key.owner, n |-> key.n, ttl |-> key.ttl - 1] ELSE Free

Tick ==
  /\ key' = Aged
  /\ age' = [c \in Clients |-> IF phase[c] \in Ops /\ age[c] < Expire THEN age[c] + 1 ELSE age[c]]
  /\ window' = [c \in Clients |-> IF window[c] > 0 THEN window[c] - 1 ELSE 0]
  /\ UNCHANGED <<phase, acq, drawn, reply, net, dups>>

----------------------------------------------------------------------------
Client(c) ==
  \/ CallLock(c) \/ Acquired(c) \/ Refused(c) \/ TryAgain(c) \/ GiveUp(c) \/ LockFails(c)
  \/ CallRenew(c) \/ RenewReturns(c) \/ CallUnlock(c) \/ UnlockReturns(c) \/ Abandon(c)

Next ==
  \/ \E c \in Clients : Client(c)
  \/ \E r \in net : Execute(r) \/ Lost(r)
  \/ Tick

Spec == Init /\ [][Next]_vars

----------------------------------------------------------------------------
(* At most one client at a time may rely on the lock, however late its scripts
   run and however often they are repeated. *)
MutualExclusion == \A c, d \in Clients : window[c] > 0 /\ window[d] > 0 => c = d

(* A client that only renews never gets the lock back once it has expired. *)
NoRevival ==
  [][\A c \in Clients : key.owner # c /\ key'.owner = c
        => \E r \in net : r.c = c /\ r.op = "lock"]_vars
=============================================================================
