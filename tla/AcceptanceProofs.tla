-------------------------- MODULE AcceptanceProofs --------------------------
(***************************************************************************)
(* Proofs about Acceptance, for any number of tasks, workers and faults:   *)
(* its types, that a scenario that passes tells the truth, and that a      *)
(* queue that behaves is not failed.  The first invariant, SoundInv,       *)
(* relates what the ledger counts, and which checks have passed, to what   *)
(* happened; the second, PeaceInv, says what a run without faults has come *)
(* to at each step of its plan.                                            *)
(***************************************************************************)
EXTENDS Acceptance, SequenceTheorems, FiniteSetTheorems, TLAPS

(* The parts of TypeOK: what the scenario has, the queue, the ledger, the counts. *)
PlanOK  == plan \in Seq(Steps) /\ left \subseteq Ids
QueueOK ==
  /\ q \in [Ids -> States] /\ saved \in [Ids -> States] /\ held \subseteq Ids
  /\ own \in [Ids -> BOOLEAN] /\ live \in [Ids -> Nat] /\ got \subseteq Ids
  /\ up \in {"none", "main", "c1", "c2"} /\ oom \in BOOLEAN
  /\ up = "none" => got = {} /\ \A i \in Ids : live[i] = 0 /\ ~own[i]
LedgerOK ==
  /\ told \in [Ids -> SUBSET {"accepted", "rejected", "uncertain"}]
  /\ starts \in [Ids -> Nat] /\ ends \in [Ids -> Nat]
  /\ finals \in [Ids -> SUBSET {"done", "failed", "other"}]
  /\ torn \subseteq {"main", "c1", "c2"}
ChecksOK == passed \subseteq Required(kind) /\ failed \in BOOLEAN
TruthOK ==
  /\ ran \in [Ids -> Nat] /\ fin \in [Ids -> Nat] /\ cut \subseteq Ids /\ corrupt \in BOOLEAN
  /\ \A i \in Ids : starts[i] <= ran[i] /\ fin[i] + live[i] <= ran[i]
FaultsOK == defects \in Nat /\ trouble \in Nat /\ defects + trouble <= MaxFaults
WhatOK == kind \in Kinds /\ role \in [Ids -> Roles[kind]] /\ verdict \in {"none", "pass", "fail"}

LEMMA Parts ==
  TypeOK <=> WhatOK /\ PlanOK /\ QueueOK /\ LedgerOK /\ ChecksOK /\ TruthOK /\ FaultsOK
BY DEF TypeOK, WhatOK, PlanOK, QueueOK, LedgerOK, ChecksOK, TruthOK, FaultsOK

LEMMA PartsNext ==
  TypeOK' <=> WhatOK' /\ PlanOK' /\ QueueOK' /\ LedgerOK' /\ ChecksOK' /\ TruthOK' /\ FaultsOK'
BY DEF TypeOK, WhatOK, PlanOK, QueueOK, LedgerOK, ChecksOK, TruthOK, FaultsOK

LEMMA PlanType == ASSUME NEW k \in {"normal", "backlog", "kill", "crash", "oom", "backup"}
                  PROVE  Plan[k] \in Seq(Steps)
<1>1. CASE k = "normal"
  BY <1>1 DEF Plan, Steps
<1>2. CASE k = "backlog"
  BY <1>2 DEF Plan, Steps
<1>3. CASE k = "kill"
  BY <1>3 DEF Plan, Steps
<1>4. CASE k = "crash"
  BY <1>4 DEF Plan, Steps
<1>5. CASE k = "oom"
  BY <1>5 DEF Plan, Steps
<1>6. CASE k = "backup"
  BY <1>6 DEF Plan, Steps
<1>. QED BY <1>1, <1>2, <1>3, <1>4, <1>5, <1>6

LEMMA AcceptanceInit == Init => TypeOK
<1>. SUFFICES ASSUME Init PROVE TypeOK
  OBVIOUS
<1>1. WhatOK
  BY DEF Init, WhatOK
<1>2. PlanOK
  BY PlanType, AcceptanceAssumption DEF Init, PlanOK
<1>3. QueueOK /\ LedgerOK /\ ChecksOK
  BY DEF Init, QueueOK, LedgerOK, ChecksOK, Zero, Never, States
<1>4. TruthOK
  <2>1. \A i \in Ids : starts[i] = 0 /\ ran[i] = 0 /\ fin[i] = 0 /\ live[i] = 0
    BY DEF Init, Zero
  <2>2. ran \in [Ids -> Nat] /\ fin \in [Ids -> Nat] /\ cut \subseteq Ids /\ corrupt \in BOOLEAN
    BY DEF Init, Zero
  <2>. QED BY <2>1, <2>2 DEF TruthOK
<1>5. FaultsOK
  BY AcceptanceAssumption DEF Init, FaultsOK
<1>. QED BY <1>1, <1>2, <1>3, <1>4, <1>5, Parts

----------------------------------------------------------------------------
(* What the steps share. *)
LEMMA AdvanceType == ASSUME TypeOK, plan # <<>>, Advance PROVE PlanOK'
<1>1. Tail(plan) \in Seq(Steps)
  BY DEF TypeOK
<1>2. \A step : Targets(step) \subseteq Ids
  BY DEF Targets
<1>. QED BY <1>1, <1>2 DEF Advance, PlanOK

LEMMA CheckType == ASSUME TypeOK, NEW ok, Check(ok), UNCHANGED kind PROVE ChecksOK'
<1>1. passed' \subseteq Required(kind)
  BY DEF Check, TypeOK
<1>2. failed' \in BOOLEAN
  BY DEF Check
<1>. QED BY <1>1, <1>2 DEF ChecksOK, Required

LEMMA StepKnown == ASSUME NEW steps, At(steps), "over" \notin steps PROVE plan # <<>>
BY DEF At, Step

LEMMA SameParts ==
  ASSUME TypeOK
  PROVE  /\ UNCHANGED <<what, verdict>> => WhatOK'
         /\ UNCHANGED <<plan, left>> => PlanOK'
         /\ UnchangedQueue => QueueOK'
         /\ UNCHANGED <<told, starts, ends, finals, torn>> => LedgerOK'
         /\ UNCHANGED <<kind, passed, failed>> => ChecksOK'
         /\ UNCHANGED <<truth, starts, live>> => TruthOK'
         /\ UNCHANGED <<defects, trouble>> => FaultsOK'
         /\ trouble' = trouble + 1 /\ defects' = defects /\ defects + trouble < MaxFaults => FaultsOK'
         /\ defects' = defects + 1 /\ trouble' = trouble /\ defects + trouble < MaxFaults => FaultsOK'
<1>1. WhatOK /\ PlanOK /\ QueueOK /\ LedgerOK /\ ChecksOK /\ TruthOK /\ FaultsOK /\ MaxFaults \in Nat
  BY Parts, AcceptanceAssumption
<1>2. UNCHANGED <<what, verdict>> => WhatOK'
  BY <1>1 DEF WhatOK, what
<1>3. UNCHANGED <<plan, left>> => PlanOK'
  BY <1>1 DEF PlanOK
<1>4. UnchangedQueue => QueueOK'
  BY <1>1 DEF QueueOK, UnchangedQueue, queue
<1>5. UNCHANGED <<told, starts, ends, finals, torn>> => LedgerOK'
  BY <1>1 DEF LedgerOK
<1>6. UNCHANGED <<kind, passed, failed>> => ChecksOK'
  BY <1>1 DEF ChecksOK, Required
<1>7. UNCHANGED <<truth, starts, live>> => TruthOK'
  BY <1>1 DEF TruthOK, truth
<1>8. UNCHANGED <<defects, trouble>> => FaultsOK'
  BY <1>1 DEF FaultsOK
<1>9. trouble' = trouble + 1 /\ defects' = defects /\ defects + trouble < MaxFaults => FaultsOK'
  BY <1>1 DEF FaultsOK
<1>10. defects' = defects + 1 /\ trouble' = trouble /\ defects + trouble < MaxFaults => FaultsOK'
  BY <1>1 DEF FaultsOK
<1>. QED BY <1>2, <1>3, <1>4, <1>5, <1>6, <1>7, <1>8, <1>9, <1>10
----------------------------------------------------------------------------
(* The consumer. *)
LEMMA ClaimType == ASSUME TypeOK, NEW i \in Ids, Claim(i) PROVE TypeOK'
<1>1. "held" \in States /\ QueueOK
  BY Parts DEF States
<1>2. QueueOK'
  BY <1>1 DEF Claim, Claimable, QueueOK
<1>. QED BY <1>2, SameParts, PartsNext DEF Claim, ledger, what, truth

LEMMA RunType == ASSUME TypeOK, NEW i \in Ids, Run(i) PROVE TypeOK'
<1>1. QueueOK /\ LedgerOK /\ TruthOK /\ ChecksOK
  BY Parts
<1>2. live[i] \in Nat /\ ran[i] \in Nat /\ starts[i] \in Nat /\ fin[i] \in Nat
  BY <1>1 DEF QueueOK, LedgerOK, TruthOK
<1>3. live[i] + 1 \in Nat /\ ran[i] + 1 \in Nat /\ starts[i] + 1 \in Nat
  BY <1>2
<1>4. live' \in [Ids -> Nat] /\ ran' \in [Ids -> Nat] /\ starts' \in [Ids -> Nat] /\ got' \subseteq Ids
  BY <1>1, <1>3 DEF Run, QueueOK, LedgerOK, TruthOK
<1>5. up # "none"
  BY <1>1 DEF Run, QueueOK
<1>6. QueueOK'
  BY <1>1, <1>4, <1>5 DEF Run, QueueOK
<1>7. LedgerOK'
  BY <1>1, <1>4 DEF Run, LedgerOK
<1>8. ChecksOK' /\ corrupt' \in BOOLEAN
  BY <1>1 DEF Run, ChecksOK, TruthOK, Required, what
<1>9. \A j \in Ids : starts'[j] <= ran'[j] /\ fin'[j] + live'[j] <= ran'[j]
  <2>1. ASSUME NEW j \in Ids PROVE starts'[j] <= ran'[j] /\ fin'[j] + live'[j] <= ran'[j]
    <3>1. /\ live[j] \in Nat /\ ran[j] \in Nat /\ starts[j] \in Nat /\ fin[j] \in Nat
          /\ starts[j] <= ran[j] /\ fin[j] + live[j] <= ran[j] /\ fin'[j] = fin[j]
      BY <1>1 DEF QueueOK, LedgerOK, TruthOK, Run
    <3>2. CASE j = i
      <4>1. live'[j] = live[j] + 1 /\ ran'[j] = ran[j] + 1 /\ starts'[j] \in {starts[j], starts[j] + 1}
        BY <1>1, <3>2 DEF Run, QueueOK, LedgerOK, TruthOK
      <4>. QED BY <3>1, <4>1
    <3>3. CASE j # i
      <4>1. live'[j] = live[j] /\ ran'[j] = ran[j] /\ starts'[j] = starts[j]
        BY <1>1, <3>3 DEF Run, QueueOK, LedgerOK, TruthOK
      <4>. QED BY <3>1, <4>1
    <3>. QED BY <3>2, <3>3
  <2>. QED BY <2>1
<1>10. TruthOK'
  BY <1>1, <1>4, <1>8, <1>9 DEF Run, TruthOK
<1>11. FaultsOK'
  BY SameParts DEF Run
<1>. QED BY <1>6, <1>7, <1>8, <1>10, <1>11, SameParts, PartsNext DEF Run, what

LEMMA RunEndsType == ASSUME TypeOK, NEW i \in Ids, RunEnds(i) PROVE TypeOK'
<1>1. QueueOK /\ LedgerOK /\ TruthOK
  BY Parts
<1>2. live[i] \in Nat /\ fin[i] \in Nat /\ ends[i] \in Nat /\ live[i] > 0
  BY <1>1 DEF QueueOK, LedgerOK, TruthOK, RunEnds
<1>3. live[i] - 1 \in Nat /\ fin[i] + 1 \in Nat /\ ends[i] + 1 \in Nat
  BY <1>2
<1>4. /\ live' = [live EXCEPT ![i] = live[i] - 1]
      /\ ends' \in {ends, [ends EXCEPT ![i] = ends[i] + 1]}
      /\ \/ fin' = [fin EXCEPT ![i] = fin[i] + 1] /\ own' = [own EXCEPT ![i] = FALSE]
            /\ q' \in {q, [q EXCEPT ![i] = "done"]}
         \/ UNCHANGED <<q, own, fin>>
  BY DEF RunEnds
<1>5. live' \in [Ids -> Nat] /\ fin' \in [Ids -> Nat] /\ ends' \in [Ids -> Nat]
  BY <1>1, <1>3, <1>4 DEF QueueOK, LedgerOK, TruthOK
<1>6. up # "none"
  BY <1>1, <1>2 DEF QueueOK
<1>7. q' \in [Ids -> States] /\ own' \in [Ids -> BOOLEAN]
  BY <1>1, <1>4 DEF QueueOK, States
<1>8. QueueOK'
  BY <1>1, <1>5, <1>6, <1>7 DEF RunEnds, QueueOK
<1>9. LedgerOK'
  BY <1>1, <1>5 DEF RunEnds, LedgerOK
<1>10. \A j \in Ids : starts'[j] <= ran'[j] /\ fin'[j] + live'[j] <= ran'[j]
  <2>1. ASSUME NEW j \in Ids PROVE starts'[j] <= ran'[j] /\ fin'[j] + live'[j] <= ran'[j]
    <3>1. /\ live[j] \in Nat /\ ran[j] \in Nat /\ starts[j] \in Nat /\ fin[j] \in Nat
          /\ starts[j] <= ran[j] /\ fin[j] + live[j] <= ran[j] /\ ran' = ran /\ starts' = starts
      BY <1>1 DEF QueueOK, LedgerOK, TruthOK, RunEnds, truth
    <3>2. CASE j = i
      <4>1. live'[j] = live[j] - 1 /\ fin'[j] \in {fin[j], fin[j] + 1}
        BY <1>1, <1>4, <3>2 DEF QueueOK, TruthOK
      <4>. QED BY <3>1, <4>1
    <3>3. CASE j # i
      <4>1. live'[j] = live[j] /\ fin'[j] = fin[j]
        BY <1>1, <1>4, <3>3 DEF QueueOK, TruthOK
      <4>. QED BY <3>1, <4>1
    <3>. QED BY <3>2, <3>3
  <2>. QED BY <2>1
<1>11. TruthOK'
  BY <1>1, <1>5, <1>10 DEF RunEnds, TruthOK
<1>. QED BY <1>8, <1>9, <1>11, SameParts, PartsNext DEF RunEnds, what

LEMMA WorldType ==
  ASSUME TypeOK, World PROVE TypeOK'
<1>0. QueueOK /\ LedgerOK
  BY Parts
<1>1. ASSUME NEW i \in Ids, RenewalRefused(i) PROVE TypeOK'
  <2>1. QueueOK'
    BY <1>0, <1>1 DEF RenewalRefused, QueueOK
  <2>2. TruthOK'
    <3>1. TruthOK
      BY Parts
    <3>. QED BY <1>1, <3>1 DEF RenewalRefused, TruthOK, ledger
  <2>. QED BY <1>1, <2>1, <2>2, SameParts, PartsNext DEF RenewalRefused, ledger, what
<1>2. ASSUME NEW i \in Ids, Misbehave(i) PROVE TypeOK'
  <2>1. QueueOK'
    BY <1>0, <1>2 DEF Misbehave, QueueOK
  <2>. QED BY <1>2, <2>1, SameParts, PartsNext DEF Misbehave, ledger, what, truth
<1>3. CASE CommandFails
  <2>1. Check(FALSE) /\ (Advance \/ (plan' = <<>> /\ left' = {})) /\ plan # <<>>
    BY <1>3 DEF CommandFails, At, Step
  <2>2. PlanOK'
    <3>1. CASE Advance
      BY <2>1, <3>1, AdvanceType
    <3>2. CASE plan' = <<>> /\ left' = {}
      BY <3>2 DEF PlanOK
    <3>. QED BY <2>1, <3>1, <3>2
  <2>3. ChecksOK'
    BY <1>3, <2>1, CheckType DEF CommandFails, UnchangedRest, what
  <2>. QED BY <1>3, <2>2, <2>3, SameParts, PartsNext
           DEF CommandFails, UnchangedRest, UnchangedQueue, UnchangedLedger, queue, truth, what
<1>4. ASSUME NEW l \in {"main", "c1", "c2"}, WriteFails(l) PROVE TypeOK'
  <2>1. LedgerOK'
    BY <1>0, <1>4 DEF WriteFails, LedgerOK
  <2>. QED BY <1>4, <2>1, SameParts, PartsNext DEF WriteFails, UnchangedQueue, queue, truth, what
<1>. QED BY <1>1, <1>2, <1>3, <1>4 DEF World

----------------------------------------------------------------------------
(* The steps of the scenario. *)
LEMMA SubmitType == ASSUME TypeOK, NEW i \in Ids, Submit(i) PROVE TypeOK'
<1>0. QueueOK /\ LedgerOK /\ PlanOK
  BY Parts
<1>1. PICK res \in {"accepted", "rejected", "uncertain"}, there \in BOOLEAN :
        /\ told' = [told EXCEPT ![i] = @ \union {res}]
        /\ q' = IF there /\ q[i] = "none" THEN [q EXCEPT ![i] = "ready"] ELSE q
        /\ \/ UNCHANGED trouble
           \/ defects + trouble < MaxFaults /\ trouble' = trouble + 1
  BY DEF Submit
<1>2. QueueOK'
  BY <1>0, <1>1 DEF Submit, QueueOK, States
<1>3. told[i] \union {res} \in SUBSET {"accepted", "rejected", "uncertain"}
  BY <1>0 DEF LedgerOK
<1>4. LedgerOK'
  BY <1>0, <1>1, <1>3 DEF Submit, LedgerOK
<1>5. PlanOK'
  BY <1>0 DEF Submit, PlanOK
<1>6. FaultsOK'
  BY <1>1, SameParts DEF Submit
<1>. QED BY <1>2, <1>4, <1>5, <1>6, SameParts, PartsNext DEF Submit, truth, what

LEMMA PollType == ASSUME TypeOK, NEW i \in Ids, Poll(i) PROVE TypeOK'
<1>0. LedgerOK /\ PlanOK
  BY Parts
<1>1. Final(i) \subseteq {"done", "failed", "other"}
  BY DEF Final
<1>2. finals[i] \union Final(i) \in SUBSET {"done", "failed", "other"}
  BY <1>0, <1>1 DEF LedgerOK
<1>3. LedgerOK' /\ PlanOK'
  BY <1>0, <1>2 DEF Poll, LedgerOK, PlanOK
<1>. QED BY <1>3, SameParts, PartsNext DEF Poll, UnchangedQueue, queue, truth, what

(* A step that checks something and goes on to the next, whatever it does to the queue. *)
LEMMA StepType ==
  ASSUME TypeOK, plan # <<>>, Advance, NEW ok, Check(ok), UNCHANGED <<what, truth, defects, trouble, verdict>>,
         QueueOK', LedgerOK', UNCHANGED starts, \A i \in Ids : live'[i] = 0 \/ live'[i] = live[i]
  PROVE  TypeOK'
<1>0. TruthOK /\ QueueOK
  BY Parts
<1>1. PlanOK' /\ ChecksOK'
  BY AdvanceType, CheckType DEF what
<1>2. ASSUME NEW i \in Ids PROVE fin[i] + live'[i] <= ran[i]
  <2>1. fin[i] \in Nat /\ live[i] \in Nat /\ ran[i] \in Nat /\ fin[i] + live[i] <= ran[i]
    BY <1>0 DEF TruthOK, QueueOK
  <2>. QED BY <2>1
<1>3. TruthOK'
  BY <1>0, <1>2 DEF TruthOK, truth
<1>. QED BY <1>1, <1>3, SameParts, PartsNext DEF what

LEMMA SubmittedType == ASSUME TypeOK, Submitted PROVE TypeOK'
<1>1. plan # <<>> /\ Advance
  BY DEF Submitted, At, Step
<1>2. PICK ok : Check(ok)
  BY DEF Submitted
<1>3. QueueOK' /\ LedgerOK'
  BY SameParts DEF Submitted, UnchangedQueue, UnchangedLedger
<1>. QED BY <1>1, <1>2, <1>3, StepType DEF Submitted, UnchangedLedger, queue

(* Steps that only look. *)
LEMMA LookType == ASSUME TypeOK, Inspect \/ Recount \/ Compare \/ PerId \/ Reconcile PROVE TypeOK'
<1>1. plan # <<>> /\ Advance
  BY DEF Inspect, Recount, Compare, PerId, Reconcile, At, Step
<1>2. PICK ok : Check(ok)
  BY DEF Inspect, Recount, Compare, PerId, Reconcile
<1>3. UnchangedQueue /\ UnchangedRest /\ UNCHANGED trouble
  BY DEF Inspect, Recount, Compare, PerId, Reconcile
<1>4. QueueOK' /\ LedgerOK'
  BY <1>3, SameParts DEF UnchangedRest, UnchangedLedger
<1>. QED BY <1>1, <1>2, <1>3, <1>4, StepType DEF UnchangedRest, UnchangedLedger, UnchangedQueue, queue

(* Steps that only go on, or end the scenario. *)
LEMMA GoOnType == ASSUME TypeOK, Open \/ Claimed \/ WaitOver \/ Finish PROVE TypeOK'
<1>1. CASE Open
  <2>1. PlanOK'
    BY <1>1, AdvanceType, StepKnown DEF Open
  <2>. QED BY <1>1, <2>1, SameParts, PartsNext
           DEF Open, UnchangedRest, UnchangedLedger, UnchangedQueue, queue, truth, what
<1>2. CASE Claimed
  <2>1. Check(Enough) /\ (Advance \/ (plan' = <<>> /\ left' = {})) /\ plan # <<>>
    BY <1>2 DEF Claimed, At, Step
  <2>2. PlanOK'
    <3>1. CASE Advance
      BY <2>1, <3>1, AdvanceType
    <3>2. CASE plan' = <<>> /\ left' = {}
      BY <3>2 DEF PlanOK
    <3>. QED BY <2>1, <3>1, <3>2
  <2>3. ChecksOK'
    BY <1>2, <2>1, CheckType DEF Claimed, UnchangedRest, what
  <2>. QED BY <1>2, <2>2, <2>3, SameParts, PartsNext
           DEF Claimed, UnchangedRest, UnchangedLedger, UnchangedQueue, queue, truth, what
<1>3. CASE WaitOver
  <2>1. plan # <<>> /\ Advance
    BY <1>3 DEF WaitOver, At, Step
  <2>2. PlanOK'
    BY <2>1, AdvanceType
  <2>3. UNCHANGED kind /\ (UNCHANGED <<passed, failed>> \/ Check(FALSE))
    BY <1>3 DEF WaitOver, UnchangedRest, what
  <2>4. ChecksOK'
    BY <2>3, CheckType, SameParts
  <2>. QED BY <1>3, <2>2, <2>4, SameParts, PartsNext
           DEF WaitOver, UnchangedRest, UnchangedLedger, UnchangedQueue, queue, truth, what
<1>4. CASE Finish
  <2>1. WhatOK
    BY Parts
  <2>2. WhatOK'
    BY <1>4, <2>1 DEF Finish, WhatOK, what
  <2>. QED BY <1>4, <2>2, SameParts, PartsNext DEF Finish, UnchangedQueue, queue, ledger, truth, what
<1>. QED BY <1>1, <1>2, <1>3, <1>4

(* Steps that move tasks, or the consumer. *)
LEMMA MoveType ==
  ASSUME TypeOK, Seed \/ Copy \/ Restore \/ Replay \/ Fill \/ Release
  PROVE  TypeOK'
<1>0. QueueOK /\ LedgerOK
  BY Parts
<1>1. plan # <<>> /\ Advance /\ UNCHANGED <<what, truth, defects, trouble, verdict>>
  BY DEF Seed, Copy, Restore, Replay, Fill, Release, At, Step, UnchangedRest
<1>2. PICK ok : Check(ok)
  BY DEF Seed, Copy, Restore, Replay, Fill, Release
<1>3. \A i \in Ids : Planned(i) \in States
  BY DEF Planned, States
<1>4. LedgerOK' /\ UNCHANGED <<starts, live>>
  <2>1. CASE Seed
    BY <1>0, <2>1 DEF Seed, LedgerOK
  <2>2. CASE Copy \/ Restore \/ Replay \/ Fill \/ Release
    <3>1. UnchangedLedger /\ UNCHANGED live
      BY <2>2 DEF Copy, Restore, Replay, Fill, Release, UnchangedRest, queue
    <3>. QED BY <3>1, SameParts DEF UnchangedLedger
  <2>. QED BY <2>1, <2>2
<1>5. QueueOK'
  <2>1. CASE Seed
    BY <1>0, <1>3, <2>1 DEF Seed, QueueOK
  <2>2. CASE Copy \/ Restore
    BY <1>0, <2>2 DEF Copy, Restore, QueueOK, queue
  <2>3. CASE Replay
    <3>1. q' \in [Ids -> States]
      BY <1>0, <2>3 DEF Replay, QueueOK, States
    <3>. QED BY <1>0, <2>3, <3>1 DEF Replay, QueueOK
  <2>4. CASE Fill \/ Release
    BY <1>0, <2>4 DEF Fill, Release, QueueOK, queue
  <2>. QED BY <2>1, <2>2, <2>3, <2>4
<1>. QED BY <1>1, <1>2, <1>4, <1>5, StepType

LEMMA ConsumerType == ASSUME TypeOK, Start \/ Spawn \/ Kill \/ Exit2 \/ Stop PROVE TypeOK'
<1>0. QueueOK /\ LedgerOK
  BY Parts
<1>1. plan # <<>> /\ Advance /\ UnchangedRest /\ UNCHANGED trouble
  BY DEF Start, Spawn, Kill, Exit2, Stop, At, Step
<1>2. PICK ok : Check(ok)
  BY DEF Start, Spawn, Kill, Exit2, Stop
<1>3. LedgerOK' /\ UNCHANGED starts
  BY <1>1, SameParts DEF UnchangedRest, UnchangedLedger
<1>4. QueueOK' /\ \A i \in Ids : live'[i] = 0 \/ live'[i] = live[i]
  <2>1. CASE Start \/ Spawn
    BY <1>0, <2>1 DEF Start, Spawn, QueueOK, queue
  <2>2. CASE Kill \/ Exit2
    <3>1. /\ \A i \in Ids : live'[i] = 0 /\ own'[i] = FALSE
          /\ live' \in [Ids -> Nat] /\ own' \in [Ids -> BOOLEAN] /\ got' = {}
      <4>1. Gone
        BY <2>2 DEF Kill, Exit2
      <4>2. live' = [i \in Ids |-> 0] /\ own' = [i \in Ids |-> FALSE] /\ got' = {}
        BY <4>1 DEF Gone, Zero
      <4>. QED BY <4>2
    <3>2. held' \subseteq Ids /\ up' = "none" /\ UNCHANGED <<q, saved, oom>>
      BY <1>0, <2>2 DEF Kill, Exit2, QueueOK
    <3>. QED BY <1>0, <3>1, <3>2 DEF QueueOK
  <2>3. CASE Stop
    BY <1>0, <2>3 DEF Stop, Idle, QueueOK
  <2>. QED BY <2>1, <2>2, <2>3
<1>. QED BY <1>1, <1>2, <1>3, <1>4, StepType DEF UnchangedRest

----------------------------------------------------------------------------
LEMMA AcceptanceNext == TypeOK /\ [Next]_vars => TypeOK'
<1>. SUFFICES ASSUME TypeOK, [Next]_vars PROVE TypeOK'
  OBVIOUS
<1>1. CASE Scenario
  BY <1>1, SubmitType, PollType, SubmittedType, LookType, GoOnType, MoveType, ConsumerType
     DEF Scenario
<1>2. CASE Worker
  BY <1>2, ClaimType, RunType, RunEndsType DEF Worker
<1>3. CASE World
  BY <1>3, WorldType
<1>4. CASE UNCHANGED vars
  BY <1>4, SameParts, PartsNext DEF vars, UnchangedQueue, ledger, queue, truth, what
<1>. QED BY <1>1, <1>2, <1>3, <1>4 DEF Next

(* Every reachable state of a scenario has the types above: in particular the ledger
   never shows more runs of a task than there were, no task has finished more often
   than it was run, and without a consumer nothing runs or is claimed. *)
THEOREM AcceptanceTypeCorrect == Spec => []TypeOK
<1>1. Init => TypeOK
  BY AcceptanceInit
<1>2. TypeOK /\ [Next]_vars => TypeOK'
  BY AcceptanceNext
<1>. QED BY <1>1, <1>2, PTL DEF Spec

----------------------------------------------------------------------------
(* Sums of counts. *)
Units(f) == UNION {{i} \X (1..f[i]) : i \in Ids}

LEMMA UnitsAre ==
  ASSUME NEW f
  PROVE  \A u : u \in Units(f) <=> \E i \in Ids : \E n \in 1..f[i] : u = <<i, n>>
  BY DEF Units

LEMMA UnitIn ==
  ASSUME NEW f, NEW i \in Ids, NEW n
  PROVE  <<i, n>> \in Units(f) <=> n \in 1..f[i]
<1>1. ASSUME <<i, n>> \in Units(f) PROVE n \in 1..f[i]
  <2>1. PICK j \in Ids : \E m \in 1..f[j] : <<i, n>> = <<j, m>>
    BY <1>1, UnitsAre
  <2>. QED BY <2>1
<1>2. ASSUME n \in 1..f[i] PROVE <<i, n>> \in Units(f)
  BY <1>2, UnitsAre
<1>. QED BY <1>1, <1>2

LEMMA UnitsFinite ==
  ASSUME NEW f \in [Ids -> Nat]
  PROVE  IsFiniteSet(Units(f)) /\ Total(f) = Cardinality(Units(f)) /\ Total(f) \in Nat
<1>. DEFINE part == [i \in Ids |-> {i} \X (1..f[i])]
            Parts_ == {part[i] : i \in Ids}
<1>1. \A i \in Ids : IsFiniteSet(part[i])
  <2>. TAKE i \in Ids
  <2>1. f[i] \in Int /\ 1 \in Int
    OBVIOUS
  <2>2. IsFiniteSet(1..f[i])
    BY ONLY <2>1, FS_Interval
  <2>3. IsFiniteSet({i})
    BY ONLY FS_Singleton
  <2>. QED BY <2>2, <2>3, FS_Product
<1>2. IsFiniteSet(Parts_)
  <2>1. part \in Surjection(Ids, Parts_)
    BY DEF Surjection
  <2>. QED BY <2>1, AcceptanceAssumption, FS_Surjection
<1>3. IsFiniteSet(UNION Parts_)
  BY <1>1, <1>2, FS_UNION
<1>4. UNION Parts_ = Units(f)
  BY DEF Units
<1>5. Total(f) = Cardinality(Units(f))
  BY DEF Total, Units
<1>. QED BY <1>3, <1>4, <1>5, FS_CardinalityType

LEMMA TotalUp ==
  ASSUME NEW f \in [Ids -> Nat], NEW g \in [Ids -> Nat], \A i \in Ids : f[i] <= g[i]
  PROVE  Total(f) <= Total(g) /\ (Total(g) <= Total(f) => \A i \in Ids : f[i] = g[i])
<1>1. Units(f) \subseteq Units(g)
  <2>1. ASSUME NEW i \in Ids, NEW n \in 1..f[i] PROVE n \in 1..g[i]
    OBVIOUS
  <2>. QED BY <2>1, UnitsAre, UnitIn
<1>2. Total(f) <= Total(g)
  BY <1>1, UnitsFinite, FS_Subset
<1>3. ASSUME Total(g) <= Total(f), NEW i \in Ids PROVE f[i] = g[i]
  <2>1. Total(f) = Total(g)
    BY <1>2, <1>3, UnitsFinite
  <2>2. Units(f) = Units(g)
    BY <1>1, <2>1, UnitsFinite, FS_Subset
  <2>3. SUFFICES ASSUME f[i] < g[i] PROVE FALSE
    BY <1>3
  <2>4. g[i] \in 1..g[i] /\ g[i] \notin 1..f[i]
    BY <1>3, <2>3
  <2>. QED BY <1>3, <2>2, <2>4, UnitIn
<1>. QED BY <1>2, <1>3

LEMMA TotalStep ==
  ASSUME NEW f \in [Ids -> Nat], NEW g \in [Ids -> Nat], NEW i \in Ids,
         g[i] = f[i] + 1, \A j \in Ids \ {i} : g[j] = f[j]
  PROVE  Total(g) = Total(f) + 1
<1>. DEFINE u == <<i, f[i] + 1>>
<1>1. f[i] \in Nat
  OBVIOUS
<1>2. \A n : n \in 1..g[i] <=> n \in 1..f[i] \/ n = f[i] + 1
  BY <1>1
<1>3. \A j \in Ids : \A n : <<j, n>> \in Units(g) <=> <<j, n>> \in Units(f) \/ <<j, n>> = u
  <2>. TAKE j \in Ids
  <2>. TAKE n
  <2>1. CASE j = i
    BY <1>2, <2>1, UnitIn
  <2>2. CASE j # i
    BY <2>2, UnitIn
  <2>. QED BY <2>1, <2>2
<1>4. u \notin Units(f)
  BY <1>1, UnitIn
<1>5. Units(g) = Units(f) \union {u}
  <2>1. \A v : v \in Units(g) => \E j \in Ids : \E n : v = <<j, n>>
    BY UnitsAre
  <2>2. \A v : v \in Units(f) \union {u} => \E j \in Ids : \E n : v = <<j, n>>
    BY UnitsAre
  <2>. HIDE DEF u
  <2>. QED BY <1>3, <2>1, <2>2
<1>. HIDE DEF u
<1>. QED BY <1>4, <1>5, UnitsFinite, FS_AddElement

LEMMA TotalZero == Total(Zero) = 0
<1>1. Zero \in [Ids -> Nat] /\ \A i \in Ids : Zero[i] = 0
  BY DEF Zero
<1>2. Units(Zero) = {}
  <2>1. \A i \in Ids : 1..Zero[i] = {}
    BY <1>1
  <2>. QED BY <2>1, UnitsAre
<1>. QED BY <1>1, <1>2, UnitsFinite, FS_EmptySet


----------------------------------------------------------------------------
(* Where the scenario is.  No check of it has failed, and its own ledger is whole;
   what is left of its plan is an end of the plan of its kind. *)
Clean == ~failed /\ "main" \notin torn

OnPlan ==
  /\ Len(plan) <= Len(Plan[kind])
  /\ \A j \in 1..Len(plan) : plan[j] = Plan[kind][Len(Plan[kind]) - Len(plan) + j]

(* Steps a Manager that runs in the gate has been stopped before. *)
Late == {"waitFailed", "reconcile", "over"}

AllKinds == {"normal", "backlog", "kill", "crash", "oom", "backup"}

LEMMA PlanLength ==
  /\ Len(Plan["normal"]) = 4 /\ Len(Plan["backlog"]) = 6 /\ Len(Plan["kill"]) = 9
  /\ Len(Plan["crash"]) = 9 /\ Len(Plan["oom"]) = 10 /\ Len(Plan["backup"]) = 10
BY DEF Plan

LEMMA PlanInit == Init => OnPlan
<1>. SUFFICES ASSUME Init PROVE OnPlan
  OBVIOUS
<1>1. kind \in AllKinds /\ plan = Plan[kind]
  BY AcceptanceAssumption DEF Init, AllKinds
<1>2. Plan[kind] \in Seq(Steps)
  BY <1>1, PlanType DEF AllKinds
<1>3. Len(plan) \in Nat /\ Len(plan) = Len(Plan[kind])
  BY <1>1, <1>2
<1>. QED BY <1>1, <1>3 DEF OnPlan

(* The step under way, and the one after it. *)
LEMMA StepIs ==
  ASSUME TypeOK, OnPlan
  PROVE  /\ Plan[kind] \in Seq(Steps) /\ Len(plan) \in 0..Len(Plan[kind])
         /\ Len(plan) = 0 <=> plan = <<>>
         /\ Step = IF Len(plan) = 0 THEN "over" ELSE Plan[kind][Len(Plan[kind]) - Len(plan) + 1]
<1>1. kind \in AllKinds /\ plan \in Seq(Steps)
  BY AcceptanceAssumption DEF TypeOK, AllKinds
<1>2. Plan[kind] \in Seq(Steps)
  BY <1>1, PlanType DEF AllKinds
<1>3. Len(plan) = 0 <=> plan = <<>>
  BY <1>1
<1>4. Len(plan) \in Nat /\ Len(Plan[kind]) \in Nat
  BY <1>1, <1>2
<1>5. Len(plan) # 0 => plan[1] = Plan[kind][Len(Plan[kind]) - Len(plan) + 1]
  BY <1>4 DEF OnPlan
<1>. QED BY <1>1, <1>2, <1>3, <1>4, <1>5 DEF Step, OnPlan

LEMMA NextOnPlan ==
  ASSUME TypeOK, OnPlan, plan # <<>>, plan' = Tail(plan), kind' = kind
  PROVE  /\ OnPlan' /\ Len(plan') = Len(plan) - 1
         /\ Step' = IF Len(plan) = 1 THEN "over" ELSE Plan[kind][Len(Plan[kind]) - Len(plan) + 2]
<1>1. plan \in Seq(Steps) /\ Plan[kind] \in Seq(Steps)
  BY StepIs DEF TypeOK
<1>2. Len(plan) \in Nat \ {0} /\ Len(Plan[kind]) \in Nat /\ Len(plan) <= Len(Plan[kind])
  BY <1>1 DEF OnPlan
<1>3. /\ plan' \in Seq(Steps) /\ Len(plan') = Len(plan) - 1
      /\ \A j \in 1..Len(plan') : plan'[j] = plan[j + 1]
  BY <1>1
<1>4. \A j \in 1..Len(plan') : plan'[j] = Plan[kind][Len(Plan[kind]) - Len(plan') + j]
  <2>. TAKE j \in 1..Len(plan')
  <2>0. \A a, b \in Nat : j \in 1..(b - 1) => j + 1 \in 1..b /\ a - b + (j + 1) = a - (b - 1) + j
    OBVIOUS
  <2>1. j + 1 \in 1..Len(plan) /\ Len(Plan[kind]) - Len(plan) + (j + 1) = Len(Plan[kind]) - Len(plan') + j
    BY <1>2, <1>3, <2>0
  <2>. QED BY <1>3, <2>1 DEF OnPlan
<1>5. OnPlan'
  BY <1>2, <1>3, <1>4 DEF OnPlan
<1>6. Len(plan) = 1 <=> plan' = <<>>
  <2>1. \A s \in Seq(Steps) : Len(s) = 0 <=> s = <<>>
    OBVIOUS
  <2>2. Len(plan') = 0 <=> Len(plan) = 1
    BY <1>2, <1>3
  <2>. QED BY <1>3, <2>1, <2>2
<1>7. Len(plan) # 1 => plan'[1] = Plan[kind][Len(Plan[kind]) - Len(plan) + 2]
  <2>1. Len(plan) # 1 => 1 \in 1..Len(plan') /\ Len(Plan[kind]) - Len(plan') + 1 = Len(Plan[kind]) - Len(plan) + 2
    BY <1>2, <1>3
  <2>. QED BY <1>4, <2>1
<1>8. Step' = IF plan' = <<>> THEN "over" ELSE plan'[1]
  BY <1>3 DEF Step
<1>. QED BY <1>3, <1>5, <1>6, <1>7, <1>8

(* The steps of a kill, and the ones no other scenario has. *)
LEMMA KillSteps ==
  ASSUME TypeOK, OnPlan, kind = "kill"
  PROVE  /\ Step \in {"submit", "spawn1", "claimed", "kill", "spawn2", "wait", "exit2", "recount",
                      "reconcile", "over"}
         /\ plan # <<>> /\ plan' = Tail(plan) /\ kind' = kind =>
                   /\ Step = "submit"  => Step' = "spawn1"
                   /\ Step = "spawn1"  => Step' = "claimed"
                   /\ Step = "claimed" => Step' = "kill"
                   /\ Step = "kill"    => Step' = "spawn2"
                   /\ Step = "spawn2"  => Step' = "wait"
                   /\ Step = "wait"    => Step' = "exit2"
                   /\ Step = "exit2"   => Step' = "recount"
                   /\ Step = "recount" => Step' = "reconcile"
                   /\ Step = "reconcile" => Step' = "over"
<1>. DEFINE s == Plan["kill"]  n == Len(plan)
<1>1. /\ Len(s) = 9
      /\ s[1] = "submit" /\ s[2] = "spawn1" /\ s[3] = "claimed" /\ s[4] = "kill" /\ s[5] = "spawn2"
      /\ s[6] = "wait" /\ s[7] = "exit2" /\ s[8] = "recount" /\ s[9] = "reconcile"
  BY DEF Plan
<1>2. n \in 0..9 /\ (n = 0 <=> plan = <<>>) /\ Step = IF n = 0 THEN "over" ELSE s[10 - n]
  <2>1. 9 - n + 1 = 10 - n
    BY StepIs, <1>1
  <2>. QED BY <1>1, <2>1, StepIs
<1>. HIDE DEF s, n
<1>3. n = 0 \/ n = 1 \/ n = 2 \/ n = 3 \/ n = 4 \/ n = 5 \/ n = 6 \/ n = 7 \/ n = 8 \/ n = 9
  BY <1>2
<1>4. /\ n = 0 => Step = "over"
      /\ n = 1 => Step = "reconcile"
      /\ n = 2 => Step = "recount"
      /\ n = 3 => Step = "exit2"
      /\ n = 4 => Step = "wait"
      /\ n = 5 => Step = "spawn2"
      /\ n = 6 => Step = "kill"
      /\ n = 7 => Step = "claimed"
      /\ n = 8 => Step = "spawn1"
      /\ n = 9 => Step = "submit"
  <2>1. \A k \in 0..9 : k > 0 => 10 - k \in 1..9
    OBVIOUS
  <2>. QED BY <1>1, <1>2
<1>5. ASSUME plan # <<>>, plan' = Tail(plan), kind' = kind
      PROVE  Step' = IF n = 1 THEN "over" ELSE s[11 - n]
  <2>1. 9 - n + 2 = 11 - n
    BY <1>2
  <2>. QED BY <1>1, <1>2, <1>5, <2>1, NextOnPlan DEF s, n
<1>6. ASSUME plan # <<>>, plan' = Tail(plan), kind' = kind
      PROVE  /\ n = 1 => Step' = "over"
             /\ n = 2 => Step' = "reconcile"
             /\ n = 3 => Step' = "recount"
             /\ n = 4 => Step' = "exit2"
             /\ n = 5 => Step' = "wait"
             /\ n = 6 => Step' = "spawn2"
             /\ n = 7 => Step' = "kill"
             /\ n = 8 => Step' = "claimed"
             /\ n = 9 => Step' = "spawn1"
  BY <1>1, <1>2, <1>5, <1>6
<1>7. plan # <<>> => n # 0
  BY <1>2
<1>. QED BY <1>3, <1>4, <1>6, <1>7

(* What the other plans have in common. *)
LEMMA OtherPlans ==
  ASSUME NEW k \in AllKinds \ {"kill"}
  PROVE  \A m \in 1..Len(Plan[k]) :
           /\ Plan[k][m] \notin {"spawn1", "spawn2", "claimed", "kill", "exit2", "recount", "over"}
           /\ Plan[k][m] = "fill" => k = "oom"
           /\ Plan[k][m] \in Late /\ m > 1 => Plan[k][m - 1] \in {"stop", "waitFailed", "reconcile"}
           /\ Plan[k][m] \in Late => m > 1
           /\ m = Len(Plan[k]) => Plan[k][m] = "reconcile"
<1>1. CASE k = "normal"
  <2>1. Len(Plan[k]) = 4
    BY <1>1, PlanLength
  <2>2. \A m \in 1..4 : m \in {1, 2, 3, 4}
    OBVIOUS
  <2>3. /\ Plan[k][1] = "submit"
        /\ Plan[k][2] = "wait"
        /\ Plan[k][3] = "stop"
        /\ Plan[k][4] = "reconcile"
    BY <1>1 DEF Plan
  <2>. QED BY <1>1, <2>1, <2>2, <2>3 DEF Late
<1>2. CASE k = "backlog"
  <2>1. Len(Plan[k]) = 6
    BY <1>2, PlanLength
  <2>2. \A m \in 1..6 : m \in {1, 2, 3, 4, 5, 6}
    OBVIOUS
  <2>3. /\ Plan[k][1] = "submit"
        /\ Plan[k][2] = "inspect"
        /\ Plan[k][3] = "start"
        /\ Plan[k][4] = "wait"
        /\ Plan[k][5] = "stop"
        /\ Plan[k][6] = "reconcile"
    BY <1>2 DEF Plan
  <2>. QED BY <1>2, <2>1, <2>2, <2>3 DEF Late
<1>3. CASE k = "crash"
  <2>1. Len(Plan[k]) = 9
    BY <1>3, PlanLength
  <2>2. \A m \in 1..9 : m \in {1, 2, 3, 4, 5, 6, 7, 8, 9}
    OBVIOUS
  <2>3. /\ Plan[k][1] = "seed"
        /\ Plan[k][2] = "copy"
        /\ Plan[k][3] = "compare"
        /\ Plan[k][4] = "start"
        /\ Plan[k][5] = "replay"
        /\ Plan[k][6] = "wait"
        /\ Plan[k][7] = "stop"
        /\ Plan[k][8] = "waitFailed"
        /\ Plan[k][9] = "reconcile"
    BY <1>3 DEF Plan
  <2>. QED BY <1>3, <2>1, <2>2, <2>3 DEF Late
<1>4. CASE k = "oom"
  <2>1. Len(Plan[k]) = 10
    BY <1>4, PlanLength
  <2>2. \A m \in 1..10 : m \in {1, 2, 3, 4, 5, 6, 7, 8, 9, 10}
    OBVIOUS
  <2>3. /\ Plan[k][1] = "submit"
        /\ Plan[k][2] = "fill"
        /\ Plan[k][3] = "submitFull"
        /\ Plan[k][4] = "perId"
        /\ Plan[k][5] = "open"
        /\ Plan[k][6] = "release"
        /\ Plan[k][7] = "resubmit"
        /\ Plan[k][8] = "wait"
        /\ Plan[k][9] = "stop"
        /\ Plan[k][10] = "reconcile"
    BY <1>4 DEF Plan
  <2>. QED BY <1>4, <2>1, <2>2, <2>3 DEF Late
<1>5. CASE k = "backup"
  <2>1. Len(Plan[k]) = 10
    BY <1>5, PlanLength
  <2>2. \A m \in 1..10 : m \in {1, 2, 3, 4, 5, 6, 7, 8, 9, 10}
    OBVIOUS
  <2>3. /\ Plan[k][1] = "seed"
        /\ Plan[k][2] = "copy"
        /\ Plan[k][3] = "post"
        /\ Plan[k][4] = "restore"
        /\ Plan[k][5] = "compare"
        /\ Plan[k][6] = "start"
        /\ Plan[k][7] = "wait"
        /\ Plan[k][8] = "stop"
        /\ Plan[k][9] = "waitFailed"
        /\ Plan[k][10] = "reconcile"
    BY <1>5 DEF Plan
  <2>. QED BY <1>5, <2>1, <2>2, <2>3 DEF Late
<1>. QED BY <1>1, <1>2, <1>3, <1>4, <1>5 DEF AllKinds

LEMMA StepNotOver == ASSUME TypeOK, plan # <<>> PROVE Step # "over" /\ Step \in Steps
<1>1. Head(plan) \in Steps
  BY DEF TypeOK
<1>2. "over" \notin Steps
  BY DEF Steps
<1>. QED BY <1>1, <1>2 DEF Step

LEMMA OtherSteps ==
  ASSUME TypeOK, OnPlan, kind # "kill"
  PROVE  /\ Step \notin {"spawn1", "spawn2", "claimed", "kill", "exit2", "recount"}
         /\ Step = "fill" => kind = "oom"
         /\ plan # <<>> /\ plan' = Tail(plan) /\ kind' = kind /\ Step' \in Late =>
              Step \in {"stop", "waitFailed", "reconcile"}
         /\ plan # <<>> /\ plan' = Tail(plan) /\ kind' = kind /\ Step' = "over" => Step = "reconcile"
<1>. DEFINE s == Plan[kind]  m == Len(s) - Len(plan) + 1
<1>1. kind \in AllKinds \ {"kill"}
  BY AcceptanceAssumption DEF TypeOK, AllKinds
<1>2. Len(s) \in Nat /\ Len(plan) \in 0..Len(s) /\ (Len(plan) = 0 <=> plan = <<>>)
  BY StepIs
<1>3. CASE plan = <<>>
  BY <1>3 DEF Step
<1>4. CASE plan # <<>>
  <2>0. \A a \in Nat : \A b \in 0..a : b # 0 => a - b + 1 \in 1..a /\ (a - b + 1 = a <=> b = 1)
    OBVIOUS
  <2>1. m \in 1..Len(s) /\ (m = Len(s) <=> Len(plan) = 1)
    BY <1>2, <1>4, <2>0
  <2>2. Step = s[m]
    BY <1>2, <1>4, StepIs
  <2>3. ASSUME plan' = Tail(plan), kind' = kind
        PROVE  /\ m = Len(s) => Step' = "over"
               /\ m # Len(s) => m + 1 \in 1..Len(s) /\ Step' = s[m + 1]
    <3>1. Step' = IF Len(plan) = 1 THEN "over" ELSE s[Len(s) - Len(plan) + 2]
      BY <1>4, <2>3, NextOnPlan
    <3>2. m + 1 = Len(s) - Len(plan) + 2
      BY <1>2
    <3>3. m # Len(s) => m + 1 \in 1..Len(s)
      BY <1>2, <2>1
    <3>. QED BY <2>1, <3>1, <3>2, <3>3
  <2>. HIDE DEF m
  <2>4. /\ s[m] \notin {"spawn1", "spawn2", "claimed", "kill", "exit2", "recount", "over"}
        /\ s[m] = "fill" => kind = "oom"
        /\ m = Len(s) => s[m] = "reconcile"
    BY <1>1, <2>1, OtherPlans
  <2>5. ASSUME m # Len(s), m + 1 \in 1..Len(s)
        PROVE  /\ s[m + 1] # "over"
               /\ s[m + 1] \in Late => s[m] \in {"stop", "waitFailed", "reconcile"}
    <3>1. (m + 1) - 1 = m /\ m + 1 > 1
      BY <1>2, <2>1
    <3>2. /\ s[m + 1] # "over"
          /\ s[m + 1] \in Late /\ m + 1 > 1 => s[(m + 1) - 1] \in {"stop", "waitFailed", "reconcile"}
      BY <1>1, <2>5, OtherPlans
    <3>. QED BY <3>1, <3>2
  <2>. HIDE DEF s
  <2>. QED BY <2>2, <2>3, <2>4, <2>5 DEF Late
<1>. QED BY <1>3, <1>4

(* Whatever comes to the end of its plan comes from "reconcile". *)
LEMMA OverComes ==
  ASSUME TypeOK, OnPlan, plan # <<>>, plan' = Tail(plan), kind' = kind, Step' = "over"
  PROVE  Step = "reconcile"
<1>1. CASE kind = "kill"
  <2>1. Step # "over"
    BY StepIs, StepNotOver
  <2>. QED BY <1>1, <2>1, KillSteps
<1>. QED BY <1>1, OtherSteps

----------------------------------------------------------------------------
(* While the scenario is clean, each check it has made has passed. *)
LEMMA CheckPassed == ASSUME NEW ok, Check(ok), UNCHANGED torn, Clean' PROVE Clean /\ ok
BY Zenon DEF Check, Clean, Write

(* How the plan moves on, what never changes, and what only grows. *)
LEMMA Moves ==
  ASSUME TypeOK, [Next]_vars
  PROVE  /\ kind' = kind /\ role' = role /\ torn \subseteq torn' /\ (Clean' => Clean)
         /\ \/ plan' = plan
            \/ plan # <<>> /\ plan' = Tail(plan)
            \/ plan' = <<>> /\ ~Clean'
<1>1. CASE \E i \in Ids : Submit(i) \/ Poll(i) \/ Claim(i) \/ RunEnds(i)
  BY <1>1 DEF Submit, Poll, Claim, RunEnds, UnchangedQueue, UnchangedRest, UnchangedLedger, queue, what,
              ledger, truth, Clean
<1>2. ASSUME NEW i \in Ids, Run(i)
      PROVE  kind' = kind /\ role' = role /\ torn' = torn /\ (Clean' => Clean) /\ plan' = plan
  <2>1. failed' = failed \/ failed' = (failed \/ Write(up))
    BY <1>2, Zenon DEF Run
  <2>2. failed => failed'
    <3>1. CASE failed' = failed
      BY <3>1, Zenon
    <3>2. CASE failed' = (failed \/ Write(up))
      BY <3>2, Zenon
    <3>. QED BY <2>1, <3>1, <3>2
  <2>3. kind' = kind /\ role' = role /\ torn' = torn /\ plan' = plan
    BY <1>2 DEF Run, what
  <2>. QED BY <2>2, <2>3 DEF Clean
<1>3. CASE \E i \in Ids : RenewalRefused(i) \/ Misbehave(i)
  BY <1>3 DEF RenewalRefused, Misbehave, queue, what, ledger, truth, Clean
<1>4. CASE \E l \in {"main", "c1", "c2"} : WriteFails(l)
  BY <1>4 DEF WriteFails, UnchangedQueue, queue, what, ledger, truth, Clean
<1>5. CASE CommandFails
  <2>1. Check(FALSE) /\ UnchangedRest /\ (Advance \/ plan' = <<>>) /\ plan # <<>>
    BY <1>5 DEF CommandFails, At, Step
  <2>2. ~Clean'
    BY <2>1, CheckPassed DEF UnchangedRest, UnchangedLedger
  <2>. QED BY <2>1, <2>2 DEF UnchangedRest, UnchangedLedger, Advance, what
<1>6. CASE Submitted \/ Seed \/ Inspect \/ Start \/ Spawn \/ Kill \/ Exit2 \/ Recount \/ Copy \/ Restore
             \/ Compare \/ Replay \/ Fill \/ PerId \/ Release \/ Stop \/ Reconcile
  <2>1. PICK ok : Check(ok)
    BY <1>6 DEF Submitted, Seed, Inspect, Start, Spawn, Kill, Exit2, Recount, Copy, Restore,
                Compare, Replay, Fill, PerId, Release, Stop, Reconcile
  <2>2. Advance /\ plan # <<>> /\ torn' = torn /\ UNCHANGED what
    BY <1>6 DEF Submitted, Seed, Inspect, Start, Spawn, Kill, Exit2, Recount, Copy, Restore,
                Compare, Replay, Fill, PerId, Release, Stop, Reconcile, At, Step,
                UnchangedRest, UnchangedLedger
  <2>3. Clean' => Clean
    BY <2>1, <2>2, CheckPassed
  <2>. QED BY <2>2, <2>3 DEF Advance, what
<1>7. CASE Claimed
  <2>1. Check(Enough) /\ UnchangedRest /\ plan # <<>>
    BY <1>7 DEF Claimed, At, Step
  <2>2. Clean' => Clean /\ Enough
    BY <2>1, CheckPassed DEF UnchangedRest, UnchangedLedger
  <2>3. IF Enough THEN Advance ELSE plan' = <<>>
    BY <1>7 DEF Claimed
  <2>. QED BY <2>1, <2>2, <2>3 DEF UnchangedRest, UnchangedLedger, Advance, what
<1>8. CASE Open
  BY <1>8 DEF Open, At, Step, UnchangedRest, UnchangedLedger, Advance, what, Clean
<1>9. CASE WaitOver
  <2>1. Advance /\ plan # <<>> /\ UnchangedRest
    BY <1>9 DEF WaitOver, At, Step
  <2>2. UNCHANGED failed \/ Check(FALSE)
    BY <1>9 DEF WaitOver
  <2>3. Clean' => Clean
    BY <2>1, <2>2, CheckPassed DEF Clean, UnchangedRest, UnchangedLedger
  <2>. QED BY <2>1, <2>3 DEF UnchangedRest, UnchangedLedger, Advance, what
<1>10. CASE Finish
  BY <1>10 DEF Finish, what, ledger, Clean
<1>11. CASE UNCHANGED vars
  BY <1>11 DEF vars, what, ledger, Clean
<1>. QED BY <1>1, <1>2, <1>3, <1>4, <1>5, <1>6, <1>7, <1>8, <1>9, <1>10, <1>11
         DEF Next, Scenario, Worker, World

LEMMA OnPlanNext == TypeOK /\ OnPlan /\ [Next]_vars => OnPlan'
<1>. SUFFICES ASSUME TypeOK, OnPlan, [Next]_vars PROVE OnPlan'
  OBVIOUS
<1>1. kind' = kind
  BY Moves
<1>2. CASE plan' = plan
  BY <1>1, <1>2 DEF OnPlan
<1>3. CASE plan # <<>> /\ plan' = Tail(plan)
  BY <1>1, <1>3, NextOnPlan
<1>4. CASE plan' = <<>>
  <2>1. Len(Plan[kind]) \in Nat
    BY StepIs
  <2>2. Len(plan') = 0
    BY <1>4
  <2>. QED BY <1>1, <2>1, <2>2 DEF OnPlan
<1>. QED BY <1>2, <1>3, <1>4, Moves

(* Steps that leave the runs alone. *)
Still == UNCHANGED <<own, got, live, up, held, starts, ends, ran, fin, cut, corrupt, defects>>

LEMMA StillSteps ==
  ASSUME [Next]_vars
  PROVE  \/ \E i \in Ids : Claim(i) \/ Run(i) \/ RunEnds(i) \/ RenewalRefused(i) \/ Misbehave(i)
         \/ Start \/ Spawn \/ Kill \/ Exit2 \/ Stop
         \/ Still
<1>1. CASE \E i \in Ids : Submit(i) \/ Poll(i)
  BY <1>1 DEF Submit, Poll, UnchangedQueue, queue, truth, Still
<1>2. CASE \E l \in {"main", "c1", "c2"} : WriteFails(l)
  BY <1>2 DEF WriteFails, UnchangedQueue, queue, truth, Still
<1>3. CASE CommandFails \/ Inspect \/ Recount \/ Compare \/ PerId \/ Open \/ Claimed \/ WaitOver \/ Reconcile
  <2>1. UnchangedRest /\ UnchangedQueue
    BY <1>3 DEF CommandFails, Inspect, Recount, Compare, PerId, Open, Claimed, WaitOver, Reconcile
  <2>. QED BY <2>1 DEF UnchangedRest, UnchangedQueue, UnchangedLedger, queue, truth, Still
<1>4. CASE Submitted \/ Seed
  BY <1>4 DEF Submitted, Seed, UnchangedLedger, queue, truth, Still
<1>5. CASE Copy \/ Restore \/ Replay \/ Fill \/ Release
  BY <1>5 DEF Copy, Restore, Replay, Fill, Release, UnchangedRest, UnchangedLedger, queue, truth, Still
<1>6. CASE Finish
  BY <1>6 DEF Finish, queue, truth, ledger, Still
<1>7. CASE UNCHANGED vars
  BY <1>7 DEF vars, queue, truth, ledger, Still
<1>. QED BY <1>1, <1>2, <1>3, <1>4, <1>5, <1>6, <1>7 DEF Next, Scenario, Worker, World

(* What a worker does to the counts of its own task and of the others. *)
LEMMA RunCounts ==
  ASSUME TypeOK, NEW i \in Ids, Run(i), NEW j \in Ids
  PROVE  /\ i \in got /\ got' = got \ {i} /\ up # "none"
         /\ live'[j] = live[j] + (IF i = j THEN 1 ELSE 0) /\ ran'[j] = ran[j] + (IF i = j THEN 1 ELSE 0)
         /\ starts'[j] = starts[j] + (IF i = j /\ up \notin torn THEN 1 ELSE 0)
         /\ UNCHANGED <<q, own, up, held, oom, ends, fin, cut, torn, plan, told>>
<1>1. QueueOK /\ LedgerOK /\ TruthOK
  BY Parts
<1>2. live \in [Ids -> Nat] /\ ran \in [Ids -> Nat] /\ starts \in [Ids -> Nat]
  BY <1>1 DEF QueueOK, LedgerOK, TruthOK
<1>3. live'[j] = live[j] + (IF i = j THEN 1 ELSE 0) /\ ran'[j] = ran[j] + (IF i = j THEN 1 ELSE 0)
  BY <1>2 DEF Run
<1>4. starts'[j] = starts[j] + (IF i = j /\ up \notin torn THEN 1 ELSE 0)
  BY <1>2 DEF Run, Write
<1>5. i \in got /\ got' = got \ {i} /\ up # "none"
  BY <1>1 DEF Run, QueueOK
<1>. QED BY <1>3, <1>4, <1>5 DEF Run

LEMMA EndCounts ==
  ASSUME TypeOK, NEW i \in Ids, RunEnds(i), NEW j \in Ids
  PROVE  /\ live[i] > 0 /\ up # "none"
         /\ live'[j] = live[j] - (IF i = j THEN 1 ELSE 0)
         /\ ends'[j] = ends[j] + (IF i = j /\ up \notin torn THEN 1 ELSE 0)
         /\ \/ /\ own[i] /\ i \notin got /\ ~Holding /\ (q'[i] = "done" \/ q'[i] = q[i])
               /\ fin'[j] = fin[j] + (IF i = j THEN 1 ELSE 0) /\ own'[j] = (own[j] /\ i # j)
               /\ ~oom => q'[i] # "held"
            \/ /\ own[i] /\ i \notin got => live[i] > 1
               /\ UNCHANGED <<q, own, fin>>
         /\ i # j => q'[j] = q[j]
         /\ UNCHANGED <<got, up, held, oom, starts, ran, cut, torn, corrupt, failed, plan, told, defects>>
<1>1. QueueOK /\ LedgerOK /\ TruthOK
  BY Parts
<1>2. /\ live \in [Ids -> Nat] /\ fin \in [Ids -> Nat] /\ ends \in [Ids -> Nat]
      /\ own \in [Ids -> BOOLEAN] /\ q \in [Ids -> States]
  BY <1>1 DEF QueueOK, LedgerOK, TruthOK
<1>3. live[i] > 0 /\ up # "none" /\ live'[j] = live[j] - (IF i = j THEN 1 ELSE 0)
  BY <1>1, <1>2 DEF RunEnds, QueueOK
<1>4. ends'[j] = ends[j] + (IF i = j /\ up \notin torn THEN 1 ELSE 0)
  BY <1>2 DEF RunEnds, Write
<1>5. UNCHANGED <<got, up, held, oom, starts, ran, cut, torn, corrupt, failed, plan, told, defects>>
  BY DEF RunEnds
<1>6. CASE /\ own[i] /\ i \notin got /\ ~Holding /\ fin' = [fin EXCEPT ![i] = @ + 1]
           /\ own' = [own EXCEPT ![i] = FALSE]
           /\ \/ q' = IF q[i] = "held" THEN [q EXCEPT ![i] = "done"] ELSE q
              \/ oom /\ UNCHANGED q
  <2>1. fin'[j] = fin[j] + (IF i = j THEN 1 ELSE 0)
    BY <1>2, <1>6
  <2>2. own'[j] = (own[j] /\ i # j)
    BY <1>2, <1>6
  <2>3. (q'[i] = "done" \/ q'[i] = q[i]) /\ (i # j => q'[j] = q[j]) /\ (~oom => q'[i] # "held")
    BY <1>2, <1>6
  <2>. QED BY <1>3, <1>4, <1>5, <1>6, <2>1, <2>2, <2>3
<1>7. CASE live[i] > (IF own[i] /\ i \notin got THEN 1 ELSE 0) /\ UNCHANGED <<q, own, fin>>
  BY <1>3, <1>4, <1>5, <1>7
<1>. QED BY <1>6, <1>7 DEF RunEnds

(* Whoever has claimed a task renews the claim; and a task that has been run since its
   `before` earlier runs has been run to its end, or has lost its claim, or the run
   that owns it is under way. *)
Served(i, before) ==
  /\ i \in got => own[i]
  /\ ran[i] > before /\ i \notin got => fin[i] > 0 \/ i \in cut \/ (live[i] > 0 /\ own[i])

LEMMA ServedKept ==
  ASSUME TypeOK, [Next]_vars, ~Kill, NEW i \in Ids, NEW n \in Nat, Served(i, n)
  PROVE  Served(i, n)'
<1>0. /\ live[i] \in Nat /\ ran[i] \in Nat /\ fin[i] \in Nat /\ n \in Nat
      /\ own \in [Ids -> BOOLEAN] /\ got \subseteq Ids
  BY DEF TypeOK
<1>1. CASE Still
  BY <1>1 DEF Still, Served
<1>2. ASSUME NEW j \in Ids, Claim(j) PROVE Served(i, n)'
  <2>1. /\ got' = got \union {j} /\ ran' = ran /\ live' = live /\ fin' = fin /\ cut' = cut
        /\ own' = [own EXCEPT ![j] = TRUE]
    BY <1>2 DEF Claim, truth
  <2>2. own'[i] = (own[i] \/ i = j)
    BY <1>0, <2>1
  <2>3. ran'[i] = ran[i] /\ live'[i] = live[i] /\ fin'[i] = fin[i]
    BY <2>1
  <2>. QED BY <2>1, <2>2, <2>3 DEF Served
<1>3. ASSUME NEW j \in Ids, Run(j) PROVE Served(i, n)'
  <2>1. /\ j \in got /\ got' = got \ {j} /\ own' = own /\ fin' = fin /\ cut' = cut
        /\ live'[i] = live[i] + (IF j = i THEN 1 ELSE 0) /\ ran'[i] = ran[i] + (IF j = i THEN 1 ELSE 0)
    BY <1>3, RunCounts
  <2>2. CASE i = j
    <3>1. live'[i] = live[i] + 1 /\ ran'[i] = ran[i] + 1 /\ i \notin got' /\ own'[i] = own[i]
      BY <2>1, <2>2
    <3>2. live'[i] > 0
      BY <1>0, <3>1
    <3>. QED BY <2>1, <2>2, <3>1, <3>2 DEF Served
  <2>3. CASE i # j
    <3>1. live'[i] = live[i] /\ ran'[i] = ran[i] /\ (i \in got' <=> i \in got)
      BY <1>0, <2>1, <2>3
    <3>. QED BY <2>1, <3>1 DEF Served
  <2>. QED BY <2>2, <2>3
<1>4. ASSUME NEW j \in Ids, RunEnds(j) PROVE Served(i, n)'
  <2>1. /\ live'[i] = live[i] - (IF j = i THEN 1 ELSE 0)
        /\ \/ /\ own[j] /\ j \notin got
              /\ fin'[i] = fin[i] + (IF j = i THEN 1 ELSE 0) /\ own'[i] = (own[i] /\ j # i)
           \/ /\ own[j] /\ j \notin got => live[j] > 1
              /\ UNCHANGED <<own, fin>>
        /\ UNCHANGED <<got, ran, cut>>
    BY <1>4, EndCounts
  <2>2. CASE i # j
    <3>1. live'[i] = live[i] /\ fin'[i] = fin[i] /\ own'[i] = own[i] /\ ran'[i] = ran[i] /\ got' = got /\ cut' = cut
      BY <1>0, <2>1, <2>2
    <3>. QED BY <3>1 DEF Served
  <2>3. CASE i = j /\ own[j] /\ j \notin got /\ fin'[i] = fin[i] + (IF j = i THEN 1 ELSE 0)
    <3>1. fin'[i] > 0 /\ i \notin got'
      BY <1>0, <2>1, <2>3
    <3>. QED BY <3>1 DEF Served
  <2>4. CASE i = j /\ (own[j] /\ j \notin got => live[j] > 1) /\ UNCHANGED <<own, fin>>
    <3>1. live[i] > 1 => live'[i] > 0
      BY <1>0, <2>1, <2>4
    <3>. QED BY <2>1, <2>4, <3>1 DEF Served
  <2>. QED BY <2>1, <2>2, <2>3, <2>4
<1>5. ASSUME NEW j \in Ids, RenewalRefused(j) PROVE Served(i, n)'
  <2>1. /\ j \notin got /\ own' = [own EXCEPT ![j] = FALSE] /\ cut' = cut \union {j}
        /\ UNCHANGED <<got, live, ran, fin>>
    BY <1>5 DEF RenewalRefused
  <2>2. CASE i = j
    BY <2>1, <2>2 DEF Served
  <2>3. CASE i # j
    <3>1. own'[i] = own[i] /\ (i \in cut' <=> i \in cut)
      BY <1>0, <2>1, <2>3
    <3>. QED BY <2>1, <3>1 DEF Served
  <2>. QED BY <2>2, <2>3
<1>8. ASSUME NEW j \in Ids, Misbehave(j) PROVE Served(i, n)'
  <2>1. UNCHANGED <<own, got, live, ran, fin, cut>>
    BY <1>8 DEF Misbehave, truth
  <2>. QED BY <2>1 DEF Served
<1>6. CASE Start \/ Spawn
  <2>1. UNCHANGED <<own, got, live, ran, fin, cut>>
    BY <1>6 DEF Start, Spawn, UnchangedRest, queue, truth
  <2>. QED BY <2>1 DEF Served
<1>7. CASE Exit2 \/ Stop
  <2>1. got = {} /\ got' = {} /\ live[i] = 0 /\ UNCHANGED <<ran, fin, cut>>
    BY <1>7 DEF Exit2, Stop, Idle, Gone, UnchangedRest, truth
  <2>. QED BY <2>1 DEF Served
<1>. QED BY <1>1, <1>2, <1>3, <1>4, <1>5, <1>6, <1>7, <1>8, StillSteps

----------------------------------------------------------------------------
(* Without a kill. *)

(* Only the scenario that fills it up has a full memory. *)
Apart == kind # "oom" => ~oom

LEMMA ApartNext == TypeOK /\ OnPlan /\ Apart /\ [Next]_vars => Apart'
<1>. SUFFICES ASSUME TypeOK, OnPlan, Apart, [Next]_vars, kind # "oom" PROVE Apart'
  BY Moves DEF Apart
<1>1. Step # "fill"
  BY KillSteps, OtherSteps
<1>2. ~Fill
  BY <1>1 DEF Fill, At
<1>3. oom' = oom \/ oom' = FALSE
  <2>1. CASE \E i \in Ids : Submit(i) \/ Poll(i) \/ Claim(i) \/ Run(i) \/ RunEnds(i) \/ RenewalRefused(i) \/ Misbehave(i)
    BY <2>1 DEF Submit, Poll, Claim, Run, RunEnds, RenewalRefused, Misbehave, UnchangedQueue
  <2>2. CASE \E l \in {"main", "c1", "c2"} : WriteFails(l)
    BY <2>2 DEF WriteFails, UnchangedQueue
  <2>3. CASE CommandFails \/ Inspect \/ Recount \/ Compare \/ PerId \/ Open \/ Claimed \/ WaitOver \/ Reconcile
    BY <2>3 DEF CommandFails, Inspect, Recount, Compare, PerId, Open, Claimed, WaitOver, Reconcile, UnchangedQueue
  <2>4. CASE Submitted \/ Seed \/ Copy \/ Restore \/ Replay \/ Release \/ Start \/ Spawn \/ Kill \/ Exit2 \/ Stop
    BY <2>4 DEF Submitted, Seed, Copy, Restore, Replay, Release, Start, Spawn, Kill, Exit2, Stop
  <2>5. CASE Finish \/ UNCHANGED vars
    BY <2>5 DEF Finish, vars
  <2>. QED BY <1>2, <2>1, <2>2, <2>3, <2>4, <2>5 DEF Next, Scenario, Worker, World
<1>4. oom = FALSE
  BY DEF Apart, TypeOK
<1>. QED BY <1>3, <1>4 DEF Apart

(* Where nothing is killed, a task that has been run is done but for a lost claim. *)
FirstServed == kind # "kill" => \A i \in Ids : Served(i, 0)

LEMMA FirstServedNext == TypeOK /\ OnPlan /\ FirstServed /\ [Next]_vars => FirstServed'
<1>. SUFFICES ASSUME TypeOK, OnPlan, FirstServed, [Next]_vars, kind # "kill", NEW i \in Ids
              PROVE  Served(i, 0)'
  BY Moves DEF FirstServed
<1>1. ~Kill
  BY OtherSteps DEF Kill, At
<1>. QED BY <1>1, ServedKept DEF FirstServed

(* While the scenario is clean, a step is left by its own action. *)
LEMMA Leaving ==
  ASSUME TypeOK, [Next]_vars, Clean', plan' # plan
  PROVE  /\ Advance /\ plan # <<>>
         /\ Step = "submit" => Submitted
         /\ Step \in {"spawn1", "spawn2"} => Spawn
         /\ Step = "claimed" => Claimed /\ Enough
         /\ Step = "kill" => Kill
         /\ Step = "wait" => WaitOver
         /\ Step = "exit2" => Exit2
         /\ Step = "recount" => Recount
         /\ Step = "stop" => Stop
         /\ Step = "reconcile" => Reconcile
<1>1. CASE \E i \in Ids : Submit(i) \/ Poll(i) \/ Claim(i) \/ Run(i) \/ RunEnds(i) \/ RenewalRefused(i) \/ Misbehave(i)
  BY <1>1 DEF Submit, Poll, Claim, Run, RunEnds, RenewalRefused, Misbehave
<1>2. CASE \E l \in {"main", "c1", "c2"} : WriteFails(l)
  BY <1>2 DEF WriteFails
<1>3. CASE CommandFails
  <2>1. Check(FALSE) /\ UnchangedRest
    BY <1>3 DEF CommandFails
  <2>. QED BY <2>1, CheckPassed DEF UnchangedRest, UnchangedLedger
<1>4. CASE Claimed
  <2>1. Check(Enough) /\ UnchangedRest /\ Step = "claimed" /\ plan # <<>>
    BY <1>4 DEF Claimed, At, Step
  <2>2. Enough
    BY <2>1, CheckPassed DEF UnchangedRest, UnchangedLedger
  <2>3. Advance
    BY <1>4, <2>2 DEF Claimed
  <2>. QED BY <1>4, <2>1, <2>2, <2>3
<1>5. CASE Submitted \/ Spawn \/ Kill \/ WaitOver
  BY <1>5 DEF Submitted, Spawn, Kill, WaitOver, At, Step
<1>6. CASE Exit2 \/ Recount \/ Stop \/ Reconcile
  BY <1>6 DEF Exit2, Recount, Stop, Reconcile, At, Step
<1>7. CASE Seed \/ Inspect \/ Start \/ Copy \/ Restore
  BY <1>7 DEF Seed, Inspect, Start, Copy, Restore, At, Step
<1>8. CASE Compare \/ Replay \/ Fill \/ PerId \/ Open \/ Release
  BY <1>8 DEF Compare, Replay, Fill, PerId, Open, Release, At, Step
<1>9. CASE Finish \/ UNCHANGED vars
  BY <1>9 DEF Finish, vars
<1>. QED BY <1>1, <1>2, <1>3, <1>4, <1>5, <1>6, <1>7, <1>8, <1>9
         DEF Next, Scenario, Worker, World

LEMMA StepStays == ASSUME plan' = plan PROVE Step' = Step
BY DEF Step

(* The counts of the ledger are those of what happened, as long as its writer has met
   no error; and a clean scenario has stopped its Manager before the last steps. *)
CountsMean ==
  kind # "kill" =>
    /\ up \in {"none", "main"} /\ held = {}
    /\ "main" \notin torn => \A i \in Ids : starts[i] = ran[i] /\ ends[i] + live[i] = ran[i]
    /\ Clean => ~corrupt
    /\ Clean /\ Step \in Late => up = "none"

LEMMA CountsMeanNext == TypeOK /\ OnPlan /\ CountsMean /\ [Next]_vars => CountsMean'
<1>. SUFFICES ASSUME TypeOK, OnPlan, CountsMean, [Next]_vars, kind # "kill" PROVE CountsMean'
  BY Moves DEF CountsMean
<1>0. /\ up \in {"none", "main"} /\ held = {}
      /\ "main" \notin torn => \A i \in Ids : starts[i] = ran[i] /\ ends[i] + live[i] = ran[i]
      /\ Clean => ~corrupt
      /\ Clean /\ Step \in Late => up = "none"
  BY DEF CountsMean
<1>1. torn \subseteq torn' /\ (Clean' => Clean) /\ kind' = kind
  BY Moves
<1>2. ~Spawn /\ ~Kill /\ ~Exit2
  BY OtherSteps DEF Spawn, Kill, Exit2, At
<1>3. /\ Start \/ Stop \/ up' = up
      /\ Start => up' = "main"
      /\ Stop  => up' = "none"
  <2>1. CASE \E i \in Ids : Claim(i) \/ Run(i) \/ RunEnds(i) \/ RenewalRefused(i) \/ Misbehave(i)
    <3>1. up' = up
      BY <2>1 DEF Claim, Run, RunEnds, RenewalRefused, Misbehave
    <3>. QED BY <3>1 DEF Start, Stop
  <2>2. CASE Start \/ Stop
    BY <2>2 DEF Start, Stop, At
  <2>3. CASE Still
    BY <2>3 DEF Still, Start, Stop
  <2>. QED BY <1>2, <2>1, <2>2, <2>3, StillSteps
<1>4. up' \in {"none", "main"}
  BY <1>0, <1>3
<1>5. held' = {}
  <2>1. CASE \E i \in Ids : Claim(i) \/ Run(i) \/ RunEnds(i) \/ RenewalRefused(i) \/ Misbehave(i)
    BY <1>0, <2>1 DEF Claim, Run, RunEnds, RenewalRefused, Misbehave
  <2>2. CASE Start \/ Stop
    BY <1>0, <2>2 DEF Start, Stop
  <2>3. CASE Still
    BY <1>0, <2>3 DEF Still
  <2>. QED BY <1>2, <2>1, <2>2, <2>3, StillSteps
<1>6. ASSUME "main" \notin torn', NEW i \in Ids
      PROVE  starts'[i] = ran'[i] /\ ends'[i] + live'[i] = ran'[i]
  <2>0. "main" \notin torn /\ starts[i] = ran[i] /\ ends[i] + live[i] = ran[i]
    BY <1>0, <1>1, <1>6
  <2>t. live[i] \in Nat /\ ran[i] \in Nat /\ ends[i] \in Nat
    BY DEF TypeOK
  <2>1. ASSUME UNCHANGED <<starts, ran, ends, live>> PROVE starts'[i] = ran'[i] /\ ends'[i] + live'[i] = ran'[i]
    BY <2>0, <2>1
  <2>2. CASE \E j \in Ids : Claim(j) \/ RenewalRefused(j) \/ Misbehave(j)
    BY <2>1, <2>2 DEF Claim, RenewalRefused, Misbehave, ledger, truth
  <2>3. ASSUME NEW j \in Ids, Run(j) PROVE starts'[i] = ran'[i] /\ ends'[i] + live'[i] = ran'[i]
    <3>1. /\ up # "none" /\ ends' = ends
          /\ live'[i] = live[i] + (IF j = i THEN 1 ELSE 0) /\ ran'[i] = ran[i] + (IF j = i THEN 1 ELSE 0)
          /\ starts'[i] = starts[i] + (IF j = i /\ up \notin torn THEN 1 ELSE 0)
      BY <2>3, RunCounts
    <3>2. up \notin torn
      BY <1>0, <2>0, <3>1
    <3>. QED BY <2>0, <2>t, <3>1, <3>2
  <2>4. ASSUME NEW j \in Ids, RunEnds(j) PROVE starts'[i] = ran'[i] /\ ends'[i] + live'[i] = ran'[i]
    <3>1. /\ up # "none" /\ starts' = starts /\ ran' = ran
          /\ live'[i] = live[i] - (IF j = i THEN 1 ELSE 0)
          /\ ends'[i] = ends[i] + (IF j = i /\ up \notin torn THEN 1 ELSE 0)
      BY <2>4, EndCounts
    <3>2. up \notin torn
      BY <1>0, <2>0, <3>1
    <3>. QED BY <2>0, <2>t, <3>1, <3>2
  <2>5. CASE Start \/ Stop
    <3>1. UNCHANGED <<starts, ran, ends, live>>
      BY <2>5 DEF Start, Stop, UnchangedRest, UnchangedLedger, queue, truth
    <3>. QED BY <2>1, <3>1
  <2>6. CASE Still
    BY <2>1, <2>6 DEF Still
  <2>. QED BY <1>2, <2>2, <2>3, <2>4, <2>5, <2>6, StillSteps
<1>7. Clean' => ~corrupt'
  <2>1. SUFFICES ASSUME Clean' PROVE ~corrupt'
    OBVIOUS
  <2>2. Clean /\ ~corrupt
    BY <1>0, <1>1, <2>1
  <2>3. ASSUME NEW j \in Ids, Run(j) PROVE ~corrupt'
    <3>1. up # "none"
      BY <2>3, RunCounts
    <3>2. Write(up)
      BY <1>0, <2>2, <3>1 DEF Clean, Write
    <3>3. failed' = (failed \/ Write(up)) => failed'
      BY <3>2, Zenon
    <3>4. corrupt' = corrupt
      BY <2>1, <2>3, <3>3 DEF Run, Clean
    <3>. QED BY <2>2, <3>4
  <2>4. CASE \E j \in Ids : Claim(j) \/ RunEnds(j) \/ RenewalRefused(j) \/ Misbehave(j)
    BY <2>2, <2>4 DEF Claim, RunEnds, RenewalRefused, Misbehave, truth
  <2>5. CASE Start \/ Stop
    BY <2>2, <2>5 DEF Start, Stop, UnchangedRest, truth
  <2>6. CASE Still
    BY <2>2, <2>6 DEF Still
  <2>. QED BY <1>2, <2>3, <2>4, <2>5, <2>6, StillSteps
<1>8. Clean' /\ Step' \in Late => up' = "none"
  <2>1. SUFFICES ASSUME Clean', Step' \in Late PROVE up' = "none"
    OBVIOUS
  <2>2. ~Start
    <3>1. SUFFICES ASSUME Start PROVE FALSE
      OBVIOUS
    <3>2. Step = "start" /\ plan # <<>> /\ plan' = Tail(plan)
      BY <3>1 DEF Start, At, Step, Advance
    <3>. QED BY <1>1, <2>1, <3>2, OtherSteps
  <2>3. CASE plan' = plan
    <3>1. up = "none"
      BY <1>0, <1>1, <2>1, <2>3, StepStays
    <3>. QED BY <1>3, <2>2, <3>1
  <2>4. CASE plan' # plan
    <3>1. plan # <<>> /\ plan' = Tail(plan) /\ (Step = "stop" => Stop)
      BY <2>1, <2>4, Leaving DEF Advance
    <3>2. Step \in {"stop", "waitFailed", "reconcile"}
      BY <1>1, <2>1, <3>1, OtherSteps
    <3>3. Step \in {"waitFailed", "reconcile"} => up = "none"
      BY <1>0, <1>1, <2>1 DEF Late
    <3>. QED BY <1>3, <2>2, <3>1, <3>2, <3>3
  <2>. QED BY <2>3, <2>4
<1>. QED BY <1>1, <1>4, <1>5, <1>6, <1>7, <1>8 DEF CountsMean

----------------------------------------------------------------------------
(* What the checks of a clean scenario have established. *)
ChecksMean ==
  /\ "write_ok" \notin passed
  /\ Clean /\ Step = "over" => ToBeDone \subseteq In("done")
  /\ kind = "kill" /\ Clean =>
       /\ Step # "submit" => \A i \in Ids : told[i] = {"accepted"}
       /\ Step \in {"recount", "reconcile", "over"} => up = "none" /\ "c2" \notin torn
       /\ Step \in {"reconcile", "over"} => Repeats = Cardinality(held) /\ \A i \in held : starts[i] >= 2

LEMMA PassedSteps ==
  ASSUME TypeOK, [Next]_vars PROVE "write_ok" \in passed' => "write_ok" \in passed
<1>1. Step # "write_ok"
  BY StepNotOver DEF Step, Steps
<1>2. passed' = passed \/ \E ok : Check(ok)
  <2>1. CASE \E i \in Ids : Submit(i) \/ Poll(i) \/ Claim(i) \/ Run(i) \/ RunEnds(i) \/ RenewalRefused(i) \/ Misbehave(i)
    BY <2>1 DEF Submit, Poll, Claim, Run, RunEnds, RenewalRefused, Misbehave, ledger
  <2>2. CASE \E l \in {"main", "c1", "c2"} : WriteFails(l)
    BY <2>2 DEF WriteFails
  <2>3. CASE CommandFails \/ Submitted \/ Seed \/ Inspect \/ Start \/ Spawn \/ Claimed \/ Kill \/ Exit2 \/ Recount
    BY <2>3 DEF CommandFails, Submitted, Seed, Inspect, Start, Spawn, Claimed, Kill, Exit2, Recount
  <2>4. CASE Copy \/ Restore \/ Compare \/ Replay \/ Fill \/ PerId \/ Open \/ Release \/ WaitOver \/ Stop \/ Reconcile
    BY <2>4 DEF Copy, Restore, Compare, Replay, Fill, PerId, Open, Release, WaitOver, Stop, Reconcile
  <2>5. CASE Finish \/ UNCHANGED vars
    BY <2>5 DEF Finish, vars, ledger
  <2>. QED BY <2>1, <2>2, <2>3, <2>4, <2>5 DEF Next, Scenario, Worker, World
<1>. QED BY <1>1, <1>2 DEF Check

LEMMA DoneAtEnd ==
  ASSUME TypeOK, [Next]_vars, plan = <<>>, NEW i \in Ids, q[i] = "done"
  PROVE  q'[i] = "done"
<1>0. q \in [Ids -> States] /\ Step = "over"
  BY DEF TypeOK, Step
<1>1. ASSUME NEW j \in Ids, Claim(j) PROVE q'[i] = "done"
  BY <1>0, <1>1 DEF Claim, Claimable
<1>2. ASSUME NEW j \in Ids, RunEnds(j) PROVE q'[i] = "done"
  BY <1>2, EndCounts
<1>3. CASE \E j \in Ids : Submit(j) \/ Misbehave(j)
  BY <1>0, <1>3 DEF Submit, Misbehave, At
<1>4. CASE \E j \in Ids : Poll(j) \/ Run(j) \/ RenewalRefused(j)
  BY <1>4 DEF Poll, UnchangedQueue, queue, Run, RenewalRefused
<1>5. CASE \E l \in {"main", "c1", "c2"} : WriteFails(l)
  BY <1>5 DEF WriteFails, UnchangedQueue, queue
<1>6. CASE CommandFails \/ Submitted \/ Seed \/ Inspect \/ Start \/ Spawn \/ Claimed \/ Kill \/ Exit2 \/ Recount
  BY <1>0, <1>6 DEF CommandFails, Submitted, Seed, Inspect, Start, Spawn, Claimed, Kill, Exit2, Recount, At
<1>7. CASE Copy \/ Restore \/ Compare \/ Replay \/ Fill \/ PerId \/ Open \/ Release \/ WaitOver \/ Stop \/ Reconcile
  BY <1>0, <1>7 DEF Copy, Restore, Compare, Replay, Fill, PerId, Open, Release, WaitOver, Stop, Reconcile, At
<1>8. CASE Finish \/ UNCHANGED vars
  BY <1>8 DEF Finish, vars, queue
<1>. QED BY <1>1, <1>2, <1>3, <1>4, <1>5, <1>6, <1>7, <1>8 DEF Next, Scenario, Worker, World

LEMMA ToldSteps ==
  ASSUME [Next]_vars
  PROVE  told' = told \/ Seed \/ \E i \in Ids : Submit(i)
<1>1. CASE \E i \in Ids : Poll(i) \/ Claim(i) \/ Run(i) \/ RunEnds(i) \/ RenewalRefused(i) \/ Misbehave(i)
  BY <1>1 DEF Poll, Claim, Run, RunEnds, RenewalRefused, Misbehave, ledger
<1>2. CASE \E l \in {"main", "c1", "c2"} : WriteFails(l)
  BY <1>2 DEF WriteFails
<1>3. CASE CommandFails \/ Inspect \/ Start \/ Spawn \/ Claimed \/ Kill \/ Exit2 \/ Recount
  BY <1>3 DEF CommandFails, Inspect, Start, Spawn, Claimed, Kill, Exit2, Recount, UnchangedRest, UnchangedLedger
<1>4. CASE Copy \/ Restore \/ Compare \/ Replay \/ Fill \/ PerId
  BY <1>4 DEF Copy, Restore, Compare, Replay, Fill, PerId, UnchangedRest, UnchangedLedger
<1>5. CASE Open \/ Release \/ WaitOver \/ Stop \/ Reconcile
  BY <1>5 DEF Open, Release, WaitOver, Stop, Reconcile, UnchangedRest, UnchangedLedger
<1>6. CASE Submitted \/ Finish \/ UNCHANGED vars
  BY <1>6 DEF Submitted, Finish, vars, ledger, UnchangedLedger
<1>. QED BY <1>1, <1>2, <1>3, <1>4, <1>5, <1>6 DEF Next, Scenario, Worker, World

(* After the second consumer has left, nothing runs and no ledger but the scenario's
   own is written. *)
LEMMA Resting ==
  ASSUME TypeOK, OnPlan, [Next]_vars, kind = "kill", Step \in {"recount", "reconcile", "over"}, up = "none"
  PROVE  UNCHANGED <<starts, held, up>> /\ torn' \subseteq torn \union {"main"}
<1>1. ~Start /\ ~Spawn /\ ~Kill /\ ~Exit2 /\ ~Stop
  BY DEF Start, Spawn, Kill, Exit2, Stop, At
<1>2. UNCHANGED <<starts, held, up>>
  <2>1. CASE \E i \in Ids : Claim(i) \/ RenewalRefused(i) \/ Misbehave(i)
    BY <2>1 DEF Claim, RenewalRefused, Misbehave, ledger
  <2>2. \A i \in Ids : ~Run(i) /\ ~RunEnds(i)
    BY RunCounts, EndCounts
  <2>3. CASE Still
    BY <2>3 DEF Still
  <2>. QED BY <1>1, <2>1, <2>2, <2>3, StillSteps
<1>3. torn' = torn \/ \E l \in {"main", "c1", "c2"} : WriteFails(l)
  <2>1. CASE \E i \in Ids : Submit(i) \/ Poll(i) \/ Claim(i) \/ Run(i) \/ RunEnds(i) \/ RenewalRefused(i) \/ Misbehave(i)
    BY <2>1 DEF Submit, Poll, Claim, Run, RunEnds, RenewalRefused, Misbehave, ledger
  <2>2. CASE CommandFails \/ Submitted \/ Seed \/ Inspect \/ Claimed \/ Recount
    BY <2>2 DEF CommandFails, Submitted, Seed, Inspect, Claimed, Recount, UnchangedRest, UnchangedLedger
  <2>3. CASE Copy \/ Restore \/ Compare \/ Replay \/ Fill \/ PerId \/ Open \/ Release \/ WaitOver \/ Reconcile
    BY <2>3 DEF Copy, Restore, Compare, Replay, Fill, PerId, Open, Release, WaitOver, Reconcile,
                UnchangedRest, UnchangedLedger
  <2>4. CASE Finish \/ UNCHANGED vars
    BY <2>4 DEF Finish, vars, ledger
  <2>. QED BY <1>1, <2>1, <2>2, <2>3, <2>4 DEF Next, Scenario, Worker, World
<1>. QED BY <1>2, <1>3 DEF WriteFails

LEMMA ChecksMeanNext == TypeOK /\ OnPlan /\ ChecksMean /\ [Next]_vars => ChecksMean'
<1>. SUFFICES ASSUME TypeOK, OnPlan, ChecksMean, [Next]_vars PROVE ChecksMean'
  OBVIOUS
<1>1. torn \subseteq torn' /\ (Clean' => Clean) /\ kind' = kind /\ role' = role
  BY Moves
<1>2. "write_ok" \notin passed'
  BY PassedSteps DEF ChecksMean
<1>3. ASSUME Clean', Step' = "over" PROVE (ToBeDone \subseteq In("done"))'
  <2>0. ToBeDone' = ToBeDone
    BY <1>1 DEF ToBeDone, Lost, ExpectedFailed
  <2>1. CASE plan' = plan
    <3>1. Step = "over" /\ ToBeDone \subseteq In("done")
      BY <1>1, <1>3, <2>1, StepStays DEF ChecksMean
    <3>2. plan = <<>>
      BY <3>1, StepNotOver
    <3>. QED BY <2>0, <3>1, <3>2, DoneAtEnd DEF In
  <2>2. CASE plan' # plan
    <3>1. plan # <<>> /\ plan' = Tail(plan)
      BY <1>3, <2>2, Leaving DEF Advance
    <3>2. Reconcile
      BY <1>1, <1>3, <2>2, <3>1, OverComes, Leaving
    <3>3. UNCHANGED torn /\ q' = q
      BY <3>2 DEF Reconcile, UnchangedRest, UnchangedLedger, UnchangedQueue, queue
    <3>4. ToBeDone \subseteq In("done")
      BY <1>3, <3>2, <3>3, CheckPassed DEF Reconcile
    <3>. QED BY <2>0, <3>3, <3>4 DEF In
  <2>. QED BY <2>1, <2>2
<1>4. ASSUME kind = "kill", Clean', Step' # "submit" PROVE \A i \in Ids : told'[i] = {"accepted"}
  <2>1. CASE Step = "submit"
    <3>1. plan' # plan
      BY <1>4, <2>1, StepStays
    <3>2. Submitted
      BY <1>4, <2>1, <3>1, Leaving
    <3>3. told' = told /\ UNCHANGED torn
      BY <3>2 DEF Submitted, UnchangedLedger
    <3>4. \A i \in Ids : role[i] # "full" => told[i] = {"accepted"}
      BY <1>4, <2>1, <3>2, <3>3, CheckPassed DEF Submitted, At
    <3>5. \A i \in Ids : role[i] = "plain"
      BY <1>4 DEF TypeOK, Roles
    <3>. QED BY <3>3, <3>4, <3>5
  <2>2. CASE Step # "submit"
    <3>1. ~Seed /\ \A i \in Ids : ~Submit(i)
      BY <1>4, <2>2, KillSteps DEF Seed, Submit, At
    <3>2. \A i \in Ids : told[i] = {"accepted"}
      BY <1>1, <1>4, <2>2 DEF ChecksMean
    <3>. QED BY <3>1, <3>2, ToldSteps
  <2>. QED BY <2>1, <2>2
<1>5. ASSUME kind = "kill", Clean', Step' \in {"recount", "reconcile", "over"}
      PROVE  up' = "none" /\ "c2" \notin torn'
  <2>1. CASE plan' # plan /\ Step = "exit2"
    <3>1. Exit2
      BY <1>5, <2>1, Leaving
    <3>2. up' = "none" /\ torn' = torn
      BY <3>1 DEF Exit2, UnchangedRest, UnchangedLedger
    <3>3. "c2" \notin torn
      BY <1>5, <3>1, <3>2, CheckPassed DEF Exit2
    <3>. QED BY <3>2, <3>3
  <2>2. CASE Step \in {"recount", "reconcile", "over"}
    <3>1. up = "none" /\ "c2" \notin torn
      BY <1>1, <1>5, <2>2 DEF ChecksMean
    <3>. QED BY <1>5, <2>2, <3>1, Resting
  <2>3. (plan' # plan /\ Step = "exit2") \/ Step \in {"recount", "reconcile", "over"}
    <3>1. CASE plan' = plan
      BY <1>5, <3>1, StepStays
    <3>2. CASE plan' # plan
      <4>1. plan # <<>> /\ plan' = Tail(plan)
        BY <1>5, <3>2, Leaving DEF Advance
      <4>. QED BY <1>1, <1>5, <3>2, <4>1, KillSteps
    <3>. QED BY <3>1, <3>2
  <2>. QED BY <2>1, <2>2, <2>3
<1>6. ASSUME kind = "kill", Clean', Step' \in {"reconcile", "over"}
      PROVE  (Repeats = Cardinality(held) /\ \A i \in held : starts[i] >= 2)'
  <2>1. CASE plan' # plan /\ Step = "recount"
    <3>1. Recount
      BY <1>6, <2>1, Leaving
    <3>2. starts' = starts /\ held' = held /\ torn' = torn
      BY <3>1 DEF Recount, UnchangedRest, UnchangedLedger, UnchangedQueue
    <3>3. Repeats = Cardinality(held) /\ \A i \in held : starts[i] >= 2
      BY <1>6, <3>1, <3>2, CheckPassed DEF Recount
    <3>. QED BY <3>2, <3>3 DEF Repeats
  <2>2. CASE Step \in {"reconcile", "over"}
    <3>1. up = "none" /\ Repeats = Cardinality(held) /\ \A i \in held : starts[i] >= 2
      BY <1>1, <1>6, <2>2 DEF ChecksMean
    <3>2. starts' = starts /\ held' = held
      BY <1>6, <2>2, <3>1, Resting
    <3>. QED BY <3>1, <3>2 DEF Repeats
  <2>3. (plan' # plan /\ Step = "recount") \/ Step \in {"reconcile", "over"}
    <3>1. CASE plan' = plan
      BY <1>6, <3>1, StepStays
    <3>2. CASE plan' # plan
      <4>1. plan # <<>> /\ plan' = Tail(plan)
        BY <1>6, <3>2, Leaving DEF Advance
      <4>. QED BY <1>1, <1>6, <3>2, <4>1, KillSteps
    <3>. QED BY <3>1, <3>2
  <2>. QED BY <2>1, <2>2, <2>3
<1>. QED BY <1>1, <1>2, <1>3, <1>4, <1>5, <1>6 DEF ChecksMean

----------------------------------------------------------------------------
(* scConsumerKill, with one fault of the queue at most, and none that is missing from
   the ledger of the first process.  Before the kill: a task has been claimed twice,
   or has lost its claim, only through that fault.  Without a fault no more runs are
   under way than there are workers, so that enough begun runs in the ledger tell that
   none is missing from it. *)
Good == kind = "kill" /\ Clean /\ (defects = 0 \/ (defects = 1 /\ "c1" \notin torn))

Claims(i) == ran[i] + (IF i \in got THEN 1 ELSE 0)

Begun(i) ==
  /\ fin[i] = 0 /\ (up = "none" => ran[i] = 0)
  /\ defects = 0 => Claims(i) <= 1 /\ live[i] = ran[i]
  /\ defects = 0 /\ Claims(i) = 1 => own[i] /\ q[i] = "held"
  /\ Claims(i) > 0 => own[i] \/ q[i] # "held"
  /\ Claims(i) > 1 => Claims(i) = 2 /\ own[i] /\ q[i] = "held"
  /\ "c1" \notin torn => starts[i] = ran[i]

Load == Total(live) + Cardinality(got) <= Held

Begins == Load /\ ~corrupt /\ \A i \in Ids : Begun(i)

LEMMA CountTypes ==
  ASSUME TypeOK, NEW i \in Ids
  PROVE  /\ starts[i] \in Nat /\ ends[i] \in Nat /\ ran[i] \in Nat /\ fin[i] \in Nat /\ live[i] \in Nat
         /\ own[i] \in BOOLEAN /\ q[i] \in States /\ starts[i] <= ran[i] /\ defects \in Nat
         /\ Claims(i) \in Nat /\ Claims(i) = ran[i] + (IF i \in got THEN 1 ELSE 0)
BY DEF TypeOK, Claims

LEMMA Finite == ASSUME TypeOK PROVE IsFiniteSet(got) /\ Cardinality(got) \in Nat /\ Held \in Nat
<1>1. got \subseteq Ids
  BY DEF TypeOK
<1>2. IsFiniteSet(got)
  BY <1>1, AcceptanceAssumption, FS_Subset
<1>3. Cardinality(Ids) \in Nat
  BY AcceptanceAssumption, FS_CardinalityType
<1>. QED BY <1>2, <1>3, AcceptanceAssumption, FS_CardinalityType

LEMMA ClaimBegins ==
  ASSUME TypeOK, TypeOK', Begins, up = "c1", NEW i \in Ids, Claim(i)
  PROVE  Begins'
<1>1. /\ i \notin got /\ got' = got \union {i} /\ Total(live) + Cardinality(got) < Held
      /\ q[i] \in {"ready", "delayed"} \/ (q[i] = "held" /\ ~own[i])
      /\ UNCHANGED <<live, ran, fin, starts, ends, torn, corrupt, defects, up>>
  BY DEF Claim, Claimable, ledger, truth
<1>2. own'[i] /\ q'[i] = "held" /\ \A j \in Ids \ {i} : own'[j] = own[j] /\ q'[j] = q[j]
  BY DEF Claim, TypeOK
<1>3. Load'
  <2>1. Cardinality(got') = Cardinality(got) + 1
    BY <1>1, Finite, FS_AddElement
  <2>2. Total(live) \in Nat /\ live' = live
    BY <1>1, UnitsFinite DEF TypeOK
  <2>. QED BY <1>1, <2>1, <2>2, Finite DEF Load
<1>4. ASSUME NEW j \in Ids PROVE Begun(j)'
  <2>0. Begun(j)
    BY DEF Begins
  <2>1. CASE j = i
    <3>1. Claims(i)' = ran[i] + 1 /\ Claims(i) = ran[i]
      BY <1>1 DEF Claims, TypeOK
    <3>2. Claims(i) = 0 \/ (Claims(i) = 1 /\ defects # 0)
      BY <1>1, <2>0, <2>1, CountTypes DEF Begun
    <3>3. Claims(i)' = Claims(i) + 1
      BY <3>1
    <3>4. /\ defects' = 0 => Claims(i)' = 1
          /\ Claims(i)' = 1 \/ Claims(i)' = 2
      BY <1>1, <3>2, <3>3
    <3>. QED BY <1>1, <1>2, <2>0, <2>1, <3>4 DEF Begun
  <2>2. CASE j # i
    <3>1. j \in got' <=> j \in got
      BY <1>1, <2>2
    <3>2. Claims(j)' = Claims(j)
      BY <1>1, <3>1 DEF Claims
    <3>. QED BY <1>1, <1>2, <2>0, <2>2, <3>2 DEF Begun
  <2>. QED BY <2>1, <2>2
<1>. QED BY <1>1, <1>3, <1>4 DEF Begins

LEMMA RunBegins ==
  ASSUME TypeOK, TypeOK', Begins, up = "c1", NEW i \in Ids, Run(i), Good'
  PROVE  Begins'
<1>1. /\ i \in got /\ got' = got \ {i} /\ up' = up
      /\ UNCHANGED <<q, own, ends, fin, torn>>
      /\ \A j \in Ids : /\ live'[j] = live[j] + (IF i = j THEN 1 ELSE 0)
                         /\ ran'[j] = ran[j] + (IF i = j THEN 1 ELSE 0)
                         /\ starts'[j] = starts[j] + (IF i = j /\ "c1" \notin torn THEN 1 ELSE 0)
  <2>. QED BY RunCounts
<1>2. \A j \in Ids : Claims(j)' = Claims(j)
  BY <1>1, CountTypes DEF Claims
<1>3. Load'
  <2>1. Cardinality(got') = Cardinality(got) - 1
    BY <1>1, Finite, FS_RemoveElement
  <2>2. live \in [Ids -> Nat] /\ live' \in [Ids -> Nat]
    BY DEF TypeOK
  <2>3. live'[i] = live[i] + 1 /\ \A j \in Ids \ {i} : live'[j] = live[j]
    BY <1>1, <2>2
  <2>4. Total(live') = Total(live) + 1 /\ Total(live) \in Nat
    BY <2>2, <2>3, TotalStep, UnitsFinite
  <2>. QED BY <2>1, <2>4, Finite DEF Load, Begins
(* A wrong payload would be in the ledger. *)
<1>4. corrupt' = corrupt /\ defects' = defects
  <2>1. SUFFICES ASSUME defects' = defects + 1, failed' = (failed \/ Write(up)) PROVE FALSE
    BY DEF Run
  <2>2. defects' # 0 /\ ~failed'
    BY <2>1, CountTypes DEF Good, Clean
  <2>3. "c1" \notin torn
    BY <1>1, <2>2 DEF Good
  <2>4. Write(up)
    BY <2>3 DEF Write
  <2>. QED BY <2>1, <2>2, <2>4, Zenon
<1>5. ASSUME NEW j \in Ids PROVE Begun(j)'
  <2>0. Begun(j)
    BY DEF Begins
  <2>1. /\ defects = 0 => Claims(j) <= 1 /\ live'[j] = ran'[j]
        /\ "c1" \notin torn => starts'[j] = ran'[j]
    BY <1>1, <2>0, CountTypes DEF Begun
  <2>. QED BY <1>1, <1>2, <1>4, <2>0, <2>1 DEF Begun
<1>. QED BY <1>3, <1>4, <1>5 DEF Begins

LEMMA TotalsOf ==
  ASSUME TypeOK
  PROVE  /\ live \in [Ids -> Nat] /\ starts \in [Ids -> Nat] /\ ran \in [Ids -> Nat]
         /\ Total(live) \in Nat /\ Total(starts) \in Nat /\ Total(ran) \in Nat
BY UnitsFinite DEF TypeOK

(* Nothing has ended and enough has begun: nothing is missing from the ledger. *)
LEMMA AllWritten ==
  ASSUME TypeOK, Begins, Enough, \A i \in Ids : live[i] = ran[i]
  PROVE  got = {} /\ \A i \in Ids : starts[i] = ran[i]
<1>1. \A i \in Ids : starts[i] <= live[i]
  BY CountTypes
<1>2. Total(starts) <= Total(live) /\ (Total(live) <= Total(starts) => \A i \in Ids : starts[i] = live[i])
  BY <1>1, TotalsOf, TotalUp
<1>3. Total(live) <= Total(starts) /\ Cardinality(got) = 0
  BY <1>2, TotalsOf, Finite DEF Begins, Load, Enough
<1>4. got = {}
  BY <1>3, Finite, FS_EmptySet
<1>. QED BY <1>2, <1>3, <1>4

(* The first process holds: a run of its own ends only when its task has been claimed
   twice, or its claim lost. *)
LEMMA EndBegins ==
  ASSUME TypeOK, TypeOK', Begins, up = "c1", ~oom, NEW i \in Ids, RunEnds(i)
  PROVE  Begins'
<1>1. Holding
  BY DEF Holding
<1>2. /\ live[i] > 0 /\ (own[i] /\ i \notin got => live[i] > 1) /\ up' = up
      /\ UNCHANGED <<q, own, fin, got, starts, ran, torn, corrupt, defects>>
      /\ \A j \in Ids : live'[j] = live[j] - (IF i = j THEN 1 ELSE 0)
  BY <1>1, EndCounts
<1>3. \A j \in Ids : Claims(j)' = Claims(j)
  BY <1>2 DEF Claims
<1>4. Load'
  <2>1. \A j \in Ids : live'[j] <= live[j]
    <3>. TAKE j \in Ids
    <3>. QED BY <1>2, CountTypes
  <2>2. live' \in [Ids -> Nat]
    BY DEF TypeOK
  <2>3. Total(live') <= Total(live) /\ Total(live') \in Nat
    BY <2>1, <2>2, TotalsOf, TotalUp, UnitsFinite
  <2>. QED BY <1>2, <2>3, TotalsOf, Finite DEF Load, Begins
<1>5. defects # 0
  <2>1. SUFFICES ASSUME defects = 0 PROVE FALSE
    OBVIOUS
  <2>2. Begun(i)
    BY DEF Begins
  <2>3. Claims(i) <= 1 /\ live[i] = ran[i] /\ (Claims(i) = 1 => own[i])
    BY <2>1, <2>2 DEF Begun
  <2>4. ran[i] = 1 /\ i \notin got /\ Claims(i) = 1
    BY <1>2, <2>3, CountTypes
  <2>. QED BY <1>2, <2>3, <2>4
<1>6. ASSUME NEW j \in Ids PROVE Begun(j)'
  <2>0. Begun(j)
    BY DEF Begins
  <2>. QED BY <1>2, <1>3, <1>5, <2>0 DEF Begun
<1>. QED BY <1>2, <1>4, <1>6 DEF Begins

LEMMA MisbehaveBegins ==
  ASSUME TypeOK, Begins, Good', NEW i \in Ids, Misbehave(i)
  PROVE  Begins'
<1>1. /\ UNCHANGED <<own, got, live, starts, ends, ran, fin, torn, corrupt, up>> /\ defects' = defects + 1
      /\ \A j \in Ids \ {i} : q'[j] = q[j]
  BY DEF Misbehave, ledger, truth, TypeOK
<1>2. defects = 0 /\ defects' = 1
  BY <1>1, CountTypes DEF Good
<1>3. Load'
  BY <1>1 DEF Load, Begins
<1>4. ASSUME NEW j \in Ids PROVE Begun(j)'
  <2>0. Begun(j)
    BY DEF Begins
  <2>1. Claims(j)' = Claims(j) /\ Claims(j) \in Nat
    BY <1>1, CountTypes DEF Claims
  <2>2. Claims(j) <= 1 /\ (Claims(j) = 1 => own[j])
    BY <1>2, <2>0 DEF Begun
  <2>3. (Claims(j) > 0 => own[j]) /\ ~(Claims(j) > 1)
    BY <2>1, <2>2
  <2>. QED BY <1>1, <1>2, <2>0, <2>1, <2>3 DEF Begun
<1>. QED BY <1>1, <1>3, <1>4 DEF Begins

(* A task that is no longer held loses its claim. *)
LEMMA RefusedBegins ==
  ASSUME TypeOK, Begins, ~oom, NEW i \in Ids, RenewalRefused(i)
  PROVE  Begins'
<1>1. /\ q[i] # "held"
      /\ UNCHANGED <<q, got, live, starts, ends, ran, fin, torn, corrupt, up, defects>>
      /\ \A j \in Ids \ {i} : own'[j] = own[j]
  BY DEF RenewalRefused, ledger, TypeOK
<1>2. Load'
  BY <1>1 DEF Load, Begins
<1>3. ASSUME NEW j \in Ids PROVE Begun(j)'
  <2>0. Begun(j) /\ Claims(j)' = Claims(j) /\ Claims(j) \in Nat
    BY <1>1, CountTypes DEF Begins, Claims
  <2>1. CASE j = i
    <3>1. ~(Claims(i) > 1) /\ ~(defects = 0 /\ Claims(i) = 1)
      BY <1>1, <2>0, <2>1 DEF Begun
    <3>. QED BY <1>1, <2>0, <2>1, <3>1 DEF Begun
  <2>2. CASE j # i
    BY <1>1, <2>0, <2>2 DEF Begun
  <2>. QED BY <2>1, <2>2
<1>. QED BY <1>1, <1>2, <1>3 DEF Begins

(* Other steps: while there is no consumer, nothing has been claimed. *)
LEMMA StillBegins ==
  ASSUME TypeOK, Begins, UNCHANGED <<own, got, live, starts, ends, ran, fin, corrupt, defects>>,
         torn \subseteq torn', q' = q \/ up = "none", up' = up \/ up' = "c1"
  PROVE  Begins'
<1>1. Load'
  BY DEF Load, Begins
<1>2. \A j \in Ids : Claims(j)' = Claims(j)
  BY DEF Claims
<1>3. ASSUME NEW j \in Ids PROVE Begun(j)'
  <2>0. Begun(j)
    BY DEF Begins
  <2>1. CASE q' = q
    BY <1>2, <2>0, <2>1 DEF Begun
  <2>2. CASE up = "none"
    <3>1. Claims(j) = 0
      <4>1. j \notin got
        BY <2>2 DEF TypeOK
      <4>. QED BY <2>0, <2>2, <4>1, CountTypes DEF Begun
    <3>. QED BY <1>2, <2>0, <3>1 DEF Begun
  <2>. QED BY <2>1, <2>2
<1>. QED BY <1>1, <1>3 DEF Begins

LEMMA QueueSteps ==
  ASSUME [Next]_vars
  PROVE  \/ q' = q \/ Seed \/ Restore \/ Replay
         \/ \E i \in Ids : Submit(i) \/ Claim(i) \/ RunEnds(i) \/ Misbehave(i)
<1>1. CASE \E i \in Ids : Poll(i) \/ Run(i) \/ RenewalRefused(i)
  BY <1>1 DEF Poll, Run, RenewalRefused, UnchangedQueue, queue
<1>2. CASE \E l \in {"main", "c1", "c2"} : WriteFails(l)
  BY <1>2 DEF WriteFails, UnchangedQueue, queue
<1>3. CASE CommandFails \/ Submitted \/ Inspect \/ Start \/ Spawn \/ Claimed \/ Kill \/ Exit2 \/ Recount
  BY <1>3 DEF CommandFails, Submitted, Inspect, Start, Spawn, Claimed, Kill, Exit2, Recount, UnchangedQueue, queue
<1>4. CASE Copy \/ Compare \/ Fill \/ PerId \/ Open \/ Release \/ WaitOver \/ Stop \/ Reconcile
  BY <1>4 DEF Copy, Compare, Fill, PerId, Open, Release, WaitOver, Stop, Reconcile, UnchangedQueue, queue
<1>5. CASE Finish \/ UNCHANGED vars
  BY <1>5 DEF Finish, vars, queue
<1>. QED BY <1>1, <1>2, <1>3, <1>4, <1>5 DEF Next, Scenario, Worker, World

LEMMA GoodBefore == ASSUME TypeOK, [Next]_vars, Good' PROVE Good
<1>1. kind' = kind /\ (Clean' => Clean)
  BY Moves
<1>2. defects' = defects \/ defects' = defects + 1
  <2>1. CASE \E i \in Ids : Claim(i) \/ RunEnds(i) \/ RenewalRefused(i)
    BY <2>1 DEF Claim, RunEnds, RenewalRefused
  <2>2. CASE \E i \in Ids : Run(i) \/ Misbehave(i)
    BY <2>2 DEF Run, Misbehave
  <2>3. CASE Start \/ Spawn \/ Kill \/ Exit2 \/ Stop
    BY <2>3 DEF Start, Spawn, Kill, Exit2, Stop, UnchangedRest
  <2>4. CASE Still
    BY <2>4 DEF Still
  <2>. QED BY <2>1, <2>2, <2>3, <2>4, StillSteps
<1>3. defects \in Nat /\ torn \subseteq torn'
  BY Moves DEF TypeOK
<1>. QED BY <1>1, <1>2, <1>3 DEF Good

BeforeKill == {"submit", "spawn1", "claimed", "kill"}

First ==
  Good /\ Step \in BeforeKill =>
    /\ up = IF Step \in {"claimed", "kill"} THEN "c1" ELSE "none"
    /\ Step = "kill" => Enough
    /\ Begins

LEMMA FirstNext == TypeOK /\ TypeOK' /\ OnPlan /\ Apart /\ First /\ [Next]_vars => First'
<1>. SUFFICES ASSUME TypeOK, TypeOK', OnPlan, Apart, First, [Next]_vars, Good', Step' \in BeforeKill
              PROVE  /\ up' = IF Step' \in {"claimed", "kill"} THEN "c1" ELSE "none"
                     /\ Step' = "kill" => Enough'
                     /\ Begins'
  BY DEF First
<1>1. Good /\ kind = "kill" /\ kind' = kind /\ torn \subseteq torn' /\ Clean' /\ ~oom
  BY GoodBefore, Moves DEF Good, Apart
<1>2. CASE plan' = plan
  <2>1. /\ Step' = Step
        /\ up = IF Step \in {"claimed", "kill"} THEN "c1" ELSE "none"
        /\ Step = "kill" => Enough
        /\ Begins
    BY <1>1, <1>2, StepStays DEF First
  <2>2. ASSUME NEW i \in Ids, Claim(i) PROVE up' = up /\ (Enough => Enough') /\ Begins'
    <3>1. up = "c1" /\ up' = up /\ starts' = starts
      BY <2>1, <2>2 DEF Claim, Claimable, ledger
    <3>. QED BY <2>1, <2>2, <3>1, ClaimBegins DEF Enough
  <2>3. ASSUME NEW i \in Ids, Run(i) PROVE up' = up /\ (Enough => Enough') /\ Begins'
    <3>1. up = "c1" /\ up' = up
      BY <2>1, <2>3, RunCounts
    <3>2. \A j \in Ids : starts[j] <= starts'[j]
      <4>. TAKE j \in Ids
      <4>1. starts'[j] = starts[j] + (IF i = j /\ up \notin torn THEN 1 ELSE 0)
        BY <2>3, RunCounts
      <4>. QED BY <4>1, CountTypes
    <3>3. starts' \in [Ids -> Nat]
      BY DEF TypeOK
    <3>4. Total(starts) <= Total(starts') /\ Total(starts') \in Nat
      BY <3>2, <3>3, TotalsOf, TotalUp, UnitsFinite
    <3>5. Enough => Enough'
      BY <3>4, TotalsOf, Finite DEF Enough
    <3>. QED BY <2>1, <2>3, <3>1, <3>5, RunBegins
  <2>4. ASSUME NEW i \in Ids, RunEnds(i) PROVE up' = up /\ (Enough => Enough') /\ Begins'
    <3>1. up = "c1" /\ up' = up /\ starts' = starts
      BY <2>1, <2>4, EndCounts
    <3>. QED BY <1>1, <2>1, <2>4, <3>1, EndBegins DEF Enough
  <2>5. ASSUME NEW i \in Ids, Misbehave(i) PROVE up' = up /\ (Enough => Enough') /\ Begins'
    <3>1. up' = up /\ starts' = starts
      BY <2>5 DEF Misbehave, ledger
    <3>. QED BY <2>1, <2>5, <3>1, MisbehaveBegins DEF Enough
  <2>6. ASSUME NEW i \in Ids, RenewalRefused(i) PROVE up' = up /\ (Enough => Enough') /\ Begins'
    <3>1. up' = up /\ starts' = starts
      BY <2>6 DEF RenewalRefused, ledger
    <3>. QED BY <1>1, <2>1, <2>6, <3>1, RefusedBegins DEF Enough
  <2>7. ~Start /\ ~Spawn /\ ~Kill /\ ~Exit2 /\ ~Stop
    <3>1. Tail(plan) # plan \/ plan = <<>>
      <4>1. plan \in Seq(Steps)
        BY DEF TypeOK
      <4>2. plan # <<>> => Len(Tail(plan)) = Len(plan) - 1 /\ Len(plan) \in Nat
        BY <4>1
      <4>. QED BY <4>2
    <3>. QED BY <1>2, <3>1 DEF Start, Spawn, Kill, Exit2, Stop, Advance, At, Step
  <2>8. ASSUME Still, \A i \in Ids : ~Claim(i) /\ ~RunEnds(i) /\ ~Misbehave(i)
        PROVE  up' = up /\ (Enough => Enough') /\ Begins'
    <3>1. q' = q \/ up = "none"
      <4>1. ~Seed /\ ~Restore /\ ~Replay /\ (Step # "submit" => \A i \in Ids : ~Submit(i))
        BY <1>1, KillSteps DEF Seed, Restore, Replay, Submit, At
      <4>2. Step = "submit" => up = "none"
        BY <2>1
      <4>. QED BY <2>8, <4>1, <4>2, QueueSteps
    <3>2. Begins'
      <4>1. /\ UNCHANGED <<own, got, live, starts, ends, ran, fin, corrupt, defects>>
            /\ up' = up
        BY <2>8 DEF Still
      <4>. QED BY <1>1, <2>1, <3>1, <4>1, StillBegins
    <3>3. up' = up /\ starts' = starts
      BY <2>8 DEF Still
    <3>4. Enough => Enough'
      BY <3>3 DEF Enough
    <3>. QED BY <3>2, <3>3, <3>4
  <2>9. up' = up /\ (Enough => Enough') /\ Begins'
    <3>1. CASE \E i \in Ids : Claim(i) \/ Run(i) \/ RunEnds(i) \/ RenewalRefused(i) \/ Misbehave(i)
      BY <2>2, <2>3, <2>4, <2>5, <2>6, <3>1
    <3>2. CASE \A i \in Ids : ~Claim(i) /\ ~Run(i) /\ ~RunEnds(i) /\ ~RenewalRefused(i) /\ ~Misbehave(i)
      <4>1. Still
        BY <2>7, <3>2, StillSteps
      <4>. QED BY <2>8, <3>2, <4>1
    <3>. QED BY <3>1, <3>2
  <2>. QED BY <2>1, <2>9
<1>3. CASE plan' # plan
  <2>1. /\ plan # <<>> /\ plan' = Tail(plan)
        /\ Step = "submit" => Submitted
        /\ Step = "spawn1" => Spawn
        /\ Step = "claimed" => Claimed /\ Enough
    BY <1>1, <1>3, Leaving DEF Advance
  <2>2. /\ Step \in {"submit", "spawn1", "claimed"}
        /\ Step = "submit"  => Step' = "spawn1"
        /\ Step = "spawn1"  => Step' = "claimed"
        /\ Step = "claimed" => Step' = "kill"
    <3>1. /\ Step = "submit"  => Step' = "spawn1"
          /\ Step = "spawn1"  => Step' = "claimed"
          /\ Step = "claimed" => Step' = "kill"
      BY <1>1, <2>1, KillSteps
    <3>2. /\ Step = "kill"    => Step' = "spawn2"
          /\ Step = "spawn2"  => Step' = "wait"
          /\ Step = "wait"    => Step' = "exit2"
          /\ Step = "exit2"   => Step' = "recount"
          /\ Step = "recount" => Step' = "reconcile"
          /\ Step = "reconcile" => Step' = "over"
      BY <1>1, <2>1, KillSteps
    <3>3. Step \in {"submit", "spawn1", "claimed", "kill", "spawn2", "wait", "exit2", "recount", "reconcile"}
      BY <1>1, <2>1, KillSteps, StepNotOver
    <3>4. Step' \notin {"spawn2", "wait", "exit2", "recount", "reconcile", "over"}
      BY DEF BeforeKill
    <3>. QED BY <3>1, <3>2, <3>3, <3>4
  <2>3. Begins /\ up = IF Step = "claimed" THEN "c1" ELSE "none"
    BY <1>1, <2>2 DEF First, BeforeKill
  <2>4. CASE Step = "submit"
    <3>1. UNCHANGED <<own, got, live, starts, ends, ran, fin, corrupt, defects, q, up>>
      BY <2>1, <2>4 DEF Submitted, UnchangedLedger, queue, truth
    <3>2. Begins'
      BY <1>1, <2>3, <3>1, StillBegins
    <3>. QED BY <2>2, <2>3, <2>4, <3>1, <3>2
  <2>5. CASE Step = "spawn1"
    <3>1. UNCHANGED <<own, got, live, starts, ends, ran, fin, corrupt, defects, q>> /\ up' = "c1"
      BY <2>1, <2>5 DEF Spawn, UnchangedRest, UnchangedLedger, queue, truth
    <3>2. Begins'
      BY <1>1, <2>3, <3>1, StillBegins
    <3>. QED BY <2>2, <2>5, <3>1, <3>2
  <2>6. CASE Step = "claimed"
    <3>1. UNCHANGED <<own, got, live, starts, ends, ran, fin, corrupt, defects, q, up>> /\ Enough
      BY <2>1, <2>6 DEF Claimed, UnchangedRest, UnchangedLedger, UnchangedQueue, queue, truth
    <3>2. Begins'
      BY <1>1, <2>3, <3>1, StillBegins
    <3>3. Enough'
      BY <3>1 DEF Enough
    <3>. QED BY <2>2, <2>3, <2>6, <3>1, <3>2, <3>3
  <2>. QED BY <2>2, <2>4, <2>5, <2>6
<1>. QED BY <1>2, <1>3

(* After the kill, n is how often a task had been run before it.  No run is missing
   from the ledger; and a task that had been run twice was held or is done, so that it
   comes to be done only through one more run. *)
Again(i, n) ==
  /\ n + fin[i] + live[i] <= ran[i] /\ (n > 0 <=> i \in held) /\ Served(i, n)
  /\ n = 2 => defects = 1 /\ (q[i] = "held" \/ fin[i] > 0)

Repeated == ~corrupt /\ \A i \in Ids : starts[i] = ran[i] /\ \E n \in 0..2 : Again(i, n)

(* The kill. *)
LEMMA KillRepeats ==
  ASSUME TypeOK, Begins, Enough, Good, Kill
  PROVE  Repeated'
<1>1. /\ held' = {i \in Ids : starts[i] > 0} /\ got' = {} /\ \A i \in Ids : live'[i] = 0
      /\ UNCHANGED <<q, starts, ends, ran, fin, corrupt, defects>>
  <2>1. Gone
    BY DEF Kill
  <2>. QED BY <2>1 DEF Kill, Gone, Zero, UnchangedRest, UnchangedLedger, truth
<1>2. \A i \in Ids : starts[i] = ran[i]
  <2>1. CASE defects = 0
    <3>1. \A i \in Ids : live[i] = ran[i]
      BY <2>1 DEF Begins, Begun
    <3>. QED BY <3>1, AllWritten
  <2>2. CASE "c1" \notin torn
    BY <2>2 DEF Begins, Begun
  <2>. QED BY <2>1, <2>2 DEF Good
<1>3. ASSUME NEW i \in Ids PROVE \E n \in 0..2 : Again(i, n)'
  <2>0. Begun(i)
    BY DEF Begins
  <2>1. ran[i] \in 0..2 /\ (ran[i] = 2 => Claims(i) > 1)
    <3>1. Claims(i) <= 2
      BY <2>0, CountTypes DEF Begun
    <3>. QED BY <3>1, CountTypes
  <2>2. ran[i] = 2 => defects = 1 /\ q[i] = "held"
    <3>1. SUFFICES ASSUME Claims(i) > 1 PROVE defects = 1 /\ q[i] = "held"
      BY <2>1
    <3>2. ~(Claims(i) <= 1)
      BY <3>1, CountTypes
    <3>. QED BY <2>0, <3>1, <3>2 DEF Begun, Good
  <2>3. ran[i] + fin'[i] + live'[i] <= ran'[i]
    <3>1. fin[i] = 0
      BY <2>0 DEF Begun
    <3>. QED BY <1>1, <3>1, CountTypes
  <2>4. ran[i] > 0 <=> i \in held'
    BY <1>1, <1>2, CountTypes
  <2>5. ~(ran'[i] > ran[i]) /\ i \notin got'
    BY <1>1, CountTypes
  <2>6. ASSUME NEW n, n = ran[i] PROVE Again(i, n)'
    <3>1. Served(i, n)'
      BY <2>5, <2>6 DEF Served
    <3>. QED BY <1>1, <2>1, <2>2, <2>3, <2>4, <2>6, <3>1 DEF Again
  <2>. QED BY <2>1, <2>6
<1>. QED BY <1>1, <1>2, <1>3 DEF Repeated, Begins

(* While the second consumer's ledger is whole. *)
LEMMA RepeatedNext ==
  ASSUME TypeOK, Repeated, [Next]_vars, Good', ~Kill, "c2" \notin torn', up \in {"none", "c2"},
         ~Seed, ~Restore, ~Replay, \A i \in Ids : ~Submit(i)
  PROVE  Repeated'
<1>0. Good /\ "c2" \notin torn
  BY GoodBefore, Moves
<1>1. ASSUME NEW i \in Ids, NEW n \in 0..2, Again(i, n) PROVE Served(i, n)'
  BY <1>1, ServedKept DEF Again
(* Nothing changes but the task's claim, or its state. *)
<1>2. ASSUME UNCHANGED <<live, held, starts, ends, ran, fin, corrupt>>,
             \A i \in Ids : \/ q'[i] = q[i] /\ defects' = defects
                            \/ q'[i] = "held" /\ defects' = defects
                            \/ defects = 0
      PROVE  Repeated'
  <2>1. \A i \in Ids : starts'[i] = ran'[i]
    BY <1>2 DEF Repeated
  <2>2. ASSUME NEW i \in Ids PROVE \E n \in 0..2 : Again(i, n)'
    <3>1. PICK n \in 0..2 : Again(i, n)
      BY DEF Repeated
    <3>2. n = 2 => defects' = 1 /\ (q'[i] = "held" \/ fin[i] > 0)
      BY <1>2, <3>1 DEF Again
    <3>3. Again(i, n)'
      BY <1>1, <1>2, <3>1, <3>2 DEF Again
    <3>. QED BY <3>3
  <2>. QED BY <1>2, <2>1, <2>2 DEF Repeated
<1>3. ASSUME NEW j \in Ids, Claim(j) PROVE Repeated'
  <2>1. \A i \in Ids : q'[i] = q[i] \/ q'[i] = "held"
    BY <1>3 DEF Claim, TypeOK
  <2>. QED BY <1>2, <1>3, <2>1 DEF Claim, ledger, truth
<1>4. ASSUME NEW j \in Ids, Misbehave(j) PROVE Repeated'
  <2>1. defects = 0
    BY <1>4, CountTypes DEF Misbehave, Good
  <2>. QED BY <1>2, <1>4, <2>1 DEF Misbehave, ledger, truth
<1>5. ASSUME NEW j \in Ids, RenewalRefused(j) PROVE Repeated'
  BY <1>2, <1>5 DEF RenewalRefused, ledger
<1>6. CASE Start \/ Spawn
  <2>1. UNCHANGED <<live, held, starts, ends, ran, fin, corrupt, q, defects>>
    BY <1>6 DEF Start, Spawn, UnchangedRest, UnchangedLedger, queue, truth
  <2>. QED BY <1>2, <2>1
<1>7. CASE Exit2 \/ Stop
  <2>1. UNCHANGED <<held, starts, ends, ran, fin, corrupt, q, defects>>
    BY <1>7 DEF Exit2, Stop, UnchangedRest, UnchangedLedger, truth
  <2>2. live' = live
    <3>1. \A i \in Ids : live[i] = 0
      BY <1>7 DEF Exit2, Stop, Idle
    <3>2. live = [i \in Ids |-> 0]
      BY <3>1 DEF TypeOK
    <3>. QED BY <1>7, <3>2 DEF Exit2, Stop, Gone, Zero
  <2>. QED BY <1>2, <2>1, <2>2
<1>8. ASSUME NEW j \in Ids, Run(j) PROVE Repeated'
  <2>1. /\ up = "c2" /\ UNCHANGED <<q, held, ends, fin>>
        /\ \A i \in Ids : /\ live'[i] = live[i] + (IF j = i THEN 1 ELSE 0)
                          /\ ran'[i] = ran[i] + (IF j = i THEN 1 ELSE 0)
                          /\ starts'[i] = starts[i] + (IF j = i THEN 1 ELSE 0)
    BY <1>0, <1>8, RunCounts
  <2>2. corrupt' = corrupt /\ defects' = defects
    <3>1. failed' = (failed \/ Write(up)) => failed'
      BY <1>0, <2>1, Zenon DEF Write
    <3>2. ~failed'
      BY DEF Good, Clean
    <3>. QED BY <1>8, <3>1, <3>2 DEF Run
  <2>3. ASSUME NEW i \in Ids PROVE starts'[i] = ran'[i]
    BY <2>1 DEF Repeated
  <2>4. ASSUME NEW i \in Ids PROVE \E n \in 0..2 : Again(i, n)'
    <3>1. PICK n \in 0..2 : Again(i, n)
      BY DEF Repeated
    <3>2. n + fin'[i] + live'[i] <= ran'[i]
      BY <2>1, <3>1, CountTypes DEF Again
    <3>3. Again(i, n)'
      BY <1>1, <2>1, <2>2, <3>1, <3>2 DEF Again
    <3>. QED BY <3>3
  <2>. QED BY <2>2, <2>3, <2>4 DEF Repeated
<1>9. ASSUME NEW j \in Ids, RunEnds(j) PROVE Repeated'
  <2>1. /\ up = "c2" /\ UNCHANGED <<held, starts, ran, corrupt, defects>>
        /\ \A i \in Ids : /\ live'[i] = live[i] - (IF j = i THEN 1 ELSE 0) /\ live[j] > 0
                          /\ ends'[i] = ends[i] + (IF j = i THEN 1 ELSE 0)
                          /\ fin'[i] = fin[i] + (IF j = i THEN 1 ELSE 0) \/ (fin'[i] = fin[i] /\ q' = q)
                          /\ i # j => q'[i] = q[i]
    BY <1>0, <1>9, EndCounts
  <2>2. ASSUME NEW i \in Ids PROVE starts'[i] = ran'[i]
    BY <2>1 DEF Repeated
  <2>3. ASSUME NEW i \in Ids PROVE \E n \in 0..2 : Again(i, n)'
    <3>1. PICK n \in 0..2 : Again(i, n)
      BY DEF Repeated
    <3>2. n + fin'[i] + live'[i] <= ran'[i]
      BY <2>1, <3>1, CountTypes DEF Again
    <3>3. q[i] = "held" \/ fin[i] > 0 => q'[i] = "held" \/ fin'[i] > 0
      <4>1. CASE i = j
        BY <2>1, <4>1, CountTypes
      <4>2. CASE i # j
        BY <2>1, <4>2, CountTypes
      <4>. QED BY <4>1, <4>2
    <3>4. Again(i, n)'
      BY <1>1, <2>1, <3>1, <3>2, <3>3 DEF Again
    <3>. QED BY <3>4
  <2>. QED BY <2>1, <2>2, <2>3 DEF Repeated
<1>10. ASSUME Still, \A j \in Ids : ~Claim(j) /\ ~RunEnds(j) /\ ~Misbehave(j) PROVE Repeated'
  <2>1. q' = q
    BY <1>10, QueueSteps
  <2>. QED BY <1>2, <1>10, <2>1 DEF Still
<1>11. CASE \E j \in Ids : Claim(j) \/ Run(j) \/ RunEnds(j) \/ RenewalRefused(j) \/ Misbehave(j)
  BY <1>3, <1>4, <1>5, <1>8, <1>9, <1>11
<1>12. CASE \A j \in Ids : ~Claim(j) /\ ~Run(j) /\ ~RunEnds(j) /\ ~RenewalRefused(j) /\ ~Misbehave(j)
  BY <1>6, <1>7, <1>10, <1>12, StillSteps
<1>. QED BY <1>11, <1>12

AfterKill == {"spawn2", "wait", "exit2", "recount", "reconcile", "over"}

Second ==
  Good /\ Step \in AfterKill /\ "c2" \notin torn =>
    /\ up = IF Step \in {"wait", "exit2"} THEN "c2" ELSE "none"
    /\ Repeated

LEMMA SecondNext == TypeOK /\ OnPlan /\ Apart /\ First /\ Second /\ [Next]_vars => Second'
<1>. SUFFICES ASSUME TypeOK, OnPlan, Apart, First, Second, [Next]_vars, Good', Step' \in AfterKill,
                     "c2" \notin torn'
              PROVE  /\ up' = IF Step' \in {"wait", "exit2"} THEN "c2" ELSE "none"
                     /\ Repeated'
  BY DEF Second
<1>1. Good /\ kind = "kill" /\ kind' = kind /\ Clean' /\ ~oom /\ "c2" \notin torn
  BY GoodBefore, Moves DEF Good, Apart
<1>2. CASE plan' # plan /\ Step = "kill"
  <2>1. plan # <<>> /\ plan' = Tail(plan) /\ Kill
    BY <1>1, <1>2, Leaving DEF Advance
  <2>2. Step' = "spawn2" /\ up' = "none"
    BY <1>1, <1>2, <2>1, KillSteps DEF Kill
  <2>3. Begins /\ Enough
    BY <1>1, <1>2 DEF First, BeforeKill
  <2>. QED BY <1>1, <2>1, <2>2, <2>3, KillRepeats
<1>3. CASE Step \in AfterKill
  <2>1. Repeated /\ up = IF Step \in {"wait", "exit2"} THEN "c2" ELSE "none"
    BY <1>1, <1>3 DEF Second
  <2>2. ~Kill /\ ~Seed /\ ~Restore /\ ~Replay /\ ~Start /\ ~Stop /\ \A i \in Ids : ~Submit(i)
    BY <1>3 DEF AfterKill, Kill, Seed, Restore, Replay, Start, Stop, Submit, At
  <2>3. Repeated'
    BY <1>1, <2>1, <2>2, RepeatedNext
  <2>4. CASE plan' = plan
    <3>1. plan # <<>> => Tail(plan) # plan
      <4>1. plan \in Seq(Steps)
        BY DEF TypeOK
      <4>2. plan # <<>> => Len(Tail(plan)) = Len(plan) - 1 /\ Len(plan) \in Nat
        BY <4>1
      <4>. QED BY <4>2
    <3>2. ~Spawn /\ ~Exit2
      BY <2>4, <3>1 DEF Spawn, Exit2, Advance, At, Step
    <3>3. up' = up
      <4>1. CASE \E i \in Ids : Claim(i) \/ Run(i) \/ RunEnds(i) \/ RenewalRefused(i) \/ Misbehave(i)
        BY <4>1 DEF Claim, Run, RunEnds, RenewalRefused, Misbehave
      <4>2. CASE Still
        BY <4>2 DEF Still
      <4>. QED BY <2>2, <3>2, <4>1, <4>2, StillSteps
    <3>. QED BY <2>1, <2>3, <2>4, <3>3, StepStays
  <2>5. CASE plan' # plan
    <3>1. /\ plan # <<>> /\ plan' = Tail(plan)
          /\ Step = "spawn2" => Spawn
          /\ Step = "wait" => WaitOver
          /\ Step = "exit2" => Exit2
          /\ Step = "recount" => Recount
          /\ Step = "reconcile" => Reconcile
      BY <1>1, <2>5, Leaving DEF Advance
    <3>2. /\ Step = "spawn2"  => Step' = "wait"
          /\ Step = "wait"    => Step' = "exit2"
          /\ Step = "exit2"   => Step' = "recount"
          /\ Step = "recount" => Step' = "reconcile"
          /\ Step = "reconcile" => Step' = "over"
      BY <1>1, <3>1, KillSteps
    <3>3. Step # "over"
      BY <3>1, StepNotOver
    <3>4. /\ Step = "spawn2"  => up' = "c2"
          /\ Step = "exit2" => up' = "none"
          /\ Step \in {"wait", "recount", "reconcile"} => up' = up
      BY <3>1 DEF Spawn, WaitOver, Exit2, Recount, Reconcile, UnchangedQueue
    <3>. QED BY <1>3, <2>1, <2>3, <3>2, <3>3, <3>4 DEF AfterKill
  <2>. QED BY <2>4, <2>5
<1>4. (plan' # plan /\ Step = "kill") \/ Step \in AfterKill
  <2>1. CASE plan' = plan
    BY <2>1, StepStays
  <2>2. CASE plan' # plan
    <3>1. plan # <<>> /\ plan' = Tail(plan)
      BY <1>1, <2>2, Leaving DEF Advance
    <3>2. /\ Step = "submit"  => Step' = "spawn1"
          /\ Step = "spawn1"  => Step' = "claimed"
          /\ Step = "claimed" => Step' = "kill"
      BY <1>1, <3>1, KillSteps
    <3>3. Step \in {"submit", "spawn1", "claimed", "kill"} \/ Step \in AfterKill
      BY <1>1, KillSteps DEF AfterKill
    <3>4. Step' \notin {"spawn1", "claimed", "kill"}
      BY DEF AfterKill
    <3>. QED BY <2>2, <3>2, <3>3, <3>4
  <2>. QED BY <2>1, <2>2
<1>. QED BY <1>2, <1>3, <1>4

----------------------------------------------------------------------------
SoundInv ==
  OnPlan /\ Apart /\ CountsMean /\ FirstServed /\ ChecksMean /\ First /\ Second

LEMMA SoundInit == Init => SoundInv
<1>. SUFFICES ASSUME Init PROVE SoundInv
  OBVIOUS
<1>0. TypeOK /\ OnPlan
  BY AcceptanceInit, PlanInit
<1>1. /\ kind \in AllKinds /\ plan = Plan[kind] /\ passed = {} /\ oom = FALSE /\ corrupt = FALSE /\ got = {}
      /\ held = {} /\ torn = {} /\ defects = 0 /\ up \in {"none", "main"} /\ (kind = "kill" => up = "none")
      /\ live = Zero
  BY AcceptanceAssumption DEF Init, AllKinds
<1>2. \A i \in Ids : starts[i] = 0 /\ ends[i] = 0 /\ ran[i] = 0 /\ fin[i] = 0 /\ live[i] = 0
  BY DEF Init, Zero
<1>3. Len(Plan[kind]) \in Nat \ {0}
  <2>1. \A k \in AllKinds : Len(Plan[k]) \in {4, 6, 9, 10}
    BY PlanLength DEF AllKinds
  <2>2. \A n \in {4, 6, 9, 10} : n \in Nat \ {0}
    OBVIOUS
  <2>3. Len(Plan[kind]) \in {4, 6, 9, 10}
    BY <1>1, <2>1
  <2>. QED BY ONLY <2>2, <2>3
<1>4. Len(plan) = Len(Plan[kind]) /\ plan # <<>> /\ Step = Plan[kind][1]
  <2>1. Len(plan) = Len(Plan[kind]) /\ Len(plan) # 0
    BY <1>1, <1>3
  <2>2. Len(Plan[kind]) - Len(plan) + 1 = 1
    BY <1>3, <2>1
  <2>. QED BY <1>0, <2>1, <2>2, StepIs
<1>5. Step # "over"
  BY <1>0, <1>4, StepNotOver
<1>6. kind = "kill" => Step = "submit"
  BY <1>4 DEF Plan
<1>7. kind # "kill" => Step \notin Late
  BY <1>1, <1>3, <1>4, OtherPlans
<1>8. Apart
  BY <1>1 DEF Apart
<1>9. CountsMean
  BY <1>1, <1>2, <1>7 DEF CountsMean
<1>10. FirstServed
  BY <1>1, <1>2 DEF FirstServed, Served
<1>11. ChecksMean
  BY <1>1, <1>5, <1>6 DEF ChecksMean
<1>12. Begins
  <2>1. Load
    <3>1. Total(live) = 0 /\ Cardinality(got) = 0
      BY <1>1, TotalZero, FS_EmptySet
    <3>. QED BY <1>0, <3>1, Finite DEF Load
  <2>2. \A i \in Ids : Claims(i) = 0
    BY <1>1, <1>2 DEF Claims
  <2>3. \A i \in Ids : Begun(i)
    BY <1>1, <1>2, <2>2 DEF Begun
  <2>. QED BY <1>1, <2>1, <2>3 DEF Begins
<1>13. First
  BY <1>1, <1>6, <1>12 DEF First, Good
<1>14. Second
  BY <1>6 DEF Second, AfterKill, Good
<1>. QED BY <1>0, <1>8, <1>9, <1>10, <1>11, <1>13, <1>14 DEF SoundInv

LEMMA SoundNext == TypeOK /\ SoundInv /\ [Next]_vars => SoundInv'
<1>. SUFFICES ASSUME TypeOK, SoundInv, [Next]_vars PROVE SoundInv'
  OBVIOUS
<1>1. TypeOK'
  BY AcceptanceNext
<1>2. OnPlan' /\ Apart' /\ CountsMean'
  BY OnPlanNext, ApartNext, CountsMeanNext DEF SoundInv
<1>3. FirstServed' /\ ChecksMean' /\ First' /\ Second'
  BY <1>1, FirstServedNext, ChecksMeanNext, FirstNext, SecondNext DEF SoundInv
<1>. QED BY <1>2, <1>3 DEF SoundInv

----------------------------------------------------------------------------
(* What a scenario that passes may claim. *)
Truth ==
  \A i \in Ids :
    /\ ("accepted" \in told[i] /\ i \in ToBeDone \ MustNotProcess) =>
         ran[i] > 0 /\ (fin[i] > 0 \/ i \in cut)
    /\ kind # "oom" => ran[i] <= 1 + (IF i \in held THEN 1 ELSE 0)
    /\ (i \in MustNotProcess \union Lost \/ told[i] = {"rejected"}) => ran[i] = 0
    /\ i \in ToBeDone => q[i] = "done"
    /\ ~corrupt /\ "main" \notin torn

LEMMA ValidClean ==
  ASSUME TypeOK, SoundInv, plan = <<>>, Validate
  PROVE  Clean /\ Step = "over" /\ ToBeDone \subseteq In("done")
<1>1. ~failed /\ "write_ok" \in passed \union (IF Write("main") THEN {"write_ok"} ELSE {})
  BY DEF Validate, Required
<1>2. "write_ok" \notin passed
  BY DEF SoundInv, ChecksMean
<1>3. Clean /\ Step = "over"
  BY <1>1, <1>2 DEF Clean, Write, Step
<1>. QED BY <1>3 DEF SoundInv, ChecksMean

LEMMA OtherTruth ==
  ASSUME TypeOK, SoundInv, plan = <<>>, Validate, kind # "kill"
  PROVE  Truth
<1>1. Clean /\ Step = "over" /\ ToBeDone \subseteq In("done")
  BY ValidClean
<1>2. /\ up = "none" /\ held = {} /\ ~corrupt /\ "main" \notin torn
      /\ \A i \in Ids : starts[i] = ran[i] /\ ends[i] + live[i] = ran[i]
  BY <1>1 DEF SoundInv, CountsMean, Late, Clean
<1>3. ASSUME NEW i \in Ids
      PROVE  /\ ("accepted" \in told[i] /\ i \in ToBeDone \ MustNotProcess) =>
                   ran[i] > 0 /\ (fin[i] > 0 \/ i \in cut)
             /\ kind # "oom" => ran[i] <= 1 + (IF i \in held THEN 1 ELSE 0)
             /\ (i \in MustNotProcess \union Lost \/ told[i] = {"rejected"}) => ran[i] = 0
             /\ i \in ToBeDone => q[i] = "done"
  <2>1. Runs(i) /\ Outcome(i)
    BY DEF Validate
  <2>2. live[i] = 0 /\ i \notin got
    BY <1>2 DEF TypeOK
  <2>3. kind # "oom" => ran[i] <= 1
    BY <1>2, <2>1, CountTypes DEF Runs, Repetition, AllowRedelivery
  <2>4. "accepted" \in told[i] /\ i \in ToBeDone \ MustNotProcess => ran[i] > 0
    BY <1>2, <2>1, CountTypes DEF Outcome, ToBeDone
  <2>5. ran[i] > 0 => fin[i] > 0 \/ i \in cut
    BY <2>2 DEF SoundInv, FirstServed, Served
  <2>6. (i \in MustNotProcess \union Lost \/ told[i] = {"rejected"}) => ran[i] = 0
    BY <1>2, <2>1 DEF Runs
  <2>7. i \in ToBeDone => q[i] = "done"
    BY <1>1 DEF In
  <2>8. ran[i] <= 1 => ran[i] <= 1 + (IF i \in held THEN 1 ELSE 0)
    BY CountTypes
  <2>. QED BY <2>3, <2>4, <2>5, <2>6, <2>7, <2>8
<1>. QED BY <1>2, <1>3 DEF Truth

(* A sum of ones counts their indices. *)
LEMMA TotalOfOnes ==
  ASSUME NEW S \in SUBSET Ids, NEW f \in [Ids -> Nat], \A j \in Ids : f[j] = IF j \in S THEN 1 ELSE 0
  PROVE  Total(f) = Cardinality(S)
<1>1. S \X {1} = Units(f)
  <2>1. \A u : u \in Units(f) <=> \E j \in Ids : \E n \in 1..f[j] : u = <<j, n>>
    BY UnitsAre
  <2>2. \A j \in Ids : \A n : n \in 1..f[j] <=> j \in S /\ n = 1
    <3>. TAKE j \in Ids
    <3>1. CASE j \in S
      BY <3>1
    <3>2. CASE j \notin S
      BY <3>2
    <3>. QED BY <3>1, <3>2
  <2>. QED BY <2>1, <2>2
<1>2. IsFiniteSet(S)
  BY AcceptanceAssumption, FS_Subset
<1>3. Cardinality(S \X {1}) = Cardinality(S) * Cardinality({1})
  BY <1>2, FS_Singleton, FS_Product
<1>4. Cardinality({1}) = 1 /\ Cardinality(S) \in Nat
  BY <1>2, FS_Singleton, FS_CardinalityType
<1>5. Cardinality(S \X {1}) = Cardinality(S)
  BY <1>3, <1>4
<1>. QED BY <1>1, <1>5, UnitsFinite

(* scConsumerKill has as many repetitions as tasks were held, and each of these was
   repeated: they were repeated once, and no other task was. *)
LEMMA Once ==
  ASSUME TypeOK, Repeats = Cardinality(held), \A i \in held : starts[i] >= 2, \A i \in Ids : starts[i] > 0,
         NEW i \in Ids
  PROVE  starts[i] = 1 + (IF i \in held THEN 1 ELSE 0)
<1>. DEFINE f == [j \in Ids |-> IF j \in held THEN 1 ELSE 0]
            g == [j \in Ids |-> IF starts[j] = 0 THEN 0 ELSE starts[j] - 1]
<1>1. f \in [Ids -> Nat] /\ g \in [Ids -> Nat]
  <2>1. \A j \in Ids : starts[j] # 0 => starts[j] - 1 \in Nat
    BY CountTypes
  <2>. QED BY <2>1
<1>2. \A j \in Ids : f[j] <= g[j] /\ g[j] = starts[j] - 1
  <2>. TAKE j \in Ids
  <2>1. g[j] = starts[j] - 1 /\ f[j] = IF j \in held THEN 1 ELSE 0
    BY CountTypes
  <2>2. starts[j] > 0 /\ (j \in held => starts[j] >= 2)
    OBVIOUS
  <2>. HIDE DEF f, g
  <2>. QED BY <2>1, <2>2, CountTypes
<1>3. Total(f) = Cardinality(held)
  <2>1. held \in SUBSET Ids /\ \A j \in Ids : f[j] = IF j \in held THEN 1 ELSE 0
    BY DEF TypeOK
  <2>. HIDE DEF f
  <2>. QED BY <1>1, <2>1, TotalOfOnes
<1>4. Total(g) = Cardinality(held)
  BY DEF Repeats
<1>5. f[i] = g[i]
  <2>1. \A j \in Ids : f[j] <= g[j]
    BY <1>2
  <2>2. Total(f) \in Nat /\ Total(g) <= Total(f)
    <3>. HIDE DEF f, g
    <3>. QED BY <1>1, <1>3, <1>4, UnitsFinite
  <2>. HIDE DEF f, g
  <2>. QED BY <1>1, <2>1, <2>2, TotalUp
<1>6. f[i] = IF i \in held THEN 1 ELSE 0
  OBVIOUS
<1>. HIDE DEF f, g
<1>7. starts[i] - 1 = (IF i \in held THEN 1 ELSE 0) /\ starts[i] \in Nat
  BY <1>2, <1>5, <1>6, CountTypes
<1>. QED BY <1>7

LEMMA KillTruth ==
  ASSUME TypeOK, SoundInv, plan = <<>>, Validate, kind = "kill",
         defects = 0 \/ (defects = 1 /\ "c1" \notin torn)
  PROVE  Truth
<1>1. Clean /\ Step = "over" /\ ToBeDone \subseteq In("done") /\ Good /\ "main" \notin torn
  BY ValidClean DEF Good, Clean
<1>2. /\ up = "none" /\ "c2" \notin torn /\ Repeats = Cardinality(held)
      /\ \A i \in held : starts[i] >= 2
      /\ \A i \in Ids : told[i] = {"accepted"}
  BY <1>1 DEF SoundInv, ChecksMean
<1>3. ~corrupt /\ \A i \in Ids : starts[i] = ran[i] /\ \E n \in 0..2 : Again(i, n)
  BY <1>1, <1>2 DEF SoundInv, Second, AfterKill, Repeated
<1>4. \A i \in Ids : role[i] = "plain"
  BY DEF TypeOK, Roles
<1>5. Lost = {} /\ MustNotProcess = {} /\ ToBeDone = Ids
  BY <1>4 DEF Lost, MustNotProcess, ExpectedFailed, ToBeDone
<1>6. \A i \in Ids : Runs(i) /\ Outcome(i)
  BY DEF Validate
<1>7. \A i \in Ids : starts[i] > 0
  BY <1>2, <1>5, <1>6 DEF Outcome
<1>8. ASSUME NEW i \in Ids
      PROVE  /\ ran[i] = 1 + (IF i \in held THEN 1 ELSE 0) /\ q[i] = "done"
             /\ fin[i] > 0 \/ i \in cut
  <2>1. starts[i] = 1 + (IF i \in held THEN 1 ELSE 0)
    BY <1>2, <1>7, Once
  <2>2. live[i] = 0 /\ i \notin got
    BY <1>2 DEF TypeOK
  <2>3. ran[i] = starts[i]
    BY <1>3
  <2>4. q[i] = "done"
    BY <1>1, <1>5 DEF In
  <2>5. PICK n \in 0..2 : Again(i, n)
    BY <1>3
  <2>6. CASE n = 2
    BY <2>1, <2>3, <2>4, <2>5, <2>6 DEF Again
  <2>7. CASE n # 2
    <3>1. ran[i] > n
      <4>1. (n > 0 <=> i \in held) /\ (n = 0 \/ n = 1)
        BY <2>5, <2>7 DEF Again
      <4>. QED BY <2>1, <2>3, <4>1, CountTypes
    <3>. QED BY <2>1, <2>2, <2>3, <2>4, <2>5, <3>1, CountTypes DEF Again, Served
  <2>. QED BY <2>1, <2>3, <2>4, <2>6, <2>7
<1>9. ASSUME NEW i \in Ids
      PROVE  /\ ran[i] > 0 /\ (fin[i] > 0 \/ i \in cut) /\ ran[i] <= 1 + (IF i \in held THEN 1 ELSE 0)
             /\ told[i] # {"rejected"} /\ q[i] = "done"
  <2>1. told[i] # {"rejected"}
    BY <1>2
  <2>. QED BY <1>8, <2>1, CountTypes
<1>. QED BY <1>1, <1>3, <1>5, <1>9 DEF Truth

(* A scenario that passes tells the truth, whatever the queue, the commands and the
   writes did: what it accepted and had to process was processed, to its end unless a
   run of it lost its claim, nothing was repeated that no kill explains, nothing was
   touched that had to be left alone, and the queue holds what it should; for the kill,
   with no fault of the queue, or with one and the ledger of the first process whole.
   (scenarios.go, faults.go, ledger/validate.go) *)
THEOREM PassIsSoundCorrect == Spec => []PassIsSound
<1>1. Init => TypeOK /\ SoundInv /\ PassIsSound
  <2>1. Init => PassIsSound
    BY DEF Init, PassIsSound
  <2>. QED BY <2>1, AcceptanceInit, SoundInit
<1>2. TypeOK /\ SoundInv /\ PassIsSound /\ [Next]_vars => (TypeOK /\ SoundInv /\ PassIsSound)'
  <2>. SUFFICES ASSUME TypeOK, SoundInv, PassIsSound, [Next]_vars PROVE PassIsSound'
    BY AcceptanceNext, SoundNext
  <2>1. CASE Finish
    <3>1. UNCHANGED <<kind, role, q, held, told, torn, ran, fin, cut, corrupt, defects>>
      BY <2>1 DEF Finish, what, queue, ledger, truth
    <3>2. verdict' = "pass" /\ plan = <<>> => Validate
      BY <2>1 DEF Finish
    <3>3. verdict' = "pass" /\ (kind = "kill" => defects = 0 \/ (defects = 1 /\ "c1" \notin torn)) => Truth
      BY <2>1, <3>2, OtherTruth, KillTruth DEF Finish
    <3>. QED BY <3>1, <3>3
             DEF PassIsSound, Truth, ToBeDone, MustNotProcess, ExpectedFailed, Lost
  <2>2. CASE verdict' = verdict /\ verdict = "none"
    BY <2>2 DEF PassIsSound
  <2>3. CASE UNCHANGED vars
    BY <2>3 DEF PassIsSound, vars, what, queue, ledger, truth, ToBeDone, MustNotProcess,
                ExpectedFailed, Lost
  <2>4. ASSUME Next PROVE Finish \/ (verdict' = verdict /\ verdict = "none")
    <3>1. CASE World
      <4>1. verdict = "none"
        BY <3>1 DEF World
      <4>. QED BY <3>1, <4>1 DEF World, RenewalRefused, Misbehave, CommandFails, WriteFails, UnchangedRest
    <3>2. CASE Worker
      BY <3>2 DEF Worker, Claim, Run, RunEnds
    <3>3. CASE Scenario /\ ~Finish
      <4>1. verdict = "none"
        BY <3>3 DEF Scenario
      <4>2. CASE \E i \in Ids : Submit(i) \/ Poll(i)
        BY <4>1, <4>2 DEF Submit, Poll
      <4>3. CASE Submitted \/ Seed \/ Inspect \/ Start \/ Spawn \/ Claimed \/ Kill \/ Exit2 \/ Recount
        BY <4>1, <4>3 DEF Submitted, Seed, Inspect, Start, Spawn, Claimed, Kill, Exit2, Recount, UnchangedRest
      <4>4. CASE Copy \/ Restore \/ Compare \/ Replay \/ Fill \/ PerId
        BY <4>1, <4>4 DEF Copy, Restore, Compare, Replay, Fill, PerId, UnchangedRest
      <4>5. CASE Open \/ Release \/ WaitOver \/ Stop \/ Reconcile
        BY <4>1, <4>5 DEF Open, Release, WaitOver, Stop, Reconcile, UnchangedRest
      <4>. QED BY <3>3, <4>2, <4>3, <4>4, <4>5 DEF Scenario
    <3>. QED BY <2>4, <3>1, <3>2, <3>3 DEF Next
  <2>. QED BY <2>1, <2>2, <2>3, <2>4
<1>. QED BY <1>1, <1>2, PTL DEF Spec

----------------------------------------------------------------------------
(* Where a scenario is, and what comes next: the place m of its step in its plan. *)
StepPlace(m, s) ==
  /\ Step = (IF m = Len(s) + 1 THEN "over" ELSE s[m])
  /\ plan = <<>> <=> m = Len(s) + 1
  /\ Len(plan) = Len(s) + 1 - m
  /\ \A j \in 1..Len(plan) : plan[j] = s[m - 1 + j]
  /\ plan # <<>> /\ plan' = Tail(plan) /\ kind' = kind =>
        Step' = (IF m = Len(s) THEN "over" ELSE s[m + 1])

LEMMA Following ==
  ASSUME TypeOK, OnPlan, NEW s, s = Plan[kind]
  PROVE  Len(s) \in Nat /\ \E m \in 1..(Len(s) + 1) : StepPlace(m, s)
<1>. DEFINE n == Len(s)  m == n - Len(plan) + 1
<1>1. n \in Nat /\ Len(plan) \in 0..n /\ (Len(plan) = 0 <=> plan = <<>>)
  BY StepIs
<1>2. /\ m \in 1..(n + 1) /\ (m = n + 1 <=> Len(plan) = 0) /\ Len(plan) = n + 1 - m
      /\ (m = n <=> Len(plan) = 1) /\ m - 1 = n - Len(plan) /\ m + 1 = n - Len(plan) + 2
  <2>1. \A a \in Nat : \A b \in 0..a :
          /\ a - b + 1 \in 1..(a + 1) /\ (a - b + 1 = a + 1 <=> b = 0) /\ b = a + 1 - (a - b + 1)
          /\ (a - b + 1 = a <=> b = 1) /\ (a - b + 1) - 1 = a - b /\ (a - b + 1) + 1 = a - b + 2
    OBVIOUS
  <2>. HIDE DEF n
  <2>. QED BY <1>1, <2>1
<1>3. Step = IF Len(plan) = 0 THEN "over" ELSE s[m]
  BY StepIs
<1>4. \A j \in 1..Len(plan) : plan[j] = s[m - 1 + j]
  BY <1>2 DEF OnPlan
<1>5. plan # <<>> /\ plan' = Tail(plan) /\ kind' = kind => Step' = IF m = n THEN "over" ELSE s[m + 1]
  BY <1>2, NextOnPlan
<1>. HIDE DEF m
<1>. QED BY <1>1, <1>2, <1>3, <1>4, <1>5 DEF StepPlace

LEMMA NormalSteps ==
  ASSUME TypeOK, OnPlan, kind = "normal"
  PROVE  /\ Step \in {"submit", "wait", "stop", "reconcile", "over"}
         /\ plan # <<>> /\ plan' = Tail(plan) /\ kind' = kind =>
                   /\ Step = "submit" => Step' = "wait"
                   /\ Step = "wait"   => Step' = "stop"
                   /\ Step = "stop"   => Step' = "reconcile"
                   /\ Step = "reconcile" => Step' = "over"
<1>. DEFINE s == Plan["normal"]
<1>1. /\ Len(s) = 4
      /\ s[1] = "submit" /\ s[2] = "wait" /\ s[3] = "stop" /\ s[4] = "reconcile"
  BY DEF Plan
<1>. HIDE DEF s
<1>2. PICK m \in 1..5 : StepPlace(m, s)
  <2>1. \E m \in 1..(Len(s) + 1) : StepPlace(m, s)
    BY Following DEF s
  <2>. QED BY <1>1, <2>1
<1>3. m = 1 \/ m = 2 \/ m = 3 \/ m = 4 \/ m = 5
  OBVIOUS
<1>4. /\ m = 1 => Step = "submit"
      /\ m = 2 => Step = "wait"
      /\ m = 3 => Step = "stop"
      /\ m = 4 => Step = "reconcile"
      /\ m = 5 => Step = "over"
  BY <1>1, <1>2 DEF StepPlace
<1>5. ASSUME plan # <<>>, plan' = Tail(plan), kind' = kind
      PROVE  /\ m = 1 => Step' = "wait"
             /\ m = 2 => Step' = "stop"
             /\ m = 3 => Step' = "reconcile"
             /\ m = 4 => Step' = "over"
  BY <1>1, <1>2, <1>5 DEF StepPlace
<1>6. plan # <<>> => m # 5
  BY <1>1, <1>2 DEF StepPlace
<1>. QED BY <1>3, <1>4, <1>5, <1>6

LEMMA BacklogSteps ==
  ASSUME TypeOK, OnPlan, kind = "backlog"
  PROVE  /\ Step \in {"submit", "inspect", "start", "wait", "stop", "reconcile", "over"}
         /\ plan # <<>> /\ plan' = Tail(plan) /\ kind' = kind =>
                   /\ Step = "submit"  => Step' = "inspect"
                   /\ Step = "inspect" => Step' = "start"
                   /\ Step = "start"   => Step' = "wait"
                   /\ Step = "wait"    => Step' = "stop"
                   /\ Step = "stop"    => Step' = "reconcile"
                   /\ Step = "reconcile" => Step' = "over"
<1>. DEFINE s == Plan["backlog"]
<1>1. /\ Len(s) = 6
      /\ s[1] = "submit" /\ s[2] = "inspect" /\ s[3] = "start" /\ s[4] = "wait" /\ s[5] = "stop"
      /\ s[6] = "reconcile"
  BY DEF Plan
<1>. HIDE DEF s
<1>2. PICK m \in 1..7 : StepPlace(m, s)
  <2>1. \E m \in 1..(Len(s) + 1) : StepPlace(m, s)
    BY Following DEF s
  <2>. QED BY <1>1, <2>1
<1>3. m = 1 \/ m = 2 \/ m = 3 \/ m = 4 \/ m = 5 \/ m = 6 \/ m = 7
  OBVIOUS
<1>4. /\ m = 1 => Step = "submit"
      /\ m = 2 => Step = "inspect"
      /\ m = 3 => Step = "start"
      /\ m = 4 => Step = "wait"
      /\ m = 5 => Step = "stop"
      /\ m = 6 => Step = "reconcile"
      /\ m = 7 => Step = "over"
  BY <1>1, <1>2 DEF StepPlace
<1>5. ASSUME plan # <<>>, plan' = Tail(plan), kind' = kind
      PROVE  /\ m = 1 => Step' = "inspect"
             /\ m = 2 => Step' = "start"
             /\ m = 3 => Step' = "wait"
             /\ m = 4 => Step' = "stop"
             /\ m = 5 => Step' = "reconcile"
             /\ m = 6 => Step' = "over"
  BY <1>1, <1>2, <1>5 DEF StepPlace
<1>6. plan # <<>> => m # 7
  BY <1>1, <1>2 DEF StepPlace
<1>. QED BY <1>3, <1>4, <1>5, <1>6

LEMMA CrashSteps ==
  ASSUME TypeOK, OnPlan, kind = "crash"
  PROVE  /\ Step \in {"seed", "copy", "compare", "start", "replay", "wait", "stop", "waitFailed",
                      "reconcile", "over"}
         /\ plan # <<>> /\ plan' = Tail(plan) /\ kind' = kind =>
                   /\ Step = "seed"    => Step' = "copy"
                   /\ Step = "copy"    => Step' = "compare"
                   /\ Step = "compare" => Step' = "start"
                   /\ Step = "start"   => Step' = "replay"
                   /\ Step = "replay"  => Step' = "wait"
                   /\ Step = "wait"    => Step' = "stop"
                   /\ Step = "stop"    => Step' = "waitFailed"
                   /\ Step = "waitFailed" => Step' = "reconcile"
                   /\ Step = "reconcile" => Step' = "over"
<1>. DEFINE s == Plan["crash"]
<1>1. /\ Len(s) = 9
      /\ s[1] = "seed" /\ s[2] = "copy" /\ s[3] = "compare" /\ s[4] = "start" /\ s[5] = "replay"
      /\ s[6] = "wait" /\ s[7] = "stop" /\ s[8] = "waitFailed" /\ s[9] = "reconcile"
  BY DEF Plan
<1>. HIDE DEF s
<1>2. PICK m \in 1..10 : StepPlace(m, s)
  <2>1. \E m \in 1..(Len(s) + 1) : StepPlace(m, s)
    BY Following DEF s
  <2>. QED BY <1>1, <2>1
<1>3. m = 1 \/ m = 2 \/ m = 3 \/ m = 4 \/ m = 5 \/ m = 6 \/ m = 7 \/ m = 8 \/ m = 9 \/ m = 10
  OBVIOUS
<1>4. /\ m = 1 => Step = "seed"
      /\ m = 2 => Step = "copy"
      /\ m = 3 => Step = "compare"
      /\ m = 4 => Step = "start"
      /\ m = 5 => Step = "replay"
      /\ m = 6 => Step = "wait"
      /\ m = 7 => Step = "stop"
      /\ m = 8 => Step = "waitFailed"
      /\ m = 9 => Step = "reconcile"
      /\ m = 10 => Step = "over"
  BY <1>1, <1>2 DEF StepPlace
<1>5. ASSUME plan # <<>>, plan' = Tail(plan), kind' = kind
      PROVE  /\ m = 1 => Step' = "copy"
             /\ m = 2 => Step' = "compare"
             /\ m = 3 => Step' = "start"
             /\ m = 4 => Step' = "replay"
             /\ m = 5 => Step' = "wait"
             /\ m = 6 => Step' = "stop"
             /\ m = 7 => Step' = "waitFailed"
             /\ m = 8 => Step' = "reconcile"
             /\ m = 9 => Step' = "over"
  BY <1>1, <1>2, <1>5 DEF StepPlace
<1>6. plan # <<>> => m # 10
  BY <1>1, <1>2 DEF StepPlace
<1>. QED BY <1>3, <1>4, <1>5, <1>6

LEMMA BackupSteps ==
  ASSUME TypeOK, OnPlan, kind = "backup"
  PROVE  /\ Step \in {"seed", "copy", "post", "restore", "compare", "start", "wait", "stop", "waitFailed",
                      "reconcile", "over"}
         /\ plan # <<>> /\ plan' = Tail(plan) /\ kind' = kind =>
                   /\ Step = "seed"    => Step' = "copy"
                   /\ Step = "copy"    => Step' = "post"
                   /\ Step = "post"    => Step' = "restore"
                   /\ Step = "restore" => Step' = "compare"
                   /\ Step = "compare" => Step' = "start"
                   /\ Step = "start"   => Step' = "wait"
                   /\ Step = "wait"    => Step' = "stop"
                   /\ Step = "stop"    => Step' = "waitFailed"
                   /\ Step = "waitFailed" => Step' = "reconcile"
                   /\ Step = "reconcile" => Step' = "over"
<1>. DEFINE s == Plan["backup"]
<1>1. /\ Len(s) = 10
      /\ s[1] = "seed" /\ s[2] = "copy" /\ s[3] = "post" /\ s[4] = "restore" /\ s[5] = "compare"
      /\ s[6] = "start" /\ s[7] = "wait" /\ s[8] = "stop" /\ s[9] = "waitFailed" /\ s[10] = "reconcile"
  BY DEF Plan
<1>. HIDE DEF s
<1>2. PICK m \in 1..11 : StepPlace(m, s)
  <2>1. \E m \in 1..(Len(s) + 1) : StepPlace(m, s)
    BY Following DEF s
  <2>. QED BY <1>1, <2>1
<1>3. m = 1 \/ m = 2 \/ m = 3 \/ m = 4 \/ m = 5 \/ m = 6 \/ m = 7 \/ m = 8 \/ m = 9 \/ m = 10 \/ m = 11
  OBVIOUS
<1>4. /\ m = 1 => Step = "seed"
      /\ m = 2 => Step = "copy"
      /\ m = 3 => Step = "post"
      /\ m = 4 => Step = "restore"
      /\ m = 5 => Step = "compare"
      /\ m = 6 => Step = "start"
      /\ m = 7 => Step = "wait"
      /\ m = 8 => Step = "stop"
      /\ m = 9 => Step = "waitFailed"
      /\ m = 10 => Step = "reconcile"
      /\ m = 11 => Step = "over"
  BY <1>1, <1>2 DEF StepPlace
<1>5. ASSUME plan # <<>>, plan' = Tail(plan), kind' = kind
      PROVE  /\ m = 1 => Step' = "copy"
             /\ m = 2 => Step' = "post"
             /\ m = 3 => Step' = "restore"
             /\ m = 4 => Step' = "compare"
             /\ m = 5 => Step' = "start"
             /\ m = 6 => Step' = "wait"
             /\ m = 7 => Step' = "stop"
             /\ m = 8 => Step' = "waitFailed"
             /\ m = 9 => Step' = "reconcile"
             /\ m = 10 => Step' = "over"
  BY <1>1, <1>2, <1>5 DEF StepPlace
<1>6. plan # <<>> => m # 11
  BY <1>1, <1>2 DEF StepPlace
<1>. QED BY <1>3, <1>4, <1>5, <1>6

(* In the scenario that fills memory up the Manager holds on until "open". *)
BeforeOpen == {"submit", "fill", "submitFull", "perId", "open"}

LEMMA OomSteps ==
  ASSUME TypeOK, OnPlan, kind = "oom"
  PROVE  /\ Step \in BeforeOpen \union {"release", "resubmit", "wait", "stop", "reconcile", "over"}
         /\ Contains(plan, "open") <=> Step \in BeforeOpen
         /\ plan # <<>> /\ plan' = Tail(plan) /\ kind' = kind =>
                   /\ Step = "submit"  => Step' = "fill"
                   /\ Step = "fill"    => Step' = "submitFull"
                   /\ Step = "submitFull" => Step' = "perId"
                   /\ Step = "perId"   => Step' = "open"
                   /\ Step = "open"    => Step' = "release"
                   /\ Step = "release" => Step' = "resubmit"
                   /\ Step = "resubmit" => Step' = "wait"
                   /\ Step = "wait"    => Step' = "stop"
                   /\ Step = "stop"    => Step' = "reconcile"
                   /\ Step = "reconcile" => Step' = "over"
<1>. DEFINE s == Plan["oom"]
<1>1. /\ Len(s) = 10
      /\ s[1] = "submit" /\ s[2] = "fill" /\ s[3] = "submitFull" /\ s[4] = "perId" /\ s[5] = "open"
      /\ s[6] = "release" /\ s[7] = "resubmit" /\ s[8] = "wait" /\ s[9] = "stop" /\ s[10] = "reconcile"
  BY DEF Plan
<1>. HIDE DEF s
<1>2. PICK m \in 1..11 : StepPlace(m, s)
  <2>1. \E m \in 1..(Len(s) + 1) : StepPlace(m, s)
    BY Following DEF s
  <2>. QED BY <1>1, <2>1
<1>3. m = 1 \/ m = 2 \/ m = 3 \/ m = 4 \/ m = 5 \/ m = 6 \/ m = 7 \/ m = 8 \/ m = 9 \/ m = 10 \/ m = 11
  OBVIOUS
<1>4. /\ m = 1 => Step = "submit"
      /\ m = 2 => Step = "fill"
      /\ m = 3 => Step = "submitFull"
      /\ m = 4 => Step = "perId"
      /\ m = 5 => Step = "open"
      /\ m = 6 => Step = "release"
      /\ m = 7 => Step = "resubmit"
      /\ m = 8 => Step = "wait"
      /\ m = 9 => Step = "stop"
      /\ m = 10 => Step = "reconcile"
      /\ m = 11 => Step = "over"
  BY <1>1, <1>2 DEF StepPlace
<1>5. ASSUME plan # <<>>, plan' = Tail(plan), kind' = kind
      PROVE  /\ m = 1 => Step' = "fill"
             /\ m = 2 => Step' = "submitFull"
             /\ m = 3 => Step' = "perId"
             /\ m = 4 => Step' = "open"
             /\ m = 5 => Step' = "release"
             /\ m = 6 => Step' = "resubmit"
             /\ m = 7 => Step' = "wait"
             /\ m = 8 => Step' = "stop"
             /\ m = 9 => Step' = "reconcile"
             /\ m = 10 => Step' = "over"
  BY <1>1, <1>2, <1>5 DEF StepPlace
<1>6. plan # <<>> => m # 11
  BY <1>1, <1>2 DEF StepPlace
<1>7. Contains(plan, "open") <=> m <= 5
  <2>1. Contains(plan, "open") <=> \E j \in 1..(11 - m) : s[m - 1 + j] = "open"
    <3>1. Contains(plan, "open") <=> \E j \in 1..Len(plan) : plan[j] = "open"
      BY DEF Contains
    <3>2. Len(plan) = 11 - m /\ \A j \in 1..Len(plan) : plan[j] = s[m - 1 + j]
      BY <1>1, <1>2 DEF StepPlace
    <3>. QED BY <3>1, <3>2
  <2>2. ASSUME m <= 5 PROVE \E j \in 1..(11 - m) : s[m - 1 + j] = "open"
    <3>1. 6 - m \in 1..(11 - m) /\ m - 1 + (6 - m) = 5
      BY <2>2
    <3>. QED BY <1>1, <3>1
  <2>3. ASSUME m > 5, NEW j \in 1..(11 - m) PROVE s[m - 1 + j] # "open"
    <3>1. m - 1 + j \in {6, 7, 8, 9, 10}
      BY <2>3
    <3>. QED BY <1>1, <3>1
  <2>4. CASE m <= 5
    BY <2>1, <2>2, <2>4
  <2>5. CASE m > 5
    <3>1. ~(m <= 5)
      BY <2>5
    <3>2. ~\E j \in 1..(11 - m) : s[m - 1 + j] = "open"
      BY <2>3, <2>5
    <3>. QED BY <2>1, <3>1, <3>2
  <2>. QED BY <2>4, <2>5
<1>8. m <= 5 <=> Step \in BeforeOpen
  BY <1>3, <1>4, <1>5, <1>6 DEF BeforeOpen
<1>9. /\ Step \in BeforeOpen \union {"release", "resubmit", "wait", "stop", "reconcile", "over"}
      /\ plan # <<>> /\ plan' = Tail(plan) /\ kind' = kind =>
                   /\ Step = "submit"  => Step' = "fill"
                   /\ Step = "fill"    => Step' = "submitFull"
                   /\ Step = "submitFull" => Step' = "perId"
                   /\ Step = "perId"   => Step' = "open"
                   /\ Step = "open"    => Step' = "release"
                   /\ Step = "release" => Step' = "resubmit"
                   /\ Step = "resubmit" => Step' = "wait"
                   /\ Step = "wait"    => Step' = "stop"
                   /\ Step = "stop"    => Step' = "reconcile"
                   /\ Step = "reconcile" => Step' = "over"
  BY <1>3, <1>4, <1>5, <1>6 DEF BeforeOpen
<1>. QED BY <1>7, <1>8, <1>9
----------------------------------------------------------------------------
(* A run without faults.  Its queue behaves, its commands and its writes work. *)
NoFault == defects = 0 /\ trouble = 0

Work(i) == Claim(i) \/ Run(i) \/ RunEnds(i) \/ RenewalRefused(i)

(* A submission is answered, and what it is told is true. *)
Reply(i) ==
  /\ Step \in {"submit", "submitFull", "resubmit", "post"} /\ i \in left /\ left' = left \ {i}
  /\ \/ told' = [told EXCEPT ![i] = @ \union {"accepted"}] /\ q'[i] = (IF q[i] = "none" THEN "ready" ELSE q[i])
     \/ told' = [told EXCEPT ![i] = @ \union {"rejected"}] /\ oom /\ q'[i] = q[i]
  /\ \A j \in Ids \ {i} : q'[j] = q[j]
  /\ UNCHANGED <<kind, role, plan, own, got, live, up, oom, held, saved, starts, ends, finals, passed,
                 failed, torn, ran, fin, corrupt>>

(* The step under way is done. *)
Moving ==
  \/ Submitted \/ Seed \/ Inspect \/ Start \/ Spawn \/ Claimed \/ Kill \/ Exit2 \/ Recount
  \/ Copy \/ Restore \/ Compare \/ Replay \/ Fill \/ PerId \/ Open \/ Release
  \/ WaitOver \/ Stop \/ Reconcile

LEMMA ReplySteps ==
  ASSUME TypeOK, NEW i \in Ids, Submit(i), NoFault'
  PROVE  Reply(i)
<1>1. PICK res \in {"accepted", "rejected", "uncertain"}, there \in BOOLEAN :
       /\ told' = [told EXCEPT ![i] = @ \union {res}]
       /\ q' = IF there /\ q[i] = "none" THEN [q EXCEPT ![i] = "ready"] ELSE q
       /\ \/ res = "accepted" /\ there
          \/ res = "rejected" /\ ~there /\ oom
          \/ res = "uncertain" /\ trouble' = trouble + 1
  BY Zenon DEF Submit
<1>2. q \in [Ids -> States] /\ trouble \in Nat
  BY DEF TypeOK
<1>3. res # "uncertain" \/ trouble' # trouble + 1
  BY <1>2 DEF NoFault
<1>4. \A j \in Ids \ {i} : q'[j] = q[j]
  BY <1>1, <1>2
<1>5. CASE res = "accepted" /\ there
  <2>1. q'[i] = IF q[i] = "none" THEN "ready" ELSE q[i]
    BY <1>1, <1>2, <1>5
  <2>. QED BY <1>1, <1>4, <1>5, <2>1 DEF Reply, Submit, At, what, truth
<1>6. CASE res = "rejected" /\ ~there /\ oom
  BY <1>1, <1>2, <1>4, <1>6 DEF Reply, Submit, At, what, truth
<1>. QED BY <1>1, <1>3, <1>5, <1>6

LEMMA Undisturbed ==
  ASSUME TypeOK, [Next]_vars, NoFault'
  PROVE  /\ NoFault /\ torn' = torn /\ corrupt' = corrupt
         /\ \/ \E i \in Ids : Reply(i) \/ Poll(i) \/ (Work(i) /\ failed' = failed)
            \/ Moving
            \/ Finish \/ UNCHANGED vars
<1>0. defects \in Nat /\ trouble \in Nat /\ defects' = 0 /\ trouble' = 0
  BY DEF TypeOK, NoFault
<1>1. ASSUME NEW i \in Ids, Submit(i)
      PROVE  NoFault /\ torn' = torn /\ corrupt' = corrupt /\ Reply(i)
  <2>1. Reply(i)
    BY <1>1, ReplySteps
  <2>2. trouble' = trouble \/ trouble' = trouble + 1
    BY <1>1 DEF Submit
  <2>3. defects' = defects
    BY <1>1 DEF Submit
  <2>. QED BY <1>0, <2>1, <2>2, <2>3 DEF NoFault, Reply
<1>2. ASSUME NEW i \in Ids, Poll(i) \/ Claim(i) \/ RunEnds(i) \/ RenewalRefused(i)
      PROVE  NoFault /\ torn' = torn /\ corrupt' = corrupt /\ failed' = failed
  <2>1. UNCHANGED <<defects, trouble, torn, corrupt, failed>>
    BY <1>2 DEF Poll, Claim, RunEnds, RenewalRefused, ledger, truth
  <2>. QED BY <1>0, <2>1 DEF NoFault
<1>3. ASSUME NEW i \in Ids, Run(i)
      PROVE  NoFault /\ torn' = torn /\ corrupt' = corrupt /\ failed' = failed
  <2>1. UNCHANGED <<corrupt, failed, defects>> \/ defects' = defects + 1
    BY <1>3, Zenon DEF Run
  <2>2. UNCHANGED <<torn, trouble>>
    BY <1>3 DEF Run
  <2>3. UNCHANGED <<corrupt, failed, defects>>
    BY <1>0, <2>1
  <2>. QED BY <1>0, <2>2, <2>3 DEF NoFault
<1>4. ~CommandFails /\ (\A i \in Ids : ~Misbehave(i)) /\ \A l \in {"main", "c1", "c2"} : ~WriteFails(l)
  <2>0. trouble' # trouble + 1 /\ defects' # defects + 1
    BY <1>0
  <2>1. ~CommandFails
    BY <2>0 DEF CommandFails
  <2>2. \A i \in Ids : ~Misbehave(i)
    BY <2>0 DEF Misbehave
  <2>3. \A l \in {"main", "c1", "c2"} : ~WriteFails(l)
    BY <2>0 DEF WriteFails
  <2>. QED BY <2>1, <2>2, <2>3
<1>5. ASSUME Moving
      PROVE  NoFault /\ torn' = torn /\ corrupt' = corrupt
  <2>1. CASE Submitted \/ Seed
    BY <1>0, <2>1 DEF Submitted, Seed, NoFault, UnchangedLedger, truth
  <2>2. CASE Inspect \/ Start \/ Spawn \/ Claimed \/ Kill \/ Exit2 \/ Recount
    BY <1>0, <2>2 DEF Inspect, Start, Spawn, Claimed, Kill, Exit2, Recount, NoFault, UnchangedRest, UnchangedLedger, truth
  <2>3. CASE Copy \/ Restore \/ Compare \/ Replay \/ Fill \/ PerId
    BY <1>0, <2>3 DEF Copy, Restore, Compare, Replay, Fill, PerId, NoFault, UnchangedRest, UnchangedLedger, truth
  <2>4. CASE Open \/ Release \/ WaitOver \/ Stop \/ Reconcile
    BY <1>0, <2>4 DEF Open, Release, WaitOver, Stop, Reconcile, NoFault, UnchangedRest, UnchangedLedger, truth
  <2>. QED BY <1>5, <2>1, <2>2, <2>3, <2>4 DEF Moving
<1>6. CASE Finish
  BY <1>0, <1>6 DEF Finish, NoFault, ledger, truth
<1>7. CASE UNCHANGED vars
  BY <1>0, <1>7 DEF vars, NoFault, ledger, truth
<1>8. \/ \E i \in Ids : Submit(i) \/ Poll(i) \/ Claim(i) \/ Run(i) \/ RunEnds(i) \/ RenewalRefused(i)
      \/ Moving \/ Finish \/ UNCHANGED vars
  BY <1>4 DEF Next, Scenario, Worker, World, Moving
<1>. QED BY <1>1, <1>2, <1>3, <1>5, <1>6, <1>7, <1>8 DEF Work

(* A worker changes the task it has in hand. *)
LEMMA WorkKeeps ==
  ASSUME TypeOK, NEW i \in Ids, Work(i)
  PROVE  /\ UNCHANGED <<kind, role, plan, left, up, oom, held, saved, told, finals, passed, torn>>
         /\ \A j \in Ids \ {i} :
              /\ q'[j] = q[j] /\ own'[j] = own[j] /\ live'[j] = live[j] /\ ran'[j] = ran[j]
              /\ (j \in got' <=> j \in got)
         /\ \/ /\ up # "none" /\ i \notin got /\ i \in got' /\ own'[i] /\ q'[i] = "held"
               /\ q[i] \in {"ready", "delayed"} \/ (q[i] = "held" /\ ~own[i])
               /\ live'[i] = live[i] /\ ran'[i] = ran[i]
            \/ /\ i \in got /\ i \notin got' /\ live'[i] = live[i] + 1 /\ ran'[i] = ran[i] + 1
               /\ q'[i] = q[i] /\ own'[i] = own[i]
            \/ /\ live[i] > 0 /\ own[i] /\ i \notin got /\ i \notin got' /\ ~Holding /\ ~own'[i]
               /\ q'[i] = (IF q[i] = "held" THEN "done" ELSE q[i]) \/ (oom /\ q'[i] = q[i])
               /\ live'[i] = live[i] - 1 /\ ran'[i] = ran[i]
            \/ /\ live[i] > (IF own[i] /\ i \notin got THEN 1 ELSE 0) /\ live'[i] = live[i] - 1
               /\ q'[i] = q[i] /\ own'[i] = own[i] /\ ran'[i] = ran[i] /\ (i \in got' <=> i \in got)
            \/ /\ oom \/ q[i] # "held"
               /\ own[i] /\ i \notin got /\ i \notin got' /\ ~own'[i]
               /\ q'[i] = q[i] /\ live'[i] = live[i] /\ ran'[i] = ran[i]
<1>1. /\ q \in [Ids -> States] /\ own \in [Ids -> BOOLEAN] /\ got \subseteq Ids
      /\ live \in [Ids -> Nat] /\ ran \in [Ids -> Nat]
  BY DEF TypeOK
<1>2. CASE Claim(i)
  BY <1>1, <1>2 DEF Claim, Claimable, ledger, truth, what
<1>3. CASE Run(i)
  BY <1>1, <1>3 DEF Run, what
<1>4. CASE RunEnds(i)
  <2>1. /\ UNCHANGED <<kind, role, plan, left, up, oom, held, saved, told, finals, passed, torn, got, ran>>
        /\ live' = [live EXCEPT ![i] = @ - 1] /\ live[i] > 0
    BY <1>4 DEF RunEnds, what
  <2>2. CASE /\ own[i] /\ i \notin got /\ ~Holding /\ own' = [own EXCEPT ![i] = FALSE]
             /\ \/ q' = IF q[i] = "held" THEN [q EXCEPT ![i] = "done"] ELSE q
                \/ oom /\ UNCHANGED q
    BY <1>1, <2>1, <2>2
  <2>3. CASE live[i] > (IF own[i] /\ i \notin got THEN 1 ELSE 0) /\ UNCHANGED <<q, own, fin>>
    BY <1>1, <2>1, <2>3
  <2>. QED BY <1>4, <2>2, <2>3 DEF RunEnds
<1>5. CASE RenewalRefused(i)
  BY <1>1, <1>5 DEF RenewalRefused, ledger, what
<1>. QED BY <1>2, <1>3, <1>4, <1>5 DEF Work

(* What the steps of the scenario change. *)
LEMMA MovingKeeps ==
  ASSUME TypeOK, Moving
  PROVE  /\ UNCHANGED <<kind, role, starts, ends, finals, ran, fin, torn, corrupt>>
         /\ plan # <<>> /\ (Step = "claimed" => Enough) => Advance
         /\ Step # "seed" => told' = told
         /\ Step \notin {"seed", "restore", "replay"} => q' = q
         /\ Step # "copy" => saved' = saved
         /\ Step \notin {"start", "spawn1", "spawn2", "kill", "exit2", "stop"} => up' = up
         /\ Step \notin {"kill", "exit2", "stop"} => UNCHANGED <<own, got, live>>
         /\ Step # "kill" => held' = held
         /\ Step \notin {"fill", "release"} => oom' = oom
         /\ plan # <<>> /\ Step # "over"
<1>. USE DEF UnchangedRest, UnchangedQueue, UnchangedLedger, queue, truth, what, At
<1>1. CASE Submitted
  BY <1>1 DEF Submitted, Step
<1>2. CASE Seed
  BY <1>2 DEF Seed, Step
<1>3. CASE Inspect \/ Recount \/ PerId \/ Compare
  BY <1>3 DEF Inspect, Recount, PerId, Compare, Step
<1>4. CASE Open \/ WaitOver \/ Reconcile
  BY <1>4 DEF Open, WaitOver, Reconcile, Step
<1>5. CASE Claimed
  BY <1>5 DEF Claimed, Step
<1>6. CASE Start \/ Spawn
  BY <1>6 DEF Start, Spawn, Step
<1>7. CASE Kill
  BY <1>7 DEF Kill, Step
<1>8. CASE Exit2 \/ Stop
  BY <1>8 DEF Exit2, Stop, Step
<1>9. CASE Copy \/ Restore \/ Replay
  BY <1>9 DEF Copy, Restore, Replay, Step
<1>10. CASE Fill \/ Release
  BY <1>10 DEF Fill, Release, Step
<1>. QED BY <1>1, <1>2, <1>3, <1>4, <1>5, <1>6, <1>7, <1>8, <1>9, <1>10 DEF Moving

(* Each step has its action. *)
LEMMA ActionOf ==
  ASSUME Moving
  PROVE  /\ Step \in {"submit", "submitFull", "resubmit", "post"} => Submitted
         /\ Step = "seed" => Seed
         /\ Step = "inspect" => Inspect
         /\ Step = "start" => Start
         /\ Step \in {"spawn1", "spawn2"} => Spawn
         /\ Step = "claimed" => Claimed
         /\ Step = "kill" => Kill
         /\ Step = "exit2" => Exit2
         /\ Step = "recount" => Recount
         /\ Step = "copy" => Copy
         /\ Step = "restore" => Restore
         /\ Step = "compare" => Compare
         /\ Step = "replay" => Replay
         /\ Step = "fill" => Fill
         /\ Step = "perId" => PerId
         /\ Step = "open" => Open
         /\ Step = "release" => Release
         /\ Step \in {"wait", "waitFailed"} => WaitOver
         /\ Step = "stop" => Stop
         /\ Step = "reconcile" => Reconcile
<1>. DEFINE s == Step
<1>1. /\ Submitted => s \in {"submit", "submitFull", "resubmit", "post"}
      /\ Seed => s = "seed"
      /\ Inspect => s = "inspect"
      /\ Start => s = "start"
      /\ Spawn => s \in {"spawn1", "spawn2"}
      /\ Claimed => s = "claimed"
      /\ Kill => s = "kill"
      /\ Exit2 => s = "exit2"
      /\ Recount => s = "recount"
      /\ Copy => s = "copy"
  BY DEF Submitted, Seed, Inspect, Start, Spawn, Claimed, Kill, Exit2, Recount, Copy, At
<1>2. /\ Restore => s = "restore"
      /\ Compare => s = "compare"
      /\ Replay => s = "replay"
      /\ Fill => s = "fill"
      /\ PerId => s = "perId"
      /\ Open => s = "open"
      /\ Release => s = "release"
      /\ WaitOver => s \in {"wait", "waitFailed"}
      /\ Stop => s = "stop"
      /\ Reconcile => s = "reconcile"
  BY DEF Restore, Compare, Replay, Fill, PerId, Open, Release, WaitOver, Stop, Reconcile, At
<1>. HIDE DEF s
<1>3. \/ Submitted \/ Seed \/ Inspect \/ Start \/ Spawn \/ Claimed \/ Kill \/ Exit2 \/ Recount
      \/ Copy \/ Restore \/ Compare \/ Replay \/ Fill \/ PerId \/ Open \/ Release
      \/ WaitOver \/ Stop \/ Reconcile
  BY DEF Moving
<1>4. /\ s \in {"submit", "submitFull", "resubmit", "post"} => Submitted
      /\ s = "seed" => Seed
      /\ s = "inspect" => Inspect
      /\ s = "start" => Start
      /\ s \in {"spawn1", "spawn2"} => Spawn
      /\ s = "claimed" => Claimed
      /\ s = "kill" => Kill
      /\ s = "exit2" => Exit2
      /\ s = "recount" => Recount
      /\ s = "copy" => Copy
      /\ s = "restore" => Restore
      /\ s = "compare" => Compare
      /\ s = "replay" => Replay
      /\ s = "fill" => Fill
      /\ s = "perId" => PerId
      /\ s = "open" => Open
      /\ s = "release" => Release
      /\ s \in {"wait", "waitFailed"} => WaitOver
      /\ s = "stop" => Stop
      /\ s = "reconcile" => Reconcile
  BY <1>1, <1>2, <1>3
<1>. QED BY <1>4 DEF s

(* Full memory has refused something, once it has had the occasion. *)
Refusing == {"submit", "fill", "submitFull"}
Refused == \E i \in Ids : "rejected" \in told[i]
Calm == NoFault /\ (kind = "oom" /\ Step \notin Refusing => Refused)

(* Where the consumer is at work, and memory full. *)
Consumer ==
  IF Step \in Late \/ (kind \notin {"normal", "oom"} /\ Step \notin {"replay", "wait", "stop"})
  THEN "none" ELSE "main"
FullAt == {"submitFull", "perId", "open", "release"}

Placed ==
  NoFault =>
    /\ torn = {} /\ ~corrupt
    /\ kind # "kill" => up = Consumer /\ (kind = "oom" => (oom <=> Step \in FullAt))
    /\ kind = "kill" /\ Step \in BeforeKill => held = {}

One(b) == IF b THEN 1 ELSE 0

(* A task.  Whoever renews its claim runs it or is about to; but for full memory a
   claim ends with its run only, and a task is run once, and once more if the first
   consumer held it.  The ledger tells all of it. *)
Orderly(i) ==
  /\ q[i] # "other"
  /\ i \in got => own[i]
  /\ own[i] => q[i] = "held" /\ (i \in got \/ live[i] > 0)
  /\ i \in held => q[i] \in {"held", "done"}
  /\ role[i] = "done" => q[i] \in {"none", "done"}
  /\ kind \in {"normal", "backlog", "kill"} /\ q[i] = "held" => own[i] \/ i \in held
  /\ kind = "oom" /\ q[i] = "done" => ran[i] > 0
  /\ kind # "oom" /\ live[i] > 0 => own[i] /\ live[i] = 1 /\ i \notin got
  /\ kind # "oom" =>
       ran[i] + One(i \in got) = One(i \in held) + One(own[i] \/ (q[i] = "done" /\ role[i] # "done"))
  /\ starts[i] = ran[i] /\ ends[i] + live[i] + One(i \in held) = ran[i]

(* The state of a task follows from its role: as planned until a consumer starts, and
   further only if there is something to process. *)
Seeded == kind \in {"crash", "backup"}
ToProcess(i) ==
  Planned(i) \in {"ready", "held", "delayed"} \/ (role[i] = "replay" /\ Step # "replay")

Expected(i) ==
  /\ Seeded /\ Step = "seed" => q[i] = "none"
  /\ Seeded /\ Step = "copy" => q[i] = Planned(i)
  /\ Seeded /\ Step \in {"post", "restore"} =>
       saved[i] = Planned(i) /\ (q[i] = Planned(i) \/ (i \in Lost /\ q[i] = "ready"))
  /\ Seeded /\ Step \in {"compare", "start"} => saved[i] = Planned(i) /\ q[i] = Planned(i)
  /\ Seeded /\ Step \in {"replay", "wait", "stop"} \union Late =>
       IF ToProcess(i) THEN q[i] \in {"ready", "held", "delayed", "done"} ELSE q[i] = Planned(i)
  /\ ~Seeded => ("accepted" \in told[i] <=> q[i] # "none") /\ q[i] \notin {"failed", "delayed"}
  /\ kind = "backlog" /\ Step \in {"submit", "inspect", "start"} => q[i] \in {"none", "ready"}
  /\ kind = "oom" /\ Step \in {"submit", "fill", "submitFull", "perId"} => q[i] # "done"

(* What the ledger has of the submissions: nothing yet, "accepted", or, where memory
   was full, one refusal before it. *)
Awaiting(i) ==
  \/ role[i] \in {"plain", "before"} /\ Step = "submit" /\ i \in left
  \/ role[i] = "full" /\ (Step \in {"submit", "fill"} \/ (Step = "submitFull" /\ i \in left))
  \/ role[i] = "post" /\ (Step \in {"seed", "copy"} \/ (Step = "post" /\ i \in left))
  \/ role[i] \notin {"plain", "before", "full", "post"} /\ Step = "seed"

Answered(i) ==
  /\ Awaiting(i) => told[i] = {}
  /\ ~Awaiting(i) /\ role[i] # "full" => told[i] = {"accepted"}
  /\ ~Awaiting(i) /\ role[i] = "full" /\ Step \in FullAt => told[i] \in {{"accepted"}, {"rejected"}}
  /\ ~Awaiting(i) /\ role[i] = "full" /\ Step \notin FullAt =>
       /\ told[i] \subseteq {"accepted", "rejected"}
       /\ "accepted" \notin told[i] => Step = "resubmit" /\ i \in left

Pending(i) ==
  i \in left =>
    /\ Step = "submit" => role[i] \in {"plain", "before"}
    /\ Step = "submitFull" => role[i] = "full"
    /\ Step = "resubmit" => role[i] = "full" /\ told[i] = {"rejected"}
    /\ Step = "post" => role[i] = "post"
    /\ Step = "wait" => i \in ToBeDone
    /\ Step = "waitFailed" => i \in ExpectedFailed

(* What the polls have seen: the final state, of all tasks once a wait is over. *)
Polled(i) ==
  /\ i \in ToBeDone =>
       /\ finals[i] \subseteq {"done"} /\ ("done" \in finals[i] => q[i] = "done")
       /\ Step \in {"stop", "exit2", "recount"} \union Late \/ (Step = "wait" /\ i \notin left)
            => "done" \in finals[i]
  /\ i \in ExpectedFailed =>
       /\ finals[i] \subseteq {"failed"}
       /\ Step \in {"reconcile", "over"} \/ (Step = "waitFailed" /\ i \notin left)
            => "failed" \in finals[i]

(* No check has failed, and the ones that are due have passed. *)
Checked ==
  /\ ~failed
  /\ \A s \in Required(kind) \ {"write_ok"} : s \in passed \/ \E j \in 1..Len(plan) : plan[j] = s

Fine(i) == Orderly(i) /\ Expected(i) /\ Answered(i) /\ Pending(i) /\ Polled(i)

PeaceInv == Placed /\ (Calm => verdict # "fail" /\ Checked /\ \A i \in Ids : Fine(i))

----------------------------------------------------------------------------
LEMMA KnownKind == ASSUME TypeOK PROVE kind \in {"normal", "backlog", "kill", "crash", "oom", "backup"}
BY AcceptanceAssumption DEF TypeOK

LEMMA SameStep ==
  ASSUME plan' = plan, kind' = kind
  PROVE  Step' = Step /\ Consumer' = Consumer
BY DEF Step, Consumer

LEMMA WorkPlaced ==
  ASSUME TypeOK, Placed, NoFault, [Next]_vars, torn' = torn, corrupt' = corrupt,
         \/ \E i \in Ids : Reply(i) \/ Poll(i) \/ Work(i)
         \/ Finish \/ UNCHANGED vars
  PROVE  Placed'
<1>1. UNCHANGED <<kind, plan, up, oom, held>>
  <2>1. CASE \E i \in Ids : Reply(i) \/ Poll(i)
    BY <2>1 DEF Reply, Poll, UnchangedQueue, what
  <2>2. CASE \E i \in Ids : Work(i)
    BY <2>2, WorkKeeps
  <2>3. CASE Finish \/ UNCHANGED vars
    BY <2>3 DEF Finish, vars, what
  <2>. QED BY <2>1, <2>2, <2>3
<1>2. Step' = Step /\ Consumer' = Consumer
  BY <1>1, SameStep
<1>. QED BY <1>1, <1>2 DEF Placed

LEMMA OnlyKillClaims ==
  ASSUME TypeOK, OnPlan, Moving, Step = "claimed" PROVE kind = "kill"
BY OtherSteps

LEMMA ConsumerMoves ==
  ASSUME TypeOK, OnPlan, kind # "kill", plan # <<>>, plan' = Tail(plan), kind' = kind
  PROVE  /\ Step \notin {"start", "stop"} => Consumer' = Consumer
         /\ Step = "start" => Consumer' = "main"
         /\ Step = "stop" => Consumer' = "none"
<1>0. Step # "over"
  BY StepNotOver
<1>1. CASE kind = "normal"
  BY <1>1, <1>0, NormalSteps DEF Consumer, Late
<1>2. CASE kind = "backlog"
  BY <1>2, <1>0, BacklogSteps DEF Consumer, Late
<1>3. CASE kind = "crash"
  BY <1>3, <1>0, CrashSteps DEF Consumer, Late
<1>4. CASE kind = "backup"
  BY <1>4, <1>0, BackupSteps DEF Consumer, Late
<1>5. CASE kind = "oom"
  BY <1>5, <1>0, OomSteps DEF Consumer, Late, BeforeOpen
<1>. QED BY <1>1, <1>2, <1>3, <1>4, <1>5, KnownKind

LEMMA MovingPlaced ==
  ASSUME TypeOK, OnPlan, Placed, NoFault, Moving, torn' = torn, corrupt' = corrupt
  PROVE  Placed'
<1>1. /\ kind' = kind /\ torn = {} /\ ~corrupt
      /\ Step \notin {"start", "spawn1", "spawn2", "kill", "exit2", "stop"} => up' = up
      /\ Step # "kill" => held' = held
      /\ Step \notin {"fill", "release"} => oom' = oom
      /\ plan # <<>> /\ Step # "over"
      /\ (Step = "claimed" => Enough) => plan' = Tail(plan)
  BY MovingKeeps DEF Placed, Advance
<1>2. CASE kind # "kill"
  <2>1. plan' = Tail(plan) /\ Step \notin {"spawn1", "spawn2", "claimed", "kill", "exit2", "recount"}
    BY <1>1, <1>2, OtherSteps
  <2>2. up' = Consumer'
    <3>1. Step = "start" => up' = "main"
      BY ActionOf DEF Start
    <3>2. Step = "stop" => up' = "none"
      BY ActionOf DEF Stop
    <3>. QED BY <1>1, <1>2, <2>1, <3>1, <3>2, ConsumerMoves DEF Placed
  <2>3. kind = "oom" => (oom' <=> Step' \in FullAt)
    <3>1. SUFFICES ASSUME kind = "oom" PROVE oom' <=> Step' \in FullAt
      OBVIOUS
    <3>2. oom <=> Step \in FullAt
      BY <1>2, <3>1 DEF Placed
    <3>3. Step = "fill" => oom' = TRUE
      BY ActionOf DEF Fill
    <3>4. Step = "release" => oom' = FALSE
      BY ActionOf DEF Release
    <3>5. /\ Step \in BeforeOpen \union {"release", "resubmit", "wait", "stop", "reconcile", "over"}
          /\ Step = "submit"  => Step' = "fill"
          /\ Step = "fill"    => Step' = "submitFull"
          /\ Step = "submitFull" => Step' = "perId"
          /\ Step = "perId"   => Step' = "open"
          /\ Step = "open"    => Step' = "release"
          /\ Step = "release" => Step' = "resubmit"
          /\ Step = "resubmit" => Step' = "wait"
          /\ Step = "wait"    => Step' = "stop"
          /\ Step = "stop"    => Step' = "reconcile"
          /\ Step = "reconcile" => Step' = "over"
      BY <1>1, <2>1, <3>1, OomSteps
    <3>6. CASE Step \in {"fill", "release"}
      BY <3>3, <3>4, <3>5, <3>6 DEF FullAt
    <3>7. CASE Step \notin {"fill", "release"}
      <4>1. oom' = oom
        BY <1>1, <3>7
      <4>2. Step \in FullAt <=> Step' \in FullAt
        BY <1>1, <3>5, <3>7 DEF FullAt, BeforeOpen
      <4>. QED BY <3>2, <4>1, <4>2
    <3>. QED BY <3>6, <3>7
  <2>. QED BY <1>1, <1>2, <2>2, <2>3 DEF Placed
<1>3. CASE kind = "kill"
  <2>1. SUFFICES ASSUME Step' \in BeforeKill PROVE held' = {}
    BY <1>1, <1>3 DEF Placed
  <2>2. CASE Step = "claimed" /\ ~Enough
    <3>1. plan' = <<>>
      BY <2>2, ActionOf DEF Claimed
    <3>2. Step' = "over"
      BY <3>1 DEF Step
    <3>. QED BY <2>1, <3>2 DEF BeforeKill
  <2>3. CASE Step = "claimed" => Enough
    <3>1. Step \in BeforeKill /\ Step # "kill"
      BY <1>1, <1>3, <2>1, <2>3, KillSteps DEF BeforeKill
    <3>. QED BY <1>1, <1>3, <3>1 DEF Placed
  <2>. QED BY <2>2, <2>3
<1>. QED BY <1>2, <1>3

LEMMA PlacedNext == TypeOK /\ OnPlan /\ Placed /\ [Next]_vars => Placed'
<1>. SUFFICES ASSUME TypeOK, OnPlan, Placed, [Next]_vars, NoFault' PROVE Placed'
  BY DEF Placed
<1>1. NoFault /\ torn' = torn /\ corrupt' = corrupt
  BY Undisturbed
<1>2. CASE Moving
  BY <1>1, <1>2, MovingPlaced
<1>3. CASE \E i \in Ids : Reply(i) \/ Poll(i) \/ Work(i)
  BY <1>1, <1>3, WorkPlaced
<1>4. CASE Finish \/ UNCHANGED vars
  BY <1>1, <1>4, WorkPlaced
<1>. QED BY <1>2, <1>3, <1>4, Undisturbed

(* A run that is calm has been so. *)
LEMMA CalmBefore ==
  ASSUME TypeOK, OnPlan, Placed, [Next]_vars, Calm'
  PROVE  Calm
<1>1. NoFault' /\ NoFault
  BY Undisturbed DEF Calm
<1>2. SUFFICES ASSUME kind = "oom", Step \notin Refusing PROVE Refused
  BY <1>1 DEF Calm
<1>3. kind' = kind
  BY Moves
<1>4. Refused' => Refused
  <2>1. CASE told' = told
    BY <2>1 DEF Refused
  <2>2. CASE Seed
    BY <1>2, <2>2, OomSteps DEF Seed, At, BeforeOpen
  <2>3. ASSUME NEW i \in Ids, Submit(i) PROVE Refused' => Refused
    <3>1. Reply(i)
      BY <1>1, <2>3, ReplySteps
    <3>2. oom <=> Step \in FullAt
      BY <1>1, <1>2 DEF Placed
    <3>3. ~oom
      BY <1>2, <3>1, <3>2 DEF Reply, FullAt, Refusing
    <3>4. told' = [told EXCEPT ![i] = @ \union {"accepted"}] /\ told \in [Ids -> SUBSET {"accepted", "rejected", "uncertain"}]
      BY <3>1, <3>3 DEF Reply, TypeOK
    <3>5. \A j \in Ids : "rejected" \in told'[j] => "rejected" \in told[j]
      BY <3>4
    <3>. QED BY <3>5 DEF Refused
  <2>. QED BY <2>1, <2>2, <2>3, ToldSteps
<1>5. Step' \notin Refusing
  <2>1. CASE plan' = plan
    BY <1>2, <1>3, <2>1, SameStep
  <2>2. CASE plan # <<>> /\ plan' = Tail(plan)
    <3>1. Step # "over"
      BY <2>2, StepNotOver
    <3>. QED BY <1>2, <1>3, <2>2, <3>1, OomSteps DEF Refusing, BeforeOpen
  <2>3. CASE plan' = <<>>
    BY <2>3 DEF Step, Refusing
  <2>. QED BY <2>1, <2>2, <2>3, Moves
<1>. QED BY <1>2, <1>3, <1>4, <1>5 DEF Calm
----------------------------------------------------------------------------
(* The consumer at work. *)
LEMMA Counted ==
  ASSUME TypeOK, NEW i \in Ids
  PROVE  /\ ran[i] \in Nat /\ live[i] \in Nat /\ starts[i] \in Nat /\ ends[i] \in Nat
         /\ own[i] \in BOOLEAN /\ q[i] \in States /\ got \subseteq Ids /\ held \subseteq Ids
BY DEF TypeOK

LEMMA WorkWrites ==
  ASSUME TypeOK, torn = {}, NEW j \in Ids, Work(j), NEW i \in Ids
  PROVE  /\ starts[i] = ran[i] => starts'[i] = ran'[i]
         /\ \A x \in {0, 1} : ends[i] + live[i] + x = ran[i] => ends'[i] + live'[i] + x = ran'[i]
<1>1. CASE Claim(j) \/ RenewalRefused(j)
  BY <1>1 DEF Claim, RenewalRefused, ledger, truth
<1>2. CASE Run(j)
  <2>1. /\ live'[i] = live[i] + (IF i = j THEN 1 ELSE 0) /\ ran'[i] = ran[i] + (IF i = j THEN 1 ELSE 0)
        /\ starts'[i] = starts[i] + (IF i = j THEN 1 ELSE 0) /\ ends' = ends
    BY <1>2, RunCounts
  <2>. QED BY <2>1, Counted
<1>3. CASE RunEnds(j)
  <2>1. /\ live'[i] = live[i] - (IF i = j THEN 1 ELSE 0) /\ ran' = ran /\ starts' = starts
        /\ ends'[i] = ends[i] + (IF i = j THEN 1 ELSE 0)
    BY <1>3, EndCounts
  <2>. QED BY <2>1, Counted
<1>. QED BY <1>1, <1>2, <1>3 DEF Work

LEMMA WorkOrderly ==
  ASSUME TypeOK, Apart, torn = {}, NEW j \in Ids, Work(j), NEW i \in Ids, Orderly(i)
  PROVE  Orderly(i)'
<1>1. /\ ran[i] \in Nat /\ live[i] \in Nat /\ starts[i] \in Nat /\ ends[i] \in Nat
      /\ own[i] \in BOOLEAN /\ q[i] \in States
  BY Counted
<1>2. kind' = kind /\ role' = role /\ held' = held
  BY WorkKeeps
<1>3. starts'[i] = ran'[i] /\ ends'[i] + live'[i] + One(i \in held)' = ran'[i]
  <2>1. One(i \in held) \in {0, 1} /\ One(i \in held)' = One(i \in held)
    BY <1>2 DEF One
  <2>. QED BY <2>1, WorkWrites DEF Orderly
<1>4. CASE i # j
  <2>1. q'[i] = q[i] /\ own'[i] = own[i] /\ live'[i] = live[i] /\ ran'[i] = ran[i] /\ (i \in got' <=> i \in got)
    BY <1>4, WorkKeeps
  <2>. QED BY <1>2, <1>3, <2>1 DEF Orderly, One
<1>5. CASE i = j
  <2>1. CASE /\ i \notin got /\ i \in got' /\ own'[i] /\ q'[i] = "held"
             /\ q[i] \in {"ready", "delayed"} \/ (q[i] = "held" /\ ~own[i])
             /\ live'[i] = live[i] /\ ran'[i] = ran[i]
    BY <1>1, <1>2, <1>3, <2>1 DEF Orderly, One
  <2>2. CASE /\ i \in got /\ i \notin got' /\ live'[i] = live[i] + 1 /\ ran'[i] = ran[i] + 1
             /\ q'[i] = q[i] /\ own'[i] = own[i]
    BY <1>1, <1>2, <1>3, <2>2 DEF Orderly, One
  <2>3. CASE /\ live[i] > 0 /\ own[i] /\ i \notin got /\ i \notin got' /\ ~own'[i]
             /\ q'[i] = (IF q[i] = "held" THEN "done" ELSE q[i]) \/ (oom /\ q'[i] = q[i])
             /\ live'[i] = live[i] - 1 /\ ran'[i] = ran[i]
    BY <1>1, <1>2, <1>3, <2>3 DEF Orderly, One, Apart
  <2>4. CASE /\ live[i] > (IF own[i] /\ i \notin got THEN 1 ELSE 0) /\ live'[i] = live[i] - 1
             /\ q'[i] = q[i] /\ own'[i] = own[i] /\ ran'[i] = ran[i] /\ (i \in got' <=> i \in got)
    BY <1>1, <1>2, <1>3, <2>4 DEF Orderly, One
  <2>5. CASE /\ oom \/ q[i] # "held"
             /\ own[i] /\ i \notin got /\ i \notin got' /\ ~own'[i]
             /\ q'[i] = q[i] /\ live'[i] = live[i] /\ ran'[i] = ran[i]
    BY <1>1, <1>2, <1>3, <2>5 DEF Orderly, One, Apart
  <2>. QED BY <1>5, <2>1, <2>2, <2>3, <2>4, <2>5, WorkKeeps
<1>. QED BY <1>4, <1>5

(* The steps at which there is nothing to be at work on. *)
LEMMA WorkerUp ==
  ASSUME TypeOK, NEW j \in Ids, Work(j)
  PROVE  up # "none"
<1>1. up = "none" => got = {} /\ live[j] = 0 /\ ~own[j]
  BY DEF TypeOK
<1>. QED BY <1>1, WorkKeeps

LEMMA WorkExpected ==
  ASSUME TypeOK, OnPlan, Placed, NoFault, NEW j \in Ids, Work(j), NEW i \in Ids, Orderly(i), Expected(i)
  PROVE  Expected(i)'
<1>1. /\ kind' = kind /\ role' = role /\ told' = told /\ saved' = saved /\ Step' = Step
      /\ Planned(i)' = Planned(i) /\ ToProcess(i)' = ToProcess(i) /\ (Lost' = Lost) /\ Seeded' = Seeded
  BY WorkKeeps DEF Step, Planned, ToProcess, Lost, Seeded
<1>2. kind # "kill" => up = Consumer
  BY DEF Placed
<1>3. Seeded => Step \in {"replay", "wait", "stop"}
  BY <1>2, WorkerUp, KnownKind DEF Consumer, Seeded
<1>4. kind = "backlog" => Step \notin {"submit", "inspect", "start"}
  BY <1>2, WorkerUp DEF Consumer
<1>5. CASE q'[i] = q[i]
  BY <1>1, <1>5 DEF Expected
<1>6. CASE q'[i] # q[i]
  <2>1. i = j
    BY <1>6, WorkKeeps
  <2>2. \/ q[i] \in {"ready", "delayed"} /\ q'[i] = "held"
        \/ q[i] = "held" /\ q'[i] = "done" /\ ~Holding
    BY <1>6, <2>1, WorkKeeps
  <2>3. kind = "oom" /\ Step \in {"submit", "fill", "submitFull", "perId"} => Holding
    BY OomSteps DEF Holding, BeforeOpen
  <2>4. Seeded => ToProcess(i)
    <3>1. SUFFICES ASSUME Seeded, ~ToProcess(i) PROVE FALSE
      OBVIOUS
    <3>2. q[i] = Planned(i)
      BY <1>3, <3>1 DEF Expected
    <3>. QED BY <2>2, <3>1, <3>2 DEF ToProcess
  <2>. QED BY <1>1, <1>3, <1>4, <2>2, <2>3, <2>4 DEF Expected, Late
<1>. QED BY <1>5, <1>6

LEMMA WorkFine ==
  ASSUME TypeOK, OnPlan, Apart, Placed, NoFault, NEW j \in Ids, Work(j), NEW i \in Ids, Fine(i)
  PROVE  Fine(i)'
<1>1. Orderly(i)' /\ Expected(i)'
  BY WorkOrderly, WorkExpected DEF Fine, Placed
<1>2. /\ role' = role /\ told' = told /\ left' = left /\ finals' = finals /\ Step' = Step
      /\ ToBeDone' = ToBeDone /\ ExpectedFailed' = ExpectedFailed
  BY WorkKeeps DEF Step, ToBeDone, ExpectedFailed, Lost
<1>3. Awaiting(i)' = Awaiting(i)
  BY <1>2 DEF Awaiting
<1>4. Answered(i)' /\ Pending(i)'
  BY <1>2, <1>3 DEF Fine, Answered, Pending
<1>5. q[i] = "done" => q'[i] = "done"
  BY WorkKeeps
<1>6. Polled(i)'
  BY <1>2, <1>5 DEF Fine, Polled
<1>. QED BY <1>1, <1>4, <1>6 DEF Fine
----------------------------------------------------------------------------
(* Submissions and polls. *)
LEMMA SubmitKinds ==
  ASSUME TypeOK, OnPlan
  PROVE  /\ Seeded => Step \notin {"submit", "submitFull", "resubmit"}
         /\ Step \in {"submitFull", "resubmit"} => kind = "oom"
         /\ Step \in {"seed", "copy", "restore", "compare", "post", "replay", "waitFailed"} => Seeded
         /\ Step \in {"post", "restore"} => kind = "backup"
         /\ Step = "replay" => kind = "crash"
<1>1. CASE kind \in {"normal", "backlog"}
  BY <1>1, NormalSteps, BacklogSteps DEF Seeded
<1>2. CASE kind = "kill"
  BY <1>2, KillSteps DEF Seeded
<1>3. CASE kind = "crash"
  BY <1>3, CrashSteps DEF Seeded
<1>4. CASE kind = "backup"
  BY <1>4, BackupSteps DEF Seeded
<1>5. CASE kind = "oom"
  BY <1>5, OomSteps DEF Seeded, BeforeOpen
<1>. QED BY <1>1, <1>2, <1>3, <1>4, <1>5, KnownKind

LEMMA ReplyFine ==
  ASSUME TypeOK, OnPlan, Apart, Placed, NoFault, NEW j \in Ids, Reply(j), Fine(j), NEW i \in Ids, Fine(i)
  PROVE  Fine(i)'
<1>1. /\ UNCHANGED <<kind, role, plan, own, got, live, held, saved, starts, ends, finals, ran>>
      /\ Step' = Step /\ Planned(i)' = Planned(i) /\ ToProcess(i)' = ToProcess(i) /\ Lost' = Lost /\ Seeded' = Seeded
      /\ ToBeDone' = ToBeDone /\ ExpectedFailed' = ExpectedFailed
  BY DEF Reply, Step, Planned, ToProcess, Lost, Seeded, ToBeDone, ExpectedFailed
<1>2. CASE i # j
  <2>1. q'[i] = q[i] /\ told'[i] = told[i] /\ (i \in left' <=> i \in left)
    BY <1>2 DEF Reply, TypeOK
  <2>2. Awaiting(i)' = Awaiting(i)
    BY <1>1, <2>1 DEF Awaiting
  <2>3. Orderly(i)'
    BY <1>1, <2>1 DEF Fine, Orderly
  <2>4. Expected(i)'
    BY <1>1, <2>1 DEF Fine, Expected
  <2>5. Answered(i)' /\ Pending(i)'
    BY <1>1, <2>1, <2>2 DEF Fine, Answered, Pending
  <2>6. Polled(i)'
    BY <1>1, <2>1 DEF Fine, Polled
  <2>. QED BY <2>3, <2>4, <2>5, <2>6 DEF Fine
<1>3. CASE i = j
  <2>1. i \in left /\ i \notin left' /\ Step \in {"submit", "submitFull", "resubmit", "post"}
    BY <1>3 DEF Reply, TypeOK
  <2>2. /\ Step = "submit" => role[i] \in {"plain", "before"}
        /\ Step = "submitFull" => role[i] = "full"
        /\ Step = "resubmit" => role[i] = "full" /\ told[i] = {"rejected"}
        /\ Step = "post" => role[i] = "post"
    BY <2>1 DEF Fine, Pending
  <2>3. Step # "resubmit" => told[i] = {}
    BY <2>1, <2>2 DEF Fine, Answered, Awaiting
  <2>4. oom => Step = "submitFull"
    BY <2>1 DEF Apart, Placed, FullAt
  <2>5. \/ told'[i] = told[i] \union {"accepted"} /\ q'[i] = (IF q[i] = "none" THEN "ready" ELSE q[i])
        \/ told'[i] = told[i] \union {"rejected"} /\ Step = "submitFull" /\ q'[i] = q[i]
    BY <1>3, <2>4 DEF Reply, TypeOK
  <2>6. /\ Step \in {"submit", "post"} => told'[i] = {"accepted"}
        /\ Step = "submitFull" => told'[i] \in {{"accepted"}, {"rejected"}}
        /\ Step = "resubmit" => told'[i] = {"accepted", "rejected"}
    BY <2>2, <2>3, <2>5
  <2>7. "accepted" \in told[i] => "accepted" \in told'[i]
    BY <2>2, <2>3
  <2>8. Orderly(i)'
    BY <1>1, <2>1, <2>2, <2>5 DEF Fine, Orderly, One
  <2>9. Expected(i)'
    <3>1. CASE Step = "post"
      BY <1>1, <2>2, <2>5, <3>1, SubmitKinds DEF Fine, Expected, Lost, Seeded, Late
    <3>2. CASE Step # "post"
      <4>1. ~Seeded
        BY <2>1, <3>2, SubmitKinds
      <4>2. "accepted" \in told'[i] <=> q'[i] # "none"
        BY <2>2, <2>3, <2>5, <4>1 DEF Fine, Expected
      <4>. QED BY <1>1, <2>5, <4>1, <4>2 DEF Fine, Expected
    <3>. QED BY <3>1, <3>2
  <2>10. Answered(i)'
    BY <1>1, <2>1, <2>2, <2>6 DEF Answered, Awaiting, FullAt
  <2>11. Pending(i)'
    BY <2>1 DEF Pending
  <2>12. Polled(i)'
    BY <1>1, <2>1, <2>5 DEF Fine, Polled, Late
  <2>. QED BY <2>8, <2>9, <2>10, <2>11, <2>12 DEF Fine
<1>. QED BY <1>2, <1>3

LEMMA PollFine ==
  ASSUME TypeOK, OnPlan, NEW j \in Ids, Poll(j), Fine(j), NEW i \in Ids, Fine(i)
  PROVE  Fine(i)'
<1>1. /\ UNCHANGED <<kind, role, plan, own, got, live, held, saved, starts, ends, ran, q, told>>
      /\ Step' = Step /\ Planned(i)' = Planned(i) /\ ToProcess(i)' = ToProcess(i) /\ Lost' = Lost /\ Seeded' = Seeded
      /\ ToBeDone' = ToBeDone /\ ExpectedFailed' = ExpectedFailed
  BY DEF Poll, UnchangedQueue, queue, truth, what, Step, Planned, ToProcess, Lost, Seeded, ToBeDone, ExpectedFailed
<1>2. Step \in {"wait", "waitFailed"} /\ j \in left /\ left' = left \ {j} /\ Final(j) # {}
  BY DEF Poll, At
<1>3. finals'[j] = finals[j] \union Final(j) /\ (i # j => finals'[i] = finals[i])
  BY DEF Poll, TypeOK
<1>4. Orderly(i)' /\ Expected(i)'
  BY <1>1 DEF Fine, Orderly, Expected
<1>5. Awaiting(i)' = Awaiting(i)
  BY <1>1, <1>2 DEF Awaiting
<1>6. Answered(i)' /\ Pending(i)'
  BY <1>1, <1>2, <1>5 DEF Fine, Answered, Pending
<1>7. Polled(i)'
  <2>1. CASE i # j
    <3>1. i \in left' <=> i \in left
      BY <1>2, <2>1
    <3>. QED BY <1>1, <1>3, <2>1, <3>1 DEF Fine, Polled
  <2>2. CASE i = j /\ Step = "wait"
    <3>1. i \in ToBeDone /\ i \notin ExpectedFailed /\ q[i] # "other"
      BY <1>2, <2>2 DEF Fine, Pending, ToBeDone, Orderly
    <3>2. Final(i) = {"done"} /\ q[i] = "done"
      BY <1>2, <2>2, <3>1 DEF Final
    <3>. QED BY <1>1, <1>3, <2>2, <3>1, <3>2 DEF Fine, Polled
  <2>3. CASE i = j /\ Step = "waitFailed"
    <3>1. i \in ExpectedFailed /\ i \notin ToBeDone /\ role[i] = "failed"
      BY <1>2, <2>3 DEF Fine, Pending, ToBeDone, ExpectedFailed
    <3>2. q[i] = "failed"
      <4>1. Seeded
        BY <2>3, SubmitKinds
      <4>2. Planned(i) = "failed" /\ ~ToProcess(i)
        BY <3>1 DEF Planned, ToProcess, States
      <4>. QED BY <2>3, <4>1, <4>2 DEF Fine, Expected, Late
    <3>3. Final(i) = {"failed"}
      BY <2>3, <3>2 DEF Final
    <3>. QED BY <1>1, <1>3, <2>3, <3>1, <3>3 DEF Fine, Polled
  <2>. QED BY <1>2, <2>1, <2>2, <2>3
<1>. QED BY <1>4, <1>6, <1>7 DEF Fine

LEMMA SameFine ==
  ASSUME UNCHANGED <<kind, role, plan, left, own, got, live, held, saved, starts, ends, finals, ran, q, told>>,
         NEW i \in Ids, Fine(i)
  PROVE  Fine(i)'
<1>1. /\ Step' = Step /\ Planned(i)' = Planned(i) /\ ToProcess(i)' = ToProcess(i) /\ Lost' = Lost /\ Seeded' = Seeded
      /\ ToBeDone' = ToBeDone /\ ExpectedFailed' = ExpectedFailed
  BY DEF Step, Planned, ToProcess, Lost, Seeded, ToBeDone, ExpectedFailed
<1>2. Orderly(i)' /\ Expected(i)'
  BY <1>1 DEF Fine, Orderly, Expected
<1>3. Awaiting(i)' = Awaiting(i)
  BY <1>1 DEF Awaiting
<1>. QED BY <1>1, <1>2, <1>3 DEF Fine, Answered, Pending, Polled
----------------------------------------------------------------------------
(* From step to step. *)
LEMMA Came ==
  ASSUME TypeOK, OnPlan, plan # <<>>, plan' = Tail(plan), kind' = kind
  PROVE  /\ Step' \notin {"submit", "seed"}
         /\ Step' = "fill" => Step = "submit"
         /\ Step' = "submitFull" => Step = "fill"
         /\ Step' = "perId" => Step = "submitFull"
         /\ Step' = "open" => Step = "perId"
         /\ Step' = "release" => Step = "open"
         /\ Step' = "resubmit" => Step = "release"
         /\ Step' = "inspect" => Step = "submit"
         /\ Step' = "start" /\ kind = "backlog" => Step = "inspect"
         /\ Step' = "copy" => Step = "seed"
         /\ Step' = "post" => Step = "copy"
         /\ Step' = "restore" => Step = "post"
         /\ Step' = "compare" => IF kind = "crash" THEN Step = "copy" ELSE kind = "backup" /\ Step = "restore"
         /\ Step' = "start" /\ Seeded => Step = "compare"
         /\ Step' = "replay" => Step = "start"
         /\ Step' = "wait" /\ Seeded => IF kind = "crash" THEN Step = "replay" ELSE Step = "start"
         /\ Step' \in {"stop", "exit2"} => Step = "wait"
         /\ Step' = "recount" => Step = "exit2"
         /\ Step' = "waitFailed" => Step = "stop"
         /\ Step' = "reconcile" => IF Seeded THEN Step = "waitFailed" ELSE Step \in {"stop", "recount"}
         /\ Step' = "over" => Step = "reconcile"
<1>0. Step # "over"
  BY StepNotOver
<1>1. CASE kind = "normal"
  BY <1>0, <1>1, NormalSteps DEF Seeded
<1>2. CASE kind = "backlog"
  BY <1>0, <1>2, BacklogSteps DEF Seeded
<1>3. CASE kind = "kill"
  BY <1>0, <1>3, KillSteps DEF Seeded
<1>4. CASE kind = "crash"
  BY <1>0, <1>4, CrashSteps DEF Seeded
<1>5. CASE kind = "backup"
  BY <1>0, <1>5, BackupSteps DEF Seeded
<1>6. CASE kind = "oom"
  BY <1>0, <1>6, OomSteps DEF Seeded, BeforeOpen
<1>. QED BY <1>1, <1>2, <1>3, <1>4, <1>5, <1>6, KnownKind

LEMMA MovedOn ==
  ASSUME TypeOK, OnPlan, Moving, Step = "claimed" => Enough
  PROVE  /\ kind' = kind /\ role' = role /\ plan # <<>> /\ plan' = Tail(plan)
         /\ left' = Targets(Step')
         /\ \A i \in Ids : Planned(i)' = Planned(i)
         /\ Lost' = Lost /\ Seeded' = Seeded /\ ToBeDone' = ToBeDone /\ ExpectedFailed' = ExpectedFailed
<1>1. kind' = kind /\ role' = role /\ Advance /\ plan # <<>>
  BY MovingKeeps
<1>2. left' = Targets(Step')
  <2>1. Targets("over") = {}
    BY DEF Targets
  <2>. QED BY <1>1, <2>1 DEF Advance, Step
<1>. QED BY <1>1, <1>2 DEF Advance, Planned, Lost, Seeded, ToBeDone, ExpectedFailed

(* What the kill finds when nothing has gone wrong: each worker in its one run. *)
LEMMA AtKill ==
  ASSUME TypeOK, SoundInv, NoFault, Clean, kind = "kill", Step = "kill", NEW i \in Ids, Orderly(i)
  PROVE  /\ got = {} /\ starts[i] = ran[i] /\ live[i] = ran[i] /\ ran[i] \in {0, 1}
         /\ ran[i] = 1 <=> q[i] = "held" /\ own[i]
         /\ ran[i] = 0 => ~own[i]
<1>1. Begins /\ Enough
  BY DEF SoundInv, First, Good, NoFault, BeforeKill
<1>2. defects = 0 /\ \A j \in Ids : Begun(j)
  BY <1>1 DEF NoFault, Begins
<1>3. ASSUME NEW j \in Ids PROVE live[j] = ran[j] /\ Claims(j) \in {0, 1} /\ (Claims(j) > 0 => own[j] /\ q[j] = "held")
  <2>1. Claims(j) <= 1 /\ live[j] = ran[j] /\ (Claims(j) = 1 => own[j] /\ q[j] = "held")
    BY <1>2 DEF Begun
  <2>. QED BY <2>1, CountTypes
<1>4. got = {} /\ \A j \in Ids : starts[j] = ran[j]
  BY <1>1, <1>3, AllWritten
<1>5. Claims(i) = ran[i]
  BY <1>4, CountTypes
<1>6. own[i] => live[i] > 0
  BY <1>4 DEF Orderly
<1>. QED BY <1>3, <1>4, <1>5, <1>6

LEMMA KillOrderly ==
  ASSUME TypeOK, SoundInv, Placed, NoFault, Clean, Kill, NEW i \in Ids, Orderly(i)
  PROVE  Orderly(i)'
<1>1. Step = "kill" /\ kind = "kill"
  <2>1. Step = "kill"
    BY DEF Kill, At
  <2>. QED BY <2>1, OtherSteps DEF SoundInv
<1>2. /\ got = {} /\ starts[i] = ran[i] /\ live[i] = ran[i] /\ ran[i] \in {0, 1}
      /\ ran[i] = 1 <=> q[i] = "held" /\ own[i]
      /\ ran[i] = 0 => ~own[i]
  BY <1>1, AtKill
<1>3. i \notin held
  BY <1>1 DEF Placed, BeforeKill
<1>4. /\ kind' = kind /\ role' = role /\ q' = q /\ starts' = starts /\ ends' = ends /\ ran' = ran
      /\ live'[i] = 0 /\ got' = {} /\ ~own'[i] /\ held' = {j \in Ids : starts[j] > 0}
  BY DEF Kill, Gone, Zero, UnchangedRest, UnchangedLedger, truth, what
<1>5. i \in held' <=> ran[i] = 1
  BY <1>2, <1>4
<1>6. role[i] = "plain"
  BY <1>1 DEF TypeOK, Roles
<1>7. ends[i] + live[i] + 0 = ran[i] /\ ends[i] \in Nat
  BY <1>3, Counted DEF Orderly, One
<1>8. ends[i] = 0
  BY <1>2, <1>7
<1>9. ran[i] = 0 => q[i] # "held" /\ q[i] # "done"
  <2>1. ran[i] + 0 = 0 + One(own[i] \/ (q[i] = "done" /\ role[i] # "done"))
    BY <1>1, <1>2, <1>3 DEF Orderly, One
  <2>2. ran[i] = 0 => ~own[i] /\ q[i] # "done"
    BY <1>6, <2>1 DEF One
  <2>. QED BY <1>1, <1>3, <2>2 DEF Orderly
<1>10. CASE ran[i] = 0
  BY <1>1, <1>2, <1>4, <1>5, <1>6, <1>8, <1>9, <1>10 DEF Orderly, One
<1>11. CASE ran[i] = 1
  BY <1>1, <1>2, <1>4, <1>5, <1>6, <1>8, <1>11 DEF Orderly, One
<1>. QED BY <1>2, <1>10, <1>11

LEMMA SeededRole ==
  ASSUME TypeOK, Seeded, NEW i \in Ids
  PROVE  role[i] \in {"done", "delayed", "failed", "held", "ready", "replay", "post"}
<1>1. role[i] \in Roles[kind]
  BY DEF TypeOK
<1>. QED BY <1>1 DEF Roles, Seeded

(* The steps of the scenario keep a task orderly. *)
LEMMA MovingOrderly ==
  ASSUME TypeOK, SoundInv, Placed, NoFault, Clean, Moving, Step = "claimed" => Enough,
         NEW i \in Ids, Orderly(i), Expected(i)
  PROVE  Orderly(i)'
<1>0. OnPlan /\ (kind # "kill" => held = {} /\ up = Consumer)
  BY DEF SoundInv, CountsMean, Placed
<1>1. /\ kind' = kind /\ role' = role /\ starts' = starts /\ ends' = ends /\ ran' = ran
      /\ Step \notin {"seed", "restore", "replay"} => q' = q
      /\ Step \notin {"kill", "exit2", "stop"} => own' = own /\ got' = got /\ live' = live
      /\ Step # "kill" => held' = held
  BY MovingKeeps
<1>2. CASE Step = "kill"
  BY <1>2, ActionOf, KillOrderly
<1>3. CASE Step \in {"exit2", "stop"}
  <2>1. got = {} /\ live[i] = 0 /\ got' = {} /\ live'[i] = 0 /\ ~own'[i]
    BY <1>3, ActionOf DEF Exit2, Stop, Idle, Gone, Zero
  <2>2. ~own[i]
    BY <2>1 DEF Orderly
  <2>3. (own'[i] \/ (q[i] = "done" /\ role[i] # "done")) <=> (own[i] \/ (q[i] = "done" /\ role[i] # "done"))
    BY <2>1, <2>2
  <2>. QED BY <1>1, <1>3, <2>1, <2>2 DEF Orderly, One
<1>4. CASE Step \in {"seed", "restore"}
  <2>1. Seeded /\ kind # "kill" /\ up = "none"
    BY <1>0, <1>4, SubmitKinds DEF Seeded, Consumer
  <2>2. ~own[i] /\ i \notin got /\ live[i] = 0 /\ held = {}
    BY <1>0, <2>1 DEF TypeOK
  <2>3. q'[i] = Planned(i)
    <3>1. CASE Step = "seed"
      <4>1. q'[i] = (IF i \in Lost THEN q[i] ELSE Planned(i)) /\ q[i] = "none"
        BY <2>1, <3>1, ActionOf DEF Seed, Expected
      <4>2. i \in Lost => Planned(i) = "none"
        BY DEF Lost, Planned, States
      <4>. QED BY <4>1, <4>2
    <3>2. CASE Step = "restore"
      BY <2>1, <3>2, ActionOf DEF Restore, Expected
    <3>. QED BY <1>4, <3>1, <3>2
  <2>4. /\ Planned(i) # "other" /\ (Planned(i) = "done" <=> role[i] = "done")
    BY <2>1, SeededRole DEF Planned, States
  <2>5. q[i] = "done" => role[i] = "done"
    <3>1. CASE Step = "seed"
      BY <2>1, <3>1 DEF Expected
    <3>2. CASE Step = "restore"
      BY <2>1, <2>4, <3>2 DEF Expected
    <3>. QED BY <1>4, <3>1, <3>2
  <2>. QED BY <1>1, <1>4, <2>1, <2>2, <2>3, <2>4, <2>5 DEF Orderly, One, Seeded
<1>5. CASE Step = "replay"
  <2>1. kind = "crash" /\ held = {}
    BY <1>0, <1>5, SubmitKinds
  <2>2. PICK again : /\ again \subseteq {j \in Ids : role[j] = "done"}
                     /\ q' = [j \in Ids |->
                           IF (role[j] = "replay" /\ q[j] = "failed") \/ (j \in again /\ q[j] = "none")
                           THEN "ready" ELSE q[j]]
    <3>. DEFINE done == {j \in Ids : role[j] = "done"}
    <3>1. \E again \in IF done = {} THEN {{}} ELSE {{j} : j \in done} :
             q' = [j \in Ids |->
                     IF (role[j] = "replay" /\ q[j] = "failed") \/ (j \in again /\ q[j] = "none")
                     THEN "ready" ELSE q[j]]
      BY <1>5, ActionOf, Zenon DEF Replay
    <3>2. \A again \in IF done = {} THEN {{}} ELSE {{j} : j \in done} : again \subseteq done
      OBVIOUS
    <3>. HIDE DEF done
    <3>3. \E again : again \subseteq done /\
             q' = [j \in Ids |->
                     IF (role[j] = "replay" /\ q[j] = "failed") \/ (j \in again /\ q[j] = "none")
                     THEN "ready" ELSE q[j]]
      BY <3>1, <3>2
    <3>. QED BY <3>3 DEF done
  <2>3. role[i] = "done" => q[i] = "done"
    BY <1>5, <2>1 DEF Expected, Seeded, ToProcess, Planned, States
  <2>4. q'[i] = q[i] \/ (q[i] = "failed" /\ role[i] = "replay" /\ q'[i] = "ready")
    BY <2>2, <2>3
  <2>. QED BY <1>1, <1>5, <2>1, <2>4 DEF Orderly, One
<1>6. CASE Step \notin {"kill", "exit2", "stop", "seed", "restore", "replay"}
  BY <1>1, <1>6 DEF Orderly, One
<1>. QED BY <1>2, <1>3, <1>4, <1>5, <1>6
----------------------------------------------------------------------------
LEMMA ReplayQueue ==
  ASSUME TypeOK, Replay, NEW i \in Ids, q[i] # "none"
  PROVE  q'[i] = IF role[i] = "replay" /\ q[i] = "failed" THEN "ready" ELSE q[i]
<1>. DEFINE done == {j \in Ids : role[j] = "done"}
<1>1. \E again \in IF done = {} THEN {{}} ELSE {{j} : j \in done} :
         q' = [j \in Ids |->
                 IF (role[j] = "replay" /\ q[j] = "failed") \/ (j \in again /\ q[j] = "none")
                 THEN "ready" ELSE q[j]]
  BY Zenon DEF Replay
<1>. HIDE DEF done
<1>. QED BY <1>1

LEMMA MovingExpected ==
  ASSUME TypeOK, OnPlan, Moving, Step = "claimed" => Enough, NEW i \in Ids, Expected(i)
  PROVE  Expected(i)'
<1>1. /\ kind' = kind /\ role' = role /\ plan # <<>> /\ plan' = Tail(plan) /\ Planned(i)' = Planned(i)
      /\ Lost' = Lost /\ Seeded' = Seeded
  BY MovedOn
<1>2. /\ Step \notin {"seed", "restore", "replay"} => q' = q
      /\ Step # "copy" => saved' = saved
      /\ Step # "seed" => told' = told
  BY MovingKeeps
<1>3. Step \in {"seed", "restore", "replay", "copy"} => Seeded
  BY SubmitKinds
<1>4. CASE ~Seeded
  BY <1>1, <1>2, <1>3, <1>4, Came DEF Expected
<1>5. CASE Seeded
  <2>1. kind \in {"crash", "backup"} /\ kind' \in {"crash", "backup"}
    BY <1>1, <1>5 DEF Seeded
  <2>2. Step' # "seed"
    BY <1>1, Came
  <2>3. Step' = "copy" => q'[i] = Planned(i)
    <3>1. SUFFICES ASSUME Step = "seed" PROVE q'[i] = Planned(i)
      BY <1>1, Came
    <3>2. q'[i] = (IF i \in Lost THEN q[i] ELSE Planned(i)) /\ q[i] = "none"
      BY <1>5, <3>1, ActionOf DEF Seed, Expected
    <3>3. i \in Lost => Planned(i) = "none"
      BY DEF Lost, Planned, States
    <3>. QED BY <3>2, <3>3
  <2>4. Step = "copy" => saved' = q
    BY ActionOf DEF Copy
  <2>5. Step = "restore" => q' = saved
    BY ActionOf DEF Restore
  <2>6. Step' \in {"post", "restore"} =>
          saved'[i] = Planned(i) /\ (q'[i] = Planned(i) \/ (i \in Lost /\ q'[i] = "ready"))
    BY <1>1, <1>2, <1>5, <2>4, Came DEF Expected
  <2>7. Step' \in {"compare", "start"} => saved'[i] = Planned(i) /\ q'[i] = Planned(i)
    BY <1>1, <1>2, <1>5, <2>4, <2>5, Came DEF Expected
  <2>8. ASSUME Step' \in {"replay", "wait", "stop"} \union Late
        PROVE  IF ToProcess(i)' THEN q'[i] \in {"ready", "held", "delayed", "done"} ELSE q'[i] = Planned(i)
    <3>1. CASE Step \in {"wait", "stop"} \union Late
      <4>1. ToProcess(i)' = ToProcess(i)
        <5>1. Step' # "replay"
          BY <1>1, <3>1, Came DEF Late
        <5>. QED BY <1>1, <3>1, <5>1 DEF ToProcess, Late
      <4>2. q' = q
        BY <1>2, <3>1 DEF Late
      <4>3. IF ToProcess(i) THEN q[i] \in {"ready", "held", "delayed", "done"} ELSE q[i] = Planned(i)
        BY <1>5, <3>1 DEF Expected
      <4>. QED BY <4>1, <4>2, <4>3
    <3>2. CASE Step = "start"
      <4>1. q'[i] = Planned(i)
        BY <1>2, <1>5, <3>2 DEF Expected
      <4>2. ToProcess(i)' => Planned(i) \in {"ready", "held", "delayed"}
        <5>1. Step' = "replay" \/ kind # "crash"
          BY <1>1, <3>2, CrashSteps
        <5>2. kind # "crash" => role[i] # "replay"
          <6>1. role[i] \in Roles[kind]
            BY DEF TypeOK
          <6>. QED BY <2>1, <6>1 DEF Roles
        <5>. QED BY <1>1, <5>1, <5>2 DEF ToProcess
      <4>. QED BY <4>1, <4>2
    <3>3. CASE Step = "replay"
      <4>1. Step' = "wait"
        BY <1>1, <2>8, <3>3, Came DEF Late
      <4>2. IF ToProcess(i) THEN q[i] \in {"ready", "held", "delayed", "done"} ELSE q[i] = Planned(i)
        BY <1>5, <3>3 DEF Expected
      <4>3. Planned(i) # "none"
        <5>1. role[i] # "post"
          <6>1. role[i] \in Roles[kind] /\ kind = "crash"
            BY <3>3, SubmitKinds DEF TypeOK
          <6>. QED BY <6>1 DEF Roles
        <5>. QED BY <1>5, <5>1, SeededRole DEF Planned, States
      <4>4. q'[i] = IF role[i] = "replay" /\ q[i] = "failed" THEN "ready" ELSE q[i]
        BY <3>3, <4>2, <4>3, ActionOf, ReplayQueue
      <4>5. CASE role[i] = "replay"
        <5>1. Planned(i) = "failed" /\ ~ToProcess(i) /\ ToProcess(i)'
          BY <1>1, <3>3, <4>1, <4>5 DEF Planned, ToProcess, States
        <5>. QED BY <4>2, <4>4, <4>5, <5>1
      <4>6. CASE role[i] # "replay"
        <5>1. ToProcess(i)' = ToProcess(i)
          BY <1>1, <4>6 DEF ToProcess
        <5>. QED BY <4>2, <4>4, <4>6, <5>1
      <4>. QED BY <4>5, <4>6
    <3>4. Step \in {"wait", "stop", "start", "replay"} \union Late
      BY <1>1, <1>5, <2>8, Came DEF Late
    <3>. QED BY <3>1, <3>2, <3>3, <3>4
  <2>. QED BY <1>1, <1>5, <2>1, <2>2, <2>3, <2>6, <2>7, <2>8 DEF Expected
<1>. QED BY <1>4, <1>5

LEMMA MovingAnswered ==
  ASSUME TypeOK, OnPlan, Moving, Step = "claimed" => Enough, NEW i \in Ids, Answered(i),
         Step \in {"submit", "submitFull", "resubmit", "post"} => left = {}
  PROVE  Answered(i)' /\ Pending(i)'
<1>1. /\ kind' = kind /\ role' = role /\ plan # <<>> /\ plan' = Tail(plan) /\ left' = Targets(Step')
      /\ Lost' = Lost /\ ToBeDone' = ToBeDone /\ ExpectedFailed' = ExpectedFailed
  BY MovedOn
<1>2. Step # "seed" => told' = told
  BY MovingKeeps
<1>3. role[i] \in Roles[kind] /\ Step # "over"
  BY StepNotOver, MovingKeeps DEF TypeOK
<1>4. i \in left' <=>
        \/ Step' = "submitFull" /\ role[i] = "full"
        \/ Step' = "resubmit" /\ role[i] = "full" /\ told[i] # {"accepted"}
        \/ Step' = "post" /\ role[i] = "post"
        \/ Step' = "wait" /\ i \in ToBeDone
        \/ Step' = "waitFailed" /\ i \in ExpectedFailed
  BY <1>1 DEF Targets, Lost
<1>5. CASE Step = "seed"
  <2>1. Seeded /\ Step' = "copy"
    <3>1. Seeded
      BY <1>5, SubmitKinds
    <3>. QED BY <1>1, <1>5, <3>1, CrashSteps, BackupSteps DEF Seeded
  <2>2. role[i] \notin {"plain", "before", "full"}
    BY <2>1, SeededRole
  <2>3. told'[i] = IF role[i] = "post" THEN {} ELSE {"accepted"}
    BY <1>5, ActionOf DEF Seed, Lost
  <2>4. i \notin left'
    BY <1>4, <2>1
  <2>. QED BY <1>1, <2>1, <2>2, <2>3, <2>4 DEF Answered, Awaiting, Pending, FullAt
<1>6. CASE Step # "seed" /\ role[i] = "full"
  <2>1. kind = "oom"
    <3>1. "full" \in Roles[kind]
      BY <1>3, <1>6
    <3>. QED BY <3>1, KnownKind DEF Roles
  <2>2. /\ Step \in {"submit", "fill", "submitFull", "perId", "open", "release", "resubmit", "wait",
                     "stop", "reconcile"}
        /\ Step = "submit"  => Step' = "fill"
        /\ Step = "fill"    => Step' = "submitFull"
        /\ Step = "submitFull" => Step' = "perId"
        /\ Step = "perId"   => Step' = "open"
        /\ Step = "open"    => Step' = "release"
        /\ Step = "release" => Step' = "resubmit"
        /\ Step = "resubmit" => Step' = "wait"
        /\ Step = "wait"    => Step' = "stop"
        /\ Step = "stop"    => Step' = "reconcile"
        /\ Step = "reconcile" => Step' = "over"
    BY <1>1, <1>3, <2>1, OomSteps DEF BeforeOpen
  <2>3. told' = told
    BY <1>2, <1>6
  <2>4. CASE Step \in {"submit", "fill"}
    BY <1>1, <1>4, <1>6, <2>2, <2>3, <2>4 DEF Answered, Awaiting, Pending, FullAt
  <2>5. CASE Step \in {"submitFull", "perId", "open", "release"}
    <3>1. told[i] \in {{"accepted"}, {"rejected"}}
      BY <1>6, <2>5 DEF Answered, Awaiting, FullAt
    <3>2. i \notin ExpectedFailed
      BY <1>6 DEF ExpectedFailed
    <3>. QED BY <1>1, <1>4, <1>6, <2>2, <2>3, <2>5, <3>1, <3>2 DEF Answered, Awaiting, Pending, FullAt
  <2>6. CASE Step \in {"resubmit", "wait", "stop", "reconcile"}
    <3>1. told[i] \subseteq {"accepted", "rejected"} /\ "accepted" \in told[i]
      BY <1>6, <2>6 DEF Answered, Awaiting, FullAt
    <3>. QED BY <1>1, <1>4, <1>6, <2>2, <2>3, <2>6, <3>1 DEF Answered, Awaiting, Pending, FullAt
  <2>. QED BY <2>2, <2>4, <2>5, <2>6
<1>7. CASE Step # "seed" /\ role[i] = "post"
  <2>1. kind = "backup"
    <3>1. "post" \in Roles[kind]
      BY <1>3, <1>7
    <3>. QED BY <3>1, KnownKind DEF Roles
  <2>2. /\ Step \in {"copy", "post"} \/ Step' \notin {"copy", "post"}
        /\ Step = "copy" => Step' = "post"
        /\ Step = "post" => Step' = "restore"
        /\ Step' \notin {"seed", "submit", "submitFull", "resubmit"}
    BY <1>1, <1>3, <1>7, <2>1, BackupSteps
  <2>3. told' = told
    BY <1>2, <1>7
  <2>4. CASE Step = "copy"
    BY <1>1, <1>4, <1>7, <2>2, <2>3, <2>4 DEF Answered, Awaiting, Pending
  <2>5. CASE Step # "copy"
    <3>1. told[i] = {"accepted"}
      BY <1>7, <2>5 DEF Answered, Awaiting
    <3>. QED BY <1>1, <1>4, <1>7, <2>2, <2>3, <2>5, <3>1 DEF Answered, Awaiting, Pending
  <2>. QED BY <2>4, <2>5
<1>8. CASE Step # "seed" /\ role[i] \notin {"full", "post"}
  <2>1. told'[i] = told[i] /\ told[i] = {"accepted"}
    BY <1>2, <1>8 DEF Answered, Awaiting
  <2>2. Step' \notin {"submit", "seed"}
    BY <1>1, Came
  <2>. QED BY <1>1, <1>4, <1>8, <2>1, <2>2 DEF Answered, Awaiting, Pending
<1>. QED BY <1>5, <1>6, <1>7, <1>8

LEMMA MovingPolled ==
  ASSUME TypeOK, OnPlan, Moving, Step = "claimed" => Enough, NEW i \in Ids, Expected(i), Polled(i),
         Step \in {"wait", "waitFailed"} => left = {}
  PROVE  Polled(i)'
<1>1. /\ kind' = kind /\ role' = role /\ plan # <<>> /\ plan' = Tail(plan) /\ left' = Targets(Step')
      /\ ToBeDone' = ToBeDone /\ ExpectedFailed' = ExpectedFailed
  BY MovedOn
<1>2. finals' = finals /\ (Step \notin {"seed", "restore", "replay"} => q' = q)
  BY MovingKeeps
<1>3. q[i] = "done" => q'[i] = "done"
  <2>1. SUFFICES ASSUME q[i] = "done", Step \in {"seed", "restore", "replay"} PROVE q'[i] = "done"
    BY <1>2
  <2>2. Seeded
    BY <2>1, SubmitKinds
  <2>3. CASE Step = "seed"
    BY <2>1, <2>2, <2>3 DEF Expected
  <2>4. CASE Step = "restore"
    BY <2>1, <2>2, <2>4, ActionOf DEF Expected, Restore
  <2>5. CASE Step = "replay"
    BY <2>1, <2>5, ActionOf, ReplayQueue
  <2>. QED BY <2>1, <2>3, <2>4, <2>5
<1>4. i \in ToBeDone /\ Step' = "wait" => i \in left'
  BY <1>1 DEF Targets
<1>5. i \in ExpectedFailed /\ Step' = "waitFailed" => i \in left'
  BY <1>1 DEF Targets
<1>6. i \in ExpectedFailed => Seeded
  <2>1. SUFFICES ASSUME role[i] = "failed" PROVE Seeded
    BY DEF ExpectedFailed
  <2>2. "failed" \in Roles[kind]
    BY <2>1 DEF TypeOK
  <2>. QED BY <2>2, KnownKind DEF Roles, Seeded
<1>7. Step' \in {"stop", "exit2", "recount"} \union Late =>
        Step \in {"wait", "stop", "exit2", "recount"} \union Late
  BY <1>1, Came DEF Late
<1>8. Seeded /\ Step' \in {"reconcile", "over"} => Step \in {"waitFailed", "reconcile"}
  BY <1>1, Came
<1>. QED BY <1>1, <1>2, <1>3, <1>4, <1>5, <1>6, <1>7, <1>8 DEF Polled, Late
----------------------------------------------------------------------------
(* In a calm run no check fails. *)
Peace == TypeOK /\ SoundInv /\ Placed /\ Calm /\ Checked /\ \A i \in Ids : Fine(i)

LEMMA PeaceMeans ==
  ASSUME Peace
  PROVE  /\ TypeOK /\ SoundInv /\ Placed /\ Calm /\ NoFault /\ Clean /\ Apart /\ torn = {} /\ OnPlan
         /\ \A i \in Ids : /\ Orderly(i) /\ Expected(i) /\ Answered(i) /\ Pending(i) /\ Polled(i)
                           /\ role[i] \in Roles[kind]
BY DEF Peace, Calm, Placed, Checked, Clean, SoundInv, Fine, TypeOK

LEMMA OtherKinds ==
  ASSUME TypeOK, OnPlan
  PROVE  /\ Step = "inspect" => kind = "backlog"
         /\ Step = "perId" => kind = "oom"
         /\ Step \in {"claimed", "kill", "exit2", "recount"} => kind = "kill"
         /\ Step = "submitFull" /\ plan # <<>> /\ plan' = Tail(plan) /\ kind' = kind => Step' = "perId"
<1>1. CASE kind \in {"normal", "backlog"}
  BY <1>1, NormalSteps, BacklogSteps
<1>2. CASE kind = "kill"
  BY <1>2, KillSteps
<1>3. CASE kind \in {"crash", "backup"}
  BY <1>3, CrashSteps, BackupSteps
<1>4. CASE kind = "oom"
  BY <1>4, OomSteps DEF BeforeOpen
<1>. QED BY <1>1, <1>2, <1>3, <1>4, KnownKind

(* The replies are as each step of the submissions expects. *)
LEMMA SubmittedWell ==
  ASSUME Peace, Calm', Submitted
  PROVE  /\ At({"submitFull"}) => \E i \in Ids : told[i] = {"rejected"}
         /\ At({"submit"})     => \A i \in Ids : role[i] # "full" => told[i] = {"accepted"}
         /\ At({"resubmit"})   => \A i \in Ids : "accepted" \in told[i]
         /\ At({"post"})       => \A i \in Lost : told[i] = {"accepted"}
<1>0. TypeOK /\ OnPlan /\ \A i \in Ids : Answered(i) /\ role[i] \in Roles[kind]
  BY PeaceMeans
<1>1. left = {} /\ plan # <<>> /\ plan' = Tail(plan) /\ kind' = kind /\ told' = told
  BY DEF Submitted, Advance, UnchangedLedger, what, At, Step
<1>2. ASSUME Step = "submitFull" PROVE \E i \in Ids : told[i] = {"rejected"}
  <2>1. kind' = "oom" /\ Step' = "perId"
    BY <1>0, <1>1, <1>2, SubmitKinds, OtherKinds
  <2>2. PICK i \in Ids : "rejected" \in told[i]
    BY <1>1, <2>1 DEF Calm, Refused, Refusing
  <2>3. told[i] # {} /\ told[i] # {"accepted"}
    BY <2>2
  <2>4. Answered(i)
    BY <1>0
  <2>5. ~Awaiting(i) /\ role[i] = "full"
    BY <2>3, <2>4 DEF Answered
  <2>6. told[i] = {"rejected"}
    BY <1>2, <2>3, <2>4, <2>5 DEF Answered, FullAt
  <2>. QED BY <2>6
<1>3. ASSUME Step = "submit", NEW i \in Ids, role[i] # "full" PROVE told[i] = {"accepted"}
  <2>1. ~Seeded
    BY <1>0, <1>3, SubmitKinds
  <2>2. role[i] \in {"plain", "before"}
    BY <1>0, <1>3, <2>1, KnownKind DEF Roles, Seeded
  <2>3. ~Awaiting(i)
    BY <1>1, <1>3, <2>2 DEF Awaiting
  <2>. QED BY <1>0, <1>3, <2>3 DEF Answered
<1>4. ASSUME Step = "resubmit", NEW i \in Ids PROVE "accepted" \in told[i]
  <2>1. ~Awaiting(i)
    BY <1>4 DEF Awaiting
  <2>. QED BY <1>0, <1>1, <1>4, <2>1 DEF Answered, FullAt
<1>5. ASSUME Step = "post", NEW i \in Lost PROVE told[i] = {"accepted"}
  <2>1. i \in Ids /\ role[i] = "post"
    BY DEF Lost
  <2>2. ~Awaiting(i)
    BY <1>1, <1>5, <2>1 DEF Awaiting
  <2>. QED BY <1>0, <2>1, <2>2 DEF Answered
<1>. QED BY <1>2, <1>3, <1>4, <1>5 DEF At

LEMMA InspectedWell == ASSUME Peace, Step = "inspect" PROVE In("ready") = Ids
<1>1. kind = "backlog" /\ \A i \in Ids : Answered(i) /\ Expected(i) /\ role[i] = "plain"
  <2>1. kind = "backlog"
    BY PeaceMeans, OtherKinds
  <2>. QED BY <2>1, PeaceMeans DEF Roles
<1>2. ASSUME NEW i \in Ids PROVE q[i] = "ready"
  <2>1. told[i] = {"accepted"}
    BY <1>1 DEF Answered, Awaiting
  <2>. QED BY <1>1, <2>1 DEF Expected, Seeded
<1>. QED BY <1>2 DEF In

(* The first consumer has not begun enough runs, and nothing is left to claim: there is
   a run under way for every task. *)
LEMMA ClaimedWell == ASSUME Peace, Claimed PROVE Enough
<1>. SUFFICES ASSUME ~Enough PROVE FALSE
  OBVIOUS
<1>1. Step = "claimed" /\ kind = "kill" /\ Quiet
  <2>1. Step = "claimed" /\ Quiet
    BY DEF Claimed, At
  <2>. QED BY <2>1, PeaceMeans, OtherKinds
<1>2. up = "c1" /\ Begins
  BY <1>1, PeaceMeans DEF SoundInv, First, Good, NoFault, BeforeKill
<1>3. /\ got = {} /\ held = {} /\ live \in [Ids -> Nat] /\ starts \in [Ids -> Nat] /\ ~oom
      /\ \A i \in Ids : ~Claimable(i) /\ Orderly(i) /\ Expected(i) /\ Answered(i) /\ role[i] = "plain"
  <2>1. got = {} /\ \A i \in Ids : ~Claimable(i)
    BY <1>1 DEF Quiet
  <2>2. held = {} /\ ~oom
    BY <1>1, PeaceMeans DEF Placed, BeforeKill, Apart
  <2>. QED BY <1>1, <2>1, <2>2, PeaceMeans, TotalsOf DEF Roles
<1>4. \A i \in Ids : starts[i] = ran[i] /\ live[i] <= starts[i]
  <2>. TAKE i \in Ids
  <2>1. starts[i] = ran[i] /\ ends[i] + live[i] + 0 = ran[i]
    BY <1>3 DEF Orderly, One
  <2>2. TypeOK
    BY PeaceMeans
  <2>. QED BY <2>1, <2>2, Counted
<1>5. Total(live) <= Total(starts) /\ Total(live) \in Nat /\ Total(starts) \in Nat
  BY <1>3, <1>4, TotalUp, UnitsFinite
<1>6. Held \in Nat /\ Cardinality(got) = 0 /\ TypeOK /\ Held <= Cardinality(Ids) /\ Cardinality(Ids) \in Nat
  BY <1>3, PeaceMeans, Finite, AcceptanceAssumption, FS_EmptySet, FS_CardinalityType
<1>7. Total(live) + Cardinality(got) < Held
  BY <1>5, <1>6 DEF Enough
<1>8. ASSUME NEW i \in Ids PROVE live[i] = 1
  <2>1. q[i] # "ready" /\ q[i] # "delayed" /\ (q[i] = "held" => own[i])
    BY <1>2, <1>3, <1>7 DEF Claimable
  <2>2. q[i] # "none" /\ q[i] # "failed"
    <3>1. told[i] = {"accepted"}
      BY <1>1, <1>3 DEF Answered, Awaiting
    <3>. QED BY <1>1, <1>3, <3>1 DEF Expected, Seeded
  <2>3. q[i] # "done"
    <3>1. SUFFICES ASSUME q[i] = "done" PROVE FALSE
      OBVIOUS
    <3>2. ran[i] + 0 = 0 + 1
      BY <1>1, <1>3, <3>1 DEF Orderly, One
    <3>3. Claims(i) = 1
      BY <1>3, <1>6, <3>2, CountTypes
    <3>4. defects = 0 /\ Begun(i)
      BY <1>2, PeaceMeans DEF Begins, NoFault
    <3>. QED BY <3>1, <3>3, <3>4 DEF Begun
  <2>4. q[i] \in States /\ q[i] # "other" /\ live[i] \in Nat
    BY <1>3, <1>6, Counted DEF Orderly
  <2>5. own[i]
    BY <2>1, <2>2, <2>3, <2>4 DEF States
  <2>. QED BY <1>1, <1>3, <2>4, <2>5 DEF Orderly
<1>9. Total(live) = Cardinality(Ids)
  BY <1>3, <1>8, TotalOfOnes
<1>. QED BY <1>5, <1>6, <1>7, <1>9
----------------------------------------------------------------------------
LEMMA KilledWell == ASSUME Peace, Kill PROVE Cardinality(In("held")) = Cardinality(held')
<1>1. Step = "kill" /\ kind = "kill"
  <2>1. Step = "kill"
    BY DEF Kill, At
  <2>. QED BY <2>1, PeaceMeans, OtherKinds
<1>2. held' = {i \in Ids : starts[i] > 0} /\ held = {}
  BY <1>1, PeaceMeans DEF Kill, Placed, BeforeKill
<1>3. ASSUME NEW i \in Ids PROVE q[i] = "held" <=> starts[i] > 0
  <2>1. /\ starts[i] = ran[i] /\ ran[i] \in {0, 1} /\ (ran[i] = 1 <=> q[i] = "held" /\ own[i]) /\ Orderly(i)
    BY <1>1, AtKill, PeaceMeans
  <2>2. q[i] = "held" => own[i]
    BY <1>1, <1>2, <2>1 DEF Orderly
  <2>. QED BY <2>1, <2>2
<1>4. In("held") = held'
  BY <1>2, <1>3 DEF In
<1>. QED BY <1>4

LEMMA RecountedWell ==
  ASSUME Peace, Step = "recount"
  PROVE  Repeats = Cardinality(held) /\ \A i \in held : starts[i] >= 2
<1>0. kind = "kill" /\ TypeOK /\ held \in SUBSET Ids
  BY PeaceMeans, OtherKinds DEF TypeOK
<1>1. ASSUME NEW i \in Ids PROVE starts[i] = 1 + One(i \in held)
  <2>1. role[i] = "plain" /\ Orderly(i) /\ Polled(i)
    BY <1>0, PeaceMeans DEF Roles
  <2>2. i \in ToBeDone
    BY <2>1 DEF ToBeDone, Lost, ExpectedFailed
  <2>3. q[i] = "done"
    BY <2>1, <2>2 DEF Polled
  <2>4. i \notin got /\ starts[i] = ran[i] /\ ran[i] + One(i \in got) = One(i \in held) + 1
    BY <1>0, <2>1, <2>3 DEF Orderly, One
  <2>. QED BY <1>0, <2>4, Counted DEF One
<1>. DEFINE g == [i \in Ids |-> IF starts[i] = 0 THEN 0 ELSE starts[i] - 1]
<1>2. \A i \in Ids : g[i] = IF i \in held THEN 1 ELSE 0
  BY <1>1 DEF One
<1>3. g \in [Ids -> Nat]
  <2>1. \A i \in Ids : (IF starts[i] = 0 THEN 0 ELSE starts[i] - 1) \in Nat
    BY <1>1 DEF One
  <2>. QED BY <2>1
<1>4. Repeats = Total(g)
  BY DEF Repeats
<1>. HIDE DEF g
<1>5. Total(g) = Cardinality(held)
  BY <1>0, <1>2, <1>3, TotalOfOnes
<1>6. \A i \in held : starts[i] >= 2
  BY <1>0, <1>1 DEF One
<1>. QED BY <1>4, <1>5, <1>6

LEMMA CopiedWell == ASSUME Peace, Step = "copy" PROVE AsPlanned
<1>1. \A i \in Ids : q[i] = Planned(i)
  BY PeaceMeans, SubmitKinds DEF Expected
<1>2. \A s \in States : In(s) = {i \in Ids : Planned(i) = s}
  BY <1>1 DEF In
<1>. QED BY <1>2 DEF AsPlanned

LEMMA ComparedWell == ASSUME Peace, Step = "compare" PROVE q = saved /\ \A i \in Lost : q[i] \notin Record
<1>1. \A i \in Ids : q[i] = Planned(i) /\ saved[i] = Planned(i)
  BY PeaceMeans, SubmitKinds DEF Expected
<1>2. q \in [Ids -> States] /\ saved \in [Ids -> States]
  BY PeaceMeans DEF TypeOK
<1>3. \A i \in Lost : i \in Ids /\ Planned(i) = "none"
  BY DEF Lost, Planned, States
<1>. QED BY <1>1, <1>2, <1>3 DEF Record

LEMMA ReplayedWell ==
  ASSUME Peace, Step = "replay"
  PROVE  In("failed") = {i \in Ids : Planned(i) = "failed"} /\ In("other") = {}
<1>1. ASSUME NEW i \in Ids PROVE (q[i] = "failed" <=> Planned(i) = "failed") /\ q[i] # "other"
  <2>1. IF ToProcess(i) THEN q[i] \in {"ready", "held", "delayed", "done"} ELSE q[i] = Planned(i)
    BY PeaceMeans, SubmitKinds DEF Expected
  <2>2. ToProcess(i) <=> Planned(i) \in {"ready", "held", "delayed"}
    BY DEF ToProcess
  <2>3. q[i] # "other"
    BY PeaceMeans DEF Orderly
  <2>. QED BY <2>1, <2>2, <2>3
<1>. QED BY <1>1 DEF In

LEMMA ToldApartWell ==
  ASSUME Peace, Step = "perId", NEW i \in Targets("submitFull")
  PROVE  /\ "accepted" \in told[i] => q[i] \in Record
         /\ "rejected" \in told[i] => q[i] \notin Record
<1>1. i \in Ids /\ role[i] = "full" /\ kind = "oom"
  BY PeaceMeans, OtherKinds DEF Targets
<1>2. Orderly(i) /\ Expected(i) /\ Answered(i) /\ q[i] \in States
  BY <1>1, PeaceMeans DEF TypeOK
<1>3. told[i] \in {{"accepted"}, {"rejected"}}
  BY <1>1, <1>2 DEF Answered, Awaiting, FullAt
<1>4. ("accepted" \in told[i] <=> q[i] # "none") /\ q[i] \notin {"failed", "delayed", "done", "other"}
  BY <1>1, <1>2 DEF Orderly, Expected, Seeded
<1>. QED BY <1>2, <1>3, <1>4 DEF Record, States

(* A wait ends with nothing left to wait for. *)
LEMMA WaitedWell == ASSUME Peace, WaitOver PROVE left = {}
<1>. SUFFICES ASSUME NEW i \in Ids, i \in left PROVE FALSE
  BY PeaceMeans DEF TypeOK
<1>1. Step \in {"wait", "waitFailed"} /\ Hopeless
  BY DEF WaitOver, At
<1>2. Quiet /\ Final(i) = {}
  BY <1>1, PeaceMeans DEF Hopeless, Write
<1>3. TypeOK /\ OnPlan /\ Orderly(i) /\ Expected(i) /\ Answered(i) /\ Pending(i) /\ q[i] \in States /\ role[i] \in Roles[kind]
  BY PeaceMeans DEF TypeOK
<1>4. CASE Step = "waitFailed"
  <2>1. role[i] = "failed" /\ Seeded
    BY <1>3, <1>4, SubmitKinds DEF Pending, ExpectedFailed
  <2>2. Planned(i) = "failed" /\ ~ToProcess(i)
    BY <2>1 DEF Planned, ToProcess, States
  <2>3. q[i] = "failed"
    BY <1>3, <1>4, <2>1, <2>2 DEF Expected, Late
  <2>. QED BY <1>2, <1>4, <2>3 DEF Final
<1>5. CASE Step = "wait"
  <2>1. role[i] \notin {"post", "failed"}
    BY <1>3, <1>5 DEF Pending, ToBeDone, Lost, ExpectedFailed
  <2>2. q[i] # "done" /\ q[i] # "other"
    BY <1>2, <1>5 DEF Final
  <2>3. q[i] \in {"ready", "held", "delayed"}
    <3>1. CASE Seeded
      <4>1. IF ToProcess(i) THEN q[i] \in {"ready", "held", "delayed", "done"} ELSE q[i] = Planned(i)
        BY <1>3, <1>5, <3>1 DEF Expected
      <4>2. role[i] # "done" => ToProcess(i)
        BY <1>3, <1>5, <2>1, <3>1, SeededRole DEF ToProcess, Planned, States
      <4>3. role[i] = "done" => Planned(i) = "done" /\ ~ToProcess(i)
        BY DEF Planned, ToProcess, States
      <4>. QED BY <2>2, <4>1, <4>2, <4>3
    <3>2. CASE ~Seeded
      <4>1. "accepted" \in told[i]
        BY <1>3, <1>5, <2>1, <3>2 DEF Answered, Awaiting, FullAt
      <4>. QED BY <1>3, <2>2, <3>2, <4>1 DEF Expected, States
    <3>. QED BY <3>1, <3>2
  <2>4. up \in {"main", "c2"}
    <3>1. CASE kind = "kill"
      BY <1>5, <3>1, PeaceMeans DEF SoundInv, Second, Good, NoFault, AfterKill
    <3>2. CASE kind # "kill"
      BY <1>5, <3>2, PeaceMeans DEF Placed, Consumer, Late
    <3>. QED BY <3>1, <3>2
  <2>5. ~Holding
    <3>1. kind = "oom" => ~Contains(plan, "open")
      BY <1>3, <1>5, OomSteps DEF BeforeOpen
    <3>. QED BY <2>4, <3>1 DEF Holding
  <2>6. got = {} /\ live[i] = 0 /\ ~Claimable(i)
    BY <1>2, <2>5 DEF Quiet, Idle
  <2>7. ~own[i]
    BY <1>3, <2>6 DEF Orderly
  <2>. QED BY <2>3, <2>4, <2>6, <2>7 DEF Claimable
<1>. QED BY <1>1, <1>4, <1>5

(* The final reckoning. *)
LEMMA AtTheEnd ==
  ASSUME Peace, Step \in {"reconcile", "over"}, NEW i \in Ids
  PROVE  /\ i \in ToBeDone => q[i] = "done" /\ finals[i] = {"done"}
         /\ i \in ExpectedFailed => q[i] = "failed" /\ finals[i] = {"failed"}
         /\ i \in Lost => q[i] = "none"
<1>1. TypeOK /\ OnPlan /\ Expected(i) /\ Polled(i) /\ role[i] \in Roles[kind]
  BY PeaceMeans
<1>2. i \in ToBeDone => q[i] = "done" /\ finals[i] = {"done"}
  BY <1>1 DEF Polled, Late
<1>3. i \in ExpectedFailed \union Lost => Seeded
  <2>1. role[i] \in {"failed", "post"} => Seeded
    BY <1>1, KnownKind DEF Roles, Seeded
  <2>. QED BY <2>1 DEF ExpectedFailed, Lost
<1>4. i \in ExpectedFailed => q[i] = "failed" /\ finals[i] = {"failed"}
  <2>1. i \in ExpectedFailed => Planned(i) = "failed" /\ ~ToProcess(i)
    BY DEF ExpectedFailed, Planned, ToProcess, States
  <2>. QED BY <1>1, <1>3, <2>1 DEF Expected, Polled, Late
<1>5. i \in Lost => q[i] = "none"
  <2>1. i \in Lost => Planned(i) = "none" /\ ~ToProcess(i)
    BY DEF Lost, Planned, ToProcess, States
  <2>. QED BY <1>1, <1>3, <2>1 DEF Expected, Late
<1>. QED BY <1>2, <1>4, <1>5

LEMMA ReconciledWell ==
  ASSUME Peace, Step = "reconcile"
  PROVE  /\ In("ready") \union In("held") \union In("delayed") = {}
         /\ Cardinality(In("failed")) = Cardinality(ExpectedFailed)
         /\ Cardinality(In("done") \union In("other")) = Cardinality(ToBeDone)
         /\ ToBeDone \subseteq In("done")
<1>1. ASSUME NEW i \in Ids
      PROVE  /\ i \in ToBeDone => q[i] = "done"
             /\ i \in ExpectedFailed => q[i] = "failed"
             /\ i \notin ToBeDone \union ExpectedFailed => q[i] = "none"
  BY AtTheEnd DEF ToBeDone
<1>2. ToBeDone \subseteq Ids /\ ExpectedFailed \subseteq Ids /\ ToBeDone \intersect ExpectedFailed = {}
  BY DEF ToBeDone, ExpectedFailed
<1>3. In("failed") = ExpectedFailed /\ In("done") \union In("other") = ToBeDone
  BY <1>1, <1>2 DEF In
<1>4. In("ready") \union In("held") \union In("delayed") = {}
  BY <1>1, <1>2 DEF In
<1>. QED BY <1>1, <1>2, <1>3, <1>4 DEF In
----------------------------------------------------------------------------
LEMMA StepsLeft ==
  ASSUME TypeOK, plan # <<>>, plan' = Tail(plan), NEW s, NEW j \in 1..Len(plan), plan[j] = s
  PROVE  s = Step \/ \E k \in 1..Len(plan') : plan'[k] = s
<1>1. plan \in Seq(Steps) /\ Len(plan) \in Nat
  BY DEF TypeOK
<1>2. Len(plan') = Len(plan) - 1 /\ \A k \in 1..Len(plan') : plan'[k] = plan[k + 1]
  BY <1>1
<1>3. CASE j = 1
  BY <1>3 DEF Step
<1>4. CASE j # 1
  <2>1. j - 1 \in 1..Len(plan') /\ (j - 1) + 1 = j
    BY <1>1, <1>2, <1>4
  <2>. QED BY <1>2, <2>1
<1>. QED BY <1>3, <1>4

(* A check that passes, and a step without one. *)
Passes == passed' = passed \union ({Step} \intersect Required(kind)) /\ ~failed'

LEMMA CheckedOn ==
  ASSUME TypeOK, Checked, plan # <<>>, plan' = Tail(plan), kind' = kind, Passes
  PROVE  Checked'
<1>1. Required(kind)' = Required(kind)
  BY DEF Required
<1>. QED BY <1>1, StepsLeft DEF Passes, Checked

LEMMA UncheckedOn ==
  ASSUME TypeOK, Checked, plan # <<>>, plan' = Tail(plan), kind' = kind,
         UNCHANGED <<passed, failed>>, Step \in {"open", "wait", "waitFailed"}
  PROVE  Checked'
<1>1. Required(kind)' = Required(kind)
  BY DEF Required
<1>2. Step \notin Required(kind)
  BY KnownKind DEF Required, Checks
<1>. QED BY <1>1, <1>2, StepsLeft DEF Checked

LEMMA MovingChecked ==
  ASSUME Peace, Calm', Moving
  PROVE  /\ Checked' /\ (Step = "claimed" => Enough)
         /\ Step \in {"submit", "submitFull", "resubmit", "post", "wait", "waitFailed"} => left = {}
<1>0. TypeOK /\ OnPlan /\ Checked /\ torn = {} /\ ~failed
  BY PeaceMeans DEF Peace, Checked
<1>1. Step = "claimed" => Enough
  BY ActionOf, ClaimedWell
<1>2. kind' = kind /\ plan # <<>> /\ plan' = Tail(plan)
  BY <1>0, <1>1, MovedOn
<1>3. Step \in {"submit", "submitFull", "resubmit", "post", "wait", "waitFailed"} => left = {}
  BY ActionOf, WaitedWell DEF Submitted
<1>. SUFFICES Checked'
  BY <1>1, <1>3
<1>4. CASE Submitted
  <2>1. Check(/\ At({"submitFull"}) => \E i \in Ids : told[i] = {"rejected"}
              /\ At({"submit"})     => \A i \in Ids : role[i] # "full" => told[i] = {"accepted"}
              /\ At({"resubmit"})   => \A i \in Ids : "accepted" \in told[i]
              /\ At({"post"})       => \A i \in Lost : told[i] = {"accepted"})
    BY <1>4 DEF Submitted
  <2>2. Passes
    BY <1>0, <1>4, <2>1, SubmittedWell DEF Check, Write, Passes
  <2>. QED BY <1>0, <1>2, <2>2, CheckedOn
<1>5. CASE Seed \/ Start \/ Spawn \/ Restore \/ Fill \/ Release \/ Stop
  <2>1. Check(TRUE)
    BY <1>5 DEF Seed, Start, Spawn, Restore, Fill, Release, Stop
  <2>2. Passes
    BY <1>0, <2>1 DEF Check, Write, Passes
  <2>. QED BY <1>0, <1>2, <2>2, CheckedOn
<1>6. CASE Inspect
  <2>1. Check(In("ready") = Ids) /\ Step = "inspect"
    BY <1>6 DEF Inspect, At
  <2>2. Passes
    BY <1>0, <2>1, InspectedWell DEF Check, Write, Passes
  <2>. QED BY <1>0, <1>2, <2>2, CheckedOn
<1>7. CASE Claimed
  <2>1. Check(Enough)
    BY <1>7 DEF Claimed
  <2>2. Passes
    BY <1>0, <1>7, <2>1, ClaimedWell DEF Check, Write, Passes
  <2>. QED BY <1>0, <1>2, <2>2, CheckedOn
<1>8. CASE Kill
  <2>1. Check(Cardinality(In("held")) = Cardinality(held'))
    BY <1>8 DEF Kill
  <2>2. Passes
    BY <1>0, <1>8, <2>1, KilledWell DEF Check, Write, Passes
  <2>. QED BY <1>0, <1>2, <2>2, CheckedOn
<1>9. CASE Exit2
  <2>1. Check("c2" \notin torn)
    BY <1>9 DEF Exit2
  <2>2. "c2" \notin torn
    BY <1>0
  <2>3. Passes
    BY <1>0, <2>1, <2>2 DEF Check, Write, Passes
  <2>. QED BY <1>0, <1>2, <2>3, CheckedOn
<1>10. CASE Recount
  <2>1. Check(Repeats = Cardinality(held) /\ \A i \in held : starts[i] >= 2) /\ Step = "recount"
    BY <1>10 DEF Recount, At
  <2>2. Passes
    BY <1>0, <2>1, RecountedWell DEF Check, Write, Passes
  <2>. QED BY <1>0, <1>2, <2>2, CheckedOn
<1>11. CASE Copy
  <2>1. Check(kind = "crash" => AsPlanned) /\ Step = "copy"
    BY <1>11 DEF Copy, At
  <2>2. Passes
    BY <1>0, <2>1, CopiedWell DEF Check, Write, Passes
  <2>. QED BY <1>0, <1>2, <2>2, CheckedOn
<1>12. CASE Compare
  <2>1. Check(q = saved /\ \A i \in Lost : q[i] \notin Record) /\ Step = "compare"
    BY <1>12 DEF Compare, At
  <2>2. Passes
    BY <1>0, <2>1, ComparedWell DEF Check, Write, Passes
  <2>. QED BY <1>0, <1>2, <2>2, CheckedOn
<1>13. CASE Replay
  <2>1. Step = "replay"
    BY <1>13 DEF Replay, At
  <2>2. PICK again : Check(In("failed") = {i \in Ids : Planned(i) = "failed"} /\ again \intersect In("other") = {})
    BY <1>13, Zenon DEF Replay
  <2>3. In("failed") = {i \in Ids : Planned(i) = "failed"} /\ again \intersect In("other") = {}
    BY <2>1, ReplayedWell
  <2>4. Passes
    BY <1>0, <2>2, <2>3 DEF Check, Write, Passes
  <2>. QED BY <1>0, <1>2, <2>4, CheckedOn
<1>14. CASE PerId
  <2>1. Check(\A i \in Targets("submitFull") :
                /\ "accepted" \in told[i] => q[i] \in Record
                /\ "rejected" \in told[i] => q[i] \notin Record)
        /\ Step = "perId"
    BY <1>14 DEF PerId, At
  <2>2. Passes
    BY <1>0, <2>1, ToldApartWell DEF Check, Write, Passes
  <2>. QED BY <1>0, <1>2, <2>2, CheckedOn
<1>15. CASE Open
  BY <1>0, <1>2, <1>15, UncheckedOn DEF Open, At
<1>16. CASE WaitOver
  <2>1. Step \in {"wait", "waitFailed"} /\ UNCHANGED <<passed, failed>>
    BY <1>16, WaitedWell DEF WaitOver, At
  <2>. QED BY <1>0, <1>2, <2>1, UncheckedOn
<1>17. CASE Reconcile
  <2>1. Check(/\ In("ready") \union In("held") \union In("delayed") = {}
              /\ Cardinality(In("failed")) = Cardinality(ExpectedFailed)
              /\ Cardinality(In("done") \union In("other")) = Cardinality(ToBeDone)
              /\ ToBeDone \subseteq In("done"))
        /\ Step = "reconcile"
    BY <1>17 DEF Reconcile, At
  <2>2. Passes
    BY <1>0, <2>1, ReconciledWell DEF Check, Write, Passes
  <2>. QED BY <1>0, <1>2, <2>2, CheckedOn
<1>. QED BY <1>4, <1>5, <1>6, <1>7, <1>8, <1>9, <1>10, <1>11, <1>12, <1>13, <1>14, <1>15,
            <1>16, <1>17 DEF Moving

LEMMA MovingFine ==
  ASSUME Peace, Calm', Moving, NEW i \in Ids
  PROVE  Fine(i)'
<1>1. Step = "claimed" => Enough
  BY MovingChecked
<1>2. Step \in {"submit", "submitFull", "resubmit", "post", "wait", "waitFailed"} => left = {}
  BY MovingChecked
<1>3. Orderly(i)'
  BY <1>1, PeaceMeans, MovingOrderly
<1>4. Expected(i)'
  BY <1>1, PeaceMeans, MovingExpected
<1>5. Answered(i)' /\ Pending(i)'
  BY <1>1, <1>2, PeaceMeans, MovingAnswered
<1>6. Polled(i)'
  BY <1>1, <1>2, PeaceMeans, MovingPolled
<1>. QED BY <1>3, <1>4, <1>5, <1>6 DEF Fine

(* Whatever its runs were, the ledger of a calm scenario is valid at the end. *)
LEMMA Valid == ASSUME Peace, plan = <<>> PROVE Validate /\ torn = {}
<1>0. Step = "over" /\ TypeOK /\ OnPlan /\ torn = {} /\ ~failed
  BY PeaceMeans DEF Step, Clean
<1>1. up = "none"
  <2>1. CASE kind = "kill"
    BY <1>0, <2>1, PeaceMeans DEF SoundInv, ChecksMean
  <2>2. CASE kind # "kill"
    BY <1>0, <2>2, PeaceMeans DEF SoundInv, CountsMean, Late
  <2>. QED BY <2>1, <2>2
<1>2. kind # "kill" => held = {}
  BY PeaceMeans DEF SoundInv, CountsMean
<1>3. Required(kind) \subseteq passed \union (IF Write("main") THEN {"write_ok"} ELSE {})
  <2>1. Len(plan) = 0
    BY <1>0 DEF TypeOK, Step
  <2>2. 1..Len(plan) = {}
    BY <2>1
  <2>. QED BY <1>0, <2>2 DEF Peace, Checked, Write
<1>4. ASSUME NEW i \in Ids PROVE "accepted" \in told[i] /\ Runs(i) /\ Outcome(i)
  <2>1. Orderly(i) /\ Expected(i) /\ Answered(i) /\ i \notin got /\ live[i] = 0 /\ ~own[i] /\ role[i] \in Roles[kind]
    BY <1>0, <1>1, PeaceMeans DEF TypeOK
  <2>2. /\ i \in ToBeDone => q[i] = "done" /\ finals[i] = {"done"}
        /\ i \in ExpectedFailed => q[i] = "failed" /\ finals[i] = {"failed"}
        /\ i \in Lost => q[i] = "none"
    BY <1>0, AtTheEnd
  <2>3. "accepted" \in told[i]
    BY <1>0, <2>1 DEF Answered, Awaiting, FullAt
  <2>4. /\ starts[i] = ran[i] /\ ends[i] + One(i \in held) = ran[i] /\ ran[i] \in Nat /\ ends[i] \in Nat
    <3>1. ends[i] + live[i] + One(i \in held) = ran[i] /\ One(i \in held) \in {0, 1}
      BY <2>1 DEF Orderly, One
    <3>. QED BY <1>0, <2>1, <3>1, Counted DEF Orderly
  <2>5. kind # "oom" => ran[i] = One(i \in held) + One(q[i] = "done" /\ role[i] # "done")
    <3>1. kind # "oom" => ran[i] + 0 = One(i \in held) + One(q[i] = "done" /\ role[i] # "done")
      BY <2>1 DEF Orderly, One
    <3>. QED BY <2>4, <3>1
  <2>6. Unfinished(i) = One(i \in held)
    <3>1. One(i \in held) \in {0, 1}
      BY DEF One
    <3>. QED BY <2>4, <3>1 DEF Unfinished
  <2>7. i \in MustNotProcess \union Lost => starts[i] = 0
    <3>1. SUFFICES ASSUME i \in MustNotProcess \union Lost PROVE starts[i] = 0
      OBVIOUS
    <3>2. role[i] \in {"failed", "done", "post"}
      BY <3>1 DEF MustNotProcess, ExpectedFailed, Lost
    <3>3. kind \in {"crash", "backup"}
      BY <1>0, <2>1, <3>2, KnownKind DEF Roles
    <3>4. i \notin held /\ ~(q[i] = "done" /\ role[i] # "done")
      BY <1>2, <2>2, <3>2, <3>3 DEF ExpectedFailed, Lost
    <3>. QED BY <2>4, <2>5, <3>3, <3>4 DEF One
  <2>8. Repetition(i)
    <3>1. SUFFICES ASSUME starts[i] > 1, kind # "oom"
                   PROVE  kind = "kill" /\ Unfinished(i) >= starts[i] - 1
      BY DEF Repetition, AllowRedelivery
    <3>2. i \in held /\ starts[i] = 2
      BY <2>4, <2>5, <3>1 DEF One
    <3>. QED BY <1>2, <2>6, <3>2 DEF One
  <2>9. Unfinished(i) > 0 => kind = "kill"
    BY <1>2, <2>6 DEF One
  <2>10. Runs(i)
    BY <2>3, <2>7, <2>8, <2>9 DEF Runs
  <2>11. i \notin MustNotProcess /\ i \notin Lost => starts[i] > 0
    <3>1. SUFFICES ASSUME i \notin MustNotProcess, i \notin Lost PROVE starts[i] > 0
      OBVIOUS
    <3>2. role[i] # "done" /\ i \in ToBeDone
      BY <3>1 DEF MustNotProcess, ToBeDone
    <3>. QED BY <2>1, <2>2, <2>4, <2>5, <3>2 DEF Orderly, One
  <2>12. Outcome(i)
    BY <2>2, <2>3, <2>11 DEF Outcome, ToBeDone, Lost, ExpectedFailed
  <2>. QED BY <2>3, <2>10, <2>12
<1>5. \E i \in Ids : told[i] # {}
  <2>1. Ids # {}
    BY AcceptanceAssumption, FS_EmptySet
  <2>. QED BY <1>4, <2>1
<1>. QED BY <1>0, <1>3, <1>4, <1>5 DEF Validate
----------------------------------------------------------------------------
LEMMA VerdictSteps == [Next]_vars => Finish \/ verdict' = verdict
<1>1. CASE \E i \in Ids : Submit(i) \/ Poll(i) \/ Claim(i) \/ Run(i) \/ RunEnds(i) \/ RenewalRefused(i) \/ Misbehave(i)
  BY <1>1 DEF Submit, Poll, Claim, Run, RunEnds, RenewalRefused, Misbehave
<1>2. CASE CommandFails \/ \E l \in {"main", "c1", "c2"} : WriteFails(l)
  BY <1>2 DEF CommandFails, WriteFails, UnchangedRest
<1>3. CASE Submitted \/ Seed \/ Inspect \/ Start \/ Spawn \/ Claimed \/ Kill \/ Exit2 \/ Recount
  BY <1>3 DEF Submitted, Seed, Inspect, Start, Spawn, Claimed, Kill, Exit2, Recount, UnchangedRest
<1>4. CASE Copy \/ Restore \/ Compare \/ Replay \/ Fill \/ PerId \/ Open \/ Release \/ WaitOver \/ Stop \/ Reconcile
  BY <1>4 DEF Copy, Restore, Compare, Replay, Fill, PerId, Open, Release, WaitOver, Stop, Reconcile, UnchangedRest
<1>5. CASE UNCHANGED vars
  BY <1>5 DEF vars
<1>. QED BY <1>1, <1>2, <1>3, <1>4, <1>5 DEF Next, Scenario, Worker, World

LEMMA ChecksPlanned ==
  ASSUME NEW k \in AllKinds, NEW s \in Required(k) \ {"write_ok"}
  PROVE  \E j \in 1..Len(Plan[k]) : Plan[k][j] = s
<1>1. CASE k = "normal"
  <2>1. 1 \in 1..4 /\ 4 \in 1..4
    OBVIOUS
  <2>. QED BY <1>1, <2>1, PlanLength DEF Required, Checks, Plan
<1>2. CASE k = "backlog"
  <2>1. 1 \in 1..6 /\ 2 \in 1..6 /\ 6 \in 1..6
    OBVIOUS
  <2>. QED BY <1>2, <2>1, PlanLength DEF Required, Checks, Plan
<1>3. CASE k = "kill"
  <2>1. 1 \in 1..9 /\ 3 \in 1..9 /\ 4 \in 1..9 /\ 7 \in 1..9 /\ 8 \in 1..9 /\ 9 \in 1..9
    OBVIOUS
  <2>. QED BY <1>3, <2>1, PlanLength DEF Required, Checks, Plan
<1>4. CASE k = "crash"
  <2>1. 2 \in 1..9 /\ 3 \in 1..9 /\ 5 \in 1..9 /\ 9 \in 1..9
    OBVIOUS
  <2>. QED BY <1>4, <2>1, PlanLength DEF Required, Checks, Plan
<1>5. CASE k = "oom"
  <2>1. /\ 1 \in 1..10 /\ 2 \in 1..10 /\ 3 \in 1..10 /\ 4 \in 1..10 /\ 6 \in 1..10 /\ 7 \in 1..10
        /\ 10 \in 1..10
    OBVIOUS
  <2>. QED BY <1>5, <2>1, PlanLength DEF Required, Checks, Plan
<1>6. CASE k = "backup"
  <2>1. 2 \in 1..10 /\ 3 \in 1..10 /\ 5 \in 1..10 /\ 10 \in 1..10
    OBVIOUS
  <2>. QED BY <1>6, <2>1, PlanLength DEF Required, Checks, Plan
<1>. QED BY <1>1, <1>2, <1>3, <1>4, <1>5, <1>6 DEF AllKinds

LEMMA PeaceInit == Init => PeaceInv
<1>. SUFFICES ASSUME Init PROVE PeaceInv
  OBVIOUS
<1>0. TypeOK /\ OnPlan /\ SoundInv
  BY AcceptanceInit, SoundInit DEF SoundInv
<1>1. /\ kind \in AllKinds /\ plan = Plan[kind] /\ passed = {} /\ oom = FALSE /\ corrupt = FALSE /\ got = {}
      /\ held = {} /\ torn = {} /\ failed = FALSE /\ verdict = "none"
      /\ up = IF kind \in {"normal", "oom"} THEN "main" ELSE "none"
      /\ left = {i \in Ids : role[i] \in {"plain", "before"}}
      /\ \A i \in Ids : role[i] \in Roles[kind]
  BY <1>0, AcceptanceAssumption DEF Init, AllKinds, TypeOK
<1>2. \A i \in Ids : /\ starts[i] = 0 /\ ends[i] = 0 /\ ran[i] = 0 /\ live[i] = 0 /\ ~own[i]
                     /\ q[i] = "none" /\ told[i] = {} /\ finals[i] = {}
  BY DEF Init, Zero, Never
<1>3. Step = IF kind \in {"crash", "backup"} THEN "seed" ELSE "submit"
  <2>1. Len(Plan[kind]) \in {4, 6, 9, 10}
    BY <1>1, PlanLength DEF AllKinds
  <2>2. plan # <<>>
    <3>0. \A n \in {4, 6, 9, 10} : n # 0
      OBVIOUS
    <3>1. Len(plan) # 0
      BY <1>1, <2>1, <3>0
    <3>. QED BY <1>0, <3>1, StepIs
  <2>3. \A n \in {4, 6, 9, 10} : n - n + 1 = 1 /\ n # 0
    OBVIOUS
  <2>4. Step = Plan[kind][1]
    BY <1>0, <1>1, <2>1, <2>3, StepIs
  <2>. QED BY <1>1, <2>4 DEF Plan, AllKinds
<1>4. Placed
  BY <1>1, <1>3 DEF Placed, Consumer, Late, FullAt, AllKinds
<1>5. Checked
  BY <1>1, ChecksPlanned DEF Checked
<1>6. ASSUME NEW i \in Ids PROVE Fine(i)
  <2>1. Orderly(i)
    BY <1>1, <1>2 DEF Orderly, One
  <2>2. Expected(i)
    BY <1>2, <1>3 DEF Expected, Seeded, Late
  <2>3. Awaiting(i)
    BY <1>1, <1>3 DEF Awaiting, Roles, AllKinds
  <2>4. Answered(i)
    BY <1>2, <2>3 DEF Answered
  <2>5. Pending(i)
    BY <1>1, <1>3 DEF Pending
  <2>6. Polled(i)
    BY <1>2, <1>3 DEF Polled, Late
  <2>. QED BY <2>1, <2>2, <2>4, <2>5, <2>6 DEF Fine
<1>. QED BY <1>1, <1>4, <1>5, <1>6 DEF PeaceInv

LEMMA PeaceNext == TypeOK /\ SoundInv /\ PeaceInv /\ [Next]_vars => PeaceInv'
<1>. SUFFICES ASSUME TypeOK, SoundInv, PeaceInv, [Next]_vars PROVE PeaceInv'
  OBVIOUS
<1>1. Placed'
  BY PlacedNext DEF PeaceInv, SoundInv
<1>. SUFFICES ASSUME Calm' PROVE (verdict # "fail" /\ Checked /\ \A i \in Ids : Fine(i))'
  BY <1>1 DEF PeaceInv
<1>2. Peace /\ verdict # "fail"
  <2>1. Calm
    BY CalmBefore DEF PeaceInv, SoundInv
  <2>. QED BY <2>1 DEF PeaceInv, Peace
<1>3. /\ TypeOK /\ OnPlan /\ Apart /\ Placed /\ NoFault /\ Checked /\ \A i \in Ids : Fine(i)
  BY <1>2, PeaceMeans DEF Peace
<1>4. \/ \E j \in Ids : Reply(j) \/ Poll(j) \/ (Work(j) /\ failed' = failed)
      \/ Moving
      \/ Finish \/ UNCHANGED vars
  BY <1>3, Undisturbed DEF Calm
<1>5. \A i \in Ids : Fine(i)'
  <2>. TAKE i \in Ids
  <2>1. ASSUME NEW j \in Ids, Reply(j) PROVE Fine(i)'
    BY <1>3, <2>1, ReplyFine
  <2>2. ASSUME NEW j \in Ids, Poll(j) PROVE Fine(i)'
    BY <1>3, <2>2, PollFine
  <2>3. ASSUME NEW j \in Ids, Work(j) PROVE Fine(i)'
    BY <1>3, <2>3, WorkFine
  <2>4. CASE Moving
    BY <1>2, <2>4, MovingFine
  <2>5. CASE Finish \/ UNCHANGED vars
    <3>1. UNCHANGED <<kind, role, plan, left, own, got, live, held, saved, starts, ends, finals, ran, q, told>>
      BY <2>5 DEF Finish, vars, what, queue, ledger, truth
    <3>. QED BY <1>3, <3>1, SameFine
  <2>. QED BY <1>4, <2>1, <2>2, <2>3, <2>4, <2>5
<1>6. Checked'
  <2>1. CASE Moving
    BY <1>2, <2>1, MovingChecked
  <2>2. CASE UNCHANGED <<kind, plan, passed, failed>>
    BY <1>3, <2>2 DEF Checked, Required
  <2>3. ASSUME NEW j \in Ids, Reply(j) \/ Poll(j) \/ (Work(j) /\ failed' = failed)
        PROVE  UNCHANGED <<kind, plan, passed, failed>>
    BY <1>3, <2>3, WorkKeeps DEF Reply, Poll, what
  <2>4. Finish \/ UNCHANGED vars => UNCHANGED <<kind, plan, passed, failed>>
    BY DEF Finish, vars, what, ledger
  <2>. QED BY <1>4, <2>1, <2>2, <2>3, <2>4
<1>7. verdict' # "fail"
  <2>1. CASE Finish
    BY <1>2, <2>1, Valid DEF Finish
  <2>. QED BY <1>2, <2>1, VerdictSteps
<1>. QED BY <1>5, <1>6, <1>7

(* A queue that behaves is not failed: whatever the order of its runs, deliveries and
   refused acknowledgements, of the polls and the submissions, without a fault the
   verdict is not a violation.  (scenarios.go, faults.go, ledger/validate.go) *)
THEOREM NoFalseAlarmCorrect == Spec => []NoFalseAlarm
<1>1. Init => TypeOK /\ SoundInv /\ PeaceInv
  BY AcceptanceInit, SoundInit, PeaceInit
<1>2. TypeOK /\ SoundInv /\ PeaceInv /\ [Next]_vars => (TypeOK /\ SoundInv /\ PeaceInv)'
  BY AcceptanceNext, SoundNext, PeaceNext
<1>3. PeaceInv => NoFalseAlarm
  BY DEF PeaceInv, NoFalseAlarm, Calm, NoFault, Refused
<1>. QED BY <1>1, <1>2, <1>3, PTL DEF Spec
=============================================================================
