----------------------------- MODULE Acceptance -----------------------------
(***************************************************************************)
(* scripts/readiness/cmd/gate/scenarios.go, faults.go, sc.go and           *)
(* scripts/readiness/ledger: one scenario of the acceptance gate, from its *)
(* submissions to the verdict it reads out of its ledger.  The scenarios   *)
(* share their steps; `plan` lists the ones this scenario still has to do. *)
(*                                                                         *)
(* The queue under test and Redis are external.  The queue behaves, or     *)
(* misbehaves in any way at all a bounded number of times.  Commands and   *)
(* ledger writes may fail.                                                 *)
(*                                                                         *)
(* A ledger is kept as what Validate gathers from it, as its verdict does  *)
(* not depend on the order of the records.                                 *)
(***************************************************************************)
EXTENDS Integers, FiniteSets, SequencesExt

CONSTANTS
  Ids,         \* the tasks
  Kinds,       \* which scenarios
  Held,        \* workers of the first consumer process, all of which hold on
  MaxRuns,     \* bound: runs of a task that end without its acknowledgement
  MaxFaults    \* bound: misbehaviours of the queue, failing commands and writes

ASSUME AcceptanceAssumption ==
  /\ IsFiniteSet(Ids) /\ Held \in 1..Cardinality(Ids)
  /\ Kinds \subseteq {"normal", "backlog", "kill", "crash", "oom", "backup"}
  /\ MaxRuns \in Nat /\ MaxFaults \in Nat

VARIABLES
  kind, role,   \* the scenario, and what it plans for each task
  plan, left,   \* steps ahead, the first under way, and its tasks not dealt with
  q,            \* the state of each task in the queue
  own, got, live,  \* is its claim renewed; claimed and not begun; runs under way
  up,           \* the consumer at work
  oom, held, saved,        \* memory is full; claims of the killed consumer; a copy of q
  told,                    \* ledger: the results of each task's submissions
  starts, ends, finals,    \* ledger: runs begun and ended, final states seen
  passed, failed,          \* ledger: checks passed; is any record a violation by itself
  torn,                    \* ledgers whose writer has met an error and writes no more
  ran, fin, corrupt,       \* what happened: runs, runs that returned nil, a wrong payload,
  cut,                     \*   the tasks a run of which lost its claim
  defects, trouble, verdict

queue  == <<q, own, got, live>>
ledger == <<told, starts, ends, finals, passed, failed, torn>>
truth  == <<ran, fin, cut, corrupt>>
what   == <<kind, role>>
vars   == <<what, plan, left, queue, up, oom, held, saved, ledger, truth, defects, trouble,
            verdict>>

----------------------------------------------------------------------------
States == {"none", "ready", "held", "delayed", "failed", "done", "other"}
Record == {"ready", "held", "delayed", "failed"}  \* states with a record m:<id>

Steps == {"submit", "submitFull", "resubmit", "post", "seed", "copy", "restore", "compare", "inspect",
          "start", "spawn1", "spawn2", "claimed", "kill", "exit2", "recount", "replay", "fill", "perId",
          "open", "release", "wait", "waitFailed", "stop", "reconcile"}

Plan ==
  [normal  |-> <<"submit", "wait", "stop", "reconcile">>,
   backlog |-> <<"submit", "inspect", "start", "wait", "stop", "reconcile">>,
   kill    |-> <<"submit", "spawn1", "claimed", "kill", "spawn2", "wait", "exit2", "recount",
                 "reconcile">>,
   crash   |-> <<"seed", "copy", "compare", "start", "replay", "wait", "stop", "waitFailed",
                 "reconcile">>,
   oom     |-> <<"submit", "fill", "submitFull", "perId", "open", "release", "resubmit", "wait",
                 "stop", "reconcile">>,
   backup  |-> <<"seed", "copy", "post", "restore", "compare", "start", "wait", "stop",
                 "waitFailed", "reconcile">>]

Roles ==
  [normal |-> {"plain"}, backlog |-> {"plain"}, kill |-> {"plain"}, oom |-> {"before", "full"},
   crash  |-> {"done", "delayed", "failed", "replay", "held", "ready"},
   backup |-> {"done", "delayed", "failed", "held", "ready", "post"}]

(* The checks Validate insists on: s.Require, and ledger_write_ok of Finish. *)
Checks ==
  [normal |-> {"submit"}, backlog |-> {"submit", "inspect"},
   kill   |-> {"submit", "claimed", "kill", "exit2", "recount"},
   crash  |-> {"copy", "compare", "replay"},
   oom    |-> {"submit", "fill", "submitFull", "perId", "release", "resubmit"},
   backup |-> {"copy", "post", "compare"}]
Required(k) == {"write_ok", "reconcile"} \union Checks[k]

Step == IF plan = <<>> THEN "over" ELSE Head(plan)
Lost == {i \in Ids : role[i] = "post"}
ExpectedFailed == {i \in Ids : role[i] = "failed"}
MustNotProcess == ExpectedFailed \union {i \in Ids : role[i] = "done"}
ToBeDone == Ids \ (Lost \union ExpectedFailed)
In(s) == {i \in Ids : q[i] = s}

(* The type invariant. *)
TypeOK ==
  /\ kind \in Kinds /\ role \in [Ids -> Roles[kind]]
  /\ plan \in Seq(Steps) /\ left \subseteq Ids /\ held \subseteq Ids
  /\ q \in [Ids -> States] /\ saved \in [Ids -> States]
  /\ own \in [Ids -> BOOLEAN] /\ live \in [Ids -> Nat] /\ got \subseteq Ids
  /\ up \in {"none", "main", "c1", "c2"}
  /\ up = "none" => got = {} /\ \A i \in Ids : live[i] = 0 /\ ~own[i]
  /\ told \in [Ids -> SUBSET {"accepted", "rejected", "uncertain"}]
  /\ starts \in [Ids -> Nat] /\ ends \in [Ids -> Nat]
  /\ ran \in [Ids -> Nat] /\ fin \in [Ids -> Nat] /\ cut \subseteq Ids
  /\ \A i \in Ids : starts[i] <= ran[i] /\ fin[i] + live[i] <= ran[i]
  /\ finals \in [Ids -> SUBSET {"done", "failed", "other"}]
  /\ passed \subseteq Required(kind) /\ torn \subseteq {"main", "c1", "c2"}
  /\ failed \in BOOLEAN /\ oom \in BOOLEAN /\ corrupt \in BOOLEAN
  /\ defects \in Nat /\ trouble \in Nat /\ defects + trouble <= MaxFaults
  /\ verdict \in {"none", "pass", "fail"}

Zero == [i \in Ids |-> 0]
Total(f) == Cardinality(UNION {{i} \X (1..f[i]) : i \in Ids})
Never == [i \in Ids |-> {}]

Init ==
  /\ kind \in Kinds /\ role \in [Ids -> Roles[kind]]
  /\ kind = "oom" => \E i \in Ids : role[i] = "full"
  /\ plan = Plan[kind] /\ left = {i \in Ids : role[i] \in {"plain", "before"}}
  /\ q = [i \in Ids |-> "none"] /\ own = [i \in Ids |-> FALSE] /\ got = {} /\ live = Zero
  /\ up = IF kind \in {"normal", "oom"} THEN "main" ELSE "none"
  /\ oom = FALSE /\ held = {} /\ saved = q
  /\ told = Never /\ finals = Never /\ starts = Zero /\ ends = Zero
  /\ passed = {} /\ failed = FALSE /\ torn = {}
  /\ ran = Zero /\ fin = Zero /\ cut = {} /\ corrupt = FALSE
  /\ defects = 0 /\ trouble = 0 /\ verdict = "none"

----------------------------------------------------------------------------
(* The consumer: a Manager in the gate or in a process of its own, around
   recProc. *)

Write(l) == l \notin torn

(* A task whose holder no longer renews comes again when the lease is over. *)
Claimable(i) ==
  /\ up # "none" /\ i \notin got /\ (up = "c1" => Total(live) + Cardinality(got) < Held)
  /\ q[i] \in {"ready", "delayed"} \/ (q[i] = "held" /\ ~own[i])

Claim(i) ==
  /\ Claimable(i) /\ verdict = "none"
  /\ q' = [q EXCEPT ![i] = "held"] /\ own' = [own EXCEPT ![i] = TRUE] /\ got' = got \union {i}
  /\ UNCHANGED <<what, plan, left, live, up, oom, held, saved, ledger, truth, defects, trouble,
                 verdict>>

(* Process begins, and writes proc_start.  A defect may hand over a wrong payload. *)
Run(i) ==
  /\ i \in got /\ verdict = "none" /\ got' = got \ {i}
  /\ live' = [live EXCEPT ![i] = @ + 1] /\ ran' = [ran EXCEPT ![i] = @ + 1]
  /\ starts' = IF Write(up) THEN [starts EXCEPT ![i] = @ + 1] ELSE starts
  /\ \/ UNCHANGED <<corrupt, failed, defects>>
     \/ /\ defects + trouble < MaxFaults /\ defects' = defects + 1
        /\ corrupt' = TRUE /\ failed' = (failed \/ Write(up))
  /\ UNCHANGED <<what, plan, left, q, own, up, oom, held, saved, told, ends, finals, passed, torn,
                 fin, cut, trouble, verdict>>

(* Hold: the first consumer never lets go, the Manager of scOOM until "open". *)
Holding == up = "c1" \/ (kind = "oom" /\ Contains(plan, "open"))

(* A run ends: proc_end, then the acknowledgement, which full memory may refuse.
   One that has lost its claim is cancelled, and ends as well. *)
RunEnds(i) ==
  /\ live[i] > 0 /\ verdict = "none"
  /\ live' = [live EXCEPT ![i] = @ - 1]
  /\ ends' = IF Write(up) THEN [ends EXCEPT ![i] = @ + 1] ELSE ends
  /\ LET owns == own[i] /\ i \notin got IN
     \/ /\ owns /\ ~Holding /\ fin' = [fin EXCEPT ![i] = @ + 1] /\ own' = [own EXCEPT ![i] = FALSE]
        /\ \/ q' = IF q[i] = "held" THEN [q EXCEPT ![i] = "done"] ELSE q
           \/ oom /\ ran[i] < MaxRuns /\ UNCHANGED q
     \/ live[i] > (IF owns THEN 1 ELSE 0) /\ UNCHANGED <<q, own, fin>>
  /\ UNCHANGED <<what, plan, left, got, up, oom, held, saved, told, starts, finals, passed, failed,
                 torn, ran, cut, corrupt, defects, trouble, verdict>>

(* A renewal is refused, by full memory or because the task is no longer held: its
   run is cancelled, and not acknowledged whatever it returns. *)
RenewalRefused(i) ==
  /\ own[i] /\ i \notin got /\ ((oom /\ ran[i] < MaxRuns) \/ q[i] # "held")
  /\ own' = [own EXCEPT ![i] = FALSE] /\ cut' = cut \union {i}
  /\ UNCHANGED <<what, plan, left, q, got, live, up, oom, held, saved, ledger, ran, fin, corrupt,
                 defects, trouble, verdict>>

(* The queue under test does something it must not: a task is lost, comes again,
   is taken for done, ... *)
Misbehave(i) ==
  /\ plan # <<>> /\ defects + trouble < MaxFaults /\ defects' = defects + 1
  /\ \E s \in States \ {q[i]} : q' = [q EXCEPT ![i] = s]
  /\ UNCHANGED <<what, plan, left, own, got, live, up, oom, held, saved, ledger, truth, trouble,
                 verdict>>

----------------------------------------------------------------------------
(* The steps of the scenario. *)

At(steps) == Step \in steps

Targets(step) == {i \in Ids :
  \/ step = "submitFull" /\ role[i] = "full"
  \/ step = "resubmit" /\ role[i] = "full" /\ told[i] # {"accepted"}
  \/ step = "post" /\ i \in Lost
  \/ step = "wait" /\ i \in ToBeDone
  \/ step = "waitFailed" /\ i \in ExpectedFailed}

Advance ==
  /\ plan' = Tail(plan)
  /\ left' = IF plan' = <<>> THEN {} ELSE Targets(Head(plan'))

(* Sc.Check.  A check that is not required is recorded only when it fails. *)
Check(ok) ==
  /\ passed' = IF ok /\ Write("main") THEN passed \union ({Step} \intersect Required(kind)) ELSE passed
  /\ failed' = (failed \/ (~ok /\ Write("main")))

UnchangedLedger == UNCHANGED <<told, starts, ends, finals, torn>>

(* Sc.submit, of produce: the task is there or not, and the reply is classified.
   Only a refusal by Redis itself is definite; anything unclear is uncertain. *)
Submit(i) ==
  /\ At({"submit", "submitFull", "resubmit", "post"}) /\ i \in left /\ left' = left \ {i}
  /\ \E res \in {"accepted", "rejected", "uncertain"}, there \in BOOLEAN :
       /\ told' = [told EXCEPT ![i] = @ \union {res}]
       /\ q' = IF there /\ q[i] = "none" THEN [q EXCEPT ![i] = "ready"] ELSE q
       /\ \/ res = "accepted" /\ there /\ UNCHANGED trouble
          \/ res = "rejected" /\ ~there /\ oom /\ UNCHANGED trouble
          \/ res = "uncertain" /\ defects + trouble < MaxFaults /\ trouble' = trouble + 1
  /\ UNCHANGED <<what, plan, own, got, live, up, oom, held, saved, starts, ends, finals, passed,
                 failed, torn, truth, defects, verdict>>

(* The counts produce returned: all accepted, or some rejected. *)
Submitted ==
  /\ At({"submit", "submitFull", "resubmit", "post"}) /\ left = {} /\ Advance
  /\ Check(/\ At({"submitFull"}) => \E i \in Ids : told[i] = {"rejected"}
           /\ At({"submit"})     => \A i \in Ids : role[i] # "full" => told[i] = {"accepted"}
           /\ At({"resubmit"})   => \A i \in Ids : "accepted" \in told[i]
           /\ At({"post"})       => \A i \in Lost : told[i] = {"accepted"})
  /\ UnchangedLedger
  /\ UNCHANGED <<what, queue, up, oom, held, saved, truth, defects, trouble, verdict>>

(* The state of the queue that seedState expects. *)
Planned(i) == IF role[i] \in States THEN role[i] ELSE IF role[i] = "replay" THEN "failed" ELSE "none"

(* seed: tasks are submitted and taken through the engine to the states of their
   roles, without a processor. *)
Seed ==
  /\ At({"seed"}) /\ Advance /\ Check(TRUE)
  /\ q' = [i \in Ids |-> IF i \in Lost THEN q[i] ELSE Planned(i)]
  /\ told' = [i \in Ids |-> IF i \in Lost THEN {} ELSE {"accepted"}]
  /\ UNCHANGED <<what, own, got, live, up, oom, held, saved, starts, ends, finals, torn, truth,
                 defects, trouble, verdict>>

AsPlanned == \A s \in States \ {"none"} :
  Cardinality(In(s)) = Cardinality({i \in Ids : Planned(i) = s})

UnchangedQueue == UNCHANGED <<queue, up, oom, held, saved>>
UnchangedRest  == UnchangedLedger /\ UNCHANGED <<what, truth, defects, verdict>>

(* scBacklog looks at the queue before a consumer starts. *)
Inspect ==
  /\ At({"inspect"}) /\ Advance /\ Check(In("ready") = Ids)
  /\ UnchangedQueue /\ UnchangedRest /\ UNCHANGED trouble

Start ==
  /\ At({"start"}) /\ Advance /\ Check(TRUE) /\ up' = "main"
  /\ UnchangedRest /\ UNCHANGED <<queue, oom, held, saved, trouble>>

(* spawnConsumer. *)
Spawn ==
  /\ At({"spawn1", "spawn2"}) /\ Advance /\ Check(TRUE)
  /\ up' = (IF Step = "spawn1" THEN "c1" ELSE "c2")
  /\ UnchangedRest /\ UNCHANGED <<queue, oom, held, saved, trouble>>

Idle == got = {} /\ \A i \in Ids : live[i] = 0
Quiet == got = {} /\ (Idle \/ Holding) /\ \A i \in Ids : ~Claimable(i)

(* Mutant of Enough: one worker has not claimed yet. *)
NearlyEnough == Total(starts) >= Held - 1

(* scConsumerKill waits until every worker of the first process has written
   proc_start, and gives up when none will. *)
Enough == Total(starts) >= Held
Claimed ==
  /\ At({"claimed"}) /\ (Enough \/ Quiet) /\ Check(Enough)
  /\ IF Enough THEN Advance ELSE plan' = <<>> /\ left' = {}
  /\ UnchangedQueue /\ UnchangedRest /\ UNCHANGED trouble

Gone == live' = Zero /\ got' = {} /\ own' = [i \in Ids |-> FALSE]

(* SIGKILL, and the look at the claims it leaves. *)
Kill ==
  /\ At({"kill"}) /\ Advance
  /\ up' = "none" /\ Gone
  /\ held' = {i \in Ids : starts[i] > 0}
  /\ Check(Cardinality(In("held")) = Cardinality(held'))
  /\ UnchangedRest /\ UNCHANGED <<q, oom, saved, trouble>>

(* SIGTERM: Stop lets the runs end.  The exit code tells of a ledger error. *)
Exit2 ==
  /\ At({"exit2"}) /\ Idle /\ Advance /\ Check("c2" \notin torn)
  /\ up' = "none" /\ Gone
  /\ UnchangedRest /\ UNCHANGED <<q, oom, held, saved, trouble>>

Repeats == Total([i \in Ids |-> IF starts[i] = 0 THEN 0 ELSE starts[i] - 1])
Recount ==
  /\ At({"recount"}) /\ Advance
  /\ Check(Repeats = Cardinality(held) /\ \A i \in held : starts[i] >= 2)
  /\ UnchangedQueue /\ UnchangedRest /\ UNCHANGED trouble

(* takeSnap; scBackup has Redis save the same state to a file. *)
Copy ==
  /\ At({"copy"}) /\ Advance /\ saved' = q /\ Check(kind = "crash" => AsPlanned)
  /\ UnchangedRest /\ UNCHANGED <<queue, up, oom, held, trouble>>

(* A second Redis is started on the file. *)
Restore ==
  /\ At({"restore"}) /\ Advance /\ Check(TRUE) /\ q' = saved
  /\ UnchangedRest /\ UNCHANGED <<own, got, live, up, oom, held, saved, trouble>>

(* diffSnap: after Redis has been killed and started again, or in the second Redis. *)
Compare ==
  /\ At({"compare"}) /\ Advance /\ Check(q = saved /\ \A i \in Lost : q[i] \notin Record)
  /\ UnchangedQueue /\ UnchangedRest /\ UNCHANGED trouble

(* scRedisCrash lists the failed tasks, replays one kind of them, and submits a task
   that is done once more, and with another payload. *)
Replay ==
  /\ At({"replay"}) /\ Advance
  /\ LET done == {i \in Ids : role[i] = "done"} IN
     \E again \in IF done = {} THEN {{}} ELSE {{i} : i \in done} :
       /\ Check(In("failed") = {i \in Ids : Planned(i) = "failed"} /\ again \intersect In("other") = {})
       /\ q' = [i \in Ids |->
                  IF (role[i] = "replay" /\ q[i] = "failed") \/ (i \in again /\ q[i] = "none")
                  THEN "ready" ELSE q[i]]
  /\ UnchangedRest /\ UNCHANGED <<own, got, live, up, oom, held, saved, trouble>>

(* scOOM: memory fills up; each submission is compared with Redis; the processors
   are let go; memory is freed. *)
Fill ==
  /\ At({"fill"}) /\ Advance /\ Check(TRUE) /\ oom' = TRUE
  /\ UnchangedRest /\ UNCHANGED <<queue, up, held, saved, trouble>>

PerId ==
  /\ At({"perId"}) /\ Advance
  /\ Check(\A i \in Targets("submitFull") :
             /\ "accepted" \in told[i] => q[i] \in Record
             /\ "rejected" \in told[i] => q[i] \notin Record)
  /\ UnchangedQueue /\ UnchangedRest /\ UNCHANGED trouble

Open ==
  /\ At({"open"}) /\ Advance /\ UNCHANGED <<passed, failed>>
  /\ UnchangedQueue /\ UnchangedRest /\ UNCHANGED trouble

Release ==
  /\ At({"release"}) /\ Advance /\ Check(TRUE) /\ oom' = FALSE
  /\ UnchangedRest /\ UNCHANGED <<queue, up, held, saved, trouble>>

(* idStatus; a failure is final only where one is expected. *)
Final(i) == {q[i]} \intersect ({"done", "other"} \union IF Step = "waitFailed" THEN {"failed"} ELSE {})

(* waitFinal sees a task in its final state. *)
Poll(i) ==
  /\ At({"wait", "waitFailed"}) /\ i \in left /\ Final(i) # {} /\ Write("main")
  /\ finals' = [finals EXCEPT ![i] = @ \union Final(i)] /\ left' = left \ {i}
  /\ UnchangedQueue
  /\ UNCHANGED <<what, plan, told, starts, ends, passed, failed, torn, truth, defects, trouble, verdict>>

(* Mutant of Hopeless: waitFinal has no deadline. *)
NeverHopeless == FALSE

(* The deadlines are such that they pass only when nothing is to be seen any more. *)
Hopeless == ~Write("main") \/ (Quiet /\ \A i \in left : Final(i) = {})
WaitOver ==
  /\ At({"wait", "waitFailed"}) /\ Advance
  /\ \/ left = {} /\ UNCHANGED <<passed, failed>>
     \/ left # {} /\ Hopeless /\ Check(FALSE)
  /\ UnchangedQueue /\ UnchangedRest /\ UNCHANGED trouble

(* stopMgr lets the runs end. *)
Stop ==
  /\ At({"stop"}) /\ Idle /\ Advance /\ Check(TRUE) /\ up' = "none" /\ own' = [i \in Ids |-> FALSE]
  /\ UnchangedRest /\ UNCHANGED <<q, got, live, oom, held, saved, trouble>>

(* reconcileQuiescent: the counts, then each task that is to be done. *)
Reconcile ==
  /\ At({"reconcile"}) /\ Advance
  /\ Check(/\ In("ready") \union In("held") \union In("delayed") = {}
           /\ Cardinality(In("failed")) = Cardinality(ExpectedFailed)
           /\ Cardinality(In("done") \union In("other")) = Cardinality(ToBeDone)
           /\ ToBeDone \subseteq In("done"))
  /\ UnchangedQueue /\ UnchangedRest /\ UNCHANGED trouble

(* Sc.CheckErr: a command fails.  After some the scenario is over, and a Manager
   that runs is left running; after others it goes on. *)
CommandFails ==
  /\ defects + trouble < MaxFaults /\ trouble' = trouble + 1 /\ Check(FALSE)
  /\ \/ At({"start", "spawn1", "spawn2", "seed", "copy", "compare", "restore", "fill"})
        /\ plan' = <<>> /\ left' = {}
     \/ At({"inspect", "recount", "compare", "replay", "perId", "release", "wait", "waitFailed",
            "stop", "reconcile"}) /\ Advance
  /\ UnchangedQueue /\ UnchangedRest

(* Writer.Append: after its first error a writer writes no more. *)
WriteFails(l) ==
  /\ verdict = "none" /\ defects + trouble < MaxFaults /\ trouble' = trouble + 1 /\ Write(l)
  /\ l = "main" \/ l = up
  /\ torn' = torn \union {l}
  /\ UnchangedQueue
  /\ UNCHANGED <<what, plan, left, told, starts, ends, finals, passed, failed, truth, defects, verdict>>

----------------------------------------------------------------------------
(* ledger.Validate on what has been written, with the scenario's Expect. *)

AllowRedelivery == kind \in {"kill", "oom"}
Unfinished(i) == starts[i] - ends[i]

(* Mutant of Repetition: any task may come again. *)
AnyRepetition(i) == TRUE

Repetition(i) == starts[i] > 1 => /\ AllowRedelivery
                                  /\ kind = "kill" => Unfinished(i) >= starts[i] - 1

Runs(i) ==
  /\ Unfinished(i) > 0 => kind = "kill"
  /\ Repetition(i)
  /\ i \in MustNotProcess \union Lost => starts[i] = 0
  /\ told[i] \subseteq {"rejected"} => starts[i] = 0

Outcome(i) ==
  /\ ("accepted" \in told[i] /\ i \notin Lost) =>
       /\ i \notin MustNotProcess => starts[i] > 0
       /\ "other" \notin finals[i]
       /\ (IF i \in ExpectedFailed THEN "failed" ELSE "done") \in finals[i]
  /\ told[i] \subseteq {"rejected"} => finals[i] = {}

Validate ==
  /\ ~failed /\ \E i \in Ids : told[i] # {}
  /\ Required(kind) \subseteq passed \union (IF Write("main") THEN {"write_ok"} ELSE {})
  /\ \A i \in Ids : Runs(i) /\ Outcome(i)

(* Sc.Finish; a ledger whose last line is cut off cannot be read. *)
Finish ==
  /\ plan = <<>> /\ verdict = "none"
  /\ \/ verdict' = (IF Validate THEN "pass" ELSE "fail")
     \/ torn # {} /\ verdict' = "fail"
  /\ UNCHANGED <<what, plan, left, queue, up, oom, held, saved, ledger, truth, defects, trouble>>

----------------------------------------------------------------------------
Scenario ==
  \/ /\ verdict = "none"
     /\ \/ \E i \in Ids : Submit(i) \/ Poll(i)
        \/ Submitted \/ Seed \/ Inspect \/ Start \/ Spawn \/ Claimed \/ Kill \/ Exit2 \/ Recount
        \/ Copy \/ Restore \/ Compare \/ Replay \/ Fill \/ PerId \/ Open \/ Release
        \/ WaitOver \/ Stop \/ Reconcile
  \/ Finish

Worker == \E i \in Ids : Claim(i) \/ Run(i) \/ RunEnds(i)
World  == /\ verdict = "none"
          /\ \/ \E i \in Ids : RenewalRefused(i) \/ Misbehave(i)
             \/ CommandFails \/ \E l \in {"main", "c1", "c2"} : WriteFails(l)

Next == Scenario \/ Worker \/ World

Spec == /\ Init /\ [][Next]_vars
        /\ WF_vars(Scenario) /\ WF_vars(Worker)

----------------------------------------------------------------------------
(* A scenario that passes tells the truth.  Whatever the queue did wrong, whichever
   command or write failed: every task that was accepted and had to be processed
   has been, to the end unless its claim was taken away (Validate does not read how
   a run ended); none was processed more often than the kill of its holder explains;
   none that had to be left alone was touched; and the queue holds what it should.
   scConsumerKill counts the runs of the process it kills, not their tasks, and
   allows runs without an end, so that two faults can make up for each other: a
   task handed to two of the workers and one taken for done later, or a run that
   lost its claim and the next one, which the killed process could not record. *)
PassIsSound ==
  verdict = "pass" /\ (kind = "kill" => defects = 0 \/ (defects = 1 /\ "c1" \notin torn)) =>
  \A i \in Ids :
    /\ ("accepted" \in told[i] /\ i \in ToBeDone \ MustNotProcess) =>
         ran[i] > 0 /\ (fin[i] > 0 \/ i \in cut)
    /\ kind # "oom" => ran[i] <= 1 + (IF i \in held THEN 1 ELSE 0)
    /\ (i \in MustNotProcess \union Lost \/ told[i] = {"rejected"}) => ran[i] = 0
    /\ i \in ToBeDone => q[i] = "done"
    /\ ~corrupt /\ "main" \notin torn

(* A queue that behaves is not failed: with no misbehaviour and nothing in the way,
   provided full memory does refuse something, no order of the runs, deliveries,
   refused acknowledgements and polls makes Validate report a violation. *)
NoFalseAlarm ==
  defects = 0 /\ trouble = 0 /\ (kind = "oom" => \E i \in Ids : "rejected" \in told[i])
    => verdict # "fail"

(* Every scenario comes to its verdict, whatever has been lost: no wait of it lasts
   for ever. *)
ScenarioEnds == (verdict = "none") ~> (verdict # "none")
=============================================================================
