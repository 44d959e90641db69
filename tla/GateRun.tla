------------------------------ MODULE GateRun ------------------------------
(***************************************************************************)
(* scripts/readiness/cmd/gate/main.go, env.go and scripts/readiness/       *)
(* dockerx: one run of the acceptance gate.  The run creates volumes and   *)
(* containers, writes each into a manifest, executes its scenarios, removes *)
(* what it created and gives a verdict.  Docker commands fail, a signal    *)
(* or the overall deadline cancels the context, and the process may be     *)
(* killed, after which `gate cleanup` works from the manifest on disk.     *)
(*                                                                         *)
(* The scenarios' own checks are left open: a body returns true or false,  *)
(* or panics.                                                              *)
(***************************************************************************)
EXTENDS Integers, FiniteSets

CONSTANTS
  Shared,     \* default scenarios that use the main Redis instance
  Private,    \* default scenarios that start an instance of their own
  MaxFaults,  \* bound: failing docker commands and file writes
  CanCrash    \* whether the gate process may be killed

ASSUME GateAssumption ==
  /\ IsFiniteSet(Shared \union Private) /\ Shared \intersect Private = {}
  /\ {"main", "none"} \intersect (Shared \union Private) = {}
  /\ MaxFaults \in Nat /\ CanCrash \in BOOLEAN

VARIABLES
  label,     \* whose labels the docker object of each name carries
  mem, disk, \* the entries of Manifest.Res, and of the manifest file
  made,      \* entries added so far, which orders them
  ctx,       \* what has cancelled the run's context
  stage,     \* where the process stands
  cur,       \* the scenario under way, or "main" while its instance starts
  making,    \* the creation awaiting registration, and docker's reply
  mainUp,    \* the main instance: not tried, running, or gone
  todo,      \* the wanted scenarios that have not ended
  existing,  \* ids in the manifest when the scenario began (runGuarded)
  ok,        \* the scenario's result so far
  sweep,     \* entries the current removal loop still has to visit
  errs,      \* the kinds of error the clean-up has met
  results,   \* result names recorded as true and as false
  exit,      \* exit code, Running before
  command,   \* "run" or "cleanup"
  full,      \* every default scenario is wanted, with the default n
  faults,    \* how many faults have been injected
  reported,  \* objects an error message named as possibly left behind
  passed     \* scenarios whose body returned true

objects == <<label, mem, disk, made>>
flow    == <<cur, mainUp, todo, existing, ok>>
verdict == <<exit, command, full>>
vars    == <<objects, flow, verdict, ctx, stage, making, sweep, errs, results, faults, reported,
             passed>>

----------------------------------------------------------------------------
Default   == Shared \union Private
Instances == Private \union {"main"}
Res       == Instances \X {"volume", "container"}
Running   == -1
Nothing   == <<<<"none", "none">>, "error">>
Entry     == [res : Res, expect : {"ours", "foreign"}, at : Nat]
Names     == Default \union {"main-redis", "cleanup", "signal", "deadline", "child-processes", "gate-panic"}

Ids(entries) == {e.res : e \in entries}

(* Mutant of Without: the volume's entry goes with the container's. *)
WithoutInstance(entries, r) == {e \in entries : e.res[1] # r[1]}

(* Manifest.Drop. *)
Without(entries, r) == {e \in entries : e.res # r}

(* The type invariant. *)
TypeOK ==
  /\ label \in [Res -> {"none", "ours", "foreign"}]
  /\ mem \subseteq Entry /\ disk \subseteq Entry /\ sweep \subseteq Entry /\ made \in Nat
  /\ ctx \in {"live", "signal", "deadline"}
  /\ stage \in {"next", "volume", "container", "register", "body", "tidy", "drop",
                "cleanup", "ended", "crashed"}
  /\ cur \in Default \union {"main", "none"}
  /\ making \in (Res \X {"created", "error"}) \union {Nothing}
  /\ mainUp \in {"untried", "up", "gone"}
  /\ todo \subseteq Default /\ existing \subseteq Res /\ ok \in BOOLEAN
  /\ errs \subseteq {"notOwned", "other"}
  /\ results \in [BOOLEAN -> SUBSET Names]
  /\ exit \in {Running, 0, 1, 6} /\ command \in {"run", "cleanup"} /\ full \in BOOLEAN
  /\ faults \in 0..MaxFaults /\ reported \subseteq Res /\ passed \subseteq Default

(* An object of some name may be there from elsewhere, and the output directory
   may hold the manifest of an earlier run, which registered it. *)
Init ==
  /\ label \in [Res -> {"none", "foreign"}]
  /\ \A r, s \in Res : label[r] = "foreign" /\ label[s] = "foreign" => r = s
  /\ \/ mem = {}
     \/ \E r \in Res : label[r] = "foreign" /\ mem = {[res |-> r, expect |-> "foreign", at |-> 0]}
  /\ disk = mem /\ sweep = {} /\ made = 0
  /\ ctx = "live" /\ stage = "next" /\ cur = "none" /\ making = Nothing
  /\ mainUp = "untried" /\ existing = {} /\ ok = TRUE /\ errs = {}
  /\ todo \in (SUBSET Default) \ {{}} /\ full \in BOOLEAN /\ (full => todo = Default)
  /\ results = [b \in BOOLEAN |-> {}]
  /\ exit = Running /\ command = "run"
  /\ faults = 0 /\ reported = {} /\ passed = {}

----------------------------------------------------------------------------
(* Mutant of Record: a scenario that has run counts as passed. *)
RecordRun(names, b) == results' = [results EXCEPT ![TRUE] = @ \union names]

Record(names, b) == results' = [results EXCEPT ![b] = @ \union names]

(* Commands of the run use its context and fail once that is cancelled; those
   of removeInst, of the final clean-up and of the creation's remedies have a
   context of their own. *)
Reachable == ctx = "live" \/ stage \in {"drop", "cleanup"}
Works == UNCHANGED faults
Fault == faults < MaxFaults /\ faults' = faults + 1
CommandWorks == Reachable /\ Works

CommandFails == IF Reachable THEN Fault ELSE Works

(* INT, TERM or the overall deadline, at any moment of the run. *)
Cancel ==
  /\ command = "run" /\ stage \notin {"ended", "crashed"} /\ ctx = "live"
  /\ ctx' \in {"signal", "deadline"}
  /\ UNCHANGED <<objects, flow, verdict, stage, making, sweep, errs, results, faults, reported,
                 passed>>

----------------------------------------------------------------------------
(* runAll takes the next scenario; runGuarded notes what the manifest holds.
   The main instance is started before the scenarios that share it. *)
Begin ==
  /\ stage = "next"
  /\ \/ /\ mainUp = "untried" /\ todo \intersect Shared # {}
        /\ cur' = "main" /\ stage' = "volume" /\ UNCHANGED <<existing, ok>>
     \/ /\ existing' = Ids(mem) /\ ok' = TRUE
        /\ \/ mainUp = "up" /\ cur' \in todo \intersect Shared /\ stage' = "body"
           \/ mainUp # "up" /\ todo \intersect Shared = {} /\ cur' \in todo /\ stage' = "volume"
  /\ UNCHANGED <<objects, mainUp, todo, verdict, ctx, making, sweep, errs, results, faults,
                 reported, passed>>

(* docker volume create, then docker create.  The reply can be an error although
   the object exists.  A volume of that name that is there already is handed
   out as if it were new; a container's name is refused. *)
Create ==
  /\ stage \in {"volume", "container"} /\ stage' = "register"
  /\ LET r == <<cur, stage>> IN
       \/ /\ label[r] = "none" /\ label' = [label EXCEPT ![r] = "ours"]
          /\ \/ CommandWorks /\ making' = <<r, "created">>
             \/ CommandFails /\ making' = <<r, "error">>
       \/ /\ label[r] = "foreign" /\ UNCHANGED label /\ CommandWorks
          /\ making' = <<r, IF stage = "volume" THEN "created" ELSE "error">>
       \/ CommandFails /\ UNCHANGED label /\ making' = <<r, "error">>
  /\ UNCHANGED <<mem, disk, made, flow, verdict, ctx, sweep, errs, results, reported, passed>>

(* What the scenario has added to the manifest. *)
Added(entries) == {e \in entries : e.res \notin existing}

(* newRedis has failed: a scenario returns false; without the main instance the
   scenarios that share it are not run at all. *)
NoInstance ==
  IF cur = "main"
  THEN /\ Record({"main-redis"}, FALSE) /\ todo' = todo \ Shared /\ mainUp' = "gone"
       /\ cur' = "none" /\ stage' = "next" /\ UNCHANGED <<ok, sweep>>
  ELSE /\ ok' = FALSE /\ stage' = "tidy"
       /\ sweep' = Added(mem')
       /\ UNCHANGED <<results, todo, mainUp, cur>>

(* newRedis has succeeded with this step. *)
OneStepOn(kind) ==
  /\ \/ kind = "volume" /\ stage' = "container" /\ UNCHANGED <<cur, mainUp>>
     \/ kind = "container" /\ cur = "main" /\ stage' = "next" /\ cur' = "none" /\ mainUp' = "up"
     \/ kind = "container" /\ cur # "main" /\ stage' = "body" /\ UNCHANGED <<cur, mainUp>>
  /\ UNCHANGED <<results, todo, ok, sweep>>

Add(r) ==
  /\ made' = made + 1
  /\ mem' = mem \union {[res |-> r, expect |-> "ours", at |-> made']}

(* Manifest.Add could not write: the object is removed again if it carries our
   labels, and named in the error if that fails too. *)
AddFails(r) ==
  /\ Add(r) /\ UNCHANGED disk
  /\ \/ Fault /\ label[r] = "ours" /\ label' = [label EXCEPT ![r] = "none"] /\ UNCHANGED reported
     \/ /\ IF label[r] = "ours" THEN faults + 2 <= MaxFaults /\ faults' = faults + 2 ELSE Fault
        /\ UNCHANGED label /\ reported' = reported \union {r}
  /\ NoInstance

(* CreateVolume and CreateContainer after a good reply: register at once, then
   verify the labels; a container is then started and waited for.  A reply that
   names another object ends the creation unregistered, like a command that fails
   with the object made and not found again. *)
Register ==
  /\ stage = "register" /\ making[2] = "created"
  /\ LET r == making[1] IN
       \/ AddFails(r)
       \/ /\ Add(r) /\ disk' = mem' /\ UNCHANGED <<label, reported>>
          /\ \/ label[r] = "ours" /\ CommandWorks /\ OneStepOn(r[2])
             \/ label[r] = "foreign" /\ CommandWorks /\ NoInstance
             \/ CommandFails /\ NoInstance
  /\ making' = Nothing
  /\ UNCHANGED <<existing, verdict, ctx, errs, passed>>

(* adoptByName and adoptVolume after an error: an object that exists all the
   same is registered, if it carries our labels.  The creation has failed. *)
Adopt ==
  /\ stage = "register" /\ making[2] = "error"
  /\ LET r == making[1] IN
       \/ label[r] = "ours" /\ AddFails(r)
       \/ /\ label[r] = "ours" /\ Works /\ Add(r) /\ disk' = mem'
          /\ NoInstance /\ UNCHANGED <<label, reported>>
       \/ /\ label[r] # "ours" /\ Works /\ UNCHANGED <<objects, reported>> /\ NoInstance
       \/ Fault /\ reported' = reported \union {r} /\ UNCHANGED objects /\ NoInstance
  /\ making' = Nothing
  /\ UNCHANGED <<existing, verdict, ctx, errs, passed>>

----------------------------------------------------------------------------
(* The scenario's function returns, or panics, which counts as false. *)
Body ==
  /\ stage = "body" /\ stage' = "tidy"
  /\ ok' \in BOOLEAN /\ passed' = IF ok' THEN passed \union {cur} ELSE passed
  /\ sweep' = Added(mem)
  /\ UNCHANGED <<objects, cur, mainUp, todo, existing, verdict, ctx, making, errs, results, faults,
                 reported>>

(* Mutant of Owned: the object's labels are not looked at. *)
Registered(e) == e.expect = "ours"

(* Docker.Remove: the registered expectation, the context and the object's own
   labels must agree. *)
Owned(e) == e.expect = "ours" /\ label[e.res] = e.expect

(* Docker refuses to remove a volume that a container uses. *)
InUse(r) == r[2] = "volume" /\ label[<<r[1], "container">>] = "ours"

(* Mutant of RemovalFails: an error is logged only. *)
RemovalSkipped(kind) == UNCHANGED <<ok, errs, results>>

RemovalFails(kind) ==
  /\ ok' = (ok /\ stage # "tidy")
  /\ errs' = IF stage = "cleanup" THEN errs \union {kind} ELSE errs
  /\ IF stage = "cleanup" THEN Record({"cleanup"}, FALSE) ELSE UNCHANGED results

Removed == UNCHANGED <<ok, errs, results>>

(* Mutant of Turn: what was added first goes first. *)
OldestFirst(e) == \A f \in sweep : e.at <= f.at

(* The last added goes first: a container before the volume it uses. *)
Turn(e) == \A f \in sweep : f.at <= e.at

(* One round of runGuarded's removals, of removeInst or of CleanupAll; only
   removeInst lets an error pass, as CleanupAll comes back to the entry. *)
Sweep ==
  /\ stage \in {"tidy", "drop", "cleanup"} /\ UNCHANGED made
  /\ \E e \in {f \in sweep : Turn(f)} :
     LET r == e.res IN
     /\ sweep' = sweep \ {e}
     /\ \/ \* removed, or found gone
           /\ label[r] # "none" => Owned(e) /\ ~InUse(r)
           /\ Reachable
           /\ label' = [label EXCEPT ![r] = "none"] /\ mem' = Without(mem, r)
           /\ \/ Works /\ disk' = mem' /\ Removed
              \/ Fault /\ UNCHANGED disk /\ RemovalFails("other")
        \/ /\ label[r] # "none" /\ ~Owned(e) /\ CommandWorks /\ RemovalFails("notOwned")
           /\ UNCHANGED <<label, mem, disk>>
        \/ /\ (Owned(e) /\ InUse(r) /\ CommandWorks) \/ CommandFails
           /\ UNCHANGED <<label, mem, disk>> /\ RemovalFails("other")
  /\ UNCHANGED <<cur, mainUp, todo, existing, verdict, ctx, stage, making, reported, passed>>

(* runGuarded is over: the result is recorded. *)
EndScenario ==
  /\ stage = "tidy" /\ sweep = {} /\ stage' = "next"
  /\ Record({cur}, ok) /\ todo' = todo \ {cur} /\ cur' = "none"
  /\ UNCHANGED <<objects, mainUp, existing, ok, verdict, ctx, making, sweep, errs, faults, reported,
                 passed>>

(* removeInst for the main instance. *)
DropMain ==
  /\ mainUp = "up"
  /\ \/ /\ stage = "next" /\ todo \intersect Shared = {} /\ stage' = "drop" /\ UNCHANGED mainUp
        /\ sweep' = {[res |-> <<"main", "container">>, expect |-> "ours", at |-> 1],
                     [res |-> <<"main", "volume">>, expect |-> "ours", at |-> 0]}
     \/ stage = "drop" /\ sweep = {} /\ stage' = "next" /\ mainUp' = "gone" /\ UNCHANGED sweep
  /\ UNCHANGED <<objects, cur, todo, existing, ok, verdict, ctx, making, errs, results, faults,
                 reported, passed>>

----------------------------------------------------------------------------
(* finish, on the normal path or after a panic outside a scenario: a cancelled
   context and consumers that cannot be reaped fail the run. *)
Finish ==
  /\ stage = "next" /\ stage' = "cleanup" /\ sweep' = mem
  /\ LET cancelled == IF ctx = "live" THEN {} ELSE {ctx} IN
       \/ todo = {} /\ mainUp # "up" /\ Works /\ Record(cancelled, FALSE)
       \/ todo = {} /\ mainUp # "up" /\ Fault /\ Record(cancelled \union {"child-processes"}, FALSE)
       \/ Fault /\ Record(cancelled \union {"gate-panic"}, FALSE)
  /\ UNCHANGED <<objects, flow, verdict, ctx, making, errs, reported, passed>>

(* The result each default scenario must have left in a full run. *)
Missing == IF full THEN Default \ (results[TRUE] \union results[FALSE]) ELSE {}

Verdict ==
  /\ command = "run" /\ stage = "cleanup" /\ sweep = {} /\ stage' = "ended"
  /\ \/ Works /\ exit' = IF results[FALSE] = {} /\ Missing = {} THEN 0 ELSE 1
     \/ Fault /\ exit' = 1
  /\ UNCHANGED <<objects, flow, command, full, ctx, making, sweep, errs, results, reported, passed>>

(* The process is killed; later `gate cleanup --run-id` reads the manifest. *)
Crash ==
  /\ CanCrash /\ command = "run" /\ stage \notin {"ended", "crashed"} /\ stage' = "crashed"
  /\ UNCHANGED <<objects, flow, verdict, ctx, making, sweep, errs, results, faults, reported, passed>>

Cleanup ==
  /\ stage = "crashed" /\ command' = "cleanup" /\ stage' = "cleanup"
  /\ mem' = disk /\ sweep' = disk /\ errs' = {}
  /\ UNCHANGED <<label, disk, made, flow, exit, full, ctx, making, results, faults, reported, passed>>

(* cleanupExitCode. *)
CleanupExit == IF errs = {} THEN 0 ELSE IF errs = {"notOwned"} THEN 6 ELSE 1

CleanupVerdict ==
  /\ command = "cleanup" /\ stage = "cleanup" /\ sweep = {} /\ stage' = "ended"
  /\ exit' = CleanupExit
  /\ UNCHANGED <<objects, flow, command, full, ctx, making, sweep, errs, results, faults, reported,
                 passed>>

Ended == stage = "ended" /\ UNCHANGED vars

----------------------------------------------------------------------------
Step ==
  \/ Begin \/ Create \/ Register \/ Adopt \/ Body \/ Sweep \/ EndScenario \/ DropMain
  \/ Finish \/ Verdict \/ Cleanup \/ CleanupVerdict

Next == Step \/ Cancel \/ Crash \/ Ended

Spec == Init /\ [][Next]_vars

----------------------------------------------------------------------------
(* What is not this run's is never removed, whatever the manifest says of it. *)
ForeignSafe ==
  [][\A r \in Res : label[r] = "foreign" => label'[r] = "foreign"]_vars

(* Whatever this run has created can be found again: it is in the manifest file,
   is being registered at this moment, or an error has named it. *)
OwnAccounted ==
  \A r \in Res : label[r] = "ours" => r \in Ids(disk) \union {making[1]} \union reported

(* Exit code 0 means that nothing was left behind; a clean-up after a crash
   cannot know of an object the crash kept from being registered. *)
CleanExit ==
  exit = 0 => \A r \in Res : label[r] = "ours" => command = "cleanup" /\ r \in {making[1]} \union reported

(* A run passes only if every scenario it wanted passed, and a full run only if
   every default scenario did. *)
PassMeansAll ==
  exit = 0 /\ command = "run" =>
    /\ todo = {} /\ results[TRUE] \subseteq passed /\ results[FALSE] = {}
    /\ full => passed = Default

(* Nothing outside the scenarios fails a run that met no fault. *)
NoFalseAlarm ==
  exit = 1 /\ faults = 0 /\ ctx = "live" /\ command = "run" /\ (\A r \in Res : label[r] # "foreign")
    => \E s \in Default : s \in results[FALSE] /\ s \notin passed
=============================================================================
