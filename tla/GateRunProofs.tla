---------------------------- MODULE GateRunProofs ----------------------------
(***************************************************************************)
(* Proofs about GateRun, for any scenarios and any number of faults.       *)
(*                                                                         *)
(* The invariant says for every stage of the run where the objects it has  *)
(* created are written down, and that a mishap which keeps one of them     *)
(* from being removed leaves a failed result or an error behind.  A second *)
(* one describes the run that meets no mishap.                             *)
(***************************************************************************)
EXTENDS GateRun, TLAPS

Places == {"next", "volume", "container", "register", "body", "tidy", "drop", "cleanup",
           "ended", "crashed"}

(* What each stage of the control flow means. *)
Control ==
  /\ stage \in {"volume", "container", "register"} => cur \in Instances
  /\ stage \in {"body", "tidy"} => cur \in Default
  /\ stage = "register" => making \in Res \X {"created", "error"}
  /\ command = "run" /\ stage \notin {"register", "crashed"} => making = Nothing
  /\ command = "cleanup" => stage \in {"cleanup", "ended"}
  /\ exit # Running => stage = "ended"

(* An object of this run is in both manifests, or on its way there, or named. *)
Known ==
  \A r \in Res : label[r] = "ours" => r \in (Ids(disk) \intersect Ids(mem)) \union {making[1]} \union reported

(* CleanupAll has an object of this run before it, or has met an error. *)
Swept ==
  stage = "cleanup" => \A r \in Res : label[r] = "ours" =>
    r \in Ids(sweep) \union {making[1]} \union reported \/ errs # {}

(* Mishaps leave a failed result behind. *)
Judged ==
  /\ results[TRUE] \subseteq passed
  /\ stage = "tidy" /\ ok => cur \in passed
  /\ command = "run" /\ reported # {} => results[FALSE] # {} \/ (stage = "tidy" /\ ~ok) \/ stage = "crashed"
  /\ command = "run" /\ errs # {} => results[FALSE] # {}
  /\ command = "run" /\ stage \in {"cleanup", "ended"} /\ results[FALSE] = {} => todo = {}

GInv == TypeOK /\ Control /\ Known /\ Swept /\ Judged /\ CleanExit /\ PassMeansAll

----------------------------------------------------------------------------
LEMMA NothingIsNoObject == Nothing[1] \notin Res
  BY DEF Nothing, Res

LEMMA GInit == Init => GInv
<1>. SUFFICES ASSUME Init PROVE GInv
  OBVIOUS
<1>1. mem \subseteq Entry
  BY DEF Init, Entry
<1>2. TypeOK
  BY <1>1, GateAssumption DEF Init, TypeOK, Running
<1>3. Control
  BY DEF Init, Control, Running
<1>4. \A r \in Res : label[r] # "ours"
  BY DEF Init
<1>5. Known /\ Swept
  BY <1>4 DEF Known, Swept
<1>6. Judged /\ CleanExit /\ PassMeansAll
  BY DEF Init, Judged, CleanExit, PassMeansAll, Running
<1>. QED BY <1>2, <1>3, <1>5, <1>6 DEF GInv

----------------------------------------------------------------------------
(* Types. *)
LEMMA RecordType ==
  ASSUME TypeOK, NEW names \in SUBSET Names, NEW b \in BOOLEAN, Record(names, b)
  PROVE  /\ results' \in [BOOLEAN -> SUBSET Names]
         /\ results'[b] = results[b] \union names
         /\ results'[~b] = results[~b]
  BY DEF TypeOK, Record

LEMMA AddType ==
  ASSUME TypeOK, NEW r \in Res, Add(r)
  PROVE  made' \in Nat /\ mem' \subseteq Entry
<1>1. made' \in Nat
  BY DEF TypeOK, Add
<1>2. [res |-> r, expect |-> "ours", at |-> made'] \in Entry
  BY <1>1 DEF Entry
<1>. QED BY <1>1, <1>2 DEF TypeOK, Add

LEMMA NoInstanceType ==
  ASSUME TypeOK, Control, stage = "register", mem' \subseteq Entry, NoInstance
  PROVE  /\ results' \in [BOOLEAN -> SUBSET Names] /\ todo' \subseteq Default /\ ok' \in BOOLEAN
         /\ mainUp' \in {"untried", "up", "gone"} /\ sweep' \subseteq Entry
         /\ cur' \in Default \union {"main", "none"}
         /\ \/ cur = "main" /\ stage' = "next"
            \/ cur \in Default /\ stage' = "tidy" /\ cur' = cur /\ ~ok'
  BY RecordType DEF NoInstance, Control, TypeOK, Added, Names, Instances, Default

LEMMA OneStepOnType ==
  ASSUME TypeOK, Control, stage = "register", NEW kind, OneStepOn(kind)
  PROVE  /\ UNCHANGED <<results, todo, ok, sweep>>
         /\ mainUp' \in {"untried", "up", "gone"} /\ cur' \in Default \union {"main", "none"}
         /\ \/ stage' = "container" /\ cur' = cur
            \/ stage' = "next"
            \/ stage' = "body" /\ cur' = cur /\ cur \in Default
  BY DEF OneStepOn, TypeOK, Control, Instances, Default

LEMMA BeginType == ASSUME TypeOK, Begin PROVE TypeOK'
<1>1. Ids(mem) \subseteq Res
  BY DEF TypeOK, Ids, Entry
<1>2. existing' \subseteq Res /\ ok' \in BOOLEAN
  BY <1>1 DEF Begin, TypeOK
<1>3. cur' \in Default \union {"main", "none"} /\ stage' \in Places
  BY DEF Begin, TypeOK, Places
<1>. QED BY <1>2, <1>3 DEF TypeOK, Begin, objects, verdict, Places

LEMMA CreateFacts ==
  ASSUME TypeOK, Control, Create
  PROVE  label' \in [Res -> {"none", "ours", "foreign"}] /\ making' \in Res \X {"created", "error"}
<1>1. stage' = "register" /\ <<cur, stage>> \in Res
  BY DEF Create, Control, Res
<1>. QED BY <1>1 DEF Create, TypeOK

LEMMA CreateType == ASSUME TypeOK, Control, Create PROVE TypeOK'
<1>1. stage' = "register" /\ <<cur, stage>> \in Res
  BY DEF Create, Control, Res
<1>2. label' \in [Res -> {"none", "ours", "foreign"}] /\ making' \in Res \X {"created", "error"}
  BY CreateFacts
<1>3. faults' \in 0..MaxFaults
  BY GateAssumption DEF Create, TypeOK, CommandWorks, CommandFails, Works, Fault
<1>. QED BY <1>1, <1>2, <1>3 DEF TypeOK, Create, flow, verdict

LEMMA FaultType == ASSUME TypeOK, Works \/ Fault PROVE faults' \in 0..MaxFaults
  BY GateAssumption DEF TypeOK, Works, Fault

LEMMA AddFailsType ==
  ASSUME TypeOK, NEW r \in Res, AddFails(r)
  PROVE  /\ made' \in Nat /\ mem' \subseteq Entry /\ faults' \in 0..MaxFaults /\ disk' = disk
         /\ label' \in [Res -> {"none", "ours", "foreign"}] /\ reported' \subseteq Res
         /\ \/ reported' = reported \union {r} /\ label' = label
            \/ reported' = reported /\ label[r] = "ours" /\ label' = [label EXCEPT ![r] = "none"]
         /\ NoInstance
<1>1. faults' \in 0..MaxFaults
  BY GateAssumption DEF TypeOK, AddFails, Fault
<1>. QED BY <1>1, AddType DEF AddFails, TypeOK

LEMMA RegisterType == ASSUME TypeOK, Control, Register PROVE TypeOK'
<1>. DEFINE r == making[1]
<1>0. stage = "register" /\ r \in Res /\ making' = Nothing
  BY DEF Register, Control
<1>1. CASE AddFails(r)
  <2>1. mem' \subseteq Entry /\ NoInstance
    BY <1>0, <1>1, AddFailsType
  <2>. QED BY <1>0, <1>1, <2>1, AddFailsType, NoInstanceType DEF TypeOK, Register, verdict
<1>2. CASE ~AddFails(r)
  <2>1. Add(r) /\ disk' = mem' /\ UNCHANGED <<label, reported>>
    BY <1>2 DEF Register
  <2>2. mem' \subseteq Entry /\ made' \in Nat
    BY <1>0, <2>1, AddType
  <2>3. faults' \in 0..MaxFaults
    BY <1>2, FaultType DEF Register, CommandWorks, CommandFails
  <2>4. NoInstance \/ OneStepOn(r[2])
    BY <1>2 DEF Register
  <2>. QED BY <1>0, <2>1, <2>2, <2>3, <2>4, NoInstanceType, OneStepOnType DEF TypeOK, Register, verdict
<1>. QED BY <1>1, <1>2

LEMMA AdoptType == ASSUME TypeOK, Control, Adopt PROVE TypeOK'
<1>. DEFINE r == making[1]
<1>0. stage = "register" /\ r \in Res /\ making' = Nothing
  BY DEF Adopt, Control
<1>1. CASE AddFails(r)
  <2>1. mem' \subseteq Entry /\ NoInstance
    BY <1>0, <1>1, AddFailsType
  <2>. QED BY <1>0, <1>1, <2>1, AddFailsType, NoInstanceType DEF TypeOK, Adopt, verdict
<1>2. CASE ~AddFails(r)
  <2>1. mem' \subseteq Entry /\ made' \in Nat /\ disk' \subseteq Entry
    BY <1>0, <1>2, AddType DEF Adopt, TypeOK, objects
  <2>2. faults' \in 0..MaxFaults
    BY <1>2, FaultType DEF Adopt
  <2>3. NoInstance /\ UNCHANGED label /\ reported' \subseteq Res
    BY <1>0, <1>2 DEF Adopt, TypeOK, objects
  <2>. QED BY <1>0, <2>1, <2>2, <2>3, NoInstanceType DEF TypeOK, Adopt, verdict
<1>. QED BY <1>1, <1>2

LEMMA BodyType == ASSUME TypeOK, Control, Body PROVE TypeOK'
  BY DEF TypeOK, Control, Body, Added, objects, verdict, Default

LEMMA SweepType == ASSUME TypeOK, Sweep PROVE TypeOK'
<1>1. PICK e \in sweep :
        /\ sweep' = sweep \ {e}
        /\ \/ /\ label' = [label EXCEPT ![e.res] = "none"] /\ mem' = Without(mem, e.res)
              /\ disk' \in {mem', disk}
           \/ UNCHANGED <<label, mem, disk>>
        /\ Works \/ Fault
        /\ Removed \/ RemovalFails("other") \/ RemovalFails("notOwned")
  BY DEF Sweep, CommandWorks, CommandFails
<1>2. label' \in [Res -> {"none", "ours", "foreign"}]
  BY <1>1 DEF TypeOK
<1>3. mem' \subseteq Entry /\ disk' \subseteq Entry /\ sweep' \subseteq Entry
  BY <1>1 DEF TypeOK, Without
<1>4. ok' \in BOOLEAN /\ errs' \subseteq {"notOwned", "other"} /\ results' \in [BOOLEAN -> SUBSET Names]
  <2>1. {"cleanup"} \subseteq Names
    BY DEF Names
  <2>. QED BY <1>1, <2>1, RecordType DEF TypeOK, Removed, RemovalFails
<1>5. faults' \in 0..MaxFaults
  BY <1>1, FaultType
<1>. QED BY <1>2, <1>3, <1>4, <1>5 DEF TypeOK, Sweep, verdict

LEMMA FinishType == ASSUME TypeOK, Finish PROVE TypeOK'
<1>1. \E names \in SUBSET Names : Record(names, FALSE)
  <2>1. PICK names \in SUBSET {"signal", "deadline", "child-processes", "gate-panic"} : Record(names, FALSE)
    BY DEF Finish, TypeOK
  <2>2. names \subseteq Names
    BY DEF Names
  <2>. QED BY <2>1, <2>2
<1>2. results' \in [BOOLEAN -> SUBSET Names]
  BY <1>1, RecordType
<1>3. faults' \in 0..MaxFaults
  BY FaultType DEF Finish
<1>. QED BY <1>2, <1>3 DEF TypeOK, Finish, objects, flow, verdict

LEMMA TypeStep == TypeOK /\ Control /\ [Next]_vars => TypeOK'
<1>. SUFFICES ASSUME TypeOK, Control, [Next]_vars PROVE TypeOK'
  OBVIOUS
<1>1. CASE EndScenario
  <2>1. {cur} \subseteq Names /\ ok \in BOOLEAN
    BY <1>1 DEF EndScenario, Control, Names, TypeOK
  <2>2. results' \in [BOOLEAN -> SUBSET Names]
    BY <1>1, <2>1, RecordType DEF EndScenario
  <2>. QED BY <1>1, <2>2 DEF TypeOK, EndScenario, objects, verdict
<1>2. CASE DropMain
  <2>1. CASE stage = "next"
    <3>1. /\ [res |-> <<"main", "container">>, expect |-> "ours", at |-> 1] \in Entry
          /\ [res |-> <<"main", "volume">>, expect |-> "ours", at |-> 0] \in Entry
      BY DEF Entry, Res, Instances
    <3>2. sweep' \subseteq Entry
      BY <1>2, <2>1, <3>1 DEF DropMain
    <3>. QED BY <1>2, <2>1, <3>2 DEF TypeOK, DropMain, objects, verdict
  <2>2. CASE stage # "next"
    BY <1>2, <2>2 DEF TypeOK, DropMain, objects, verdict
  <2>. QED BY <2>1, <2>2
<1>3. CASE Verdict
  <2>1. faults' \in 0..MaxFaults
    BY <1>3, FaultType DEF Verdict
  <2>. QED BY <1>3, <2>1 DEF TypeOK, Verdict, objects, flow, Running
<1>4. CASE Cleanup \/ CleanupVerdict
  BY <1>4 DEF TypeOK, Cleanup, CleanupVerdict, CleanupExit, objects, flow, Running
<1>5. CASE Cancel
  BY <1>5 DEF TypeOK, Cancel, objects, flow, verdict
<1>6. CASE Crash
  BY <1>6 DEF TypeOK, Crash, objects, flow, verdict
<1>7. CASE UNCHANGED vars
  BY <1>7 DEF TypeOK, vars, objects, flow, verdict
<1>. QED BY <1>1, <1>2, <1>3, <1>4, <1>5, <1>6, <1>7, BeginType, CreateType, RegisterType, AdoptType,
            BodyType, SweepType, FinishType DEF Next, Step, Ended

----------------------------------------------------------------------------
(* What a creation leaves behind, whichever way it ends. *)
LEMMA CreationEnds ==
  ASSUME TypeOK, Control, Register \/ Adopt
  PROVE  /\ stage = "register" /\ making[1] \in Res /\ making' = Nothing
         /\ UNCHANGED <<command, exit, errs, passed>>
         /\ mem \subseteq mem' /\ disk' \in {mem', disk}
         /\ \A q \in Res : label'[q] = "ours" => label[q] = "ours"
         /\ label'[making[1]] = "ours" => making[1] \in (Ids(disk') \intersect Ids(mem')) \union reported'
         /\ reported \subseteq reported'
         /\ NoInstance \/ (reported' = reported /\ \E kind : OneStepOn(kind))
<1>. DEFINE r == making[1]
<1>0. stage = "register" /\ r \in Res /\ making' = Nothing /\ UNCHANGED <<command, exit, errs, passed>>
  BY DEF Register, Adopt, Control, verdict
<1>1. ASSUME Add(r) PROVE mem \subseteq mem' /\ r \in Ids(mem')
  <2>1. [res |-> r, expect |-> "ours", at |-> made'] \in mem'
    BY <1>1 DEF Add
  <2>2. PICK e \in mem' : e.res = r
    BY <2>1
  <2>. QED BY <1>1, <2>2 DEF Add, Ids
<1>2. CASE AddFails(r)
  <2>1. mem \subseteq mem' /\ disk' = disk /\ NoInstance
    BY <1>1, <1>2 DEF AddFails
  <2>2. \A q \in Res : label'[q] = "ours" => label[q] = "ours"
    BY <1>0, <1>2, AddFailsType DEF TypeOK
  <2>3. label'[r] = "ours" => r \in reported'
    BY <1>0, <1>2, AddFailsType DEF TypeOK
  <2>4. reported \subseteq reported'
    BY <1>0, <1>2, AddFailsType
  <2>. QED BY <1>0, <2>1, <2>2, <2>3, <2>4
<1>3. CASE Register /\ ~AddFails(r)
  <2>1. Add(r) /\ disk' = mem' /\ UNCHANGED <<label, reported>>
    BY <1>3 DEF Register
  <2>2. NoInstance \/ OneStepOn(r[2])
    BY <1>3 DEF Register
  <2>. QED BY <1>0, <1>1, <2>1, <2>2
<1>4. CASE Adopt /\ ~AddFails(r)
  <2>1. NoInstance /\ UNCHANGED label
    BY <1>4 DEF Adopt, objects
  <2>2. CASE Add(r) /\ disk' = mem' /\ UNCHANGED reported
    BY <1>0, <1>1, <2>1, <2>2
  <2>3. CASE label[r] # "ours" /\ UNCHANGED objects /\ UNCHANGED reported
    BY <1>0, <2>1, <2>3 DEF objects
  <2>4. CASE reported' = reported \union {r} /\ UNCHANGED objects
    BY <1>0, <2>1, <2>4 DEF objects
  <2>. QED BY <1>4, <2>2, <2>3, <2>4 DEF Adopt
<1>. QED BY <1>2, <1>3, <1>4

(* A round of removals takes an object away only with its entry. *)
LEMMA Rounds ==
  ASSUME TypeOK, Sweep
  PROVE  /\ UNCHANGED <<command, exit, stage, cur, todo, making, reported, passed>>
         /\ \A q \in Res : label'[q] = "ours" => label[q] = "ours"
         /\ \A q \in Res : label'[q] = "ours" /\ q \in Ids(mem) => q \in Ids(mem')
         /\ \A q \in Res : label'[q] = "ours" /\ q \in Ids(mem) \intersect Ids(disk) => q \in Ids(disk')
         /\ \A q \in Res : label'[q] = "ours" /\ q \in Ids(sweep) =>
                q \in Ids(sweep') \/ RemovalFails("other") \/ RemovalFails("notOwned")
         /\ Removed \/ RemovalFails("other") \/ RemovalFails("notOwned")
<1>1. PICK e \in sweep :
        /\ sweep' = sweep \ {e}
        /\ \/ /\ label' = [label EXCEPT ![e.res] = "none"] /\ mem' = Without(mem, e.res)
              /\ disk' \in {mem', disk}
              /\ Removed \/ RemovalFails("other")
           \/ UNCHANGED <<label, mem, disk>> /\ (RemovalFails("other") \/ RemovalFails("notOwned"))
  BY DEF Sweep
<1>2. UNCHANGED <<command, exit, stage, cur, todo, making, reported, passed>>
  BY DEF Sweep, verdict
<1>3. CASE /\ label' = [label EXCEPT ![e.res] = "none"] /\ mem' = Without(mem, e.res)
           /\ disk' \in {mem', disk}
           /\ Removed \/ RemovalFails("other")
  <2>1. \A q \in Res : label'[q] = "ours" => label[q] = "ours" /\ q # e.res
    BY <1>3 DEF TypeOK
  <2>2. \A q \in Res : q # e.res /\ q \in Ids(mem) => q \in Ids(mem')
    BY <1>3 DEF Ids, Without
  <2>3. \A q \in Res : q # e.res /\ q \in Ids(sweep) => q \in Ids(sweep')
    BY <1>1 DEF Ids
  <2>. QED BY <1>2, <1>3, <2>1, <2>2, <2>3
<1>4. CASE UNCHANGED <<label, mem, disk>> /\ (RemovalFails("other") \/ RemovalFails("notOwned"))
  BY <1>2, <1>4 DEF Ids
<1>. QED BY <1>1, <1>3, <1>4

(* The stages. *)
LEMMA ControlStep == TypeOK /\ Control /\ [Next]_vars => Control'
<1>. SUFFICES ASSUME TypeOK, Control, [Next]_vars PROVE Control'
  OBVIOUS
<1>1. CASE Begin
  BY <1>1 DEF Begin, Control, TypeOK, Instances, Default, verdict
<1>2. CASE Create
  <2>1. <<cur, stage>> \in Res
    BY <1>2 DEF Create, Control, Res
  <2>2. making' \in Res \X {"created", "error"}
    BY <1>2, CreateFacts
  <2>. QED BY <1>2, <2>1, <2>2 DEF Create, Control, flow, verdict
<1>3. CASE Register \/ Adopt
  <2>1. /\ stage = "register" /\ making' = Nothing /\ UNCHANGED <<command, exit>>
        /\ NoInstance \/ \E kind : OneStepOn(kind)
    BY <1>3, CreationEnds
  <2>2. \/ stage' = "next"
        \/ stage' \in {"tidy", "body"} /\ cur' \in Default
        \/ stage' = "container" /\ cur' \in Instances
    BY <2>1, OneStepOnType DEF NoInstance, Control, Instances, Default
  <2>. QED BY <2>1, <2>2 DEF Control
<1>4. CASE Body
  BY <1>4 DEF Body, Control, verdict
<1>5. CASE Sweep
  BY <1>5, Rounds DEF Control
<1>6. CASE EndScenario
  BY <1>6 DEF EndScenario, Control, verdict
<1>7. CASE DropMain
  BY <1>7 DEF DropMain, Control, verdict
<1>8. CASE Finish
  BY <1>8 DEF Finish, Control, flow, verdict
<1>9. CASE Verdict
  BY <1>9 DEF Verdict, Control, flow
<1>10. CASE Cleanup \/ CleanupVerdict
  BY <1>10 DEF Cleanup, CleanupVerdict, Control, flow
<1>11. CASE Cancel
  BY <1>11 DEF Cancel, Control, flow, verdict
<1>12. CASE Crash
  BY <1>12 DEF Crash, Control, flow, verdict
<1>13. CASE UNCHANGED vars
  BY <1>13 DEF Control, vars, flow, verdict
<1>. QED BY <1>1, <1>2, <1>3, <1>4, <1>5, <1>6, <1>7, <1>8, <1>9, <1>10, <1>11, <1>12, <1>13
         DEF Next, Step, Ended

(* Where the objects of this run are written down. *)
LEMMA KnownStep == TypeOK /\ Control /\ Known /\ [Next]_vars => Known'
<1>. SUFFICES ASSUME TypeOK, Control, Known, [Next]_vars PROVE Known'
  OBVIOUS
<1>1. CASE UNCHANGED <<label, mem, disk, making, reported>>
  BY <1>1 DEF Known, Ids
<1>2. CASE Create
  <2>1. making = Nothing
    BY <1>2 DEF Create, Control, TypeOK
  <2>2. making'[1] = <<cur, stage>> /\ UNCHANGED <<mem, disk, reported>>
    BY <1>2 DEF Create
  <2>3. \A q \in Res : label'[q] = "ours" => label[q] = "ours" \/ q = making'[1]
    BY <1>2, <2>2 DEF Create, TypeOK
  <2>4. Nothing[1] \notin Res
    BY NothingIsNoObject
  <2>. QED BY <2>1, <2>2, <2>3, <2>4 DEF Known, Ids
<1>3. CASE Register \/ Adopt
  <2>1. Ids(mem) \subseteq Ids(mem')
    BY <1>3, CreationEnds DEF Ids
  <2>2. Ids(disk') \in {Ids(mem'), Ids(disk)}
    BY <1>3, CreationEnds DEF Ids
  <2>3. ASSUME NEW q \in Res, label'[q] = "ours"
        PROVE  q \in (Ids(disk') \intersect Ids(mem')) \union reported'
    <3>1. CASE q = making[1]
      BY <1>3, <2>3, <3>1, CreationEnds
    <3>2. CASE q # making[1]
      <4>1. q \in (Ids(disk) \intersect Ids(mem)) \union reported
        BY <1>3, <2>3, <3>2, CreationEnds DEF Known
      <4>2. reported \subseteq reported'
        BY <1>3, CreationEnds
      <4>. QED BY <2>1, <2>2, <4>1, <4>2
    <3>. QED BY <3>1, <3>2
  <2>. QED BY <2>3 DEF Known, Ids
<1>4. CASE Sweep
  BY <1>4, Rounds DEF Known, Ids
<1>5. CASE Cleanup
  BY <1>5 DEF Cleanup, Known, Ids
<1>6. CASE Begin \/ Body \/ EndScenario \/ DropMain \/ Finish \/ Verdict \/ CleanupVerdict \/ Cancel \/ Crash
  BY <1>1, <1>6 DEF Begin, Body, EndScenario, DropMain, Finish, Verdict, CleanupVerdict, Cancel, Crash, objects
<1>7. CASE UNCHANGED vars
  BY <1>1, <1>7 DEF vars, objects
<1>. QED BY <1>2, <1>3, <1>4, <1>5, <1>6, <1>7 DEF Next, Step, Ended

(* What CleanupAll still has before it. *)
LEMMA SweptStep == TypeOK /\ Control /\ Known /\ Swept /\ [Next]_vars => Swept'
<1>. SUFFICES ASSUME TypeOK, Control, Known, Swept, [Next]_vars, stage' = "cleanup" PROVE Swept'
  BY DEF Swept
<1>1. CASE Sweep
  <2>1. stage = "cleanup" /\ UNCHANGED <<making, reported>>
    BY <1>1, Rounds
  <2>2. errs # {} => errs' # {}
    BY <1>1, <2>1, Rounds DEF Removed, RemovalFails
  <2>3. RemovalFails("other") \/ RemovalFails("notOwned") => errs' # {}
    BY <2>1 DEF RemovalFails
  <2>4. \A q \in Res : label'[q] = "ours" /\ q \in Ids(sweep) => q \in Ids(sweep') \/ errs' # {}
    BY <1>1, <2>3, Rounds
  <2>5. \A q \in Res : label'[q] = "ours" => label[q] = "ours"
    BY <1>1, Rounds
  <2>. QED BY <2>1, <2>2, <2>4, <2>5 DEF Swept, Ids
<1>2. CASE Finish
  BY <1>2 DEF Finish, Known, Swept, Ids, objects
<1>3. CASE Cleanup
  BY <1>3 DEF Cleanup, Known, Swept, Ids
<1>4. CASE Register \/ Adopt
  <2>1. stage = "register" /\ (NoInstance \/ \E kind : OneStepOn(kind))
    BY <1>4, CreationEnds
  <2>. QED BY <2>1 DEF NoInstance, OneStepOn
<1>5. CASE Cancel
  BY <1>5 DEF Cancel, Swept, Ids, objects
<1>6. CASE UNCHANGED vars
  BY <1>6 DEF Swept, Ids, vars, objects
<1>. QED BY <1>1, <1>2, <1>3, <1>4, <1>5, <1>6
         DEF Next, Step, Ended, Begin, Create, Body, EndScenario, DropMain, Verdict, CleanupVerdict, Crash

(* Results that are FALSE stay. *)
LEMMA NoInstanceJudged ==
  ASSUME TypeOK, Judged, stage = "register", NoInstance, UNCHANGED <<command, errs, passed>>
  PROVE  Judged'
<1>1. CASE cur = "main"
  <2>1. {"main-redis"} \in SUBSET Names
    BY DEF Names
  <2>2. results'[FALSE] = results[FALSE] \union {"main-redis"} /\ results'[TRUE] = results[TRUE]
    BY <1>1, <2>1, RecordType DEF NoInstance
  <2>. QED BY <1>1, <2>2 DEF NoInstance, Judged
<1>2. CASE cur # "main"
  BY <1>2 DEF NoInstance, Judged
<1>. QED BY <1>1, <1>2

LEMMA SweepJudged == ASSUME TypeOK, Judged, Sweep PROVE Judged'
<1>0. UNCHANGED <<command, stage, cur, todo, reported, passed>>
  BY Rounds
<1>1. {"cleanup"} \in SUBSET Names
  BY DEF Names
<1>2. CASE Removed
  BY <1>0, <1>2 DEF Removed, Judged
<1>3. ASSUME NEW kind, RemovalFails(kind) PROVE Judged'
  <2>1. CASE stage = "cleanup"
    <3>1. results'[FALSE] = results[FALSE] \union {"cleanup"} /\ results'[TRUE] = results[TRUE]
      BY <1>1, <1>3, <2>1, RecordType DEF RemovalFails
    <3>. QED BY <1>0, <2>1, <3>1 DEF Judged
  <2>2. CASE stage # "cleanup"
    <3>1. UNCHANGED <<errs, results>> /\ ok' = (ok /\ stage # "tidy")
      BY <1>3, <2>2 DEF RemovalFails
    <3>2. stage = "tidy" => ~ok'
      BY <3>1
    <3>. QED BY <1>0, <3>1, <3>2 DEF Judged
  <2>. QED BY <2>1, <2>2
<1>. QED BY <1>2, <1>3, Rounds

LEMMA FinishJudged == ASSUME TypeOK, Judged, Finish PROVE Judged'
<1>1. PICK names \in SUBSET Names :
        Record(names, FALSE) /\ (todo = {} \/ "gate-panic" \in names)
  <2>1. PICK names \in SUBSET {"signal", "deadline", "child-processes", "gate-panic"} :
          Record(names, FALSE) /\ (todo = {} \/ "gate-panic" \in names)
    <3>. DEFINE cancelled == IF ctx = "live" THEN {} ELSE {ctx}
    <3>1. cancelled \in SUBSET {"signal", "deadline", "child-processes", "gate-panic"}
      BY DEF TypeOK
    <3>2. \/ todo = {} /\ Record(cancelled, FALSE)
          \/ todo = {} /\ Record(cancelled \union {"child-processes"}, FALSE)
          \/ Record(cancelled \union {"gate-panic"}, FALSE)
      BY DEF Finish
    <3>. HIDE DEF cancelled
    <3>. QED BY <3>1, <3>2
  <2>2. names \subseteq Names
    BY DEF Names
  <2>. QED BY <2>1, <2>2
<1>2. results'[FALSE] = results[FALSE] \union names /\ results'[TRUE] = results[TRUE]
  BY <1>1, RecordType
<1>. QED BY <1>1, <1>2 DEF Finish, Judged, flow, verdict

LEMMA JudgedStep == TypeOK /\ Control /\ Judged /\ [Next]_vars => Judged'
<1>. SUFFICES ASSUME TypeOK, Control, Judged, [Next]_vars PROVE Judged'
  OBVIOUS
<1>1. CASE Begin \/ Create \/ DropMain \/ Cancel \/ Crash
  <2>1. CASE Begin
    BY <2>1 DEF Begin, Judged, verdict
  <2>2. CASE Create
    BY <2>2 DEF Create, Judged, flow, verdict
  <2>3. CASE DropMain
    BY <2>3 DEF DropMain, Judged, verdict
  <2>4. CASE Cancel
    BY <2>4 DEF Cancel, Judged, flow, verdict
  <2>5. CASE Crash
    BY <2>5 DEF Crash, Judged, flow, verdict
  <2>. QED BY <1>1, <2>1, <2>2, <2>3, <2>4, <2>5
<1>2. CASE Register \/ Adopt
  <2>1. stage = "register" /\ UNCHANGED <<command, errs, passed>>
    BY <1>2, CreationEnds
  <2>2. ASSUME NEW kind, OneStepOn(kind), reported' = reported PROVE Judged'
    BY <2>1, <2>2 DEF OneStepOn, Judged
  <2>. QED BY <1>2, <2>1, <2>2, CreationEnds, NoInstanceJudged
<1>3. CASE Body
  BY <1>3 DEF Body, Judged, verdict
<1>4. CASE EndScenario
  <2>1. {cur} \in SUBSET Names /\ ok \in BOOLEAN
    BY <1>4 DEF EndScenario, Control, Names, TypeOK
  <2>2. results'[ok] = results[ok] \union {cur} /\ results'[~ok] = results[~ok]
    BY <1>4, <2>1, RecordType DEF EndScenario
  <2>3. CASE ok
    <3>1. results'[TRUE] = results[TRUE] \union {cur} /\ results'[FALSE] = results[FALSE]
      BY <2>1, <2>2, <2>3
    <3>. QED BY <1>4, <2>3, <3>1 DEF EndScenario, Judged, verdict
  <2>4. CASE ~ok
    <3>1. results'[TRUE] = results[TRUE] /\ results'[FALSE] = results[FALSE] \union {cur}
      BY <2>1, <2>2, <2>4
    <3>. QED BY <1>4, <2>4, <3>1 DEF EndScenario, Judged, verdict
  <2>. QED BY <2>3, <2>4
<1>5. CASE Verdict
  BY <1>5 DEF Verdict, Judged, flow
<1>6. CASE Cleanup \/ CleanupVerdict
  BY <1>6 DEF Cleanup, CleanupVerdict, Judged, flow
<1>7. CASE UNCHANGED vars
  BY <1>7 DEF Judged, vars, flow, verdict
<1>. QED BY <1>1, <1>2, <1>3, <1>4, <1>5, <1>6, <1>7, SweepJudged, FinishJudged DEF Next, Step, Ended

(* The two ways to an exit code. *)
LEMMA ExitStep == GInv /\ [Next]_vars => CleanExit' /\ PassMeansAll'
<1>. SUFFICES ASSUME GInv, [Next]_vars, exit' = 0 PROVE CleanExit' /\ PassMeansAll'
  BY DEF CleanExit, PassMeansAll
<1>0. TypeOK /\ Control /\ Known /\ Swept /\ Judged /\ CleanExit /\ PassMeansAll
  BY DEF GInv
<1>1. CASE Verdict
  <2>. DEFINE clean == results[FALSE] = {} /\ Missing = {}
  <2>0. exit' = IF clean THEN 0 ELSE 1
    BY <1>1 DEF Verdict
  <2>1. /\ results[FALSE] = {} /\ Missing = {}
        /\ sweep = {} /\ stage = "cleanup" /\ command = "run"
    <3>1. clean
      <4>. HIDE DEF clean
      <4>. QED BY <2>0
    <3>. QED BY <1>1, <3>1 DEF Verdict
  <2>2. making = Nothing /\ reported = {} /\ errs = {} /\ todo = {}
    BY <1>0, <2>1 DEF Control, Judged
  <2>3. \A r \in Res : label[r] # "ours"
    BY <1>0, <2>1, <2>2, NothingIsNoObject DEF Swept, Ids
  <2>4. results[TRUE] \subseteq passed
    BY <1>0 DEF Judged
  <2>5. full => passed = Default
    BY <1>0, <2>1, <2>4 DEF Missing, TypeOK
  <2>6. CleanExit'
    BY <1>1, <2>3 DEF Verdict, CleanExit, objects
  <2>7. PassMeansAll'
    BY <1>1, <2>1, <2>2, <2>4, <2>5 DEF Verdict, PassMeansAll, flow
  <2>. QED BY <2>6, <2>7
<1>2. CASE CleanupVerdict
  <2>1. errs = {} /\ sweep = {} /\ stage = "cleanup" /\ command = "cleanup"
    BY <1>2 DEF CleanupVerdict, CleanupExit
  <2>2. \A r \in Res : label[r] = "ours" => r \in {making[1]} \union reported
    BY <1>0, <2>1 DEF Swept, Ids
  <2>. QED BY <1>2, <2>1, <2>2 DEF CleanupVerdict, CleanExit, PassMeansAll, objects
<1>3. CASE UNCHANGED vars
  BY <1>0, <1>3 DEF CleanExit, PassMeansAll, vars, objects, flow, verdict
<1>4. CASE (Step \/ Cancel \/ Crash) /\ ~Verdict /\ ~CleanupVerdict
  <2>1. stage # "ended"
    BY <1>4 DEF Step, Cancel, Crash, Begin, Create, Register, Adopt, Body, Sweep, EndScenario, DropMain,
       Finish, Cleanup
  <2>2. exit' = exit
    BY <1>4 DEF Step, Cancel, Crash, Begin, Create, Register, Adopt, Body, Sweep, EndScenario, DropMain,
       Finish, Cleanup, verdict
  <2>. QED BY <1>0, <2>1, <2>2 DEF Control, Running
<1>. QED BY <1>1, <1>2, <1>3, <1>4 DEF Next, Ended

LEMMA GInvariant == Spec => []GInv
<1>1. GInv /\ [Next]_vars => GInv'
  BY TypeStep, ControlStep, KnownStep, SweptStep, JudgedStep, ExitStep DEF GInv
<1>. QED BY <1>1, GInit, PTL DEF Spec

----------------------------------------------------------------------------
(* The manifests, the results and the stages stay in their types. *)
THEOREM GateTypeCorrect == Spec => []TypeOK
<1>1. GInv => TypeOK
  BY DEF GInv
<1>. QED BY <1>1, GInvariant, PTL

(* Failing docker commands, failing writes and a kill at any moment leave no object
   of the run behind that neither the manifest file nor an error message names,
   but the one whose creation was cut short. *)
THEOREM OwnAccountedCorrect == Spec => []OwnAccounted
<1>1. GInv => OwnAccounted
  BY DEF GInv, Known, OwnAccounted
<1>. QED BY <1>1, GInvariant, PTL

(* Exit code 0 of `gate run` and of `gate cleanup` means that what was created is
   gone. *)
THEOREM CleanExitCorrect == Spec => []CleanExit
<1>1. GInv => CleanExit
  BY DEF GInv
<1>. QED BY <1>1, GInvariant, PTL

(* Exit code 0 of `gate run` means that the scenarios ran and passed. *)
THEOREM PassMeansAllCorrect == Spec => []PassMeansAll
<1>1. GInv => PassMeansAll
  BY DEF GInv
<1>. QED BY <1>1, GInvariant, PTL

(* No step takes an object of others away, or relabels it. *)
LEMMA ForeignKept ==
  ASSUME TypeOK, Control, [Next]_vars, NEW q \in Res, label[q] = "foreign"
  PROVE  label'[q] = "foreign"
<1>1. CASE Create
  BY <1>1 DEF Create, TypeOK
<1>2. CASE Register \/ Adopt
  <2>1. UNCHANGED label \/ (AddFails(making[1]) /\ making[1] \in Res)
    BY <1>2 DEF Register, Adopt, Control, objects
  <2>2. CASE AddFails(making[1]) /\ making[1] \in Res
    BY <2>2, AddFailsType DEF TypeOK
  <2>. QED BY <2>1, <2>2
<1>3. CASE Sweep
  <2>1. PICK e \in sweep :
          \/ (label[e.res] # "none" => Owned(e)) /\ label' = [label EXCEPT ![e.res] = "none"]
          \/ UNCHANGED label
    BY <1>3 DEF Sweep
  <2>. QED BY <2>1 DEF Owned, TypeOK
<1>4. CASE ~Create /\ ~Register /\ ~Adopt /\ ~Sweep
  <2>1. UNCHANGED label
    BY <1>4 DEF Next, Step, Cancel, Crash, Ended, Begin, Body, EndScenario, DropMain, Finish, Verdict,
       Cleanup, CleanupVerdict, vars, objects
  <2>. QED BY <2>1
<1>. QED BY <1>1, <1>2, <1>3, <1>4

(* Objects of others are never removed, nor taken over. *)
THEOREM ForeignSafeCorrect == Spec => ForeignSafe
<1>1. GInv /\ [Next]_vars => [\A r \in Res : label[r] = "foreign" => label'[r] = "foreign"]_vars
  BY ForeignKept DEF GInv
<1>. QED BY <1>1, GInvariant, PTL DEF Spec, ForeignSafe

----------------------------------------------------------------------------
(* A run that met no fault, no signal and nothing of others under its names. *)
Calm ==
  /\ faults = 0 /\ ctx = "live" /\ command = "run" /\ stage # "crashed"
  /\ \A r \in Res : label[r] # "foreign"

(* A container that exists was registered after its volume, or is about to be. *)
LaterIn(entries, e) ==
  LET c == <<e.res[1], "container">> IN
  e.res[2] = "volume" /\ label[c] = "ours" => \E f \in entries : f.res = c /\ e.at < f.at

(* The manifest lists what is there. *)
Listed ==
  /\ reported = {}
  /\ \A e \in mem : e.expect = "ours" /\ label[e.res] = "ours" /\ e.at <= made
  /\ \A e \in mem : making[1] # <<e.res[1], "container">> => LaterIn(mem, e)

(* Only the main instance and that of the scenario under way are there. *)
Whose ==
  /\ \A r \in Res : label[r] = "ours" => r[1] = cur \/ (r[1] = "main" /\ mainUp = "up")
  /\ stage \in {"next", "drop", "cleanup", "ended"} => cur = "none"
  /\ stage \in {"volume", "container", "register", "body", "tidy"} => cur \in todo \union {"main"}
  /\ cur = "main" => mainUp = "untried"
  /\ stage = "drop" => mainUp = "up"
  /\ stage \in {"cleanup", "ended"} => mainUp # "up" /\ todo = {} /\ sweep = {}

(* An instance is created from nothing, the volume first. *)
Creation ==
  /\ stage = "volume" => label[<<cur, "volume">>] = "none"
  /\ stage \in {"volume", "container"} => label[<<cur, "container">>] = "none"
  /\ stage = "register" =>
       /\ making[2] = "created" /\ making[1][1] = cur /\ label[making[1]] = "ours"
       /\ making[1][2] = "volume" => label[<<cur, "container">>] = "none"

(* A scenario adds only its own instance to the manifest. *)
Scope ==
  stage \in {"volume", "container", "register", "body"} /\ cur # "main" =>
    /\ \A e \in mem : e.res \in existing \/ e.res[1] = cur
    /\ \A r \in existing : r[1] # cur

(* What is to be removed can be, and is all there is of the instance. *)
Sweeping ==
  stage \in {"tidy", "drop"} =>
    /\ \A e \in sweep : e.expect = "ours" /\ LaterIn(sweep, e)
    /\ \A r \in Res : label[r] = "ours" /\ r[1] = (IF stage = "drop" THEN "main" ELSE cur)
                        => r \in Ids(sweep)

(* Only a scenario whose body failed has a failed result. *)
Outcomes ==
  /\ results[FALSE] \subseteq Default \ passed /\ todo \intersect results[FALSE] = {}
  /\ todo \intersect passed \subseteq (IF stage = "tidy" THEN {cur} ELSE {})
  /\ stage = "tidy" /\ ~ok => cur \notin passed
  /\ full => Default \subseteq todo \union results[TRUE] \union results[FALSE]
  /\ exit = 1 => results[FALSE] # {}

Quiet == Calm => Listed /\ Whose /\ Creation /\ Scope /\ Sweeping /\ Outcomes

(* A run that is calm has been so, and works. *)
LEMMA CalmBefore ==
  ASSUME TypeOK, Control, [Next]_vars, Calm'
  PROVE  /\ Calm /\ faults' = faults
         /\ \/ Begin \/ Create \/ Register \/ Adopt \/ Body \/ Sweep \/ EndScenario \/ DropMain \/ Finish
            \/ Verdict \/ UNCHANGED vars
<1>1. \A r \in Res : label[r] # "foreign"
  BY ForeignKept DEF Calm
<1>2. faults' = 0 /\ faults \in Nat
  BY GateAssumption DEF Calm, TypeOK
<1>3. ~Cancel /\ ~Crash /\ ~Cleanup /\ ~CleanupVerdict
  BY DEF Calm, Cancel, Crash, Cleanup, CleanupVerdict, verdict
<1>4. CASE UNCHANGED vars
  BY <1>1, <1>4 DEF Calm, vars, verdict
<1>5. CASE Begin \/ Body \/ EndScenario \/ DropMain \/ Finish \/ Verdict
  <2>1. UNCHANGED <<command, ctx>> /\ stage # "crashed"
    BY <1>5 DEF Begin, Body, EndScenario, DropMain, Finish, Verdict, verdict
  <2>2. faults' \in {faults, faults + 1}
    BY <1>5 DEF Begin, Body, EndScenario, DropMain, Finish, Verdict, Works, Fault
  <2>3. faults' = faults
    BY <1>2, <2>2
  <2>. QED BY <1>1, <1>2, <1>5, <2>1, <2>3 DEF Calm
<1>6. CASE Create \/ Register \/ Adopt \/ Sweep
  <2>1. UNCHANGED <<command, ctx>> /\ stage # "crashed"
    BY <1>6 DEF Create, Register, Adopt, Sweep, verdict
  <2>2. faults' \in {faults, faults + 1, faults + 2}
    BY <1>6 DEF Create, Register, Adopt, Sweep, CommandWorks, CommandFails, AddFails, Works, Fault
  <2>3. faults' = faults
    BY <1>2, <2>2
  <2>. QED BY <1>1, <1>2, <1>6, <2>1, <2>3 DEF Calm
<1>. QED BY <1>3, <1>4, <1>5, <1>6 DEF Next, Step, Ended

(* The commands of a calm run work. *)
LEMMA CalmWorks ==
  ASSUME TypeOK, Calm, faults' = faults
  PROVE  Reachable /\ ~Fault /\ ~CommandFails
<1>1. faults \in Nat
  BY GateAssumption DEF TypeOK
<1>2. ~Fault
  BY <1>1 DEF Fault
<1>. QED BY <1>2 DEF Reachable, CommandFails, Calm

LEMMA CalmCreate ==
  ASSUME TypeOK, Control, Calm, Creation, Create, faults' = faults
  PROVE  /\ <<cur, stage>> \in Res /\ stage \in {"volume", "container"} /\ stage' = "register"
         /\ making' = <<<<cur, stage>>, "created">>
         /\ label[<<cur, stage>>] = "none" /\ label' = [label EXCEPT ![<<cur, stage>>] = "ours"]
         /\ UNCHANGED <<mem, made, cur, mainUp, todo, existing, ok, exit, full, sweep, results, reported,
                        passed>>
<1>1. <<cur, stage>> \in Res /\ stage \in {"volume", "container"}
  BY DEF Create, Control, Res
<1>2. label[<<cur, stage>>] # "foreign"
  BY <1>1 DEF Calm
<1>. QED BY <1>1, <1>2, CalmWorks DEF Create, flow, verdict

LEMMA CalmRegister ==
  ASSUME TypeOK, Control, Calm, Creation, Register \/ Adopt, faults' = faults
  PROVE  /\ making[1] \in Res /\ stage = "register" /\ making[1][1] = cur /\ label[making[1]] = "ours"
         /\ making[1][2] = "volume" => label[<<cur, "container">>] = "none"
         /\ Add(making[1]) /\ OneStepOn(making[1][2]) /\ making' = Nothing
         /\ UNCHANGED <<label, existing, exit, full, reported, passed>>
<1>1. making[1] \in Res /\ stage = "register"
  BY DEF Register, Adopt, Control
<1>2. making[2] = "created" /\ making[1][1] = cur /\ label[making[1]] = "ours"
  BY <1>1 DEF Creation
<1>3. ~AddFails(making[1])
  <2>1. faults \in Nat /\ ~Fault
    BY GateAssumption, CalmWorks DEF TypeOK
  <2>2. AddFails(making[1]) => Fault \/ faults' = faults + 2
    BY <1>2 DEF AddFails
  <2>. QED BY <2>1, <2>2
<1>4. ~Adopt
  BY <1>2 DEF Adopt
<1>. QED BY <1>1, <1>2, <1>3, <1>4, CalmWorks DEF Register, Creation, verdict

(* Whatever is in the manifest of a calm run is there, so a removal succeeds. *)
LEMMA CalmSweep ==
  ASSUME TypeOK, Control, Calm, Listed, Whose, Sweeping, Sweep, faults' = faults
  PROVE  /\ stage \in {"tidy", "drop"}
         /\ \E e \in sweep : /\ sweep' = sweep \ {e} /\ label' = [label EXCEPT ![e.res] = "none"]
                             /\ mem' = Without(mem, e.res)
         /\ UNCHANGED <<made, cur, mainUp, todo, existing, exit, full, stage, making, reported, passed,
                        ok, results>>
<1>1. stage \in {"tidy", "drop"}
  BY DEF Sweep, Whose
<1>2. PICK e \in {f \in sweep : Turn(f)} :
        LET r == e.res IN
        /\ sweep' = sweep \ {e}
        /\ \/ /\ label' = [label EXCEPT ![r] = "none"] /\ mem' = Without(mem, r)
              /\ (Works /\ Removed) \/ Fault
           \/ label[r] # "none" /\ ~Owned(e)
           \/ (Owned(e) /\ InUse(r) /\ CommandWorks) \/ CommandFails
  BY DEF Sweep
<1>3. e \in sweep /\ e \in Entry /\ e.res \in Res /\ e.expect = "ours" /\ LaterIn(sweep, e)
  BY <1>1 DEF Sweeping, TypeOK, Entry
<1>4. label[e.res] \in {"none", "ours"}
  BY <1>3 DEF Calm, TypeOK
<1>5. ~(label[e.res] # "none" /\ ~Owned(e))
  BY <1>3, <1>4 DEF Owned
<1>6. ~InUse(e.res)
  <2>1. SUFFICES ASSUME InUse(e.res) PROVE FALSE
    OBVIOUS
  <2>2. PICK f \in sweep : e.at < f.at
    BY <1>3, <2>1 DEF LaterIn, InUse
  <2>3. f.at <= e.at
    BY <1>2 DEF Turn
  <2>4. e.at \in Nat /\ f.at \in Nat
    BY <1>3 DEF TypeOK, Entry
  <2>. QED BY <2>2, <2>3, <2>4
<1>7. sweep' = sweep \ {e} /\ label' = [label EXCEPT ![e.res] = "none"] /\ mem' = Without(mem, e.res)
      /\ Removed
  BY <1>2, <1>5, <1>6, CalmWorks
<1>8. UNCHANGED <<made, cur, mainUp, todo, existing, exit, full, stage, making, reported, passed>>
  BY DEF Sweep, verdict
<1>. QED BY <1>1, <1>3, <1>7, <1>8 DEF Removed

(* Outside a creation nothing is being made, and no scenario under way means no
   instance but the main one. *)
LEMMA CalmFacts ==
  ASSUME TypeOK, Control, Known, Calm, Listed, Whose
  PROVE  /\ \A r \in Res : label[r] \in {"none", "ours"}
         /\ \A r \in Res : r[1] \in Instances /\ r[2] \in {"volume", "container"} /\ r = <<r[1], r[2]>>
         /\ \A i \in Instances : <<i, "volume">> \in Res /\ <<i, "container">> \in Res
         /\ "none" \notin Instances /\ "main" \in Instances /\ "main" \notin Default
         /\ Shared \intersect Instances = {}
         /\ \A e \in mem : e \in Entry /\ e.res \in Res /\ e.at \in Nat
         /\ stage # "register" => /\ making = Nothing
                                  /\ \A e \in mem : LaterIn(mem, e)
                                  /\ \A r \in Res : label[r] = "ours" => r \in Ids(mem)
         /\ cur = "none" /\ mainUp # "up" => mem = {} /\ \A r \in Res : label[r] = "none"
<1>1. \A r \in Res : label[r] \in {"none", "ours"}
  BY DEF TypeOK, Calm
<1>2. /\ \A r \in Res : r[1] \in Instances /\ r[2] \in {"volume", "container"} /\ r = <<r[1], r[2]>>
      /\ \A i \in Instances : <<i, "volume">> \in Res /\ <<i, "container">> \in Res
  BY DEF Res
<1>3. /\ "none" \notin Instances /\ "main" \in Instances /\ "main" \notin Default
      /\ Shared \intersect Instances = {}
  BY GateAssumption DEF Instances, Default
<1>4. \A e \in mem : e \in Entry /\ e.res \in Res /\ e.at \in Nat
  BY DEF TypeOK, Entry
<1>5. ASSUME stage # "register" PROVE making = Nothing /\ making[1] = <<"none", "none">>
  BY <1>5 DEF Control, Calm, Nothing
<1>6. ASSUME stage # "register", NEW e \in mem PROVE LaterIn(mem, e)
  <2>1. making[1] # <<e.res[1], "container">>
    BY <1>5, <1>6
  <2>. QED BY <2>1 DEF Listed
<1>7. ASSUME stage # "register", NEW r \in Res, label[r] = "ours" PROVE r \in Ids(mem)
  <2>1. making[1] \notin Res
    BY <1>5, <1>7, NothingIsNoObject
  <2>. QED BY <1>7, <2>1 DEF Known, Listed
<1>8. ASSUME cur = "none", mainUp # "up" PROVE mem = {} /\ \A r \in Res : label[r] = "none"
  <2>1. \A r \in Res : label[r] # "ours"
    BY <1>2, <1>3, <1>8 DEF Whose
  <2>2. \A e \in mem : FALSE
    BY <1>4, <2>1 DEF Listed
  <2>. QED BY <1>1, <2>1, <2>2
<1>. QED BY <1>1, <1>2, <1>3, <1>4, <1>5, <1>6, <1>7, <1>8

(* The manifest and the objects stay as they are. *)
LEMMA SameObjects ==
  ASSUME UNCHANGED <<label, mem, made, making, reported>>
  PROVE  /\ Listed => Listed'
         /\ \A entries, e : LaterIn(entries, e)' <=> LaterIn(entries', e')
  BY DEF Listed, LaterIn

LEMMA BeginQuiet ==
  ASSUME TypeOK, Control, Known, Calm, Listed, Whose, Creation, Scope, Sweeping, Outcomes, Begin
  PROVE  Listed' /\ Whose' /\ Creation' /\ Scope' /\ Sweeping' /\ Outcomes'
<1>0. /\ stage = "next" /\ cur = "none"
      /\ UNCHANGED <<label, mem, disk, made, mainUp, todo, exit, full, making, sweep, results, reported, passed>>
      /\ todo \subseteq Default
  BY DEF Begin, Whose, objects, verdict, TypeOK
<1>1. Listed'
  BY <1>0, SameObjects
<1>2. \/ /\ mainUp = "untried" /\ cur' = "main" /\ stage' = "volume"
      \/ /\ mainUp = "up" /\ cur' \in todo \intersect Shared /\ stage' = "body" /\ existing' = Ids(mem)
      \/ /\ mainUp # "up" /\ todo \intersect Shared = {} /\ cur' \in todo /\ stage' = "volume"
         /\ existing' = Ids(mem)
  BY DEF Begin
<1>3. Outcomes'
  BY <1>0, <1>2 DEF Outcomes
<1>4. Sweeping'
  BY <1>2 DEF Sweeping
<1>5. cur' # "main" => cur' \in Default /\ existing' = Ids(mem)
  BY <1>0, <1>2, CalmFacts
<1>6. Whose'
  <2>1. \A r \in Res : label'[r] = "ours" => r[1] = "main" /\ mainUp' = "up"
    BY <1>0, CalmFacts DEF Whose
  <2>2. cur' = "main" => mainUp = "untried"
    BY <1>0, <1>2, CalmFacts
  <2>. QED BY <1>0, <1>2, <2>1, <2>2 DEF Whose
<1>7. CASE stage' = "volume"
  <2>1. mem = {} /\ \A r \in Res : label[r] = "none"
    BY <1>0, <1>2, <1>7, CalmFacts
  <2>2. cur' \in Instances
    BY <1>0, <1>2, <1>7, CalmFacts DEF Instances, Default
  <2>3. Creation'
    BY <1>0, <1>7, <2>1, <2>2, CalmFacts DEF Creation
  <2>4. Scope'
    BY <1>0, <1>5, <2>1 DEF Scope, Ids
  <2>. QED BY <1>1, <1>3, <1>4, <1>6, <2>3, <2>4
<1>8. CASE stage' = "body"
  <2>1. cur' \in Shared /\ existing' = Ids(mem)
    BY <1>2, <1>8
  <2>2. Creation'
    BY <1>8 DEF Creation
  <2>3. \A e \in mem : e.res \in Ids(mem) /\ e.res[1] # cur'
    BY <2>1, CalmFacts DEF Ids
  <2>4. Scope'
    BY <1>0, <2>1, <2>3 DEF Scope, Ids
  <2>. QED BY <1>1, <1>3, <1>4, <1>6, <2>2, <2>4
<1>. QED BY <1>2, <1>7, <1>8

LEMMA CreateQuiet ==
  ASSUME TypeOK, Control, Known, Calm, Listed, Whose, Creation, Scope, Sweeping, Outcomes, Create,
         faults' = faults
  PROVE  Listed' /\ Whose' /\ Creation' /\ Scope' /\ Sweeping' /\ Outcomes'
<1>. DEFINE r == <<cur, stage>>
<1>0. /\ r \in Res /\ stage \in {"volume", "container"} /\ stage' = "register"
      /\ making' = <<r, "created">>
      /\ label[r] = "none" /\ label' = [label EXCEPT ![r] = "ours"]
      /\ UNCHANGED <<mem, made, cur, mainUp, todo, existing, ok, exit, full, sweep, results, reported,
                     passed>>
  BY CalmCreate
<1>1. label'[r] = "ours" /\ \A q \in Res : q # r => label'[q] = label[q]
  BY <1>0 DEF TypeOK
<1>2. cur \in Instances
  BY <1>0, CalmFacts
<1>3. Listed'
  <2>1. \A e \in mem : e.expect = "ours" /\ label'[e.res] = "ours" /\ e.at <= made'
    BY <1>0, <1>1, CalmFacts DEF Listed
  <2>2. ASSUME NEW e \in mem, making'[1] # <<e.res[1], "container">> PROVE LaterIn(mem, e)'
    <3>1. LaterIn(mem, e) /\ <<e.res[1], "container">> # r /\ <<e.res[1], "container">> \in Res
      BY <1>0, <2>2, CalmFacts
    <3>2. label'[<<e.res[1], "container">>] = label[<<e.res[1], "container">>]
      BY <1>1, <3>1
    <3>. QED BY <1>0, <3>1, <3>2 DEF LaterIn
  <2>. QED BY <1>0, <2>1, <2>2 DEF Listed
<1>4. Whose'
  BY <1>0, <1>1 DEF Whose
<1>5. Creation'
  <2>1. stage = "volume" => label'[<<cur, "container">>] = "none"
    BY <1>0, <1>1, <1>2, CalmFacts DEF Creation
  <2>. QED BY <1>0, <1>1, <2>1 DEF Creation
<1>6. Scope' /\ Sweeping' /\ Outcomes'
  BY <1>0 DEF Scope, Sweeping, Outcomes
<1>. QED BY <1>3, <1>4, <1>5, <1>6

LEMMA RegisterQuiet ==
  ASSUME TypeOK, Control, Known, Calm, Listed, Whose, Creation, Scope, Sweeping, Outcomes,
         Register \/ Adopt, faults' = faults
  PROVE  Listed' /\ Whose' /\ Creation' /\ Scope' /\ Sweeping' /\ Outcomes'
<1>. DEFINE r == making[1]
            new == [res |-> r, expect |-> "ours", at |-> made + 1]
<1>0. /\ r \in Res /\ stage = "register" /\ r[1] = cur /\ label[r] = "ours"
      /\ r[2] = "volume" => label[<<cur, "container">>] = "none"
      /\ Add(r) /\ OneStepOn(r[2]) /\ making' = Nothing
      /\ UNCHANGED <<label, existing, exit, full, reported, passed>>
  BY CalmRegister
<1>1. made' = made + 1 /\ mem' = mem \union {new} /\ made \in Nat
  BY <1>0 DEF Add, TypeOK
<1>2. /\ \/ r[2] = "volume" /\ stage' = "container" /\ UNCHANGED <<cur, mainUp>>
         \/ r[2] = "container" /\ cur = "main" /\ stage' = "next" /\ cur' = "none" /\ mainUp' = "up"
         \/ r[2] = "container" /\ cur # "main" /\ stage' = "body" /\ UNCHANGED <<cur, mainUp>>
      /\ UNCHANGED <<results, todo, ok, sweep>>
  BY <1>0 DEF OneStepOn
<1>3. Listed'
  <2>1. new.expect = "ours" /\ new.res = r /\ new.at = made + 1
    OBVIOUS
  <2>. HIDE DEF new
  <2>2. \A e \in mem' : e.expect = "ours" /\ label'[e.res] = "ours" /\ e.at <= made'
    BY <1>0, <1>1, <2>1, CalmFacts DEF Listed
  <2>3. ASSUME NEW e \in mem PROVE LaterIn(mem, e)'
    <3>1. CASE r = <<e.res[1], "container">>
      <4>1. e.at < new.at
        BY <1>1, <2>1, CalmFacts DEF Listed
      <4>. QED BY <1>1, <2>1, <3>1, <4>1 DEF LaterIn
    <3>2. CASE r # <<e.res[1], "container">>
      <4>1. LaterIn(mem, e)
        BY <3>2 DEF Listed
      <4>. QED BY <1>0, <1>1, <4>1 DEF LaterIn
    <3>. QED BY <3>1, <3>2
  <2>4. ASSUME NEW e \in mem', e.res = r PROVE LaterIn(mem, e)'
    BY <1>0, <2>4 DEF LaterIn
  <2>5. ASSUME NEW e \in mem' PROVE LaterIn(mem, e)'
    BY <1>1, <2>1, <2>3, <2>4
  <2>. QED BY <1>0, <2>2, <2>5 DEF Listed
<1>. HIDE DEF new
<1>4. Whose'
  BY <1>0, <1>2 DEF Whose
<1>5. Creation'
  BY <1>0, <1>2 DEF Creation
<1>6. Scope'
  <2>1. new.res = r
    BY DEF new
  <2>. QED BY <1>0, <1>1, <1>2, <2>1 DEF Scope
<1>7. Sweeping'
  BY <1>2 DEF Sweeping
<1>8. Outcomes'
  BY <1>0, <1>2 DEF Outcomes
<1>. QED BY <1>3, <1>4, <1>5, <1>6, <1>7, <1>8

LEMMA BodyQuiet ==
  ASSUME TypeOK, Control, Known, Calm, Listed, Whose, Creation, Scope, Sweeping, Outcomes, Body
  PROVE  Listed' /\ Whose' /\ Creation' /\ Scope' /\ Sweeping' /\ Outcomes'
<1>0. /\ stage = "body" /\ stage' = "tidy" /\ ok' \in BOOLEAN
      /\ passed' = IF ok' THEN passed \union {cur} ELSE passed
      /\ sweep' = Added(mem)
      /\ UNCHANGED <<label, mem, made, cur, mainUp, todo, existing, exit, full, making, results, reported>>
  BY DEF Body, objects, verdict
<1>1. cur \in Default /\ cur # "main" /\ cur \in todo
  BY <1>0, CalmFacts DEF Control, Whose
<1>2. Listed'
  BY <1>0, SameObjects
<1>3. Whose' /\ Creation' /\ Scope'
  BY <1>0, <1>1 DEF Whose, Creation, Scope
<1>4. Sweeping'
  <2>1. ASSUME NEW e \in sweep' PROVE e \in mem /\ e.expect = "ours" /\ e.res[1] = cur /\ LaterIn(mem, e)
    BY <1>0, <1>1, <2>1, CalmFacts DEF Added, Scope, Listed
  <2>2. ASSUME NEW e \in sweep' PROVE LaterIn(sweep, e)'
    <3>. DEFINE c == <<cur, "container">>
    <3>1. SUFFICES ASSUME e.res[2] = "volume", label[c] = "ours" PROVE \E f \in sweep' : f.res = c /\ e.at < f.at
      BY <1>0, <2>1 DEF LaterIn
    <3>2. PICK f \in mem : f.res = c /\ e.at < f.at
      BY <2>1, <3>1 DEF LaterIn
    <3>3. c[1] = cur /\ c \notin existing
      BY <1>0, <1>1 DEF Scope
    <3>. QED BY <1>0, <3>2, <3>3 DEF Added
  <2>3. ASSUME NEW r \in Res, label[r] = "ours", r[1] = cur PROVE r \in Ids(sweep')
    <3>1. PICK e \in mem : e.res = r
      BY <1>0, <2>3, CalmFacts DEF Ids
    <3>2. r \notin existing
      BY <1>0, <1>1, <2>3 DEF Scope
    <3>. QED BY <1>0, <3>1, <3>2 DEF Added, Ids
  <2>. QED BY <1>0, <2>1, <2>2, <2>3 DEF Sweeping
<1>5. Outcomes'
  BY <1>0, <1>1 DEF Outcomes
<1>. QED BY <1>2, <1>3, <1>4, <1>5

LEMMA SweepQuiet ==
  ASSUME TypeOK, Control, Known, Calm, Listed, Whose, Creation, Scope, Sweeping, Outcomes, Sweep,
         faults' = faults
  PROVE  Listed' /\ Whose' /\ Creation' /\ Scope' /\ Sweeping' /\ Outcomes'
<1>0. /\ stage \in {"tidy", "drop"}
      /\ UNCHANGED <<made, cur, mainUp, todo, existing, exit, full, stage, making, reported, passed,
                     ok, results>>
  BY CalmSweep
<1>1. PICK e \in sweep : /\ sweep' = sweep \ {e} /\ label' = [label EXCEPT ![e.res] = "none"]
                         /\ mem' = Without(mem, e.res)
  BY CalmSweep
<1>2. /\ \A r \in Res : r # e.res => label'[r] = label[r]
      /\ \A r \in Res : label'[r] = "ours" => label[r] = "ours" /\ r # e.res
      /\ \A f : f \in mem' <=> f \in mem /\ f.res # e.res
  BY <1>1 DEF TypeOK, Without
<1>3. ASSUME NEW f, f.res \in Res, NEW before, NEW after, LaterIn(before, f),
             \A g \in before : g.res # e.res => g \in after
      PROVE  f.res[2] = "volume" /\ label'[<<f.res[1], "container">>] = "ours" =>
               \E g \in after : g.res = <<f.res[1], "container">> /\ f.at < g.at
  <2>1. <<f.res[1], "container">> \in Res
    BY <1>3, CalmFacts
  <2>. QED BY <1>2, <1>3, <2>1 DEF LaterIn
<1>4. Listed'
  <2>1. \A f \in mem' : f \in mem /\ f.res # e.res
    BY <1>2
  <2>2. \A f \in mem' : LaterIn(mem, f)'
    BY <1>0, <1>2, <1>3, <2>1, CalmFacts DEF LaterIn
  <2>3. \A f \in mem' : f.expect = "ours" /\ label'[f.res] = "ours" /\ f.at <= made'
    BY <1>0, <1>2, <2>1, CalmFacts DEF Listed
  <2>. QED BY <1>0, <2>2, <2>3 DEF Listed
<1>5. Sweeping'
  <2>0. \A f \in sweep : f.res \in Res
    BY DEF TypeOK, Entry
  <2>1. \A f \in sweep' : f.expect = "ours" /\ LaterIn(sweep, f)'
    BY <1>0, <1>1, <1>3, <2>0 DEF Sweeping, LaterIn
  <2>2. ASSUME NEW r \in Res, label'[r] = "ours", r[1] = IF stage = "drop" THEN "main" ELSE cur
        PROVE  r \in Ids(sweep')
    <3>1. label[r] = "ours" /\ r # e.res
      BY <1>2, <2>2
    <3>2. PICK f \in sweep : f.res = r
      BY <1>0, <2>2, <3>1 DEF Sweeping, Ids
    <3>. QED BY <1>1, <3>1, <3>2 DEF Ids
  <2>. QED BY <1>0, <2>1, <2>2 DEF Sweeping
<1>6. Whose'
  BY <1>0, <1>2 DEF Whose
<1>7. Creation' /\ Scope' /\ Outcomes'
  BY <1>0 DEF Creation, Scope, Outcomes
<1>. QED BY <1>4, <1>5, <1>6, <1>7

LEMMA EndScenarioQuiet ==
  ASSUME TypeOK, Control, Known, Calm, Listed, Whose, Creation, Scope, Sweeping, Outcomes, EndScenario
  PROVE  Listed' /\ Whose' /\ Creation' /\ Scope' /\ Sweeping' /\ Outcomes'
<1>0. /\ stage = "tidy" /\ stage' = "next" /\ sweep = {} /\ cur' = "none" /\ todo' = todo \ {cur}
      /\ Record({cur}, ok) /\ cur \in Default /\ ok \in BOOLEAN /\ exit # 1
      /\ UNCHANGED <<label, mem, made, mainUp, exit, full, making, reported, passed>>
  BY DEF EndScenario, Control, TypeOK, objects, verdict, Running
<1>1. Listed'
  BY <1>0, SameObjects
<1>2. Whose'
  <2>1. \A r \in Res : label[r] = "ours" => r[1] # cur
    BY <1>0 DEF Sweeping, Ids
  <2>2. "none" # "main"
    OBVIOUS
  <2>. QED BY <1>0, <2>1, <2>2 DEF Whose
<1>3. Creation' /\ Scope' /\ Sweeping'
  BY <1>0 DEF Creation, Scope, Sweeping
<1>4. Outcomes'
  <2>1. {cur} \in SUBSET Names
    BY <1>0 DEF Names
  <2>2. CASE ok
    <3>1. results'[TRUE] = results[TRUE] \union {cur} /\ results'[FALSE] = results[FALSE]
      BY <1>0, <2>1, <2>2 DEF TypeOK, Record
    <3>. QED BY <1>0, <3>1 DEF Outcomes
  <2>3. CASE ~ok
    <3>1. results'[FALSE] = results[FALSE] \union {cur} /\ results'[TRUE] = results[TRUE]
      BY <1>0, <2>1, <2>3 DEF TypeOK, Record
    <3>2. cur \notin passed
      BY <1>0, <2>3 DEF Outcomes
    <3>. QED BY <1>0, <3>1, <3>2 DEF Outcomes
  <2>. QED BY <2>2, <2>3
<1>. QED BY <1>1, <1>2, <1>3, <1>4

LEMMA DropMainQuiet ==
  ASSUME TypeOK, Control, Known, Calm, Listed, Whose, Creation, Scope, Sweeping, Outcomes, DropMain
  PROVE  Listed' /\ Whose' /\ Creation' /\ Scope' /\ Sweeping' /\ Outcomes'
<1>. DEFINE container == [res |-> <<"main", "container">>, expect |-> "ours", at |-> 1]
            volume == [res |-> <<"main", "volume">>, expect |-> "ours", at |-> 0]
<1>0. /\ stage \in {"next", "drop"} /\ cur = "none"
      /\ UNCHANGED <<label, mem, made, cur, todo, existing, ok, exit, full, making, results, reported, passed>>
      /\ \/ /\ stage = "next" /\ stage' = "drop" /\ mainUp = "up" /\ mainUp' = mainUp
            /\ sweep' = {container, volume}
         \/ stage = "drop" /\ sweep = {} /\ stage' = "next" /\ mainUp' = "gone" /\ UNCHANGED sweep
  BY DEF DropMain, Whose, objects, verdict
<1>1. Listed'
  BY <1>0, SameObjects
<1>2. Whose'
  <2>1. stage = "drop" => \A r \in Res : label[r] = "ours" => r[1] # "main"
    BY <1>0 DEF Sweeping, Ids
  <2>. QED BY <1>0, <2>1 DEF Whose
<1>3. Creation' /\ Scope' /\ Outcomes'
  BY <1>0 DEF Creation, Scope, Outcomes
<1>4. Sweeping'
  <2>1. CASE stage' = "next"
    BY <2>1 DEF Sweeping
  <2>2. CASE stage' = "drop"
    <3>1. sweep' = {container, volume}
      BY <1>0, <2>2
    <3>2. /\ container.res = <<"main", "container">> /\ container.expect = "ours" /\ container.at = 1
          /\ volume.res = <<"main", "volume">> /\ volume.expect = "ours" /\ volume.at = 0
      OBVIOUS
    <3>. HIDE DEF container, volume
    <3>3. \A e \in sweep' : e.expect = "ours" /\ LaterIn(sweep, e)'
      BY <3>1, <3>2 DEF LaterIn
    <3>4. \A r \in Res : r[1] = "main" => r \in Ids(sweep')
      BY <3>1, <3>2, CalmFacts DEF Ids
    <3>. QED BY <2>2, <3>3, <3>4 DEF Sweeping
  <2>. QED BY <1>0, <2>1, <2>2
<1>. QED BY <1>1, <1>2, <1>3, <1>4

LEMMA FinishQuiet ==
  ASSUME TypeOK, Control, Known, Calm, Listed, Whose, Creation, Scope, Sweeping, Outcomes, Finish,
         faults' = faults
  PROVE  Listed' /\ Whose' /\ Creation' /\ Scope' /\ Sweeping' /\ Outcomes'
<1>a. /\ stage = "next" /\ stage' = "cleanup" /\ sweep' = mem
      /\ UNCHANGED <<label, mem, made, cur, mainUp, todo, existing, ok, exit, full, making, reported, passed>>
  BY DEF Finish, objects, flow, verdict
<1>b. cur = "none" /\ exit # 1
  BY <1>a DEF Whose, Control, Running
<1>c. todo = {} /\ mainUp # "up" /\ Record(IF ctx = "live" THEN {} ELSE {ctx}, FALSE)
  BY CalmWorks DEF Finish
<1>0. /\ stage = "next" /\ stage' = "cleanup" /\ sweep' = mem /\ cur = "none" /\ exit # 1
      /\ todo = {} /\ mainUp # "up" /\ Record({}, FALSE)
      /\ UNCHANGED <<label, mem, made, cur, mainUp, todo, existing, ok, exit, full, making, reported, passed>>
  BY <1>a, <1>b, <1>c DEF Calm
<1>1. mem = {} /\ \A r \in Res : label[r] = "none"
  BY <1>0, CalmFacts
<1>2. Listed'
  BY <1>0, SameObjects
<1>3. Whose' /\ Creation' /\ Scope' /\ Sweeping'
  BY <1>0, <1>1 DEF Whose, Creation, Scope, Sweeping
<1>4. Outcomes'
  <2>1. results'[FALSE] = results[FALSE] /\ results'[TRUE] = results[TRUE]
    BY <1>0 DEF TypeOK, Record
  <2>. QED BY <1>0, <2>1 DEF Outcomes
<1>. QED BY <1>2, <1>3, <1>4

LEMMA VerdictQuiet ==
  ASSUME TypeOK, Control, Known, Calm, Listed, Whose, Creation, Scope, Sweeping, Outcomes, Verdict,
         faults' = faults
  PROVE  Listed' /\ Whose' /\ Creation' /\ Scope' /\ Sweeping' /\ Outcomes'
<1>0. /\ stage = "cleanup" /\ stage' = "ended" /\ todo = {}
      /\ exit' = IF results[FALSE] = {} /\ Missing = {} THEN 0 ELSE 1
      /\ UNCHANGED <<label, mem, made, cur, mainUp, todo, existing, ok, full, making, sweep, results,
                     reported, passed>>
  BY CalmWorks DEF Verdict, Whose, objects, flow
<1>1. Listed'
  BY <1>0, SameObjects
<1>2. Whose' /\ Creation' /\ Scope' /\ Sweeping'
  BY <1>0 DEF Whose, Creation, Scope, Sweeping
<1>3. Missing = {} \/ results[FALSE] # {}
  BY <1>0 DEF Missing, Outcomes
<1>4. Outcomes'
  <2>0. results' = results
    BY <1>0
  <2>1. exit' = 1 => results'[FALSE] # {}
    <3>1. results[FALSE] = {} => exit' = 0
      BY <1>0, <1>3
    <3>2. 0 # 1
      OBVIOUS
    <3>. QED BY <2>0, <3>1, <3>2, Zenon
  <2>. QED BY <1>0, <2>1 DEF Outcomes
<1>. QED BY <1>1, <1>2, <1>4

LEMMA QuietStep == TypeOK /\ Control /\ Known /\ Quiet /\ [Next]_vars => Quiet'
<1>. SUFFICES ASSUME TypeOK, Control, Known, Quiet, [Next]_vars, Calm'
              PROVE  Listed' /\ Whose' /\ Creation' /\ Scope' /\ Sweeping' /\ Outcomes'
  BY DEF Quiet
<1>1. Calm /\ faults' = faults
  BY CalmBefore
<1>2. Listed /\ Whose /\ Creation /\ Scope /\ Sweeping /\ Outcomes
  BY <1>1 DEF Quiet
<1>3. CASE UNCHANGED vars
  BY <1>2, <1>3 DEF vars, objects, flow, verdict, Listed, LaterIn, Whose, Creation, Scope, Sweeping,
     Ids, Outcomes
<1>. QED BY <1>1, <1>2, <1>3, CalmBefore, BeginQuiet, CreateQuiet, RegisterQuiet, BodyQuiet, SweepQuiet,
            EndScenarioQuiet, DropMainQuiet, FinishQuiet, VerdictQuiet

(* A run that met no failing command, no failing write, no signal and nothing of
   others under its names ends with exit code 1 only if a scenario's own check
   failed, which the results name. *)
THEOREM NoFalseAlarmCorrect == Spec => []NoFalseAlarm
<1>1. Init => Quiet
  <2>. SUFFICES ASSUME Init, Calm PROVE Listed /\ Whose /\ Creation /\ Scope /\ Sweeping /\ Outcomes
    BY DEF Quiet
  <2>1. mem = {} /\ sweep = {} /\ stage = "next" /\ cur = "none" /\ \A r \in Res : label[r] = "none"
    BY DEF Init, Calm
  <2>2. Listed /\ Whose /\ Creation /\ Scope /\ Sweeping
    BY <2>1 DEF Init, Listed, Whose, Creation, Scope, Sweeping
  <2>3. Outcomes
    BY <2>1 DEF Init, Outcomes, Running
  <2>. QED BY <2>2, <2>3
<1>2. GInv /\ Quiet /\ [Next]_vars => Quiet'
  BY QuietStep DEF GInv
<1>3. GInv /\ Quiet => NoFalseAlarm
  <2>. SUFFICES ASSUME Control, Quiet, exit = 1, faults = 0, ctx = "live", command = "run",
                       \A r \in Res : label[r] # "foreign"
                PROVE  \E s \in Default : s \in results[FALSE] /\ s \notin passed
    BY DEF GInv, NoFalseAlarm
  <2>1. stage = "ended"
    BY DEF Control, Running
  <2>2. Outcomes
    BY <2>1 DEF Quiet, Calm
  <2>. QED BY <2>2 DEF Outcomes
<1>. QED BY <1>1, <1>2, <1>3, GInvariant, PTL DEF Spec
=============================================================================
