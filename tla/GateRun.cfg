\* Two shared and one private scenario, two faults, a signal, a crash.
CONSTANTS
  Shared = {"normal", "backlog"}
  Private = {"oom"}
  MaxFaults = 2
  CanCrash = TRUE
SPECIFICATION Spec
INVARIANTS OwnAccounted CleanExit PassMeansAll NoFalseAlarm
PROPERTIES ForeignSafe
