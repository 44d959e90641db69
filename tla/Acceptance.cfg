\* Two tasks, one worker killed, one misbehaviour or one failing command or write.
CONSTANTS
  t1 = t1
  t2 = t2
  Ids = {t1, t2}
  Kinds = {"normal", "backlog", "kill", "crash", "oom", "backup"}
  Held = 1
  MaxRuns = 2
  MaxFaults = 1
SPECIFICATION Spec
INVARIANTS PassIsSound NoFalseAlarm
PROPERTY ScenarioEnds
CHECK_DEADLOCK FALSE
