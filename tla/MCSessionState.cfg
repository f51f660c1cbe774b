SPECIFICATION Spec
CONSTANTS
  Proc = {p1}
  Callers = {"cli"}
  Origins = {"library"}
  Nil = Nil
  Torn = Torn
  Scaffold = Scaffold
  Habits = {}
  MaxRuns = 3
  MaxFaults = 0
PROPERTIES
  GenerateEndsGenerated
CHECK_DEADLOCK FALSE
