SPECIFICATION Spec
CONSTANTS
  Proc = {p1, p2}
  Callers = {"cli", "host"}
  Origins = {"library"}
  Nil = Nil
  Torn = Torn
  Scaffold = Scaffold
  Habits = {"concurrent", "keep_handle"}
  MaxRuns = 3
  MaxFaults = 0
SYMMETRY Symmetry
INVARIANTS
  QaInOrder
CHECK_DEADLOCK FALSE
