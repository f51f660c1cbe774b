SPECIFICATION Spec
CONSTANTS
  Proc = {p1, p2}
  Callers = {"cli", "host"}
  Origins = {"library", "command"}
  Nil = Nil
  Torn = Torn
  Scaffold = Scaffold
  Habits = {}
  MaxRuns = 4
  MaxFaults = 2
SYMMETRY Symmetry
INVARIANTS
  TypeOK
  QaAnswersKnown
  SameGeneration
PROPERTIES
  GeneratedIsComplete
CHECK_DEADLOCK FALSE
