SPECIFICATION Spec
CONSTANTS
  Nil = Nil
  Procs = {p1, p2, p3}
  Names = {"api", "cli", "api_"}
  Loose = {"api_"}
  Settings <- MCSettings
INVARIANTS
  TypeOK
  NumbersStayUsed
  FinishedIsKept
CHECK_DEADLOCK FALSE
