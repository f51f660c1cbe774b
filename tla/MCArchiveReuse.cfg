SPECIFICATION Spec
CONSTANTS
  Nil = Nil
  Procs = {p1, p2}
  Names = {"api", "api_"}
  Loose = {"api_"}
  Settings <- MCArchived
INVARIANTS
  ArchivedNumbersAreNotReused
CHECK_DEADLOCK FALSE
