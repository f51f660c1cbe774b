SPECIFICATION Spec
CONSTANTS
  Nil = Nil
  MaxAttempts = 2
  MaxRepairs = 1
  MaxSignals = 2
INVARIANTS
  TypeOK
  NoPartialResult
  NoStragglers
  ErrorIsTheCause
  CancelStopsCalls
PROPERTIES
  Terminates
CHECK_DEADLOCK FALSE
