SPECIFICATION Spec
CONSTANTS
  Nil = Nil
  Dirs <- MCDirs
  Start <- MCStart
  DepLists <- MCDepLists
  Uses = {"sort", "cross", "interfaces"}
  MaxWritten = 1
INVARIANTS
  TypeOK
  DependenciesFirst
  CyclesAreReported
  OrderIsLeast
  GraphErrorsAreReported
  UpstreamsAreSummarized
CHECK_DEADLOCK FALSE
