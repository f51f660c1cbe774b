SPECIFICATION Spec
CONSTANTS
  Nil = Nil
  Dirs <- MCDirs
  Start <- MCContents
  DepLists <- MCDepLists
  Uses = {"cross"}
  MaxWritten = 0
INVARIANTS
  ActorsAsDocumented
CHECK_DEADLOCK FALSE
