SPECIFICATION FairSpec
CONSTANTS
  Client = {c1, c2}
  Ident = {i1}
  Intent = {t1}
  Criterion = {k1}
  Content = {v1}
  Nil = Nil
  Habits = {}
  MaxEdits = 0
  MaxFaults = 2
PROPERTIES
  ArchiveCompletes
CHECK_DEADLOCK FALSE
