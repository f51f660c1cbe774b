SPECIFICATION Spec
CONSTANTS
  Client = {c1, c2}
  Ident = {i1, i2}
  Intent = {t1, t2}
  Criterion = {k1}
  Content = {v1}
  Nil = Nil
  Habits = {}
  MaxEdits = 2
  MaxFaults = 1
SYMMETRY Symmetry
INVARIANTS
  TypeOK
  HandleMatchesDisk
  CoverageFresh
  TempsAccountedFor
PROPERTIES
  FrozenStaysFrozen
  ImplementsLifecycle
CHECK_DEADLOCK FALSE
