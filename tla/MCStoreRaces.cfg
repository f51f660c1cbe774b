SPECIFICATION Spec
CONSTANTS
  Client = {c1, c2}
  Ident = {i1}
  Intent = {t1, t2}
  Criterion = {}
  Content = {v1}
  Nil = Nil
  Habits = {"unlocked", "keep_receiver", "use_after_error"}
  MaxEdits = 1
  MaxFaults = 0
SYMMETRY Symmetry
INVARIANTS
  IntentProtected
  BannerMarksSuperseded
CHECK_DEADLOCK FALSE
