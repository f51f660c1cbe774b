SPECIFICATION Spec
CONSTANTS
  Nil = Nil
  SpecId = "05"
  Foreign = "06"
  Shapes <- MCShapes
  Terms = {"term"}
  Starts <- MCStarts
  MaxItems = 2
INVARIANTS
  TypeOK
  FinalizeAgreesWithValidate
  IdsDenoteOneEntry
  ValidPlansRunASmokeTest
  WorkIsShown
PROPERTIES
  NewIdsAreNew
  SubtaskIdsStayApart
  EditsBreakLocally
CHECK_DEADLOCK FALSE
