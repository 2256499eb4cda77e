SPECIFICATION Spec
CONSTANTS
  Applies = {a1}
  Fields = {"x", "y"}
  Values = {0, 1}
  Changes <- OneField
  Families = {"file"}
  MaxEdits = 1
CHECK_DEADLOCK FALSE
INVARIANTS
  FileProtected
