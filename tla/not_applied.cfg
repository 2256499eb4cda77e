SPECIFICATION Spec
CONSTANTS
  Applies = {a1}
  Fields = {"x", "y"}
  Values = {0, 1}
  Changes <- OneField
  Families = {"collection"}
  MaxEdits = 1
CHECK_DEADLOCK FALSE
INVARIANTS
  NotAppliedMeansUntouched
