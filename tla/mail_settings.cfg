SPECIFICATION MailSpec
CONSTANTS
  Runs = {a1, a2}
  Addresses = {"ann", "ANN", "bob", "cy"}
  Boxes = {"ann", "bob", "cy"}
  Lists = {{"ann", "ANN"}, {"ann", "bob"}}
  Archives = {"ANN", "bob", "cy"}
  Box <- CaseFold
  Senders = {"s1", "s2"}
  MaxEdits = 1
CHECK_DEADLOCK FALSE
PROPERTIES
  SettingsMerge
