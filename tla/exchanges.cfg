SPECIFICATION MCSpec
CONSTANTS
  own = own
  ann = ann
  s1 = s1
  s2 = s2
  s3 = s3
  Users = {own, ann}
  SessionIds = {s1, s2, s3}
  Requests = {r1}
  Exchanges = {x1, x2}
  People <- PeopleSet
  Before <- AtFirst
  Configs <- ConfigSet
  Operations <- OperationSet
  Direct <- DirectSet
  Forms <- FormSet
  MaxChanges = 2
  MaxFailures = 1
  TokenWindow = 1
  Buckets <- BucketSet
  Limit <- OneEach
  Window = 1
  Second = 1
  MaxClock = 2
  RoleCapabilities <- RoleSet
  Sources <- SourceSet
  Status = "status:read"
  Apply = "mutation:apply"
  Presets <- PresetTable
  DefaultPreset = "home_control"
  Runs = {a1, a2}
  Addresses = {"ann", "ANN", "bob", "cy"}
  Boxes = {"ann", "bob", "cy"}
  Lists = {{"ann", "ANN"}, {"ann", "bob"}}
  Archives = {"ANN", "bob", "cy"}
  Box <- CaseFold
  Senders = {"s1", "s2"}
  MaxEdits = 1
SYMMETRY Alike
CHECK_DEADLOCK FALSE
INVARIANTS
  EntitledOnce
  GrantsAccounted
  FailuresBounded
  NoSecondCopy
  NotAppliedUndelivered
  VerifiedComplete
  OnlyReviewed
PROPERTIES
  DetectKeepsOthers
