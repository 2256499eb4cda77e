SPECIFICATION MCSpec
CONSTANTS
  Applies = {a1, a2}
  Fields = {"x", "y"}
  Values = {0, 1}
  Changes <- OneField
  Families = {"dashboard", "registry", "collection", "file"}
  MaxEdits = 1
  Words = {"a", "b"}
  MaxLines = 3
  MaxBlock = 2
  Replacements <- Blocks
  MaxPatches = 2
  Documents <- DocumentSet
  Steps <- StepSet
  IntOf <- Ints
  Views = "views"
  Sensitive = {"token"}
  MaxDepth = 10
  MaxLevels = 11
  MaxSteps = 2
  MaxActions = 3
  MaxSources = 1
  MaxBuilds = 3
  RoleCapabilities <- RoleSet
  Sources <- SourceSet
  Status = "status:read"
  Apply = "mutation:apply"
  Presets <- PresetTable
  DefaultPreset = "home_control"
  Capabilities <- AllNames
  Flows = {f1, f2}
  Forms <- FormSet
  HandEdits <- EditSet
  NoFile = NoFile
  NotLoaded = NotLoaded
  Nothing = Nothing
  Due = Due
  MaxSecrets = 2
  MaxHandEdits = 1
  MaxRestarts = 1
SYMMETRY Symmetry
CHECK_DEADLOCK FALSE
INVARIANT
  AllAcked
