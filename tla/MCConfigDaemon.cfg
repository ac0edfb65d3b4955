SPECIFICATION Spec
CONSTANTS
  Default = "default"
  Unset = Unset
  DefaultPath = DefaultPath
  Broken = Broken
  Identity = Identity
  GlobalAlpha = 20
  Keys = {k1, k2}
  Numbers = {2, 101}
  CalibPaths = {custom}
  Calibs = {cal}
  Texts <- TwoProfiles
  SeedTexts <- TwoProfiles
  MaxRequests = 2
  MaxFaults = 2
  MaxEdits = 1
CHECK_DEADLOCK FALSE
INVARIANTS TypeOK NeverTorn SettingsPersist RestartKeepsSettings PipelineFollowsConfig
PROPERTY ImplementsAtomicFiles
