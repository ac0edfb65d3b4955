SPECIFICATION Spec
CONSTANTS
  Default = "default"
  Unset = Unset
  DefaultPath = DefaultPath
  Broken = Broken
  Identity = Identity
  GlobalAlpha = 20
  Keys = {k1, k2}
  Numbers = {0, 2}
  CalibPaths = {custom}
  Calibs = {cal}
  Texts <- Nothing
  SeedTexts <- TwoProfiles
  MaxRequests = 1
  MaxFaults = 1
  MaxEdits = 0
CHECK_DEADLOCK FALSE
INVARIANT SettingsPersist
