SPECIFICATION Spec
CONSTANTS
  k1 = k1
  k2 = k2
  k3 = k3
  v1 = v1
  Keys <- MCKeys
  Codes <- MCCodes
  Maps <- MCMaps
  Speeds <- MCSpeeds
  Detents <- MCDetents
  Den = 4
  HeldCap = 2
  MaxDown = 2
  MaxFrameKeys = 2
INVARIANTS
  TypeOK
  NoStuckKey
  WheelWithinOneClick
PROPERTIES
  RemapReleasesEverything
