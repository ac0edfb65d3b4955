SPECIFICATION Spec
CONSTANTS
  wheel = wheel
  power = power
  up = up
  dn = dn
  unknown = unknown
  NoButton = NoButton
  enter = enter
  kpower = kpower
  channel = channel
  bad = bad
  KeyUp = KeyUp
  KeyDown = KeyDown
  BtnLeft = BtnLeft
  NoKey = NoKey
  Buttons = {wheel, power, up, dn, unknown}
  WheelPress = wheel
  ModelDep = power
  Codes = {enter, kpower, channel, KeyUp, KeyDown, BtnLeft}
  Table <- MCTable
  Overrides = {kpower, channel, KeyUp, NoKey, bad}
INVARIANTS
  TypeOK
  KeyBelongsToButton
  HeldKeyStaysDown
  RawNeverMouse
  ReportsAreSynced
  RawImuComplete
