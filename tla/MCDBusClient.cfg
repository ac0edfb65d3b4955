CONSTANTS
  Commands = {"device list", "device status", "profile list", "profile show", "profile set", "button list", "button map", "button reset", "scroll speed", "scroll sensitivity", "scroll reset", "setup reload"}
  MaxRuns = 2
  MaxDevices = 2
  MaxLen = 7
  None = None
SPECIFICATION Spec
INVARIANTS TypeOK AnswerIsOwn RequestUnderstood ReplyUnderstood
PROPERTIES CommandEnds ImplementsCommand
CHECK_DEADLOCK FALSE
