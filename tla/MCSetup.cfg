SPECIFICATION Spec
CHECK_DEADLOCK FALSE
CONSTANTS
    StrKeys = {"default_calib"}
    NumKeys = {"alpha", "mouse_k", "mouse_scale"}
    BoolKeys = {"accel_gate"}
    V1Keys = {"default_calib", "alpha", "mouse_k", "mouse_scale"}
    Builtin <- MCBuiltin
    Homes = {"root", "user"}
    Texts = {"", "1", "false", "nan"}
    Numeral <- MCNumeral
    FifteenDigits <- MCFifteenDigits
    NotFinite = {7}
    Extras <- MCExtras
    None = None
    Scenarios <- MCScenarios
    FourDigits <- MCFourDigits
    Tries = 3
    Rejected = Rejected
    Empty = Empty
INVARIANTS
    TypeOK
    SetupCalibrates
PROPERTIES
    InterruptedWritesNothing
    SaveKeepsSettings
    SetTakesEffect
    MigrateComplete
