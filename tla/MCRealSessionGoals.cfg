SPECIFICATION Spec
CONSTANTS
    Motors = {m1}
    Cmds = {c1, c2}
    GripperCmds = {c2}
    Calls = {"connect", "estop", "estop_clear", "goal", "stop", "cancel"}
    CalibrationLoaded = TRUE
    GripperLoaded = TRUE
    RampSteps = 1
    Legs = 2
    SegmentCycles = 1
    None = None
INVARIANTS IdleIsArmed HoldIsFixed
PROPERTIES ImplementsContract CancelHolds
