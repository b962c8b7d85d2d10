SPECIFICATION Spec
CONSTANTS
    Motors = {m1, m2}
    Cmds = {c1}
    GripperCmds = {}
    Calls = {"connect", "disconnect", "estop", "estop_clear", "capture", "close"}
    CalibrationLoaded = TRUE
    GripperLoaded = FALSE
    RampSteps = 2
    Legs = 1
    SegmentCycles = 1
    None = None
SYMMETRY MotorSymmetry
INVARIANTS TypeOK  ShutdownWins
