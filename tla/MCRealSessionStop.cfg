SPECIFICATION Spec
CONSTANTS
    Motors = {m1}
    Cmds = {c1}
    GripperCmds = {}
    Calls = {"connect", "stop", "goal"}
    CalibrationLoaded = TRUE
    GripperLoaded = FALSE
    RampSteps = 1
    Legs = 1
    SegmentCycles = 1
    None = None
INVARIANT HaltedStaysHalted
