SPECIFICATION FairSpec
CONSTANTS
    Motors = {m1}
    Cmds = {c1}
    GripperCmds = {}
    Calls = {"connect", "disconnect", "goal", "close"}
    CalibrationLoaded = TRUE
    GripperLoaded = FALSE
    RampSteps = 1
    Legs = 1
    SegmentCycles = 1
    None = None
PROPERTIES CallReturns CommandTerminates
