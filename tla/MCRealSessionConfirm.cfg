SPECIFICATION Spec
CONSTANTS
    Motors = {m1, m2}
    Cmds = {c1}
    GripperCmds = {}
    Calls = {"connect", "disconnect"}
    CalibrationLoaded = TRUE
    GripperLoaded = FALSE
    RampSteps = 1
    Legs = 1
    SegmentCycles = 1
    None = None
INVARIANT ConfirmedMeansDisabled
