CONSTANTS
    Sides = {left}
    Calls = {"estop"}
    Cycle = 1
    MaxGap = 1
    Timeout = 2
    MaxSkew = 1
    Injections <- NoInjections
    QueueCap = 2
    RingCap = 2
    ChallengeLife = 0
    SettleIntervals = 2
    Persistence = 2
    Durations = {1}
    Starts = {0, 1}
    Lives = {3}
    Leases = {0, 2}
    Scenes = {s1}
    None = None
SPECIFICATION Spec
INVARIANTS
    EstopStopsArms
