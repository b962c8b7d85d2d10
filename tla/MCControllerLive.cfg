CONSTANTS
    Sides = {left}
    Calls = {"estop", "sim"}
    Cycle = 1
    MaxGap = 1
    Timeout = 2
    MaxSkew = 1
    Injections <- LateInjections
    QueueCap = 1
    RingCap = 2
    ChallengeLife = 0
    SettleIntervals = 2
    Persistence = 2
    Durations = {1}
    Starts = {0, 1}
    Lives = {3}
    Leases = {0, 2}
    Scenes = {s1}
    None = None
SPECIFICATION FairSpec
INVARIANTS
    TypeOK
PROPERTIES
    CommandEnds
