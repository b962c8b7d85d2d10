CONSTANTS
    Sides = {left, right}
    Calls = {"sim", "converge"}
    Cycle = 1
    MaxGap = 1
    Timeout = 2
    MaxSkew = 1
    Injections <- DeliveryInjections
    QueueCap = 2
    RingCap = 2
    ChallengeLife = 0
    SettleIntervals = 2
    Persistence = 1
    Durations = {1}
    Starts = {0}
    Lives = {3}
    Leases = {3}
    Scenes = {s1}
    None = None
SYMMETRY Symmetry
SPECIFICATION Spec
INVARIANTS
    RetiredHistory
    CompletionIsMeasured
