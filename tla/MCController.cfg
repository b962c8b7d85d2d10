CONSTANTS
    Sides = {left, right}
    Calls = {"stop", "interlock", "estop", "scene", "converge"}
    Cycle = 2
    MaxGap = 3
    Timeout = 3
    MaxSkew = 1
    Injections <- NoInjections
    QueueCap = 2
    RingCap = 2
    ChallengeLife = 0
    SettleIntervals = 2
    Persistence = 2
    Durations = {1}
    Starts = {0, 2}
    Lives = {5}
    Leases = {0, 3}
    Scenes = {s1, s2}
    None = None
SPECIFICATION Spec
INVARIANTS
    PowerIsAuthorised
    PlanStaysBound
    LostEventFailsClosed
    ChallengeMatchesPhase
    NewsIsCurrent
PROPERTIES
    ImplementsPermit CommandRunsDown
