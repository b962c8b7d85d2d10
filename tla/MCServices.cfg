SPECIFICATION ServicesSpec
CONSTANTS
    Parts = {"session", "plans", "portal", "node", "transport"}
    Goal = {g1}
    NoGoal = NoGoal
    Thread = {t1, t2}
    Plan = {p1}
    Session = {s1}
    NoPlan = NoPlan
    Req = {r1}
    NoReq = NoReq
    MaxLegs = 2
    NodeGoal = {n1, n2}
    NoRequest = NoRequest
    IoThread = {i1, i2}
    NoThread = NoThread
    Token = {}
    NoToken = NoToken
    MaxNow = 1
PROPERTIES
    AnsweredUnlessFaulted
    PauseEnds
    StopSticks
    EveryGoalEnds
    CloseReturns
CHECK_DEADLOCK FALSE
