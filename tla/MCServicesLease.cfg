SPECIFICATION ServicesSpec
CONSTANTS
    Parts = {"leases"}
    Goal = {g1}
    NoGoal = NoGoal
    Thread = {t1, t2}
    Plan = {p1}
    Session = {s1, s2}
    NoPlan = NoPlan
    Req = {r1}
    NoReq = NoReq
    MaxLegs = 1
    NodeGoal = {n1}
    NoRequest = NoRequest
    IoThread = {i1}
    NoThread = NoThread
    Token = {}
    NoToken = NoToken
    MaxNow = 1
INVARIANTS
    LeaseIsExclusive
CHECK_DEADLOCK FALSE
