SPECIFICATION ComponentsSpec
CONSTANTS
    Parts = {"session", "plans", "leases", "portal", "node", "transport",
             "store", "recipe", "manual", "link", "codec", "probe", "clock", "server"}
    Goal = {x1, x2}
    NoGoal = NoGoal
    Thread = {x1, x2}
    Plan = {x1, x2}
    Session = {s1}
    NoPlan = NoPlan
    Req = {x1, x2}
    NoReq = NoReq
    MaxLegs = 2
    NodeGoal = {x1, x2}
    NoRequest = NoRequest
    IoThread = {x1, x2}
    NoThread = NoThread
    Token = {k1}
    NoToken = NoToken
    MaxNow = 2
    Proc = {x1, x2}
    NoProc = NoProc
    Digest = {"a", "b"}
    NoDigest = NoDigest
    Manifest <- Manifests
    Readable = {{"current", "previous"}, {"previous"}, {"current"}}
    Recipe <- Recipes
    ManualOption <- Options
    Angle <- Angles
    Gap <- Gaps
    LinkRing = 2
    MaxNetlink = 3
    Wrap = 4
    Device <- Devices
    Setpoint <- Setpoints
    Grip <- Grips
    Hand <- Hands
    BusRoom = 1
    Expected <- Motors2
    Stranger <- Motor3
    Capacity = 3
    Budget = 3
    Timeout = 1
    MaxTime = 3
    Period = 2
    StaleAfter = 3
    Tolerance = 3
    Ahead = 2
    ClockSteps <- BackStep
    Horizon = 6
    Conn = {x1, x2, x3}
    IntakeLimit = 2
    Admits <- LaneAdmits
    Threads <- LaneThreads
    NoConn = NoConn
INVARIANTS
    ComponentsTypeOK
    SessionIsSound
    PlanAuthorityIsSound
    PortalIsSound
    GoalsAreAccounted
    TransportIsSound
    PublishedIsRecoverable
    CommissionSafe
    
    CodecIsExact
    ProbeIsHonest
    ClocksAgree
    
PROPERTIES
    HonoursContract
    ManifestNeverRegresses
SYMMETRY Interchangeable
CHECK_DEADLOCK FALSE
