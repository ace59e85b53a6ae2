SPECIFICATION Spec
CONSTANTS
    Id = Id
    Powers = {p1, p2}
    Users = {u1, u2}
    Masters = {}
    Dummy = Dummy
    Expected = 2
    Deadline = 2
    StartMaster = FALSE
    CivilDisorder = FALSE
    RealTime = FALSE
    ManyPowers = FALSE
    RemoveCanceled = FALSE
    Requests = {"join", "leave", "orders", "wait", "active", "paused", "forming", "canceled", "process", "delete"}
    PhaseCycle = 2
    Tasks = {t1, t2}
    None = None
SYMMETRY SymmetricPlayers
INVARIANTS TypeOK ScheduleFollowsStatus
PROPERTY EarlyOnlyIfReady
