SPECIFICATION Spec
CONSTANTS
    Id = Id
    Powers = {p1, p2}
    Users = {u1, u2}
    Masters = {u2}
    Dummy = Dummy
    Expected = 1
    Deadline = 1
    StartMaster = FALSE
    CivilDisorder = FALSE
    RealTime = FALSE
    ManyPowers = TRUE
    RemoveCanceled = FALSE
    Requests = {"join", "joinmany", "leave", "orders", "vote", "canceled", "completed", "dummy", "account"}
    PhaseCycle = 3
    Tasks = {t1, t2}
    None = None
SYMMETRY SymmetricPowers
INVARIANTS VotesAreCurrent ControlIsSaved ActiveHasPlayers
PROPERTY FinishedIsFinal
