SPECIFICATION FairSpec
CONSTANTS
    Games = {g1}
    Server = Server
    MaxVersion = 2
    Torn = Torn
    None = None
INVARIANTS DiskIsSound StopSavesAll
PROPERTIES LoadsTheLast SavedIsWritten
CHECK_DEADLOCK FALSE
