SPECIFICATION Spec
CONSTANTS
    ProvinceTokens <- mProvinceTokens
    Coasts <- mCoasts
    Characters <- mCharacters
    PowerList <- mPowerList
    Centers <- mCenters
    PlaceList <- mPlaceList
    Conns = {"c1", "c2", "c3"}
    Frames <- mEntering
    Story <- mStory
    Wish <- mWish
    Expected = 2
    MapTitle <- mMapTitle
    VariantText <- mVariantText
    Deadline = 0
    GameRules = {"POWER_CHOICE", "CIVIL_DISORDER"}
    Passcode = 1234
    Backlog = 0
    MaxBreaks = 3
INVARIANT PlayersAreKnown
CHECK_DEADLOCK FALSE
