SPECIFICATION Spec
CONSTANTS
    Locs <- mLocs
    Short <- mShort
    Area <- mArea
    Lists <- mLists
    Lower = {}
    Powers = {"E", "F", "G"}
    Homes <- mHomes
    Scs <- mScs
    Dummies = {"E"}
    Rank <- mRank
    Win = 3
    Rules = {}
    FirstYear = 1901
    LastYears = 2
    Setups <- mSetups
    Offers <- mOffers
    Draws <- mDraws
    Saves <- mSaves
INVARIANTS HashIsCurrent BoardIsSound PositionFitsPhase RestoreIsExact
PROPERTIES UnitsAccounted PhasesGoOn
CHECK_DEADLOCK FALSE
