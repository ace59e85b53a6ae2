SPECIFICATION Spec
CONSTANTS
    Locs <- mLocs
    Short <- mShort
    Area <- mArea
    Lists <- mLists
    Lower = {"PIC"}
    Positions <- mPositions
    Offered <- mOffered
    ProvinceTokens <- mProvinceTokens
    Coasts <- mCoasts
    Characters = {}
    PowerList <- mPowerList
    Centers <- mCenters
    PlaceList <- mPlaceList
    HomeCenters <- mHomeCenters
INVARIANTS ResolvedByTheRules OrderIndependent OffersAreAccepted OrdersReadBack
CHECK_DEADLOCK FALSE
