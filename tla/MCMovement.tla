----------------------------- MODULE MCMovement -----------------------------
(***************************************************************************)
(* Instances of Movement for TLC: six provinces around two seas, one with  *)
(* two coasts, and five units.                                             *)
(***************************************************************************)
EXTENDS Movement

mLocs == {"LON", "BEL", "HOL", "PIC", "PIC/NC", "PIC/SC", "NTH", "ENG"}
mShort == [l \in mLocs |-> IF l \in {"PIC/NC", "PIC/SC"} THEN "PIC" ELSE l]
mArea == [l \in mLocs |-> IF l \in {"NTH", "ENG"} THEN "WATER" ELSE "COAST"]
Border(names) == [i \in DOMAIN names |-> [loc |-> names[i], style |-> "both"]]
mLists ==
    ("LON" :> Border(<<"NTH", "ENG">>)) @@ ("BEL" :> Border(<<"HOL", "PIC/NC", "NTH", "ENG">>))
    @@ ("HOL" :> Border(<<"BEL", "NTH">>)) @@ ("PIC" :> Border(<<"BEL", "ENG">>))
    @@ ("PIC/NC" :> Border(<<"ENG", "BEL">>)) @@ ("PIC/SC" :> Border(<<"ENG">>))
    @@ ("NTH" :> Border(<<"LON", "BEL", "HOL", "ENG">>)) @@ ("ENG" :> Border(<<"LON", "BEL", "PIC/NC", "PIC/SC", "NTH">>))

Unit(pow, type, loc) == [pow |-> pow, type |-> type, loc |-> loc]

\* An army that can cross two seas, and one by land, both to a held coast.
Crossing == {Unit("ENGLAND", "A", "LON"), Unit("ENGLAND", "F", "NTH"), Unit("FRANCE", "F", "ENG"), Unit("FRANCE", "A", "PIC"), Unit("GERMANY", "F", "BEL")}
\* The fleets of one power convoy the army of another against it.
Foreign == {Unit("ENGLAND", "A", "LON"), Unit("FRANCE", "F", "NTH"), Unit("FRANCE", "F", "ENG"), Unit("ENGLAND", "A", "BEL"), Unit("GERMANY", "F", "HOL")}
\* Three fleets that can follow each other around, and one on a coast.
Ring == {Unit("ENGLAND", "F", "BEL"), Unit("FRANCE", "F", "HOL"), Unit("GERMANY", "F", "NTH"), Unit("ENGLAND", "F", "PIC/NC")}
\* A convoyed attack that a fleet of the attacked power supports.
Helped == {Unit("ENGLAND", "A", "LON"), Unit("ENGLAND", "F", "NTH"), Unit("FRANCE", "F", "ENG"), Unit("FRANCE", "A", "BEL")}
mPositions == {Crossing, Foreign, Ring, Helped}

\* The orders that end in the places that are fought for.
Fought(units) ==
    CASE units = Crossing -> {"BEL", "ENG"}
      [] units = Foreign -> {"LON", "BEL", "ENG"}
      [] units = Helped -> {"BEL"}
      [] OTHER -> {"BEL", "HOL", "NTH"}
mOffered(units, u) == {o \in OrderForms : TargetShort(o) \in Fought(units)}

mProvinceTokens == [LON |-> \H5539, BEL |-> \H5531, HOL |-> \H5537, PIC |-> \H5429, NTH |-> \H521C, ECH |-> \H5214]
mCoasts == ("PIC/NC" :> <<"PIC", "/NC">>) @@ ("PIC/SC" :> <<"PIC", "/SC">>)
mPowerList == <<"ENGLAND", "FRANCE", "GERMANY">>
mCenters == <<"LON", "BEL", "HOL">>
mHomeCenters == [ENGLAND |-> {"LON"}, FRANCE |-> {}, GERMANY |-> {}]
mPlaceList == <<"BEL", "ENG", "HOL", "LON", "NTH", "PIC", "PIC/NC", "PIC/SC">>
=============================================================================
