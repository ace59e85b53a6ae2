------------------------------ MODULE MCDaide ------------------------------
(***************************************************************************)
(* Instances of Daide for TLC: two powers in five places, two programs     *)
(* that play, and three that come and go.                                  *)
(***************************************************************************)
EXTENDS Daide

G(words) == <<"(">> \o words \o <<")">>
DM(words) == Sent("DM", Tokens(words))
IM(version, magic) == Sent("IM", <<version, magic>>)

mProvinceTokens == [LON |-> \H5539, BEL |-> \H5531, HOL |-> \H5537, PIC |-> \H5429, NTH |-> \H521C, ECH |-> \H5214]
mCoasts == <<>>
mPowerList == <<"ENGLAND", "FRANCE">>
mCenters == <<"BEL", "LON", "PIC">>
mPlaceList == <<"BEL", "ENG", "HOL", "LON", "NTH", "PIC">>
mCharacters == ("E" :> 69) @@ ("F" :> 70) @@ ("m" :> 109)
mWish == (<<"E">> :> {"ENGLAND"}) @@ (<<"F">> :> {"FRANCE"})
mMapTitle == <<"m">>
mVariantText == [v \in Variants |-> <<ToString(v)>>]

\* The orders of the story, as texts and as clauses.
Army(pow, at) == G(<<pow, "AMY", at>>)
Fleet(pow, at) == G(<<pow, "FLT", at>>)
HoldBel == <<"A", "BEL", "H">>
HoldNth == <<"F", "NTH", "H">>
Attack == <<"A", "PIC", "-", "BEL">>
Help == <<"F", "ENG", "S", "A", "PIC", "-", "BEL">>
Jump == <<"A", "BEL", "-", "LON">>
Flee == <<"A", "BEL", "R", "HOL">>
ClauseHoldBel == G(Army("ENG", "BEL") \o <<"HLD">>)
ClauseHoldNth == G(Fleet("ENG", "NTH") \o <<"HLD">>)
ClauseAttack == G(Army("FRA", "PIC") \o <<"MTO", "BEL">>)
ClauseHelp == G(Fleet("FRA", "ECH") \o <<"SUP">> \o Army("FRA", "PIC") \o <<"MTO", "BEL">>)
ClauseJump == G(Army("ENG", "BEL") \o <<"MTO", "LON">>)
ClauseFlee == G(Army("ENG", "BEL") \o <<"RTO", "HOL">>)

Both(e, f) == [ENGLAND |-> e, FRANCE |-> f]
Start == Both({"BEL", "LON"}, {"PIC"})
Nobody == Both({}, {})
Codes(units, code) == [u \in units |-> {code}]
mStory == <<
    [phase |-> <<"S", 1901, "M">>, units |-> Both(<<<<"A", "BEL">>, <<"F", "NTH">>>>, <<<<"A", "PIC">>, <<"F", "ENG">>>>),
     retreats |-> Both(<<>>, <<>>), owned |-> Start, homes |-> Both({"LON"}, {"PIC"}), asked |-> {"ENGLAND", "FRANCE"},
     valid |-> Both({HoldBel, HoldNth}, {Attack, Help}), fault |-> (Jump :> 32) @@ (Flee :> 44),
     results |-> Codes({<<"A", "PIC">>, <<"F", "ENG">>, <<"F", "NTH">>}, 0) @@ Codes({<<"A", "BEL">>}, 6),
     needs |-> Both({}, {Attack, Help})],
    [phase |-> <<"S", 1901, "R">>, units |-> Both(<<<<"F", "NTH">>>>, <<<<"A", "BEL">>, <<"F", "ENG">>>>),
     retreats |-> Both(<<[unit |-> <<"A", "BEL">>, places |-> <<"HOL">>]>>, <<>>), owned |-> Start,
     homes |-> Both({"LON"}, {"PIC"}), asked |-> {"ENGLAND"}, valid |-> Both({Flee}, {}),
     fault |-> (Jump :> 49) @@ (HoldBel :> 50) @@ (HoldNth :> 47) @@ (Attack :> 47) @@ (Help :> 47),
     results |-> Codes({<<"A", "BEL">>}, 0), needs |-> Both({Flee}, {})],
    [phase |-> <<"COMPLETED">>, units |-> Both(<<<<"F", "NTH">>, <<"A", "HOL">>>>, <<<<"A", "BEL">>, <<"F", "ENG">>>>),
     retreats |-> Both(<<>>, <<>>), owned |-> Both({"LON"}, {"BEL", "PIC"}), homes |-> Both({"LON"}, {"PIC"}), asked |-> {},
     valid |-> Nobody, fault |-> <<>>, results |-> <<>>, needs |-> Nobody]>>

Name(letter) == DM(<<"NME">> \o G(<<letter>>) \o G(<<"m">>))
Agree == DM(<<"YES">> \o G(<<"MAP">> \o G(<<"m">>)))
In1901(season) == Tokens(<<"(", season>>) \o <<Number(1901), CLO>>
Submit(season, clauses) == Sent("DM", Tokens(<<"SUB">>) \o In1901(season) \o Tokens(clauses))
SubmitNow(clauses) == DM(<<"SUB">> \o clauses)
Plain(word) == DM(<<word>>)
History == Sent("DM", Tokens(<<"HST">>) \o In1901("SPR"))
Press(powers) == DM(<<"SND">> \o G(powers) \o G(<<"PCE">> \o G(<<"ENG", "FRA">>)))

Playing == {Name("E"), Agree, Submit("SPR", ClauseJump \o ClauseHoldNth), Submit("SUM", ClauseFlee), Plain("GOF"), Plain("DRW"),
            DM(<<"NOT">> \o G(<<"SUB">>)), Press(<<"FRA", "FRA">>)}
Opponent == {Name("F"), Agree, SubmitNow(ClauseAttack \o ClauseHelp), Plain("GOF"), Plain("DRW"), History}
Heard(frames) == {Message(f.type, f.body) : f \in frames}
PlayingHeard == Heard(Playing)
OpponentHeard == Heard(Opponent)
mFrames == [c1 |-> PlayingHeard, c2 |-> OpponentHeard]

\* Three programs that come and go.
Reading == {IM(1, \HDA10), IM(1, \H10DA), IM(2, \HDA10), Sent("RM", <<>>), Sent("EM", <<4>>), Sent("DM", <<>>),
            Sent("??", <<>>), Plain("HLO"), Plain("NOW"), Plain("SCO"), Plain("MDF"), Plain("OBS"), Plain("MIS")}
Entering(letter) == {Name(letter), Agree, Plain("DRW"), Sent("FM", <<>>)}
FirstHeard == Heard(Entering("E") \cup Reading)
SecondHeard == Heard(Entering("F"))
ThirdHeard == Heard(Entering("E"))
mEntering == [c1 |-> FirstHeard, c2 |-> SecondHeard, c3 |-> ThirdHeard]
=============================================================================
