---------------------------- MODULE DaideClauses ----------------------------
(***************************************************************************)
(* The language of DAIDE programs: its tokens (diplomacy/daide/tokens.py)  *)
(* and the clauses a message is made of (daide/clauses.py), read from      *)
(* tokens and written as tokens.                                           *)
(*                                                                         *)
(* A token is its 16-bit word.  A text of the game (a unit, an order) is   *)
(* the sequence of its words, "A LON - BEL" is <<"A","LON","-","BEL">>; a   *)
(* phase "S1901M" is <<"S", 1901, "M">>.                                   *)
(*                                                                         *)
(* A reader takes the tokens that are left and gives the clause and the    *)
(* tokens after it, [ok |-> TRUE, val, rest], or Fail: the exception that  *)
(* ends the reading of the whole message.                                  *)
(***************************************************************************)
EXTENDS Integers, SequencesExt, TLC

CONSTANTS
    ProvinceTokens,  \* [name -> word], the registered tokens of provinces
    Coasts,          \* [location with a coast -> <<province, coast>>]: "STP/SC" |-> <<"STP", "/SC">>
    Characters       \* [character -> code], the ASCII characters in use

ASSUME WordAssumption ==
    \A n \in DOMAIN ProvinceTokens : ProvinceTokens[n] \in 16384 .. 65535

\* The registered tokens, by name: the high byte is the category (65 = 0x41 for the
\* powers, 66 for units, ... 74 for press), the low one a number in it.
Registered ==
    [AUS |-> 16640, ENG |-> 16641, FRA |-> 16642, GER |-> 16643, ITA |-> 16644, RUS |-> 16645, TUR |-> 16646,
     AMY |-> 16896, FLT |-> 16897,
     CTO |-> 17184, CVY |-> 17185, HLD |-> 17186, MTO |-> 17187, SUP |-> 17188, VIA |-> 17189, DSB |-> 17216,
     RTO |-> 17217, BLD |-> 17280, REM |-> 17281, WVE |-> 17282,
     MBV |-> 17408, NYU |-> 17426,
     SUC |-> 17664, NSO |-> 17669,
     NCS |-> 17920, ECS |-> 17924, SCS |-> 17928, WCS |-> 17932,
     SPR |-> 18176, SUM |-> 18177, FAL |-> 18178, AUT |-> 18179, WIN |-> 18180,
     CCD |-> 18432, DRW |-> 18433, FRM |-> 18434, GOF |-> 18435, HLO |-> 18436, HST |-> 18437, HUH |-> 18438,
     IAM |-> 18439, MAP |-> 18441, MDF |-> 18442, MIS |-> 18443, NME |-> 18444, NOT |-> 18445, NOW |-> 18446,
     OBS |-> 18447, OFF |-> 18448, ORD |-> 18449, OUT |-> 18450, PRN |-> 18451, REJ |-> 18452, SCO |-> 18453,
     SLO |-> 18454, SND |-> 18455, SUB |-> 18456, THX |-> 18458, TME |-> 18459, YES |-> 18460, ADM |-> 18461,
     SMR |-> 18462,
     AOA |-> 18688, BTL |-> 18689, ERR |-> 18690, LVL |-> 18691, MRT |-> 18692, MTL |-> 18693, RTL |-> 18698,
     UNO |-> 18699,
     DMZ |-> 18947, PCE |-> 18960, PRP |-> 18963]
    @@ ("(" :> 16384) @@ (")" :> 16385) @@ ProvinceTokens

Ascii == 19200
OPE == Registered["("]
CLO == Registered[")"]

\* The word of a name or of a character; IsToken if there is one.
IsToken(name) == name \in DOMAIN Registered \cup DOMAIN Characters
Token(name) == IF name \in DOMAIN Registered THEN Registered[name] ELSE Ascii + Characters[name]
Tokens(names) == [i \in DOMAIN names |-> Token(names[i])]

\* An integer has 14 bits.
IsNumber(n) == n \in -8192 .. 8191
Number(n) == n % 16384
IsInteger(w) == w < 16384
IntegerOf(w) == IF w >= 8192 THEN w - 16384 ELSE w

\* str(Token): the text of a word; an integer and its digits look the same.
NameOf == [w \in {Registered[n] : n \in DOMAIN Registered} |-> CHOOSE n \in DOMAIN Registered : Registered[n] = w]
CharacterOf == [w \in {Ascii + Characters[c] : c \in DOMAIN Characters} |->
                   CHOOSE c \in DOMAIN Characters : Ascii + Characters[c] = w]
IsWord(w) == IsInteger(w) \/ w \in DOMAIN NameOf \/ w \in DOMAIN CharacterOf
Str(w) == IF IsInteger(w) THEN ToString(IntegerOf(w)) ELSE IF w \in DOMAIN NameOf THEN NameOf[w] ELSE CharacterOf[w]

\* The names a clause has other words for in the game.
PowerNames == [AUS |-> "AUSTRIA", ENG |-> "ENGLAND", FRA |-> "FRANCE", GER |-> "GERMANY", ITA |-> "ITALY",
               RUS |-> "RUSSIA", TUR |-> "TURKEY"]
ProvinceNames == [ECS |-> "/EC", NCS |-> "/NC", SCS |-> "/SC", WCS |-> "/WC", ECH |-> "ENG", GOB |-> "BOT", GOL |-> "LYO"]
UnitTypes == [AMY |-> "A", FLT |-> "F"]
OrderTypes == [HLD |-> "H", MTO |-> "-", SUP |-> "S", CVY |-> "C", CTO |-> "-", VIA |-> "VIA", RTO |-> "R",
               DSB |-> "D", REM |-> "D", BLD |-> "B", WVE |-> "WAIVE"]
Seasons == [SPR |-> <<"S", "M">>, SUM |-> <<"S", "R">>, FAL |-> <<"F", "M">>, AUT |-> <<"F", "R">>, WIN |-> <<"W", "A">>]
OrderTokens == ("H" :> "HLD") @@ ("S" :> "SUP") @@ ("C" :> "CVY") @@ ("R" :> "RTO") @@ ("B" :> "BLD")

Alias(names, n) == IF n \in DOMAIN names THEN names[n] ELSE n
TokenFor(names, text) == IF \E n \in DOMAIN names : names[n] = text
                         THEN CHOOSE n \in DOMAIN names : names[n] = text ELSE text
----------------------------------------------------------------------------
(* Groups. *)

Fail == [ok |-> FALSE]
Read(v, rest) == [ok |-> TRUE, val |-> v, rest |-> rest]
Chain(p, Go(_, _)) == IF p.ok THEN Go(p.val, p.rest) ELSE Fail
OrElse(p, q) == IF p.ok THEN p ELSE q
Drop(s, n) == SubSeq(s, n + 1, Len(s))
AtEnd(p) == p.ok /\ p.rest = <<>>

\* The end of the group s starts with: the first place where the parentheses
\* are closed; 0 if there is none.
Level(s, i) == Cardinality({j \in 1..i : s[j] = OPE}) - Cardinality({j \in 1..i : s[j] = CLO})
FirstAfterOne(closed) == IF closed = {} \/ 1 \in closed THEN 0 ELSE CHOOSE i \in closed : \A j \in closed : i <= j
GroupEnd(s) == FirstAfterOne({i \in DOMAIN s : Level(s, i) <= 0})
HasGroup(s) == GroupEnd(s) > 0
GroupUpTo(s, end) == IF end > 0 THEN Read(SubSeq(s, 2, end - 1), Drop(s, end)) ELSE Fail
Group(s) == GroupUpTo(s, GroupEnd(s))

\* add_parentheses leaves nothing as it is.
Paren(s) == IF s = <<>> THEN s ELSE <<OPE>> \o s \o <<CLO>>
----------------------------------------------------------------------------
(* Clauses, read. *)

ReadToken(s) == IF s # <<>> /\ IsWord(s[1]) THEN Read(Str(s[1]), Tail(s)) ELSE Fail
ReadPower(s) == Chain(ReadToken(s), LAMBDA n, rest : Read(Alias(PowerNames, n), rest))
ReadUnitType(s) == Chain(ReadToken(s), LAMBDA n, rest : Read(Alias(UnitTypes, n), rest))
ReadOrderType(s) == Chain(ReadToken(s), LAMBDA n, rest : Read(Alias(OrderTypes, n), rest))
ReadNumber(s) == IF s # <<>> /\ IsInteger(s[1]) THEN Read(IntegerOf(s[1]), Tail(s)) ELSE Fail

\* The text of a name: the words in the group.
ReadString(s) == Chain(Group(s), LAMBDA body, rest : Read([i \in DOMAIN body |-> Str(body[i])], rest))

\* STP, or (STP SCS).  A province with a coast the map does not know is Nowhere;
\* a reader that is not strict (on_error='ignore') takes missing words for it too.
Nowhere == "no such place"
Place(p, c) ==
    LET words == <<Alias(ProvinceNames, p), Alias(ProvinceNames, c)>>
    IN  IF \E l \in DOMAIN Coasts : Coasts[l] = words THEN CHOOSE l \in DOMAIN Coasts : Coasts[l] = words ELSE Nowhere
ReadProvinceOr(s, strict) ==
    IF HasGroup(s)
    THEN Chain(Group(s), LAMBDA body, rest :
            CASE Len(body) = 2 -> Read(Place(Str(body[1]), Str(body[2])), rest)
              [] Len(body) < 2 /\ ~strict -> Read(Nowhere, rest)
              [] OTHER -> Fail)
    ELSE Chain(ReadToken(s), LAMBDA n, rest : Read(Alias(ProvinceNames, n), rest))
ReadProvince(s) == ReadProvinceOr(s, TRUE)

\* (SPR 1901)
OddTurn == <<"no such", 0, "phase">>
ReadTurn(s) ==
    Chain(Group(s), LAMBDA body, rest :
        IF Len(body) = 2 /\ IsInteger(body[2])
        THEN LET n == Str(body[1])
             IN  Read(IF n \in DOMAIN Seasons THEN <<Seasons[n][1], IntegerOf(body[2]), Seasons[n][2]>> ELSE OddTurn, rest)
        ELSE Fail)

\* A turn that may be left out (on_error='ignore'): a group of one token or of
\* none is taken for a turn as well, other groups are left for who reads on.
NoTurn == <<>>
ReadOptionalTurn(s) ==
    IF HasGroup(s) /\ Len(Group(s).val) <= 1 THEN Read(OddTurn, Group(s).rest)
    ELSE OrElse(ReadTurn(s), Read(NoTurn, s))

\* (FRA AMY PAR)
ReadUnitOr(s, strict) ==
    Chain(Group(s), LAMBDA body, rest :
    Chain(ReadPower(body), LAMBDA pow, b1 :
    Chain(ReadUnitType(b1), LAMBDA type, b2 :
    Chain(ReadProvinceOr(b2, strict), LAMBDA prov, b3 :
        IF b3 = <<>> THEN Read([pow |-> pow, text |-> <<type, prov>>], rest) ELSE Fail))))
ReadUnit(s) == ReadUnitOr(s, TRUE)
----------------------------------------------------------------------------
(* Orders: (unit HLD), (unit MTO province), (unit SUP unit MTO province),  *)
(* (unit CVY unit CTO province), (unit CTO province VIA (province ...)),    *)
(* (unit RTO province), (unit DSB), (unit BLD), (power WVE), ...            *)

\* The unit, or only a power.
ReadSubject(s) ==
    IF HasGroup(s) THEN ReadUnitOr(s, FALSE)
    ELSE Chain(ReadPower(s), LAMBDA pow, rest : Read([pow |-> pow, text |-> <<"None">>], rest))

\* What comes after '-': any token after the province is dropped, and VIA
\* takes the list of provinces with it.
ReadMoveEnd(s) ==
    Chain(ReadProvince(s), LAMBDA prov, rest :
        IF rest = <<>> THEN Read(<<prov>>, rest)
        ELSE Chain(ReadOrderType(rest), LAMBDA type, r2 :
                IF type # "VIA" THEN Read(<<prov>>, r2)
                ELSE Read(<<prov, "VIA">>, IF HasGroup(r2) THEN Group(r2).rest ELSE r2)))

\* ... after S: any token but '-' after the unit is dropped.
ReadSupportEnd(s) ==
    Chain(ReadUnit(s), LAMBDA unit, rest :
        IF rest = <<>> THEN Read(unit.text, rest)
        ELSE Chain(ReadOrderType(rest), LAMBDA type, r2 :
                IF type # "-" THEN Read(unit.text, r2)
                ELSE Chain(ReadProvince(r2), LAMBDA prov, r3 : Read(unit.text \o <<"-", prov>>, r3))))

ReadConvoyEnd(s) ==
    Chain(ReadUnit(s), LAMBDA unit, r1 :
    Chain(ReadOrderType(r1), LAMBDA type, r2 :
    Chain(ReadProvince(r2), LAMBDA prov, r3 : Read(unit.text \o <<type, prov>>, r3))))

ReadOrderEnd(type, s) ==
    CASE type = "-" -> ReadMoveEnd(s)
      [] type = "S" -> ReadSupportEnd(s)
      [] type = "C" -> ReadConvoyEnd(s)
      [] type = "R" -> Chain(ReadProvince(s), LAMBDA prov, rest : Read(<<prov>>, rest))
      [] OTHER -> Read(<<>>, s)

\* An order in its parentheses; tokens keeps it as it came.
ReadOrder(s) ==
    Chain(Group(s), LAMBDA body, rest :
    Chain(ReadSubject(body), LAMBDA unit, b1 :
    Chain(ReadOrderType(b1), LAMBDA type, b2 :
    Chain(ReadOrderEnd(type, b2), LAMBDA end, b3 :
    LET text == IF type = "WAIVE" THEN <<type>> ELSE unit.text \o <<type>> \o end
    IN  IF b3 = <<>> THEN Read([pow |-> unit.pow, text |-> text, tokens |-> SubSeq(s, 1, GroupEnd(s))], rest) ELSE Fail))))
----------------------------------------------------------------------------
(* Clauses, written. *)

Bare(l) == IF l \in DOMAIN Coasts THEN Coasts[l][1] ELSE l

PowerToken(pow) == Token(TokenFor(PowerNames, pow))
\* A slip the checks must catch: the coast is not written.
ProvinceClauseBare(l) == <<Token(TokenFor(ProvinceNames, Bare(l)))>>
ProvinceClause(l) ==
    IF l \in DOMAIN Coasts THEN Paren(Tokens(<<TokenFor(ProvinceNames, Coasts[l][1]), TokenFor(ProvinceNames, Coasts[l][2])>>))
    ELSE <<Token(TokenFor(ProvinceNames, l))>>
TurnClause(phase) == Paren(<<Token(TokenFor(Seasons, <<phase[1], phase[3]>>)), Number(phase[2])>>)
UnitClause(pow, unit) == Paren(<<PowerToken(pow), Token(TokenFor(UnitTypes, unit[1]))>> \o ProvinceClause(unit[2]))
StringClause(name) == Paren(Tokens(name))

\* parse_order_to_bytes of a split order (utils/splitter.py): the destination
\* of a move is its last word, a supported unit is given the power of the order.
OrderClause(type, pow, text) ==
    LET kind == text[3]
        words == Drop(text, 3)
        moves == Len(words) > 2
    IN  IF Len(text) = 1 THEN <<PowerToken(pow), Token("WVE")>>
        ELSE UnitClause(pow, text) \o
             CASE kind \in {"-", "R"} -> <<Token(IF kind = "-" THEN "MTO" ELSE "RTO")>> \o ProvinceClause(Last(words))
               [] kind = "S" -> <<Token("SUP")>> \o UnitClause(pow, words)
                                \o (IF moves THEN <<Token("MTO")>> \o ProvinceClause(Bare(words[4])) ELSE <<>>)
               [] kind = "C" -> <<Token("CVY")>> \o UnitClause(pow, words)
                                \o (IF moves THEN <<Token("CTO")>> \o ProvinceClause(words[4]) ELSE <<>>)
               [] kind = "D" -> <<Token(IF type = "R" THEN "DSB" ELSE "REM")>>
               [] OTHER -> <<Token(OrderTokens[kind])>>
=============================================================================
