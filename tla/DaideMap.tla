------------------------------ MODULE DaideMap ------------------------------
(***************************************************************************)
(* The map as it is told to a DAIDE program: the response to MDF           *)
(* (MapDefinitionResponse of diplomacy/daide/responses.py).                *)
(***************************************************************************)
EXTENDS GameMap, DaideMessages

CONSTANT HomeCenters    \* [power -> the centers it starts with], Map.centers

Sorted(S) == SortedBy(PlaceList, S)
Open == {l \in Locs : Area[l] # "SHUT"}

PowersClause == Paren(Concat(PowerList, LAMBDA p : <<PowerToken(p)>>))

\* The centers of each power, those of nobody, and the other provinces.
ProvincesClause ==
    LET centers(p) == Paren(<<PowerToken(p)>> \o Concat(Sorted(HomeCenters[p]), ProvinceClause))
        free == ToSet(Centers) \ UNION {HomeCenters[p] : p \in ToSet(PowerList)}
        unowned == Paren(<<Token("UNO")>> \o Concat(Sorted(free), ProvinceClause))
        others == {Short[l] : l \in Open} \ ToSet(Centers)
    IN  Paren(Paren(Concat(PowerList, centers) \o unowned) \o Paren(Concat(Sorted(others), ProvinceClause)))

ArmyMoves(l) == Sorted({d \in DestWithCoasts(l) : Abuts("A", l, "-", d)})
\* A slip the checks must catch: the moves from a coast are looked up for its
\* province.
FleetMovesOfProvince(l) == Sorted({d \in DestWithCoasts(Short[l]) : Abuts("F", Short[l], "-", d)})
FleetMoves(l) == Sorted({d \in DestWithCoasts(l) : Abuts("F", l, "-", d)})

\* (AMY province ...), (FLT province ...) or ((FLT coast) province ...).
MovesClause(head, places) == IF places = <<>> THEN <<>> ELSE Paren(head \o Concat(places, ProvinceClause))
CoastClause(l) ==
    Paren(<<Token("FLT"), Token(TokenFor(ProvinceNames, Coasts[l][2]))>>)
AdjacencyClause(l) ==
    LET coasts == FindCoasts(l) \ {l}
    IN  Paren(ProvinceClause(l) \o MovesClause(<<Token("AMY")>>, ArmyMoves(l))
              \o (IF coasts = {} THEN MovesClause(<<Token("FLT")>>, FleetMoves(l))
                  ELSE Concat(Sorted(coasts), LAMBDA c : MovesClause(CoastClause(c), FleetMoves(c)))))
AdjacenciesClause == Paren(Concat(Sorted({l \in Open : ~OnCoast(l)}), AdjacencyClause))

MapDefinition == <<Token("MDF")>> \o PowersClause \o ProvincesClause \o AdjacenciesClause
----------------------------------------------------------------------------
(* What a program reads from it, by the grammar of the class's comment.    *)

\* The groups of s, and the provinces of s, one after the other.
Starts(s) == SetToSortSeq({i \in DOMAIN s : Level(s, i - 1) = 0}, <)
All(s, Reader(_)) == [k \in DOMAIN Starts(s) |-> Reader(Drop(s, Starts(s)[k] - 1)).val]
Groups(s) == All(s, Group)
ProvincesIn(s) == ToSet(All(s, ReadProvince))

\* Where the definition says that a unit can move.
ReadMoves(type, l) ==
    LET adjacencies == Groups(Groups(Tail(MapDefinition))[3])
        own == CHOOSE a \in ToSet(adjacencies) : a[1] = ProvinceClause(Short[l])[1]
        named == Groups(Tail(own))
        heads == IF type = "A" THEN <<Token("AMY")>> ELSE IF OnCoast(l) THEN CoastClause(l) ELSE <<Token("FLT")>>
        mine == {m \in ToSet(named) : IsPrefix(heads, m)}
    IN  UNION {ProvincesIn(Drop(m, Len(heads))) : m \in mine}
=============================================================================
