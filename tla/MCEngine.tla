------------------------------ MODULE MCEngine ------------------------------
(***************************************************************************)
(* An instance of Engine for TLC: seven provinces, three powers, two       *)
(* years.  In a movement phase of the first year a power attacks one place *)
(* with all it has: a unit moves there, the others that can support it.    *)
(* In the second year the powers give no orders.  A game is drawn, or its  *)
(* state taken, when two units have to retreat.                            *)
(***************************************************************************)
EXTENDS Engine

mLocs == {"PIC", "BUR", "BEL", "HOL", "KIE", "RUH", "NTH"}
mShort == [l \in mLocs |-> l]
mArea == [l \in mLocs |-> IF l = "NTH" THEN "WATER" ELSE IF l \in {"BUR", "RUH"} THEN "LAND" ELSE "COAST"]
Border(names) == [i \in DOMAIN names |-> [loc |-> names[i], style |-> "both"]]
mLists ==
    ("PIC" :> Border(<<"BEL", "BUR">>)) @@ ("BUR" :> Border(<<"PIC", "BEL", "RUH">>))
    @@ ("BEL" :> Border(<<"PIC", "BUR", "HOL", "RUH", "NTH">>)) @@ ("HOL" :> Border(<<"BEL", "RUH", "KIE", "NTH">>))
    @@ ("KIE" :> Border(<<"HOL", "RUH">>)) @@ ("RUH" :> Border(<<"BUR", "BEL", "HOL", "KIE">>))
    @@ ("NTH" :> Border(<<"BEL", "HOL">>))
mRank == ("BEL" :> 1) @@ ("BUR" :> 2) @@ ("HOL" :> 3) @@ ("KIE" :> 4) @@ ("NTH" :> 5) @@ ("PIC" :> 6) @@ ("RUH" :> 7)
mScs == {"PIC", "BEL", "HOL", "KIE"}
mHomes == ("F" :> {"PIC"}) @@ ("G" :> {"HOL", "BEL"}) @@ ("E" :> {"KIE"})

Unit(pow, type, loc) == [pow |-> pow, type |-> type, loc |-> loc]
\* Six units that can dislodge each other.
Battle == [units |-> ("F" :> {Unit("F", "A", "PIC"), Unit("F", "A", "BUR")})
                    @@ ("G" :> {Unit("G", "A", "BEL"), Unit("G", "A", "HOL")})
                    @@ ("E" :> {Unit("E", "A", "KIE"), Unit("E", "F", "NTH")}),
           centers |-> mHomes]
\* Centers to take and units to build.
Growth == [units |-> ("F" :> {Unit("F", "A", "BUR")}) @@ ("G" :> {Unit("G", "A", "RUH")}) @@ ("E" :> {}),
           centers |-> ("F" :> {"PIC", "BEL"}) @@ ("G" :> {"HOL"}) @@ ("E" :> {"KIE"})]
mSetups == {Battle, Growth}

Fought(g, p) == IF g.phase.season = "SPRING" THEN {"BEL", "HOL", "RUH"} ELSE IF p = "E" THEN {} ELSE {"BEL", "HOL"}
Attack(g, p, u, goal) ==
    LET support(v) == Order("S", u.type, u.loc, goal, FALSE)
        helpers == {v \in g.units[p] \ {u} : ValidOrder(Board(g), v, support(v))}
    IN  <<[u |-> u, o |-> Move(goal, FALSE)]>>
        \o FoldSet(LAMBDA v, list : Append(list, [u |-> v, o |-> support(v)]), <<>>, helpers)
AttacksOf(g, p) ==
    {Attack(g, p, q[1], q[2]) : q \in {x \in g.units[p] \X Fought(g, p) : Abuts(x[1].type, x[1].loc, "-", x[2])}}
RetreatTries(g, p) ==
    LET open == {u \in DOMAIN g.retreats[p] : Name(u) \notin {e.u : e \in ToSet(g.adjust[p])}}
    IN  {<<[do |-> "R", u |-> Name(u), to |-> to]>> : <<u, to>> \in {x \in open \X Locs : x[2] \in g.retreats[p][x[1]]}}
        \cup {<<[do |-> "D", u |-> Name(u), to |-> None]>> : u \in open}
AdjustTries(g, p) ==
    {<<Waive>>} \cup {<<[do |-> "B", u |-> q, to |-> None]>> :
                        q \in {x \in Types \X BuildSites(g, p) : x[1] = "A" \/ x[2] = "BEL"}}
    \cup {<<[do |-> "D", u |-> Name(u), to |-> None]>> : u \in g.units[p]}
mOffers(g, p) ==
    IF g.phase.year # FirstYear \/ (g.phase.type # "R" /\ (g.orders[p] # <<>> \/ g.adjust[p] # <<>>)) THEN {}
    ELSE CASE g.phase.type = "M" -> AttacksOf(g, p)
           [] g.phase.type = "R" -> RetreatTries(g, p)
           [] OTHER -> AdjustTries(g, p)

mSaves(g) == g.phase.year = FirstYear /\ g.phase.season = "SPRING" /\ Cardinality(Dislodged(g)) = 2
mDraws(g) == mSaves(g) \/ (g.phase.year = FirstYear /\ g.phase.type = "A")
=============================================================================
