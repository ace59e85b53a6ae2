------------------------------- MODULE Engine -------------------------------
(***************************************************************************)
(* A game as the engine plays it (diplomacy/engine/game.py and power.py):  *)
(* orders are given, the phase is processed, units move, are dislodged,    *)
(* retreat, are built and disbanded, centers change hands, until a power   *)
(* wins or the years are over; a saved state can be put back.              *)
(*                                                                         *)
(* game is the Game object: phase, and for each power units, retreats (a   *)
(* function of the dislodged units), centers, influence, orders (movement) *)
(* and adjust (retreats and adjustments); popped and dislodged, the names  *)
(* of the units that did not make it or still have to retreat; hash, the   *)
(* Zobrist hash as the set of keys xored so far; outcome, the winners.     *)
(* saved is the last state that was taken.                                 *)
(* A list of units is a set here: Power.units and the dictionaries made    *)
(* from it are visited in an arbitrary fixed order, which the adjudication *)
(* does not depend on (Movement!OrderIndependent).                         *)
(***************************************************************************)
EXTENDS Orders

CONSTANTS
    Powers,          \* Map.powers
    Homes,           \* [Powers -> SUBSET Locs], Map.homes
    Scs,             \* Map.scs
    Dummies,         \* the powers without a controller
    Rank,            \* [Locs -> Nat], the alphabetical order
    Win,             \* Game.win, the centers a winner needs
    Rules,           \* the game rules that matter here
    FirstYear,       \* Map.first_year
    LastYears,       \* the years a game lasts (100 in the code)
    Setups,          \* the games at the start: [units, centers]
    Offers(_, _),    \* the orders a power gives in a game, one call's list at a time
    Draws(_),        \* the games that the players agree to end
    Saves(_)         \* the games whose state is taken, to be put back later

VARIABLES game, saved
vars == <<game, saved>>

UnitType == [pow : Powers, type : Types, loc : Locs]

AllRules == {"BUILD_ANY", "HOLD_WIN", "SHARED_VICTORY", "DONT_SKIP_PHASES"}
ASSUME EngineAssumption ==
    /\ Rules \subseteq AllRules /\ Homes \in [Powers -> SUBSET Scs] /\ Scs \subseteq Locs
    /\ Dummies \subseteq Powers /\ Rank \in [Locs -> Nat]
    /\ \A l, m \in Locs : Rank[l] = Rank[m] => l = m
    /\ Win \in Nat /\ FirstYear \in Nat /\ LastYears \in Nat \ {0}
    /\ IsFiniteSet(Powers) /\ IsFiniteSet(Locs) /\ None \notin Powers

\* What Map.validate checks of the initial units and centers; and no map has
\* two units in one province.
ASSUME SetupsAssumption ==
    \A s \in Setups :
        /\ s.units \in [Powers -> SUBSET UnitType] /\ s.centers \in [Powers -> SUBSET Scs]
        /\ \A p \in Powers : \A u \in s.units[p] : u.pow = p /\ ValidUnit(u.type, u.loc, FALSE)
        /\ \A p, q \in Powers : \A u \in s.units[p], v \in s.units[q] : Short[u.loc] = Short[v.loc] => u = v
        /\ \A p, q \in Powers : p # q => s.centers[p] \cap s.centers[q] = {}

NoState == [phase |-> None]
Name(u) == <<u.type, u.loc>>
Board(g) == UNION {g.units[p] : p \in Powers}
Provinces(us) == {Short[u.loc] : u \in us}
Phase(year, season, type) == [year |-> year, season |-> season, type |-> type]
----------------------------------------------------------------------------
(* The Zobrist hash: every key is xored in or out. *)

Xor(a, b) == (a \ b) \cup (b \ a)
UnitKeys(us) == UNION {{<<"unit_type", u.type, u.loc>>, <<"units", u.pow, u.loc>>} : u \in us}
DislodgedKeys(us) == UNION {{<<"dis_unit_type", u.type, u.loc>>, <<"dis_units", u.pow, u.loc>>} : u \in us}
CenterKeys(p, cs) == {<<"center", p, c>> : c \in cs}
HomeKeys(p) == {<<"home", p, h>> : h \in Homes[p]}
UpdateHash(g, keys) == [g EXCEPT !.hash = Xor(@, keys)]
HashUnits(g, us) == UpdateHash(g, UnitKeys(us))
HashDislodged(g, us) == UpdateHash(g, DislodgedKeys(us))
HashCenters(g, cs) == UpdateHash(g, UNION {CenterKeys(p, cs[p]) : p \in Powers})

RebuildHash(g) ==
    UNION {UnitKeys(g.units[p]) \cup DislodgedKeys(DOMAIN g.retreats[p])
           \cup CenterKeys(p, g.centers[p]) \cup HomeKeys(p) : p \in Powers}
----------------------------------------------------------------------------
(* The start: Power.initialize for every power. *)

NewGame(setup) ==
    LET g == [phase |-> Phase(FirstYear, "SPRING", "M"), units |-> setup.units,
              retreats |-> [p \in Powers |-> <<>>], centers |-> setup.centers,
              influence |-> [p \in Powers |-> Provinces(setup.units[p])],
              orders |-> [p \in Powers |-> <<>>], adjust |-> [p \in Powers |-> <<>>],
              popped |-> {}, dislodged |-> {}, hash |-> {}, outcome |-> {}]
    IN  [g EXCEPT !.hash = RebuildHash(g)]

\* Power.clear_orders
ClearOrders(g) == [g EXCEPT !.orders = [p \in Powers |-> <<>>], !.adjust = [p \in Powers |-> <<>>]]

\* A slip the checks must catch: the keys of the dislodged units stay in the hash.
ClearRetreatsUnhashed(g) ==
    [g EXCEPT !.retreats = [p \in Powers |-> <<>>], !.adjust = [p \in Powers |-> <<>>]]
ClearRetreats(g) ==
    [HashDislodged(g, UNION {DOMAIN g.retreats[p] : p \in Powers})
        EXCEPT !.retreats = [p \in Powers |-> <<>>], !.adjust = [p \in Powers |-> <<>>]]

\* Game._finish
Finish(g, victors) == [ClearRetreats(g) EXCEPT !.phase = Completed, !.outcome = victors]
----------------------------------------------------------------------------
(* Game.set_orders in a movement phase: Game._add_order for each order.    *)

\* The last accepted order of a unit stands.
AddOrders(g, p, list) ==
    LET given(i) == WithCoasts(Board(g), list[i].u, list[i].o)
        accepted == {i \in DOMAIN list : list[i].u \in g.units[p] /\ ValidOrder(Board(g), list[i].u, given(i))}
        of(u) == {i \in accepted : list[i].u = u}
        last(u) == CHOOSE i \in of(u) : \A j \in of(u) : j <= i
    IN  [g EXCEPT !.orders[p] = [u \in DOMAIN @ \cup {list[i].u : i \in accepted} |->
                                    IF of(u) = {} THEN g.orders[p][u] ELSE given(last(u))]]

(* Orders of the other phases are [do, u, to]: u is the name of a unit, do *)
(* is B (build), D (disband), R (retreat), WAIVE or VOID.                  *)
NoName == <<None, None>>
Waive == [do |-> "WAIVE", u |-> NoName, to |-> None]
Void(entry) == [entry EXCEPT !.do = "VOID"]

\* What the texts of orders can say in a phase.
Texts(type) ==
    IF type = "M" THEN [u : UnitType, o : OrderForms]
    ELSE [do : {"B", "D", "R", "WAIVE"}, u : (Types \X Locs) \cup {NoName}, to : Locs \cup {None}]

\* The entries of one call: void is what is not accepted by itself, and what
\* clashes with an earlier entry that is.
Entries(list, Accepted(_), Clash(_, _)) ==
    [i \in DOMAIN list |->
        IF Accepted(list[i]) /\ \A j \in 1..i - 1 : Accepted(list[j]) => ~Clash(list[j], list[i])
        THEN list[i] ELSE Void(list[i])]

\* A list without the entries at some places.
Without(list, places) ==
    LET rest[n \in 0..Len(list)] ==
          IF n = 0 THEN <<>> ELSE IF n \in places THEN rest[n - 1] ELSE Append(rest[n - 1], list[n])
    IN  rest[Len(list)]

\* A new order takes the place of the orders of the same location.
Replace(adjust, new) ==
    LET locs == {e.u[2] : e \in {x \in ToSet(new) : x.do \notin {"VOID", "WAIVE"}}}
    IN  Without(adjust, {i \in DOMAIN adjust : adjust[i].do \notin {"VOID", "WAIVE"} /\ adjust[i].u[2] \in locs}) \o new

\* Game._add_retreat_orders
RetreatAccepted(g, p, e) ==
    LET us == {u \in DOMAIN g.retreats[p] : Name(u) = e.u}
    IN  /\ us # {} /\ e.do \in {"R", "D"}
        /\ e.do = "R" => e.to \in UNION {g.retreats[p][u] : u \in us} /\ Short[e.to] \notin Provinces(Board(g))
SameUnit(d, e) == d.u = e.u
AddRetreatOrders(g, p, list) ==
    LET new == Entries(list, LAMBDA e : RetreatAccepted(g, p, e), SameUnit)
    IN  [g EXCEPT !.adjust[p] = IF list = <<>> THEN <<>> ELSE Replace(@, new)]

\* A slip the checks must catch: a build on top of a unit.
BuildSitesManned(g, p) == Homes[p] \cap g.centers[p]

\* Game._build_sites, and the number of builds that are possible.
BuildSites(g, p) ==
    {h \in IF "BUILD_ANY" \in Rules THEN g.centers[p] ELSE Homes[p] : h \in g.centers[p] /\ h \notin Provinces(Board(g))}
Surplus(g, p) == Cardinality(g.centers[p]) - Cardinality(g.units[p])
Smaller(a, b) == IF a < b THEN a ELSE b
Need(g, p) == IF Surplus(g, p) > 0 THEN Smaller(Surplus(g, p), Cardinality(BuildSites(g, p))) ELSE Surplus(g, p)

\* Game._add_adjust_orders: the checks of one order, then the waives.
AdjustAccepted(g, p, e) ==
    CASE e.do = "WAIVE" -> Need(g, p) >= 0
      [] e.do = "D" -> Surplus(g, p) < 0 /\ e.u \in {Name(u) : u \in g.units[p]}
      [] e.do = "B" -> /\ Surplus(g, p) > 0 /\ e.u \in Types \X Locs
                       /\ Short[e.u[2]] \in BuildSites(g, p) /\ ValidUnit(e.u[1], e.u[2], FALSE)
      [] OTHER -> FALSE
SamePlace(d, e) == (e.do = "D" /\ e = d) \/ (e.do = "B" /\ d.do = "B" /\ Short[d.u[2]] = Short[e.u[2]])

\* Waives are removed, the first first, or added, until there are as many orders as builds.
SetWaives(adjust, need, dummy) ==
    LET waives == {i \in DOMAIN adjust : adjust[i] = Waive}
        extra == {i \in waives : 0 < need /\ Cardinality({j \in waives : j <= i}) <= Len(adjust) - need}
        left == Without(adjust, extra)
        missing == IF waives # extra \/ dummy THEN need - Len(left) ELSE 0
    IN  left \o [i \in 1..missing |-> Waive]

AddAdjustOrders(g, p, list) ==
    LET new == Entries(list, LAMBDA e : AdjustAccepted(g, p, e), SamePlace)
    IN  [g EXCEPT !.adjust[p] = IF list = <<>> THEN <<>> ELSE SetWaives(Replace(@, new), Need(g, p), p \in Dummies)]

SetOrdersOf(g, p, list) ==
    CASE g.phase.type = "R" -> AddRetreatOrders(g, p, list)
      [] g.phase.type = "A" -> AddAdjustOrders(g, p, list)
      [] OTHER -> AddOrders(g, p, list)
----------------------------------------------------------------------------
(* Game._move_results: the units of a resolved movement phase.             *)

\* What a power influences after visits, some of them its own.
Visit(mine, all, own) == (mine \ all) \cup own

Moved(r) == {u \in DOMAIN r.cmd : Attacks(r, u)}
Arrived(r, u) == [u EXCEPT !.loc = r.cmd[u].to]
Beaten(r) == {u \in DOMAIN r.cmd : r.out[u] # None}

\* The retreats of a dislodged unit: not to where it was attacked from nor to
\* a place that was fought for; an attack by convoy lifts both bans.
Retreats(r, u) ==
    LET attacker == Occupant(r.units, r.out[u])
        near == {l \in {e.loc : e \in ToSet(AbutList(u.loc))} :
                   Abuts(u.type, u.loc, "-", l) \/ Abuts(u.type, u.loc, "-", Short[l])}
        open == {l \in near : \/ Conflicts(r, Short[l]) = {} /\ Short[l] # r.out[u]
                              \/ ViaConvoy(r, attacker)}
    IN  IF u.type = "F" THEN open ELSE {Short[l] : l \in open}

MoveUnits(g, r) ==
    LET stay(p) == g.units[p] \ (Beaten(r) \cup Moved(r))
        came(p) == {Arrived(r, u) : u \in Moved(r) \cap g.units[p]}
        safe(p) == {u \in Beaten(r) \cap g.units[p] : Retreats(r, u) # {}}
        dest == Provinces(UNION {came(p) : p \in Powers})
        keys == Xor(UnitKeys(Beaten(r) \cup Moved(r)), UnitKeys(UNION {came(p) : p \in Powers}))
        lost == {u \in Beaten(r) : Retreats(r, u) = {}}
    IN  [HashDislodged(UpdateHash(g, keys), Beaten(r) \ lost) EXCEPT
            !.units = [p \in Powers |-> stay(p) \cup came(p)],
            !.retreats = [p \in Powers |-> [u \in safe(p) |-> Retreats(r, u)]],
            !.influence = [p \in Powers |-> Visit(@[p], dest, Provinces(came(p)))],
            !.popped = {Name(u) : u \in lost}, !.dislodged = {Name(u) : u \in Beaten(r)},
            !.orders = [p \in Powers |-> <<>>]]

AllOrders(g) == [u \in UNION {DOMAIN g.orders[p] : p \in Powers} |-> g.orders[u.pow][u]]
InOrder(us) == FoldSet(LAMBDA u, list : Append(list, u), <<>>, us)
Resolved(g) == Resolve(InOrder(Board(g)), AddCoasts(AllOrders(g)), InOrder({Short[l] : l \in Locs}))
MoveResults(g) == MoveUnits(g, Resolved(g))
----------------------------------------------------------------------------
(* Game._other_results, retreats.                                          *)

RetreatOrders(g) == UNION {{[p |-> p, u |-> e.u, to |-> e.to] : e \in {x \in ToSet(g.adjust[p]) : x.do = "R"}} : p \in Powers}

Clashing(g) == {a \in RetreatOrders(g) : \E b \in RetreatOrders(g) : b.u # a.u /\ Short[b.to] = Short[a.to]}

RetreatResults(g) ==
    LET failed == g.popped \cup {a.u : a \in Clashing(g)}
        done == {a \in RetreatOrders(g) : a.u \notin failed}
        came(p) == {[pow |-> p, type |-> a.u[1], loc |-> a.to] : a \in {x \in done : x.p = p}}
        all == UNION {came(p) : p \in Powers}
        h == [HashUnits(g, all) EXCEPT
                 !.units = [p \in Powers |-> @[p] \cup came(p)],
                 !.influence = [p \in Powers |-> Visit(@[p], {u.loc : u \in all}, {u.loc : u \in came(p)})],
                 !.popped = failed \cup (g.dislodged \ {a.u : a \in done}), !.dislodged = {}]
    IN  ClearRetreats(h)
----------------------------------------------------------------------------
(* Game._other_results, adjustments.                                       *)

\* Game._get_distance_to_home, for every type, place and power; Far if no home can be reached.
Far == 99999
Steps(type, l) == {m \in Near(l) : type = "A" \/ Abuts(type, l, "-", m)}
Distances ==
    [q \in Types \X Locs \X Powers |->
        LET within[n \in 0..Cardinality(Locs)] ==
              IF n = 0 THEN {q[2]}
              ELSE LET nearer == within[n - 1] IN nearer \cup UNION {Steps(q[1], l) : l \in nearer}
            ns == {n \in 0..Cardinality(Locs) : {Short[l] : l \in within[n]} \cap Homes[q[3]] # {}}
        IN  IF ns = {} THEN Far ELSE CHOOSE n \in ns : \A m \in ns : n <= m]
DistanceToHome(p, u) == Distances[<<u.type, u.loc, p>>]

\* Whom civil disorder removes first: the farthest from home, fleets, then by name.
RemovedBefore(p, u, v) ==
    LET du == DistanceToHome(p, u)
        dv == DistanceToHome(p, v)
    IN  IF du # dv THEN du > dv
        ELSE IF u.type # v.type THEN u.type = "F" ELSE Rank[u.loc] <= Rank[v.loc]

\* The orders of a power that count: the first builds up to its surplus, the
\* first disbands up to its deficit.
Counted(g, p) ==
    LET list == g.adjust[p]
        rank(i) == Cardinality({j \in 1..i : list[j].do = list[i].do})
    IN  {list[i] : i \in {k \in DOMAIN list : \/ (list[k].do = "B" /\ rank(k) <= Surplus(g, p))
                                             \/ (list[k].do = "D" /\ rank(k) <= 0 - Surplus(g, p))}}
Disbanded(g, p) == {u \in g.units[p] : \E e \in Counted(g, p) : e.do = "D" /\ e.u = Name(u)}

\* A slip the checks must catch: only what is ordered is disbanded.
NoDisorder(g, p) == {}
CivilDisorder(g, p) ==
    LET others == g.units[p] \ Disbanded(g, p)
        rank(u) == Cardinality({v \in others : RemovedBefore(p, v, u)})
    IN  {u \in others : rank(u) <= 0 - Surplus(g, p) - Cardinality(Disbanded(g, p))}

Built(g, p) == {[pow |-> p, type |-> e.u[1], loc |-> e.u[2]] : e \in {x \in Counted(g, p) : x.do = "B"}}
\* The units a restored state left dislodged are lost now.
AdjustResults(g) ==
    LET built == UNION {Built(g, p) : p \in Powers}
        gone == UNION {Disbanded(g, p) \cup CivilDisorder(g, p) : p \in Powers}
    IN  ClearRetreats([HashUnits(g, built \cup gone) EXCEPT
                          !.units = [p \in Powers |-> (@[p] \ gone) \cup {u \in built : u.pow = p}],
                          !.popped = @ \cup g.dislodged, !.dislodged = {}])
----------------------------------------------------------------------------
(* Game._advance_phase: the next phase in which there is something to do.  *)

\* Game._determine_win; before is the number of centers of each power last year.
DetermineWin(g, before) ==
    LET score(p) == Cardinality(g.centers[p])
        wins(p) == /\ score(p) >= Win
                   /\ IF "HOLD_WIN" \in Rules THEN before[p] >= Win ELSE score(p) > before[p]
                   /\ "SHARED_VICTORY" \in Rules \/ \A q \in Powers \ {p} : score(q) < score(p)
        victors == {p \in Powers : wins(p)}
    IN  IF victors # {} THEN Finish(g, victors)
        ELSE IF g.phase.year - FirstYear + 1 = LastYears THEN Finish(ClearOrders(g), {p \in Powers : g.units[p] # {}})
        ELSE g

\* Game._capture_centers: a unit on a center takes it.
Owns(g, p) == {c \in Scs : c \in Provinces(g.units[p]) \/ (c \in g.centers[p] /\ c \notin Provinces(Board(g) \ g.units[p]))}
CaptureCenters(g) ==
    LET start == IF \E p \in Powers : g.centers[p] # {} THEN g
                 ELSE [HashCenters(g, Homes) EXCEPT !.centers = Homes]
        taken == HashCenters(start, [p \in Powers |-> Xor(start.centers[p], Owns(start, p))])
    IN  DetermineWin([taken EXCEPT !.centers = [p \in Powers |-> Owns(start, p)]],
                     [p \in Powers |-> Cardinality(g.centers[p])])

\* A slip the checks must catch: the first power without retreats ends the phase.
SomeWithoutRetreats(g) == \E p \in Powers : g.retreats[p] = <<>>

NoRetreats(g) == \A p \in Powers : g.retreats[p] = <<>>
MustAdjust(g, p) == Surplus(g, p) < 0 \/ (Surplus(g, p) > 0 /\ BuildSites(g, p) # {})
NoAdjustments(g) == g.phase # Completed /\ \A p \in Powers : ~MustAdjust(g, p)
Skip(g) == [g |-> g, go |-> "DONT_SKIP_PHASES" \notin Rules]

\* Game._check_phase: go is FALSE once there is a phase to play.
CheckPhase(g) ==
    LET h == CaptureCenters(g)
    IN  CASE g.phase.type = "R" /\ NoRetreats(g) -> Skip(ClearRetreats(g))
          [] g.phase.type = "A" -> IF NoAdjustments(h) THEN Skip(h) ELSE [g |-> h, go |-> FALSE]
          [] OTHER -> [g |-> g, go |-> FALSE]
AdvancePhase(g) ==
    LET step(x) == IF x.go THEN CheckPhase([x.g EXCEPT !.phase = FindNextPhase(@)]) ELSE x
        after[n \in 0..Len(Flow)] == IF n = 0 THEN [g |-> g, go |-> TRUE] ELSE step(after[n - 1])
    IN  after[Len(Flow)].g

\* Game._process: the results of the phase; then the next phase, without orders.
Results(g) == CASE g.phase.type = "M" -> MoveResults(g)
                [] g.phase.type = "R" -> RetreatResults(g)
                [] OTHER -> AdjustResults(g)
NextPhase(g) == ClearOrders(AdvancePhase(g))
----------------------------------------------------------------------------
(* Taking a state and putting it back.                                     *)

\* Game.get_state; orders, results and the list of lost units are not in it.
GetState(g) ==
    [phase |-> g.phase, units |-> g.units, retreats |-> g.retreats, centers |-> g.centers, influence |-> g.influence]

\* Game.set_units with reset, for one power: the others lose what stands there.
ClearUnits(g, p) ==
    [HashDislodged(HashUnits(g, g.units[p]), DOMAIN g.retreats[p]) EXCEPT
        !.units[p] = {}, !.retreats[p] = <<>>, !.influence[p] = {}]
FreeNeighbours(g, u) ==
    {l \in Near(u.loc) : Abuts(u.type, u.loc, "-", l) /\ \A v \in Board(g) : l \notin {v.loc, Short[v.loc]}}
SetUnits(g, p, us, out) ==
    LET c == ClearUnits(g, p)
        hit(q) == {u \in c.units[q] : Short[u.loc] \in Provinces(us)}
        outhit(q) == {u \in DOMAIN c.retreats[q] : Short[u.loc] \in Provinces(out)}
        h == HashDislodged(HashUnits(c, UNION {hit(q) : q \in Powers}), UNION {outhit(q) : q \in Powers})
        valid == {u \in us : ValidUnit(u.type, u.loc, FALSE)}
        placed == [HashDislodged(HashUnits(h, valid), out) EXCEPT
            !.units = [q \in Powers |-> (@[q] \ hit(q)) \cup IF q = p THEN valid ELSE {}],
            !.retreats = [q \in Powers |->
                [u \in (DOMAIN @[q] \ outhit(q)) \cup (IF q = p THEN out ELSE {}) |-> IF u \in DOMAIN @[q] THEN @[q][u] ELSE {}]],
            !.influence = [q \in Powers |-> (@[q] \ Provinces(us \cup out)) \cup IF q = p THEN Provinces(valid) ELSE {}]]
    IN  IF g.phase.type # "R" THEN placed
        ELSE [placed EXCEPT !.retreats = [q \in Powers |-> [u \in DOMAIN @[q] |-> FreeNeighbours(placed, u)]]]

\* Game.set_centers with reset.
SetCenters(g, p, cs) ==
    LET lost(q) == IF q = p THEN g.centers[p] ELSE g.centers[q] \cap cs
        gained(q) == IF q = p THEN cs \cap Scs ELSE {}
    IN  [HashCenters(HashCenters(g, [q \in Powers |-> lost(q)]), [q \in Powers |-> gained(q)]) EXCEPT
            !.centers = [q \in Powers |-> (@[q] \ lost(q)) \cup gained(q)]]

\* The retreats of the state take the place of those computed by Game.set_units;
\* the first is a slip in which they do not.
ComputedRetreats(g, s) == g.retreats
SavedRetreats(g, s) ==
    [p \in Powers |-> [u \in DOMAIN g.retreats[p] |->
        IF u \in DOMAIN s.retreats[p] THEN s.retreats[p][u] ELSE g.retreats[p][u]]]

\* A step for each power, one after the other.
PowerList == SetToSeq(Powers)
ForEachPower(Step(_, _), g) ==
    LET after[n \in 0..Len(PowerList)] == IF n = 0 THEN g ELSE Step(after[n - 1], PowerList[n])
    IN  after[Len(PowerList)]

\* Game.set_state
SetStateOf(g, s) ==
    LET phased == [ClearOrders(g) EXCEPT !.phase = s.phase]
        manned == ForEachPower(LAMBDA x, p : SetUnits(x, p, s.units[p], DOMAIN s.retreats[p]), phased)
        owned == ForEachPower(LAMBDA x, p : SetCenters(x, p, s.centers[p]),
                              [manned EXCEPT !.retreats = SavedRetreats(manned, s)])
        done == [owned EXCEPT !.influence = s.influence]
    IN  [done EXCEPT !.hash = RebuildHash(done)]
----------------------------------------------------------------------------
(* The operations.                                                         *)

Init == game \in {NewGame(s) : s \in Setups} /\ saved = NoState

\* Game.set_orders
SetOrders(p) ==
    /\ game.phase # Completed
    /\ \E list \in Offers(game, p) \cap Seq(Texts(game.phase.type)) : game' = SetOrdersOf(game, p, list)
    /\ UNCHANGED saved

\* Game.process
Process ==
    /\ game.phase # Completed
    /\ \E after \in {Results(game)} : game' = NextPhase(after)
    /\ UNCHANGED saved

\* Game.draw, by the powers that still have units.
Draw ==
    /\ game.phase # Completed /\ Draws(game)
    /\ game' = Finish(ClearOrders(game), {p \in Powers : game.units[p] # {}})
    /\ UNCHANGED saved

Save == Saves(game) /\ saved = NoState /\ saved' = GetState(game) /\ UNCHANGED game
SetState == saved # NoState /\ game' = SetStateOf(game, saved) /\ UNCHANGED saved

Next == (\E p \in Powers : SetOrders(p)) \/ Process \/ Draw \/ Save \/ SetState
Spec == Init /\ [][Next]_vars
----------------------------------------------------------------------------
(* What a game is to keep. *)

TypeOK ==
    /\ game.units \in [Powers -> SUBSET UnitType] /\ game.centers \in [Powers -> SUBSET Scs]
    /\ game.influence \in [Powers -> SUBSET Locs] /\ game.outcome \subseteq Powers
    /\ \A p \in Powers : \A u \in game.units[p] \cup DOMAIN game.retreats[p] : u.pow = p /\ ValidUnit(u.type, u.loc, FALSE)
    /\ \A p, q \in Powers : p # q => game.centers[p] \cap game.centers[q] = {}

\* The hash is changed piece by piece, in eleven places of the code; it is
\* always what Game.rebuild_hash would compute from the board.
HashIsCurrent == game.hash = RebuildHash(game)

\* No two units stand in one province: not after moves that follow each other,
\* nor retreats to one place, nor builds, nor a state that is put back.
OnePerProvince == \A u, v \in Board(game) : Short[u.loc] = Short[v.loc] => u = v

\* A province is influenced by the last power that visited it, by one at
\* most; away from home a unit influences the province where it stands.
InfluenceIsLast ==
    /\ \A p, q \in Powers : p # q => game.influence[p] \cap game.influence[q] = {}
    /\ \A p \in Powers : Provinces(game.units[p]) \subseteq game.influence[p] \cup Homes[p]

\* The board is sound, all in all: the tables of the powers, which are kept
\* apart, tell of one board.
BoardIsSound == TypeOK /\ OnePerProvince /\ InfluenceIsLast

\* Dislodged units wait in a retreat phase only; what is played next is a
\* phase with something to do (retreats, or a power to build or disband).
Dislodged(g) == UNION {DOMAIN g.retreats[p] : p \in Powers}
NoIdlePhase ==
    /\ game.phase.type # "R" => Dislodged(game) = {}
    /\ game.phase.type = "R" => Dislodged(game) # {}
    /\ game.phase.type = "A" => \E p \in Powers : MustAdjust(game, p)

\* After a winter no power has more units than centers, whatever was ordered.
WithinSupply ==
    game.phase.season = "SPRING" /\ game.phase.year > FirstYear
        => \A p \in Powers : Surplus(game, p) >= 0

\* The orders kept for a power are orders for its units that would be accepted now.
OrdersStandUp ==
    \A p \in Powers : \A u \in DOMAIN game.orders[p] :
        u \in game.units[p] /\ ValidOrder(Board(game), u, game.orders[p][u])

\* The moves that were ordered can all be made: no unit would arrive where another
\* one is, whatever became of the board in the phases, years and games before.
MovesAreSettled == game.phase.type = "M" => Settled(Resolved(game), Board(game))

\* Position, orders and phase fit each other, however the phase was reached: by
\* processing, passing over phases, or putting a state back.
PositionFitsPhase == NoIdlePhase /\ WithinSupply /\ OrdersStandUp /\ MovesAreSettled

\* Putting the saved state back, into whatever the game has become, gives that state.
RestoreIsExact == saved # NoState => GetState(SetStateOf(game, saved)) = saved

\* A processing that is not preceded by putting back a state.
Advance == saved = NoState /\ game'.phase # game.phase

\* A unit leaves the board by being dislodged without a retreat, by a retreat
\* that is not ordered or clashes (both are told in popped), or in a winter.
AllUnits(g) == Cardinality(Board(g)) + Cardinality(Dislodged(g))
Told == IF game.phase.type = "M" THEN game'.popped ELSE game'.popped \ game.popped
UnitsAccounted ==
    [][Advance /\ game.phase.type \in {"M", "R"} /\ game'.phase # Completed
       => AllUnits(game) = AllUnits(game') + Cardinality(Told)]_vars

\* The phases go forward one by one but for those with nothing to do, the
\* comparison of phases agrees, and the years of a game are limited.
PhasesGoOn ==
    [][Advance => /\ ComparePhases(game'.phase, game.phase) = 1
                  /\ ComparePhases(game.phase, game'.phase) = -1
                  /\ game'.phase # Completed => /\ ComparePhases(FindPreviousPhase(game'.phase), game.phase) >= 0
                                                /\ game'.phase.year < FirstYear + LastYears]_vars

\* The same for a game that was put back: a retreat that is accepted and does
\* not clash is made ("When finished, self.popped will be a list of all
\* retreaters who didn't make it").  It does not hold: set_state leaves popped
\* as it was (see the README).
RetreatsAreMade ==
    [][game.phase.type = "R" /\ game'.phase # game.phase /\ game'.phase # Completed
       => \A a \in RetreatOrders(game) \ Clashing(game) :
             a.to \in {u.loc : u \in Board(game')} \/ game' = SetStateOf(game, saved)]_vars
=============================================================================
