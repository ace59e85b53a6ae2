---------------------------- MODULE EngineProofs ----------------------------
(***************************************************************************)
(* Proofs about Engine, for any map, powers, setups, offers and rules that *)
(* the assumptions allow.                                                  *)
(*                                                                         *)
(* A processing is the results of the phase and then a walk over at most   *)
(* the six steps of Flow: what is found at each (Walk) gives that phases   *)
(* go on and fit the position.  Good is what the board and the hash keep:  *)
(* units and centers of a power are its own, in provinces no other power   *)
(* has, and the hash has exactly their keys; each of the results keeps it  *)
(* by what leaves and what comes.  A state that is put back is followed    *)
(* power by power (Manned, Owned).  Tidy adds one unit in a province and   *)
(* the influence, FitInv the numbers of units and centers, TallyInv what   *)
(* is told of the units that were dislodged.                               *)
(*                                                                         *)
(* All of it needs that the moves are settled.  AdjudicatorProofs has that *)
(* for the units of a board and orders they can make: that the game gives  *)
(* such to the adjudication is SettledInv.                                 *)
(***************************************************************************)
EXTENDS Engine, AdjudicatorProofs

-----------------------------------------------------------------------------
(* The order of phases. *)

\* The steps of the year, by their places in Flow; the first is the new year.
LEMMA FlowLemma ==
    /\ Len(Flow) = 6 /\ DOMAIN Flow = 1..6
    /\ Flow[1] = NewYear /\ \A i \in 2..6 : Flow[i] # NewYear
    /\ \A y : At(2, y) = Phase(y, "SPRING", "M") /\ At(3, y) = Phase(y, "SPRING", "R")
    /\ \A y : At(4, y) = Phase(y, "FALL", "M") /\ At(5, y) = Phase(y, "FALL", "R")
    /\ \A y : At(6, y) = Phase(y, "WINTER", "A")
  BY DEF Flow, NewYear, At, Phase, None

\* A phase that is played in some year.
LEMMA PlayedLemma ==
    ASSUME NEW i \in 2..6, NEW y \in Nat
    PROVE  ~Outside(At(i, y)) /\ FlowIndex(At(i, y)) = i /\ At(i, y).year = y
  <1>1. i = 2 \/ i = 3 \/ i = 4 \/ i = 5 \/ i = 6
    OBVIOUS
  <1>2. At(i, y).year = y
    BY DEF At
  <1>3. ~Outside(At(i, y))
    BY <1>1, FlowLemma DEF Outside, Forming, Completed, Phase
  <1>4. \A j \in DOMAIN Flow : Flow[j] = <<At(i, y).season, At(i, y).type>> <=> j = i
    <2>1. <<At(i, y).season, At(i, y).type>> = Flow[i]
      BY <1>1 DEF At, Flow, NewYear, None
    <2>2. \A j \in 1..6 : Flow[j] = Flow[i] => j = i
      BY <1>1 DEF Flow, NewYear, None
    <2>. QED  BY <2>1, <2>2, FlowLemma
  <1>. QED  BY <1>2, <1>3, <1>4, FlowLemma DEF FlowIndex

\* The next phase: the one after it in the year, or the first of the next year.
LEMMA NextLemma ==
    ASSUME NEW i \in 2..6, NEW y \in Nat
    PROVE  FindNextPhase(At(i, y)) = IF i = 6 THEN At(2, y + 1) ELSE At(i + 1, y)
  <1>1. ~Outside(At(i, y)) /\ FlowIndex(At(i, y)) = i /\ At(i, y).year = y
    BY PlayedLemma
  <1>2. CASE i = 6
    <2>1. Later(i) = 1 /\ Later(1) = 2
      BY <1>2, FlowLemma DEF Later
    <2>. QED  BY <1>1, <1>2, <2>1, FlowLemma DEF FindNextPhase
  <1>3. CASE i # 6
    <2>1. Later(i) = i + 1 /\ i + 1 \in 2..6
      <3>1. Later(i) = (i % 6) + 1 /\ i \in 2..5
        BY <1>3, FlowLemma DEF Later
      <3>. QED  BY <3>1
    <2>. QED  BY <1>1, <1>3, <2>1, FlowLemma DEF FindNextPhase
  <1>. QED  BY <1>2, <1>3

\* The phase before it.
LEMMA PreviousLemma ==
    ASSUME NEW i \in 2..6, NEW y \in Nat
    PROVE  FindPreviousPhase(At(i, y)) = IF i = 2 THEN At(6, y - 1) ELSE At(i - 1, y)
  <1>1. ~Outside(At(i, y)) /\ FlowIndex(At(i, y)) = i /\ At(i, y).year = y
    BY PlayedLemma
  <1>2. CASE i = 2
    <2>1. Earlier(i) = 1 /\ Earlier(1) = 6
      BY <1>2, FlowLemma DEF Earlier
    <2>. QED  BY <1>1, <1>2, <2>1, FlowLemma DEF FindPreviousPhase
  <1>3. CASE i # 2
    <2>1. Earlier(i) = i - 1 /\ i - 1 \in 2..6
      BY <1>3 DEF Earlier
    <2>. QED  BY <1>1, <1>3, <2>1, FlowLemma DEF FindPreviousPhase
  <1>. QED  BY <1>2, <1>3

\* The comparison of phases is the order of years, and of the steps of a year.
LEMMA CompareLemma ==
    ASSUME NEW i \in 2..6, NEW j \in 2..6, NEW y \in Nat, NEW z \in Nat
    PROVE  /\ z > y \/ (z = y /\ j > i) =>
                 ComparePhases(At(j, z), At(i, y)) = 1 /\ ComparePhases(At(i, y), At(j, z)) = -1
           /\ i = j /\ y = z => ComparePhases(At(j, z), At(i, y)) = 0
  <1>1. /\ ~Outside(At(i, y)) /\ FlowIndex(At(i, y)) = i /\ At(i, y).year = y
        /\ ~Outside(At(j, z)) /\ FlowIndex(At(j, z)) = j /\ At(j, z).year = z
    BY PlayedLemma
  <1>2. \A a, b \in 2..6 : NewYear \notin {Flow[k] : k \in a + 1 .. b - 1}
    <2>1. \A a, b \in 2..6 : \A k \in a + 1 .. b - 1 : k \in 2..6
      OBVIOUS
    <2>. QED  BY <2>1, FlowLemma
  <1>3. ASSUME z > y \/ (z = y /\ j > i)
        PROVE  ComparePhases(At(j, z), At(i, y)) = 1 /\ ComparePhases(At(i, y), At(j, z)) = -1
    <2>1. At(j, z) # At(i, y)
      BY <1>1, <1>3
    <2>2. CASE z > y
      BY <1>1, <2>1, <2>2 DEF ComparePhases
    <2>3. CASE z = y /\ j > i
      BY <1>1, <1>2, <2>1, <2>3 DEF ComparePhases
    <2>. QED  BY <1>3, <2>2, <2>3
  <1>4. ASSUME i = j, y = z
        PROVE  ComparePhases(At(j, z), At(i, y)) = 0
    BY <1>4 DEF ComparePhases
  <1>. QED  BY <1>3, <1>4

\* A game that is over is later than any phase.
LEMMA CompletedLemma ==
    ASSUME NEW i \in 2..6, NEW y \in Nat
    PROVE  /\ ComparePhases(Completed, At(i, y)) = 1 /\ ComparePhases(At(i, y), Completed) = -1
           /\ Completed # At(i, y)
  <1>1. ~Outside(At(i, y)) /\ Outside(Completed) /\ Completed # Forming
    BY PlayedLemma DEF Outside, Completed, Forming
  <1>. QED  BY <1>1 DEF ComparePhases, Outside
-----------------------------------------------------------------------------
(* What each operator changes of a game. *)

Fields == {"phase", "units", "retreats", "centers", "influence", "orders", "adjust",
           "popped", "dislodged", "hash", "outcome"}
IsGame(g) == DOMAIN g = Fields

\* What the hash is about, and what it is not.
SameBoard(h, g) == h.units = g.units /\ h.retreats = g.retreats /\ h.centers = g.centers
SameRest(h, g) == h.phase = g.phase /\ h.influence = g.influence /\ h.orders = g.orders
                  /\ h.popped = g.popped /\ h.dislodged = g.dislodged /\ h.outcome = g.outcome
SameButLost(h, g) == h.phase = g.phase /\ h.influence = g.influence /\ h.orders = g.orders /\ h.outcome = g.outcome

LEMMA HashFields ==
    ASSUME NEW g, IsGame(g), NEW keys, NEW h, h = UpdateHash(g, keys)
    PROVE  IsGame(h) /\ SameBoard(h, g) /\ SameRest(h, g) /\ h.adjust = g.adjust /\ h.hash = Xor(g.hash, keys)
  BY DEF IsGame, Fields, SameBoard, SameRest, UpdateHash

LEMMA ClearOrdersFields ==
    ASSUME NEW g, IsGame(g), NEW h, h = ClearOrders(g)
    PROVE  /\ IsGame(h) /\ SameBoard(h, g) /\ h.hash = g.hash /\ h.phase = g.phase /\ h.influence = g.influence
           /\ h.orders = [p \in Powers |-> <<>>] /\ h.adjust = [p \in Powers |-> <<>>]
           /\ h.popped = g.popped /\ h.dislodged = g.dislodged /\ h.outcome = g.outcome
  BY DEF IsGame, Fields, SameBoard, ClearOrders

LEMMA ClearRetreatsFields ==
    ASSUME NEW g, IsGame(g), NEW h, h = ClearRetreats(g)
    PROVE  /\ IsGame(h) /\ SameRest(h, g) /\ h.units = g.units /\ h.centers = g.centers
           /\ h.retreats = [p \in Powers |-> <<>>] /\ h.adjust = [p \in Powers |-> <<>>]
           /\ h.hash = Xor(g.hash, DislodgedKeys(UNION {DOMAIN g.retreats[p] : p \in Powers}))
  <1>. DEFINE us == UNION {DOMAIN g.retreats[p] : p \in Powers}
              d == HashDislodged(g, us)
  <1>1. IsGame(d) /\ SameBoard(d, g) /\ SameRest(d, g) /\ d.hash = Xor(g.hash, DislodgedKeys(us))
    BY HashFields DEF HashDislodged
  <1>2. h = [d EXCEPT !.retreats = [p \in Powers |-> <<>>], !.adjust = [p \in Powers |-> <<>>]]
    BY DEF ClearRetreats
  <1>. HIDE DEF d, us
  <1>3. /\ IsGame(h) /\ SameRest(h, d) /\ h.units = d.units /\ h.centers = d.centers /\ h.hash = d.hash
        /\ h.retreats = [p \in Powers |-> <<>>] /\ h.adjust = [p \in Powers |-> <<>>]
    BY <1>1, <1>2 DEF IsGame, Fields, SameRest
  <1>. QED  BY <1>1, <1>3 DEF SameBoard, SameRest, us

LEMMA FinishFields ==
    ASSUME NEW g, IsGame(g), NEW victors, NEW h, h = Finish(g, victors)
    PROVE  /\ IsGame(h) /\ h.units = g.units /\ h.centers = g.centers /\ h.influence = g.influence
           /\ h.orders = g.orders /\ h.popped = g.popped /\ h.dislodged = g.dislodged
           /\ h.retreats = [p \in Powers |-> <<>>] /\ h.adjust = [p \in Powers |-> <<>>]
           /\ h.phase = Completed /\ h.outcome = victors /\ h.hash = ClearRetreats(g).hash
  <1>. DEFINE d == ClearRetreats(g)
  <1>1. /\ IsGame(d) /\ SameRest(d, g) /\ d.units = g.units /\ d.centers = g.centers
        /\ d.retreats = [p \in Powers |-> <<>>] /\ d.adjust = [p \in Powers |-> <<>>]
    BY ClearRetreatsFields
  <1>2. h = [d EXCEPT !.phase = Completed, !.outcome = victors]
    BY DEF Finish
  <1>. HIDE DEF d
  <1>. QED  BY <1>1, <1>2 DEF IsGame, Fields, SameRest, d

\* Orders change the orders only.
LEMMA SetOrdersFields ==
    ASSUME NEW g, IsGame(g), NEW p, NEW list, NEW h, h = SetOrdersOf(g, p, list)
    PROVE  /\ IsGame(h) /\ SameBoard(h, g) /\ h.hash = g.hash /\ h.phase = g.phase /\ h.influence = g.influence
           /\ h.popped = g.popped /\ h.dislodged = g.dislodged /\ h.outcome = g.outcome
  <1>1. ASSUME NEW a, h = [g EXCEPT !.orders[p] = a]
        PROVE  /\ IsGame(h) /\ SameBoard(h, g) /\ h.hash = g.hash /\ h.phase = g.phase /\ h.influence = g.influence
               /\ h.popped = g.popped /\ h.dislodged = g.dislodged /\ h.outcome = g.outcome
    BY <1>1 DEF IsGame, Fields, SameBoard
  <1>2. ASSUME NEW a, h = [g EXCEPT !.adjust[p] = a]
        PROVE  /\ IsGame(h) /\ SameBoard(h, g) /\ h.hash = g.hash /\ h.phase = g.phase /\ h.influence = g.influence
               /\ h.popped = g.popped /\ h.dislodged = g.dislodged /\ h.outcome = g.outcome
    BY <1>2 DEF IsGame, Fields, SameBoard
  <1>3. CASE g.phase.type = "R"
    <2>1. h = AddRetreatOrders(g, p, list)
      BY <1>3 DEF SetOrdersOf
    <2>2. \E a : h = [g EXCEPT !.adjust[p] = a]
      BY <2>1 DEF AddRetreatOrders
    <2>. QED  BY <1>2, <2>2
  <1>4. CASE g.phase.type = "A"
    <2>1. h = AddAdjustOrders(g, p, list)
      BY <1>4 DEF SetOrdersOf
    <2>2. \E a : h = [g EXCEPT !.adjust[p] = a]
      BY <2>1 DEF AddAdjustOrders
    <2>. QED  BY <1>2, <2>2
  <1>5. CASE g.phase.type # "R" /\ g.phase.type # "A"
    <2>1. h = AddOrders(g, p, list)
      BY <1>5 DEF SetOrdersOf
    <2>2. \E a : h = [g EXCEPT !.orders[p] = a]
      BY <2>1 DEF AddOrders
    <2>. QED  BY <1>1, <2>2
  <1>. QED  BY <1>3, <1>4, <1>5

\* Movements: who stays, who arrives, who may retreat, and who is lost.
Staying(g, r, p) == g.units[p] \ (Beaten(r) \cup Moved(r))
Coming(g, r, p) == {Arrived(r, u) : u \in Moved(r) \cap g.units[p]}
Fleeing(g, r, p) == {u \in Beaten(r) \cap g.units[p] : Retreats(r, u) # {}}
Lost(r) == {u \in Beaten(r) : Retreats(r, u) = {}}
Arrivals(g, r) == UNION {Coming(g, r, p) : p \in Powers}

MovedUnits(g, r) == [p \in Powers |-> Staying(g, r, p) \cup Coming(g, r, p)]
MovedRetreats(g, r) == [p \in Powers |-> [u \in Fleeing(g, r, p) |-> Retreats(r, u)]]
MovedInfluence(g, r) ==
    [p \in Powers |-> Visit(g.influence[p], Provinces(Arrivals(g, r)), Provinces(Coming(g, r, p)))]
MovedHash(g, r) ==
    Xor(Xor(g.hash, Xor(UnitKeys(Beaten(r) \cup Moved(r)), UnitKeys(Arrivals(g, r)))), DislodgedKeys(Beaten(r) \ Lost(r)))

LEMMA MoveFields ==
    ASSUME NEW g, IsGame(g), NEW r, NEW h, h = MoveUnits(g, r)
    PROVE  /\ IsGame(h) /\ h.phase = g.phase /\ h.centers = g.centers /\ h.adjust = g.adjust /\ h.outcome = g.outcome
           /\ h.units = MovedUnits(g, r) /\ h.retreats = MovedRetreats(g, r)
           /\ h.influence = MovedInfluence(g, r) /\ h.hash = MovedHash(g, r)
           /\ h.popped = {Name(u) : u \in Lost(r)} /\ h.dislodged = {Name(u) : u \in Beaten(r)}
  <1>. DEFINE keys == Xor(UnitKeys(Beaten(r) \cup Moved(r)), UnitKeys(Arrivals(g, r)))
              c == UpdateHash(g, keys)
              d == HashDislodged(c, Beaten(r) \ Lost(r))
              dest == Provinces(Arrivals(g, r))
  <1>1. IsGame(c) /\ SameBoard(c, g) /\ SameRest(c, g) /\ c.adjust = g.adjust /\ c.hash = Xor(g.hash, keys)
    <2>. HIDE DEF keys
    <2>. QED  BY HashFields
  <1>2. IsGame(d) /\ SameBoard(d, c) /\ SameRest(d, c) /\ d.adjust = c.adjust /\ d.hash = Xor(c.hash, DislodgedKeys(Beaten(r) \ Lost(r)))
    <2>. HIDE DEF c
    <2>. QED  BY <1>1, HashFields DEF HashDislodged
  <1>3. h = [d EXCEPT
            !.units = [p \in Powers |-> Staying(g, r, p) \cup Coming(g, r, p)],
            !.retreats = [p \in Powers |-> [u \in Fleeing(g, r, p) |-> Retreats(r, u)]],
            !.influence = [p \in Powers |-> Visit(@[p], dest, Provinces(Coming(g, r, p)))],
            !.popped = {Name(u) : u \in Lost(r)}, !.dislodged = {Name(u) : u \in Beaten(r)},
            !.orders = [p \in Powers |-> <<>>]]
    BY DEF MoveUnits, Staying, Coming, Fleeing, Arrivals, Lost
  <1>. HIDE DEF c, d, dest, keys
  <1>4. /\ IsGame(h) /\ h.phase = d.phase /\ h.centers = d.centers /\ h.adjust = d.adjust /\ h.outcome = d.outcome /\ h.hash = d.hash
        /\ h.units = [p \in Powers |-> Staying(g, r, p) \cup Coming(g, r, p)]
        /\ h.retreats = [p \in Powers |-> [u \in Fleeing(g, r, p) |-> Retreats(r, u)]]
        /\ h.influence = [p \in Powers |-> Visit(d.influence[p], dest, Provinces(Coming(g, r, p)))]
        /\ h.popped = {Name(u) : u \in Lost(r)} /\ h.dislodged = {Name(u) : u \in Beaten(r)}
        /\ h.orders = [p \in Powers |-> <<>>]
    BY <1>2, <1>3 DEF IsGame, Fields
  <1>5. d.phase = g.phase /\ d.centers = g.centers /\ d.adjust = g.adjust /\ d.outcome = g.outcome /\ d.influence = g.influence
    BY <1>1, <1>2 DEF SameBoard, SameRest
  <1>6. d.hash = Xor(Xor(g.hash, keys), DislodgedKeys(Beaten(r) \ Lost(r)))
    BY <1>1, <1>2
  <1>. QED  BY ONLY <1>4, <1>5, <1>6 DEF dest, keys, MovedUnits, MovedRetreats, MovedInfluence, MovedHash

\* Retreats: the orders that are carried out, and the units that come back.
Failed(g) == g.popped \cup {a.u : a \in Clashing(g)}
Done(g) == {a \in RetreatOrders(g) : a.u \notin Failed(g)}
Back(g, p) == {[pow |-> p, type |-> a.u[1], loc |-> a.to] : a \in {x \in Done(g) : x.p = p}}
AllBack(g) == UNION {Back(g, p) : p \in Powers}

BackUnits(g) == [p \in Powers |-> g.units[p] \cup Back(g, p)]
BackInfluence(g) == [p \in Powers |-> Visit(g.influence[p], {u.loc : u \in AllBack(g)}, {u.loc : u \in Back(g, p)})]
BackHash(g) == Xor(Xor(g.hash, UnitKeys(AllBack(g))), DislodgedKeys(UNION {DOMAIN g.retreats[p] : p \in Powers}))

LEMMA RetreatFields ==
    ASSUME NEW g, IsGame(g), NEW h, h = RetreatResults(g)
    PROVE  /\ IsGame(h) /\ h.phase = g.phase /\ h.centers = g.centers /\ h.orders = g.orders /\ h.outcome = g.outcome
           /\ h.units = BackUnits(g) /\ h.retreats = [p \in Powers |-> <<>>]
           /\ h.influence = BackInfluence(g) /\ h.hash = BackHash(g)
           /\ h.popped = Failed(g) \cup (g.dislodged \ {a.u : a \in Done(g)}) /\ h.dislodged = {}
  <1>. DEFINE c == HashUnits(g, AllBack(g))
              d == [c EXCEPT
                 !.units = [p \in Powers |-> @[p] \cup Back(g, p)],
                 !.influence = [p \in Powers |-> Visit(@[p], {u.loc : u \in AllBack(g)}, {u.loc : u \in Back(g, p)})],
                 !.popped = Failed(g) \cup (g.dislodged \ {a.u : a \in Done(g)}), !.dislodged = {}]
  <1>1. IsGame(c) /\ SameBoard(c, g) /\ SameRest(c, g) /\ c.hash = Xor(g.hash, UnitKeys(AllBack(g)))
    BY HashFields DEF HashUnits
  <1>2. h = ClearRetreats(d)
    BY DEF RetreatResults, Failed, Done, Back, AllBack
  <1>. HIDE DEF c
  <1>3. /\ IsGame(d) /\ d.phase = c.phase /\ d.centers = c.centers /\ d.orders = c.orders /\ d.outcome = c.outcome
        /\ d.hash = c.hash /\ d.retreats = c.retreats
        /\ d.units = [p \in Powers |-> c.units[p] \cup Back(g, p)]
        /\ d.influence = [p \in Powers |-> Visit(c.influence[p], {u.loc : u \in AllBack(g)}, {u.loc : u \in Back(g, p)})]
        /\ d.popped = Failed(g) \cup (g.dislodged \ {a.u : a \in Done(g)}) /\ d.dislodged = {}
    BY <1>1 DEF IsGame, Fields
  <1>. HIDE DEF d
  <1>4. /\ IsGame(h) /\ SameRest(h, d) /\ h.units = d.units /\ h.centers = d.centers
        /\ h.retreats = [p \in Powers |-> <<>>] /\ h.adjust = [p \in Powers |-> <<>>]
        /\ h.hash = Xor(d.hash, DislodgedKeys(UNION {DOMAIN d.retreats[p] : p \in Powers}))
    <2>1. IsGame(d)
      BY <1>3
    <2>. QED  BY ONLY <1>2, <2>1, ClearRetreatsFields
  <1>. QED  BY <1>1, <1>3, <1>4 DEF SameBoard, SameRest, BackUnits, BackInfluence, BackHash

\* Adjustments.
AllBuilt(g) == UNION {Built(g, p) : p \in Powers}
AllGone(g) == UNION {Disbanded(g, p) \cup CivilDisorder(g, p) : p \in Powers}

AdjustedUnits(g) == [p \in Powers |-> (g.units[p] \ AllGone(g)) \cup {u \in AllBuilt(g) : u.pow = p}]
AdjustedHash(g) ==
    Xor(Xor(g.hash, UnitKeys(AllBuilt(g) \cup AllGone(g))), DislodgedKeys(UNION {DOMAIN g.retreats[p] : p \in Powers}))

LEMMA AdjustFields ==
    ASSUME NEW g, IsGame(g), NEW h, h = AdjustResults(g)
    PROVE  /\ IsGame(h) /\ SameButLost(h, g) /\ h.centers = g.centers
           /\ h.units = AdjustedUnits(g) /\ h.retreats = [p \in Powers |-> <<>>] /\ h.hash = AdjustedHash(g)
           /\ h.popped = g.popped \cup g.dislodged /\ h.dislodged = {}
  <1>. DEFINE c == HashUnits(g, AllBuilt(g) \cup AllGone(g))
              d == [c EXCEPT !.units = [p \in Powers |-> (@[p] \ AllGone(g)) \cup {u \in AllBuilt(g) : u.pow = p}],
                             !.popped = @ \cup g.dislodged, !.dislodged = {}]
  <1>1. IsGame(c) /\ SameBoard(c, g) /\ SameRest(c, g) /\ c.hash = Xor(g.hash, UnitKeys(AllBuilt(g) \cup AllGone(g)))
    BY HashFields DEF HashUnits
  <1>2. h = ClearRetreats(d)
    BY DEF AdjustResults, AllBuilt, AllGone
  <1>. HIDE DEF c
  <1>3. /\ IsGame(d) /\ SameButLost(d, c) /\ d.centers = c.centers /\ d.hash = c.hash /\ d.retreats = c.retreats
        /\ d.units = [p \in Powers |-> (c.units[p] \ AllGone(g)) \cup {u \in AllBuilt(g) : u.pow = p}]
        /\ d.popped = c.popped \cup g.dislodged /\ d.dislodged = {}
    BY <1>1 DEF IsGame, Fields, SameButLost
  <1>. HIDE DEF d
  <1>4. /\ IsGame(h) /\ SameRest(h, d) /\ h.units = d.units /\ h.centers = d.centers
        /\ h.retreats = [p \in Powers |-> <<>>] /\ h.adjust = [p \in Powers |-> <<>>]
        /\ h.hash = Xor(d.hash, DislodgedKeys(UNION {DOMAIN d.retreats[p] : p \in Powers}))
    <2>1. IsGame(d)
      BY ONLY <1>3
    <2>. QED  BY ONLY <1>2, <2>1, ClearRetreatsFields
  <1>. QED  BY <1>1, <1>3, <1>4 DEF SameBoard, SameRest, SameButLost, AdjustedUnits, AdjustedHash

\* The end of the game leaves the board, but for the units that waited.
LEMMA WinFields ==
    ASSUME NEW g, IsGame(g), NEW before, NEW h, h = DetermineWin(g, before)
    PROVE  \/ h = g /\ g.phase.year - FirstYear + 1 # LastYears
           \/ /\ IsGame(h) /\ h.units = g.units /\ h.centers = g.centers /\ h.influence = g.influence
              /\ h.popped = g.popped /\ h.dislodged = g.dislodged
              /\ h.retreats = [p \in Powers |-> <<>>]
              /\ h.phase = Completed /\ h.outcome \subseteq Powers /\ h.hash = ClearRetreats(g).hash
  <1>1. ASSUME NEW v \in SUBSET Powers, NEW d, d = g \/ d = ClearOrders(g), h = Finish(d, v)
        PROVE  /\ IsGame(h) /\ h.units = g.units /\ h.centers = g.centers /\ h.influence = g.influence
               /\ h.popped = g.popped /\ h.dislodged = g.dislodged
               /\ h.retreats = [p \in Powers |-> <<>>]
               /\ h.phase = Completed /\ h.outcome \subseteq Powers /\ h.hash = ClearRetreats(g).hash
    <2>1. /\ IsGame(d) /\ d.units = g.units /\ d.centers = g.centers /\ d.influence = g.influence
          /\ d.popped = g.popped /\ d.dislodged = g.dislodged /\ d.retreats = g.retreats /\ d.hash = g.hash
      BY <1>1, ClearOrdersFields DEF SameBoard
    <2>2. /\ IsGame(h) /\ h.units = d.units /\ h.centers = d.centers /\ h.influence = d.influence
          /\ h.popped = d.popped /\ h.dislodged = d.dislodged
          /\ h.retreats = [p \in Powers |-> <<>>]
          /\ h.phase = Completed /\ h.outcome = v /\ h.hash = ClearRetreats(d).hash
      BY <1>1, <2>1, FinishFields
    <2>3. ClearRetreats(d).hash = ClearRetreats(g).hash
      <3>1. ClearRetreats(d).hash = Xor(d.hash, DislodgedKeys(UNION {DOMAIN d.retreats[p] : p \in Powers}))
        BY <2>1, ClearRetreatsFields
      <3>2. ClearRetreats(g).hash = Xor(g.hash, DislodgedKeys(UNION {DOMAIN g.retreats[p] : p \in Powers}))
        BY ClearRetreatsFields
      <3>3. {DOMAIN d.retreats[p] : p \in Powers} = {DOMAIN g.retreats[p] : p \in Powers}
        BY <2>1
      <3>. QED  BY <2>1, <3>1, <3>2, <3>3
    <2>. QED  BY <1>1, <2>1, <2>2, <2>3
  <1>2. \/ \E v \in SUBSET Powers : h = Finish(g, v)
        \/ \E v \in SUBSET Powers : h = Finish(ClearOrders(g), v)
        \/ h = g /\ g.phase.year - FirstYear + 1 # LastYears
    <2>. DEFINE score(p) == Cardinality(g.centers[p])
                wins(p) == /\ score(p) >= Win
                           /\ IF "HOLD_WIN" \in Rules THEN before[p] >= Win ELSE score(p) > before[p]
                           /\ "SHARED_VICTORY" \in Rules \/ \A q \in Powers \ {p} : score(q) < score(p)
                victors == {p \in Powers : wins(p)}
    <2>1. h = IF victors # {} THEN Finish(g, victors)
              ELSE IF g.phase.year - FirstYear + 1 = LastYears THEN Finish(ClearOrders(g), {p \in Powers : g.units[p] # {}})
              ELSE g
      BY DEF DetermineWin
    <2>2. victors \in SUBSET Powers /\ {p \in Powers : g.units[p] # {}} \in SUBSET Powers
      OBVIOUS
    <2>. HIDE DEF victors
    <2>. QED  BY <2>1, <2>2
  <1>3. CASE h = g /\ g.phase.year - FirstYear + 1 # LastYears
    BY <1>3
  <1>4. CASE \E v \in SUBSET Powers : h = Finish(g, v)
    BY <1>1, <1>4
  <1>5. CASE \E v \in SUBSET Powers : h = Finish(ClearOrders(g), v)
    BY <1>1, <1>5
  <1>. QED  BY <1>2, <1>3, <1>4, <1>5

\* The centers before they are captured: the homes if no power has any.
StartCenters(g) == IF \E p \in Powers : g.centers[p] # {} THEN g.centers ELSE Homes
StartHash(g) ==
    IF \E p \in Powers : g.centers[p] # {} THEN g.hash
    ELSE Xor(g.hash, UNION {CenterKeys(p, Homes[p]) : p \in Powers})
OwnsOf(g, c, p) ==
    {l \in Scs : l \in Provinces(g.units[p]) \/ (l \in c[p] /\ l \notin Provinces(Board(g) \ g.units[p]))}
TakenCenters(g) == [p \in Powers |-> OwnsOf(g, StartCenters(g), p)]
TakenHash(g) ==
    Xor(StartHash(g), UNION {CenterKeys(p, Xor(StartCenters(g)[p], OwnsOf(g, StartCenters(g), p))) : p \in Powers})

\* Captures change centers and the hash, and may end the game.
GoesOn(h, g) ==
    /\ h.phase = g.phase /\ h.retreats = g.retreats /\ h.hash = TakenHash(g) /\ h.outcome = g.outcome
    /\ g.phase.year - FirstYear + 1 # LastYears
Ends(h, g) ==
    /\ h.phase = Completed /\ h.retreats = [p \in Powers |-> <<>>] /\ h.outcome \subseteq Powers
    /\ h.hash = Xor(TakenHash(g), DislodgedKeys(UNION {DOMAIN g.retreats[p] : p \in Powers}))
LEMMA CaptureFields ==
    ASSUME NEW g, IsGame(g), NEW h, h = CaptureCenters(g)
    PROVE  /\ IsGame(h) /\ h.units = g.units /\ h.influence = g.influence
           /\ h.centers = TakenCenters(g) /\ h.popped = g.popped /\ h.dislodged = g.dislodged
           /\ GoesOn(h, g) \/ Ends(h, g)
  <1>. DEFINE start == IF \E p \in Powers : g.centers[p] # {} THEN g
                       ELSE [HashCenters(g, Homes) EXCEPT !.centers = Homes]
  <1>1. /\ IsGame(start) /\ start.units = g.units /\ start.retreats = g.retreats /\ SameRest(start, g)
        /\ start.centers = StartCenters(g) /\ start.hash = StartHash(g)
    <2>1. CASE \E p \in Powers : g.centers[p] # {}
      BY <2>1 DEF StartCenters, StartHash, SameRest
    <2>2. CASE ~\E p \in Powers : g.centers[p] # {}
      <3>. DEFINE keys == UNION {CenterKeys(p, Homes[p]) : p \in Powers}
                  c == UpdateHash(g, keys)
      <3>1. IsGame(c) /\ SameBoard(c, g) /\ SameRest(c, g) /\ c.hash = Xor(g.hash, keys)
        <4>. HIDE DEF keys
        <4>. QED  BY HashFields
      <3>2. start = [c EXCEPT !.centers = Homes]
        BY <2>2 DEF HashCenters
      <3>3. StartCenters(g) = Homes /\ StartHash(g) = Xor(g.hash, keys)
        BY <2>2 DEF StartCenters, StartHash
      <3>. HIDE DEF c, keys, start
      <3>4. IsGame(start) /\ start.units = c.units /\ start.retreats = c.retreats /\ SameRest(start, c) /\ start.centers = Homes /\ start.hash = c.hash
        BY <3>1, <3>2 DEF IsGame, Fields, SameRest
      <3>. QED  BY <3>1, <3>3, <3>4 DEF SameBoard, SameRest
    <2>. QED  BY <2>1, <2>2
  <1>. DEFINE owned == [p \in Powers |-> Owns(start, p)]
              keys == UNION {CenterKeys(p, Xor(start.centers[p], Owns(start, p))) : p \in Powers}
              d == UpdateHash(start, keys)
              t == [d EXCEPT !.centers = owned]
              before == [p \in Powers |-> Cardinality(g.centers[p])]
  <1>2. h = DetermineWin(t, before)
    <2>1. HashCenters(start, [p \in Powers |-> Xor(start.centers[p], Owns(start, p))]) = d
      <3>. HIDE DEF start
      <3>. QED  BY DEF HashCenters
    <2>2. h = DetermineWin([HashCenters(start, [p \in Powers |-> Xor(start.centers[p], Owns(start, p))]) EXCEPT !.centers = owned], before)
      BY DEF CaptureCenters
    <2>. HIDE DEF start, d, owned, before
    <2>. QED  BY <2>1, <2>2
  <1>. HIDE DEF start, before
  <1>3. owned = TakenCenters(g)
    <2>1. \A p \in Powers : Owns(start, p) = OwnsOf(g, StartCenters(g), p)
      BY <1>1 DEF Owns, OwnsOf, Board
    <2>. QED  BY <2>1 DEF TakenCenters
  <1>4. keys = UNION {CenterKeys(p, Xor(StartCenters(g)[p], OwnsOf(g, StartCenters(g), p))) : p \in Powers}
    BY <1>1 DEF Owns, OwnsOf, Board
  <1>. HIDE DEF owned, keys
  <1>5. IsGame(d) /\ SameBoard(d, start) /\ SameRest(d, start) /\ d.hash = Xor(start.hash, keys)
    BY <1>1, HashFields
  <1>. HIDE DEF d
  <1>6. /\ IsGame(t) /\ t.units = d.units /\ t.retreats = d.retreats /\ SameRest(t, d) /\ t.hash = d.hash /\ t.centers = owned
    BY <1>5 DEF IsGame, Fields, SameRest
  <1>7. /\ IsGame(t) /\ t.units = g.units /\ t.retreats = g.retreats /\ SameRest(t, g) /\ t.hash = TakenHash(g) /\ t.centers = TakenCenters(g)
    BY <1>1, <1>3, <1>4, <1>5, <1>6 DEF SameBoard, SameRest, TakenHash
  <1>. HIDE DEF t
  <1>8. \/ h = t /\ t.phase.year - FirstYear + 1 # LastYears
        \/ /\ IsGame(h) /\ h.units = t.units /\ h.centers = t.centers /\ h.influence = t.influence
           /\ h.popped = t.popped /\ h.dislodged = t.dislodged
           /\ h.retreats = [p \in Powers |-> <<>>]
           /\ h.phase = Completed /\ h.outcome \subseteq Powers /\ h.hash = ClearRetreats(t).hash
    BY <1>2, <1>7, WinFields
  <1>9. ClearRetreats(t).hash = Xor(TakenHash(g), DislodgedKeys(UNION {DOMAIN g.retreats[p] : p \in Powers}))
    BY <1>7, ClearRetreatsFields
  <1>. QED  BY <1>7, <1>8, <1>9 DEF SameRest, GoesOn, Ends
-----------------------------------------------------------------------------
(* The walk to the next phase, step by step. *)

AdvanceStep(x) == IF x.go THEN CheckPhase([x.g EXCEPT !.phase = FindNextPhase(@)]) ELSE x
First(g) == [g |-> g, go |-> TRUE]

\* Six steps at the most are made: the phases of a year.
LEMMA AdvanceUnfolds ==
    ASSUME NEW g
    PROVE  AdvancePhase(g) = AdvanceStep(AdvanceStep(AdvanceStep(AdvanceStep(AdvanceStep(AdvanceStep(First(g))))))).g
  <1>. DEFINE x0 == First(g)
              x1 == AdvanceStep(x0)
              x2 == AdvanceStep(x1)
              x3 == AdvanceStep(x2)
              x4 == AdvanceStep(x3)
              x5 == AdvanceStep(x4)
              x6 == AdvanceStep(x5)
              Unfolds(f) == f = [n \in 0..6 |-> IF n = 0 THEN x0 ELSE AdvanceStep(f[n - 1])]
  <1>1. AdvancePhase(g) = (CHOOSE f : Unfolds(f))[6].g
    BY FlowLemma DEF AdvancePhase, AdvanceStep, First
  <1>. DEFINE w == [n \in 0..6 |-> IF n = 0 THEN x0 ELSE IF n = 1 THEN x1 ELSE IF n = 2 THEN x2
                       ELSE IF n = 3 THEN x3 ELSE IF n = 4 THEN x4 ELSE IF n = 5 THEN x5 ELSE x6]
  <1>2. Unfolds(w)
    <2>. HIDE DEF x0
    <2>1. \A n \in 0..6 : w[n] = IF n = 0 THEN x0 ELSE AdvanceStep(w[n - 1])
      <3>1. w[0] = x0 /\ w[1] = x1 /\ w[2] = x2 /\ w[3] = x3 /\ w[4] = x4 /\ w[5] = x5 /\ w[6] = x6
        <4>. HIDE DEF x1, x2, x3, x4, x5, x6
        <4>. QED  OBVIOUS
      <3>. HIDE DEF w
      <3>2. ASSUME NEW n \in 0..6 PROVE w[n] = IF n = 0 THEN x0 ELSE AdvanceStep(w[n - 1])
        <4>1. n = 0 \/ n = 1 \/ n = 2 \/ n = 3 \/ n = 4 \/ n = 5 \/ n = 6
          OBVIOUS
        <4>. QED  BY <3>1, <4>1
      <3>. QED  BY <3>2
    <2>2. w = [n \in 0..6 |-> w[n]]
      <3>. HIDE DEF x1, x2, x3, x4, x5, x6
      <3>. QED  OBVIOUS
    <2>. HIDE DEF w
    <2>. QED  BY <2>1, <2>2
  <1>3. Unfolds(CHOOSE f : Unfolds(f))
    <2>1. \E f : Unfolds(f)
      <3>. HIDE DEF Unfolds, w
      <3>. QED  BY <1>2
    <2>. HIDE DEF Unfolds
    <2>. QED  BY <2>1
  <1>4. PICK f : f = CHOOSE k : Unfolds(k)
    OBVIOUS
  <1>. HIDE DEF x0
  <1>5. f[0] = x0 /\ \A n \in 1..6 : f[n] = AdvanceStep(f[n - 1])
    <2>1. f = [n \in 0..6 |-> IF n = 0 THEN x0 ELSE AdvanceStep(f[n - 1])]
      BY <1>3, <1>4
    <2>2. \A n \in 0..6 : f[n] = IF n = 0 THEN x0 ELSE AdvanceStep(f[n - 1])
      BY <2>1
    <2>. QED  BY <2>2
  <1>6. f[1] = AdvanceStep(f[0]) /\ f[2] = AdvanceStep(f[1]) /\ f[3] = AdvanceStep(f[2])
        /\ f[4] = AdvanceStep(f[3]) /\ f[5] = AdvanceStep(f[4]) /\ f[6] = AdvanceStep(f[5])
    BY <1>5
  <1>7. f[6] = x6
    BY <1>5, <1>6
  <1>8. AdvancePhase(g) = f[6].g
    BY <1>1, <1>4
  <1>. QED  BY <1>7, <1>8 DEF x0

\* What becomes of a phase that is looked at: a movement phase is played; a
\* retreat phase without retreats, and an adjustment phase in which no power has
\* something to do, are passed over, unless the rules say otherwise.
Skips == "DONT_SKIP_PHASES" \notin Rules
LEMMA CheckCases ==
    ASSUME NEW g, NEW i \in 2..6, NEW y \in Nat, g.phase = At(i, y), NEW x, x = CheckPhase(g)
    PROVE  /\ i \in {2, 4} => x.g = g /\ ~x.go
           /\ i \in {3, 5} => IF NoRetreats(g) THEN x.g = ClearRetreats(g) /\ (x.go <=> Skips)
                              ELSE x.g = g /\ ~x.go
           /\ i = 6 => /\ x.g = CaptureCenters(g)
                       /\ x.go <=> Skips /\ NoAdjustments(x.g)
  <1>1. /\ i \in {2, 4} => g.phase.type = "M"
        /\ i \in {3, 5} => g.phase.type = "R"
        /\ i = 6 => g.phase.type = "A"
    BY FlowLemma DEF Phase
  <1>2. ASSUME NEW a, NEW b, x = [g |-> a, go |-> b] PROVE x.g = a /\ x.go = b
    BY <1>2
  <1>3. ASSUME NEW a, x = Skip(a) PROVE x.g = a /\ x.go = Skips
    BY <1>2, <1>3 DEF Skip, Skips
  <1>4. CASE i \in {2, 4}
    <2>1. x = [g |-> g, go |-> FALSE]
      BY <1>1, <1>4 DEF CheckPhase
    <2>. QED  BY <1>2, <1>4, <2>1
  <1>5. CASE i \in {3, 5}
    <2>1. CASE NoRetreats(g)
      <3>1. x = Skip(ClearRetreats(g))
        BY <1>1, <1>5, <2>1 DEF CheckPhase
      <3>2. x.g = ClearRetreats(g) /\ x.go = Skips
        BY <1>3, <3>1
      <3>. QED  BY <1>5, <2>1, <3>2
    <2>2. CASE ~NoRetreats(g)
      <3>1. x = [g |-> g, go |-> FALSE]
        BY <1>1, <1>5, <2>2 DEF CheckPhase
      <3>. QED  BY <1>2, <1>5, <2>2, <3>1
    <2>. QED  BY <2>1, <2>2
  <1>6. CASE i = 6
    <2>. DEFINE h == CaptureCenters(g)
    <2>1. g.phase.type = "A"
      BY <1>1, <1>6
    <2>2. CASE NoAdjustments(h)
      <3>1. x = Skip(h)
        BY <2>1, <2>2 DEF CheckPhase
      <3>. HIDE DEF h
      <3>2. x.g = h /\ x.go = Skips
        BY <1>3, <3>1
      <3>. QED  BY <1>6, <2>2, <3>2 DEF h
    <2>3. CASE ~NoAdjustments(h)
      <3>1. x = [g |-> h, go |-> FALSE]
        BY <2>1, <2>3 DEF CheckPhase
      <3>. HIDE DEF h
      <3>2. x.g = h /\ x.go = FALSE
        BY <1>2, <3>1
      <3>. QED  BY <1>6, <2>3, <3>2 DEF h
    <2>. QED  BY <2>2, <2>3
  <1>. QED  BY <1>4, <1>5, <1>6

\* The games that the walk to the next phase passes: no retreats are left but at
\* the start of it, in a movement phase; where it stops there is something to do.
\* S holds the places of the year from which it may still go on.
Supplied(g) == \A p \in Powers : ~(Surplus(g, p) < 0)
Fits(g, i) ==
    /\ i \notin {3, 5} => NoRetreats(g)
    /\ i \in {3, 5} /\ Skips => ~NoRetreats(g)
    /\ i = 6 /\ Skips => \E p \in Powers : MustAdjust(g, p)
Fed(g, i, y) == (i \in {2, 3} /\ y > FirstYear) \/ i = 6 => Supplied(g)
InTime(i, y) == FirstYear <= y /\ y < FirstYear + LastYears /\ (i = 6 => y # FirstYear + LastYears - 1)
Walked(S, a, i0, y0, x, i, y) ==
    /\ x.g.phase = At(i, y) /\ InTime(i, y)
    /\ y > y0 \/ (y = y0 /\ i > i0) \/ (x.go /\ y = y0 /\ i = i0)
    /\ x.go => i \in S /\ (i \in {2, 4} \/ NoRetreats(x.g))
    /\ ~x.go => Fits(x.g, i)
    /\ Fed(a, i0, y0) /\ ((i \in {2, 3} /\ y > FirstYear) \/ (i = 6 /\ x.go)) => Supplied(x.g)
Walk(S, a, i0, y0, x) ==
    /\ IsGame(x.g)
    /\ \/ ~x.go /\ x.g.phase = Completed /\ NoRetreats(x.g)
       \/ \E i \in 2..6, y \in Nat : Walked(S, a, i0, y0, x, i, y)

LEMMA PhaseFields ==
    ASSUME NEW g, IsGame(g), NEW ph, NEW h, h = [g EXCEPT !.phase = ph]
    PROVE  /\ IsGame(h) /\ SameBoard(h, g) /\ h.phase = ph /\ h.influence = g.influence /\ h.hash = g.hash /\ h.orders = g.orders
           /\ h.adjust = g.adjust /\ h.popped = g.popped /\ h.dislodged = g.dislodged /\ h.outcome = g.outcome
  BY DEF IsGame, Fields, SameBoard

LEMMA NoRetreatsLemma ==
    ASSUME NEW h, h.retreats = [p \in Powers |-> <<>>]
    PROVE  NoRetreats(h)
  BY DEF NoRetreats

\* What a power has to do depends on the units and the centers.
LEMMA SameToDo ==
    ASSUME NEW g, NEW h, h.units = g.units, h.centers = g.centers, NEW p
    PROVE  BuildSites(h, p) = BuildSites(g, p) /\ Surplus(h, p) = Surplus(g, p) /\ (MustAdjust(h, p) <=> MustAdjust(g, p))
  <1>1. Board(h) = Board(g)
    BY DEF Board
  <1>2. BuildSites(h, p) = BuildSites(g, p)
    BY <1>1 DEF BuildSites
  <1>3. Surplus(h, p) = Surplus(g, p)
    BY DEF Surplus
  <1>. QED  BY <1>2, <1>3 DEF MustAdjust

LEMMA SuppliedLemma ==
    ASSUME NEW g, NEW h, h.units = g.units, h.centers = g.centers, Supplied(g)
    PROVE  Supplied(h)
  BY DEF Supplied, Surplus

\* One step of the walk.
LEMMA WalkStep ==
    ASSUME NEW S, NEW T, NEW a, NEW i0 \in 2..6, NEW y0 \in Nat, NEW x, Walk(S, a, i0, y0, x),
           \A i \in S : i \in {2, 4, 5} => i + 1 \in T
    PROVE  Walk(T, a, i0, y0, AdvanceStep(x))
  <1>0. FirstYear \in Nat /\ LastYears \in Nat \ {0}
    BY EngineAssumption
  <1>1. CASE ~x.go
    <2>1. AdvanceStep(x) = x
      BY <1>1 DEF AdvanceStep
    <2>2. \A i \in 2..6, y \in Nat : Walked(S, a, i0, y0, x, i, y) => Walked(T, a, i0, y0, x, i, y)
      BY <1>1 DEF Walked
    <2>. QED  BY <1>1, <2>1, <2>2 DEF Walk
  <1>2. CASE x.go
    <2>1. PICK i \in 2..6, y \in Nat : Walked(S, a, i0, y0, x, i, y)
      BY <1>2 DEF Walk
    <2>. DEFINE j == IF i = 6 THEN 2 ELSE i + 1
                z == IF i = 6 THEN y + 1 ELSE y
                g == [x.g EXCEPT !.phase = FindNextPhase(@)]
                h == CheckPhase(g)
    <2>2. j \in 2..6 /\ z \in Nat
      OBVIOUS
    <2>3. /\ IsGame(g) /\ SameBoard(g, x.g) /\ g.phase = At(j, z) /\ g.influence = x.g.influence
      <3>1. FindNextPhase(x.g.phase) = At(j, z)
        BY <2>1, NextLemma DEF Walked
      <3>2. g = [x.g EXCEPT !.phase = FindNextPhase(x.g.phase)]
        OBVIOUS
      <3>3. IsGame(x.g)
        BY DEF Walk
      <3>. HIDE DEF g, j, z
      <3>. QED  BY <3>1, <3>2, <3>3, PhaseFields
    <2>4. AdvanceStep(x) = h
      BY <1>2 DEF AdvanceStep
    <2>. HIDE DEF g, h
    <2>5. /\ j \in {2, 4} => h.g = g /\ ~h.go
          /\ j \in {3, 5} => IF NoRetreats(g) THEN h.g = ClearRetreats(g) /\ (h.go <=> Skips) ELSE h.g = g /\ ~h.go
          /\ j = 6 => h.g = CaptureCenters(g) /\ (h.go <=> Skips /\ NoAdjustments(h.g))
      <3>. HIDE DEF j, z
      <3>. QED  BY <2>2, <2>3, CheckCases DEF h
    <2>6. /\ InTime(i, y) /\ (y > y0 \/ (y = y0 /\ i >= i0)) /\ i \in S /\ (i \in {2, 4} \/ NoRetreats(x.g))
          /\ Fed(a, i0, y0) /\ ((i \in {2, 3} /\ y > FirstYear) \/ i = 6) => Supplied(x.g)
      BY <1>2, <2>1 DEF Walked
    <2>7. /\ j # 6 => InTime(j, z)
          /\ (z > y0 \/ (z = y0 /\ j > i0))
          /\ j \in {3, 5, 6} => j \in T
          /\ j = 6 => FirstYear <= z /\ z < FirstYear + LastYears
      <3>1. i = 2 \/ i = 3 \/ i = 4 \/ i = 5 \/ i = 6
        OBVIOUS
      <3>. QED  BY <1>0, <2>6, <3>1 DEF InTime
    <2>8. j \in {2, 4, 6} => NoRetreats(g)
      <3>1. j \in {2, 4, 6} => i \notin {2, 4}
        OBVIOUS
      <3>. QED  BY <2>3, <2>6, <3>1 DEF NoRetreats, SameBoard
    <2>9. Fed(a, i0, y0) /\ j \in {2, 3} /\ z > FirstYear => Supplied(g)
      <3>1. j \in {2, 3} => i = 6 \/ i = 2
        OBVIOUS
      <3>2. Fed(a, i0, y0) /\ j \in {2, 3} /\ z > FirstYear => Supplied(x.g)
        BY <2>6, <3>1
      <3>. QED  BY <2>3, <3>2, SuppliedLemma DEF SameBoard
    <2>. HIDE DEF j, z
    <2>10. CASE j \in {2, 4}
      <3>1. h.g = g /\ ~h.go
        BY <2>5, <2>10
      <3>2. Fits(g, j)
        BY <2>8, <2>10 DEF Fits
      <3>3. Walked(T, a, i0, y0, h, j, z)
        BY <2>3, <2>7, <2>9, <2>10, <3>1, <3>2 DEF Walked
      <3>. QED  BY <2>2, <2>3, <2>4, <3>1, <3>3 DEF Walk
    <2>11. CASE j \in {3, 5} /\ ~NoRetreats(g)
      <3>1. h.g = g /\ ~h.go
        BY <2>5, <2>11
      <3>2. Fits(g, j)
        BY <2>11 DEF Fits
      <3>3. Walked(T, a, i0, y0, h, j, z)
        BY <2>3, <2>7, <2>9, <2>11, <3>1, <3>2 DEF Walked
      <3>. QED  BY <2>2, <2>3, <2>4, <3>1, <3>3 DEF Walk
    <2>12. CASE j \in {3, 5} /\ NoRetreats(g)
      <3>1. h.g = ClearRetreats(g) /\ (h.go <=> Skips)
        BY <2>5, <2>12
      <3>2. IsGame(h.g) /\ h.g.phase = g.phase /\ h.g.units = g.units /\ h.g.centers = g.centers /\ NoRetreats(h.g)
        <4>1. PICK d : d = ClearRetreats(g)
          OBVIOUS
        <4>2. SameRest(d, g) /\ IsGame(d) /\ d.units = g.units /\ d.centers = g.centers /\ d.retreats = [p \in Powers |-> <<>>]
          BY ONLY <2>3, <4>1, ClearRetreatsFields
        <4>3. NoRetreats(d)
          BY <4>2, NoRetreatsLemma
        <4>. QED  BY ONLY <3>1, <4>1, <4>2, <4>3 DEF SameRest
      <3>3. ~h.go => Fits(h.g, j)
        BY <2>12, <3>1, <3>2 DEF Fits
      <3>4. Fed(a, i0, y0) /\ j \in {2, 3} /\ z > FirstYear => Supplied(h.g)
        BY <2>9, <3>2, SuppliedLemma
      <3>5. Walked(T, a, i0, y0, h, j, z)
        BY <2>3, <2>7, <2>12, <3>2, <3>3, <3>4 DEF Walked
      <3>. QED  BY <2>2, <2>4, <3>2, <3>5 DEF Walk
    <2>13. CASE j = 6
      <3>1. h.g = CaptureCenters(g) /\ (h.go <=> Skips /\ NoAdjustments(h.g))
        BY <2>5, <2>13
      <3>2. /\ IsGame(h.g)
            /\ \/ h.g.phase = g.phase /\ h.g.retreats = g.retreats /\ g.phase.year - FirstYear + 1 # LastYears
               \/ h.g.phase = Completed /\ h.g.retreats = [p \in Powers |-> <<>>]
        <4>1. PICK d : d = CaptureCenters(g)
          OBVIOUS
        <4>2. IsGame(d) /\ (GoesOn(d, g) \/ Ends(d, g))
          BY ONLY <2>3, <4>1, CaptureFields
        <4>3. h.g = d
          BY <3>1, <4>1
        <4>. QED  BY ONLY <4>2, <4>3 DEF GoesOn, Ends
      <3>3. NoRetreats(h.g)
        BY <2>8, <2>13, <3>2 DEF NoRetreats
      <3>4. CASE h.g.phase = Completed
        <4>1. ~h.go
          BY <3>1, <3>4 DEF NoAdjustments
        <4>. QED  BY <2>4, <3>2, <3>3, <3>4, <4>1 DEF Walk
      <3>5. CASE h.g.phase # Completed
        <4>1. h.g.phase = At(6, z) /\ InTime(6, z)
          <5>1. h.g.phase = At(6, z) /\ h.g.phase = g.phase /\ g.phase.year - FirstYear + 1 # LastYears
            BY <2>3, <2>13, <3>2, <3>5
          <5>2. g.phase.year = z
            BY <5>1 DEF At
          <5>. QED  BY <1>0, <2>2, <2>7, <2>13, <5>1, <5>2 DEF InTime
        <4>2. ~h.go => Fits(h.g, 6)
          BY <3>1, <3>3, <3>5 DEF Fits, NoAdjustments
        <4>3. h.go => Supplied(h.g)
          BY <3>1 DEF NoAdjustments, Supplied, MustAdjust
        <4>4. Walked(T, a, i0, y0, h, 6, z)
          BY <2>7, <2>13, <3>3, <4>1, <4>2, <4>3 DEF Walked
        <4>. QED  BY <2>2, <2>4, <3>2, <4>4 DEF Walk
      <3>. QED  BY <3>4, <3>5
    <2>14. j \in {2, 4} \/ j \in {3, 5} \/ j = 6
      BY <2>2
    <2>. QED  BY <2>10, <2>11, <2>12, <2>13, <2>14
  <1>. QED  BY <1>1, <1>2

\* What is found after the walk from the game a, at the place i0 of the year y0.
Reached(a, i0, y0, h) ==
    /\ IsGame(h)
    /\ \/ h.phase = Completed /\ NoRetreats(h)
       \/ \E i \in 2..6, y \in Nat :
            /\ h.phase = At(i, y) /\ InTime(i, y) /\ (y > y0 \/ (y = y0 /\ i > i0)) /\ Fits(h, i)
            /\ Fed(a, i0, y0) /\ i \in {2, 3} /\ y > FirstYear => Supplied(h)

LEMMA NextPhaseReaches ==
    ASSUME NEW g, IsGame(g), NEW i0 \in 2..6, NEW y0 \in Nat, g.phase = At(i0, y0), InTime(i0, y0),
           i0 \in {2, 4} \/ NoRetreats(g)
    PROVE  /\ Reached(g, i0, y0, NextPhase(g))
           /\ NextPhase(g).orders = [p \in Powers |-> <<>>] /\ NextPhase(g).adjust = [p \in Powers |-> <<>>]
  <1>. DEFINE x0 == First(g)
              x1 == AdvanceStep(x0)
              x2 == AdvanceStep(x1)
              x3 == AdvanceStep(x2)
              x4 == AdvanceStep(x3)
              x5 == AdvanceStep(x4)
              x6 == AdvanceStep(x5)
  <1>1. Walk(2..6, g, i0, y0, x0)
    <2>1. x0.g = g /\ x0.go
      BY DEF First
    <2>. HIDE DEF x0
    <2>2. Walked(2..6, g, i0, y0, x0, i0, y0)
      BY <2>1 DEF Walked, Fed
    <2>. QED  BY <2>1, <2>2 DEF Walk
  <1>2. Walk({3, 5, 6}, g, i0, y0, x1)
    <2>. HIDE DEF x0
    <2>1. \A i \in 2..6 : i \in {2, 4, 5} => i + 1 \in {3, 5, 6}
      OBVIOUS
    <2>. QED  BY <1>1, <2>1, WalkStep
  <1>3. Walk({6}, g, i0, y0, x2)
    <2>. HIDE DEF x1
    <2>1. \A i \in {3, 5, 6} : i \in {2, 4, 5} => i + 1 \in {6}
      OBVIOUS
    <2>. QED  BY <1>2, <2>1, WalkStep
  <1>4. Walk({}, g, i0, y0, x3)
    <2>. HIDE DEF x2
    <2>1. \A i \in {6} : i \in {2, 4, 5} => i + 1 \in {}
      OBVIOUS
    <2>. QED  BY <1>3, <2>1, WalkStep
  <1>5. Walk({}, g, i0, y0, x4)
    <2>. HIDE DEF x3
    <2>. QED  BY <1>4, WalkStep
  <1>6. Walk({}, g, i0, y0, x5)
    <2>. HIDE DEF x4
    <2>. QED  BY <1>5, WalkStep
  <1>7. Walk({}, g, i0, y0, x6)
    <2>. HIDE DEF x5
    <2>. QED  BY <1>6, WalkStep
  <1>8. AdvancePhase(g) = x6.g
    BY AdvanceUnfolds
  <1>. HIDE DEF x6
  <1>9. ~x6.go
    BY <1>7 DEF Walk, Walked
  <1>10. PICK h : h = NextPhase(g)
    OBVIOUS
  <1>11. /\ IsGame(h) /\ h.phase = x6.g.phase /\ h.units = x6.g.units /\ h.centers = x6.g.centers /\ h.retreats = x6.g.retreats
         /\ h.orders = [p \in Powers |-> <<>>] /\ h.adjust = [p \in Powers |-> <<>>]
    <2>1. IsGame(x6.g)
      BY <1>7 DEF Walk
    <2>2. h = ClearOrders(x6.g)
      BY <1>8, <1>10 DEF NextPhase
    <2>. QED  BY ONLY <2>1, <2>2, ClearOrdersFields DEF SameBoard
  <1>12. ASSUME NEW i, Fits(x6.g, i) PROVE Fits(h, i)
    <2>1. \A p : MustAdjust(x6.g, p) => MustAdjust(h, p)
      BY <1>11, SameToDo
    <2>. QED  BY <1>11, <1>12, <2>1 DEF Fits, NoRetreats
  <1>13. Supplied(x6.g) => Supplied(h)
    BY <1>11, SuppliedLemma
  <1>14. NoRetreats(x6.g) => NoRetreats(h)
    BY <1>11 DEF NoRetreats
  <1>15. Reached(g, i0, y0, h)
    <2>1. CASE x6.g.phase = Completed /\ NoRetreats(x6.g)
      BY <1>11, <1>14, <2>1 DEF Reached
    <2>2. CASE \E i \in 2..6, y \in Nat : Walked({}, g, i0, y0, x6, i, y)
      <3>1. PICK i \in 2..6, y \in Nat : Walked({}, g, i0, y0, x6, i, y)
        BY <2>2
      <3>2. /\ x6.g.phase = At(i, y) /\ InTime(i, y) /\ (y > y0 \/ (y = y0 /\ i > i0)) /\ Fits(x6.g, i)
            /\ Fed(g, i0, y0) /\ i \in {2, 3} /\ y > FirstYear => Supplied(x6.g)
        BY <1>9, <3>1 DEF Walked
      <3>. QED  BY <1>11, <1>12, <1>13, <3>2 DEF Reached
    <2>. QED  BY <1>7, <2>1, <2>2 DEF Walk
  <1>. QED  BY <1>10, <1>11, <1>15

\* The results of a phase are those of its type, and leave retreats after moves only.
LEMMA ResultsLemma ==
    ASSUME NEW g, IsGame(g), NEW i \in 2..6, NEW y \in Nat, g.phase = At(i, y)
    PROVE  /\ IsGame(Results(g)) /\ Results(g).phase = g.phase
           /\ Results(g).centers = g.centers
           /\ i \in {2, 4} => Results(g) = MoveResults(g)
           /\ i \in {3, 5} => Results(g) = RetreatResults(g)
           /\ i = 6 => Results(g) = AdjustResults(g)
           /\ i \in {2, 4} \/ NoRetreats(Results(g))
  <1>1. /\ i \in {2, 4} => g.phase.type = "M"
        /\ i \in {3, 5} => g.phase.type = "R"
        /\ i = 6 => g.phase.type = "A"
    BY FlowLemma DEF Phase
  <1>2. CASE i \in {2, 4}
    <2>1. Results(g) = MoveResults(g)
      BY <1>1, <1>2 DEF Results
    <2>2. PICK h : h = MoveResults(g)
      OBVIOUS
    <2>3. IsGame(h) /\ h.phase = g.phase /\ h.centers = g.centers
      <3>1. PICK r : r = Resolved(g)
        OBVIOUS
      <3>2. h = MoveUnits(g, r)
        BY <2>2, <3>1 DEF MoveResults
      <3>. QED  BY ONLY IsGame(g), <3>2, MoveFields
    <2>. QED  BY <1>2, <2>1, <2>2, <2>3
  <1>3. CASE i \in {3, 5}
    <2>1. Results(g) = RetreatResults(g)
      BY <1>1, <1>3 DEF Results
    <2>2. PICK h : h = RetreatResults(g)
      OBVIOUS
    <2>3. IsGame(h) /\ h.phase = g.phase /\ h.centers = g.centers /\ h.retreats = [p \in Powers |-> <<>>]
      BY ONLY IsGame(g), <2>2, RetreatFields
    <2>4. NoRetreats(h)
      BY <2>3, NoRetreatsLemma
    <2>. QED  BY <1>3, <2>1, <2>2, <2>3, <2>4
  <1>4. CASE i = 6
    <2>1. Results(g) = AdjustResults(g)
      BY <1>1, <1>4 DEF Results
    <2>2. PICK h : h = AdjustResults(g)
      OBVIOUS
    <2>3. IsGame(h) /\ SameButLost(h, g) /\ h.centers = g.centers /\ h.retreats = [p \in Powers |-> <<>>]
      BY ONLY IsGame(g), <2>2, AdjustFields
    <2>4. NoRetreats(h)
      BY <2>3, NoRetreatsLemma
    <2>. QED  BY <1>4, <2>1, <2>2, <2>3, <2>4 DEF SameButLost
  <1>. QED  BY <1>2, <1>3, <1>4

\* A game is in a phase that is played, or over; so is the game that was saved.
OkPhase(ph) == ph = Completed \/ \E i \in 2..6, y \in Nat : ph = At(i, y) /\ InTime(i, y)
InPhase(g) == IsGame(g) /\ OkPhase(g.phase)

LEMMA NewGameFields ==
    ASSUME NEW s, NEW g, g = NewGame(s)
    PROVE  /\ IsGame(g) /\ g.phase = At(2, FirstYear) /\ g.units = s.units /\ g.centers = s.centers
           /\ g.retreats = [p \in Powers |-> <<>>] /\ g.influence = [p \in Powers |-> Provinces(s.units[p])]
           /\ g.orders = [p \in Powers |-> <<>>] /\ g.adjust = [p \in Powers |-> <<>>]
           /\ g.outcome = {} /\ g.hash = RebuildHash(g)
  <1>1. PICK a : a = [phase |-> Phase(FirstYear, "SPRING", "M"), units |-> s.units,
              retreats |-> [p \in Powers |-> <<>>], centers |-> s.centers,
              influence |-> [p \in Powers |-> Provinces(s.units[p])],
              orders |-> [p \in Powers |-> <<>>], adjust |-> [p \in Powers |-> <<>>],
              popped |-> {}, dislodged |-> {}, hash |-> {}, outcome |-> {}]
    OBVIOUS
  <1>2. g = [a EXCEPT !.hash = RebuildHash(a)]
    BY <1>1 DEF NewGame
  <1>3. /\ IsGame(a) /\ a.phase = Phase(FirstYear, "SPRING", "M") /\ a.units = s.units /\ a.centers = s.centers
        /\ a.retreats = [p \in Powers |-> <<>>] /\ a.influence = [p \in Powers |-> Provinces(s.units[p])]
        /\ a.orders = [p \in Powers |-> <<>>] /\ a.adjust = [p \in Powers |-> <<>>] /\ a.outcome = {}
    BY <1>1 DEF IsGame, Fields
  <1>4. /\ IsGame(g) /\ g.phase = a.phase /\ g.units = a.units /\ g.centers = a.centers
        /\ g.retreats = a.retreats /\ g.influence = a.influence
        /\ g.orders = a.orders /\ g.adjust = a.adjust /\ g.outcome = a.outcome /\ g.hash = RebuildHash(a)
    BY <1>2, <1>3 DEF IsGame, Fields
  <1>5. RebuildHash(g) = RebuildHash(a)
    BY <1>4 DEF RebuildHash
  <1>6. At(2, FirstYear) = Phase(FirstYear, "SPRING", "M")
    BY FlowLemma
  <1>. QED  BY <1>3, <1>4, <1>5, <1>6

\* Completed is no phase that is played.
LEMMA InPlay ==
    ASSUME NEW g, InPhase(g), g.phase # Completed
    PROVE  \E i \in 2..6, y \in Nat : g.phase = At(i, y) /\ InTime(i, y)
  BY DEF InPhase, OkPhase

\* A step that processes: the walk starts from the results of the phase.
LEMMA ProcessReaches ==
    ASSUME Process, IsGame(game), NEW i \in 2..6, NEW y \in Nat, game.phase = At(i, y), InTime(i, y)
    PROVE  /\ game' = NextPhase(Results(game)) /\ Reached(Results(game), i, y, game')
           /\ game'.orders = [p \in Powers |-> <<>>] /\ game'.adjust = [p \in Powers |-> <<>>]
  <1>1. game' = NextPhase(Results(game))
    BY DEF Process
  <1>2. PICK g : g = Results(game)
    OBVIOUS
  <1>3. IsGame(g) /\ g.phase = At(i, y) /\ (i \in {2, 4} \/ NoRetreats(g))
    BY <1>2, ResultsLemma
  <1>4. /\ Reached(g, i, y, NextPhase(g))
        /\ NextPhase(g).orders = [p \in Powers |-> <<>>] /\ NextPhase(g).adjust = [p \in Powers |-> <<>>]
    BY <1>3, NextPhaseReaches
  <1>. QED  BY <1>1, <1>2, <1>4

\* What the comparison says of a phase that is reached from another.
Forward(h, g) ==
    /\ ComparePhases(h.phase, g.phase) = 1 /\ ComparePhases(g.phase, h.phase) = -1
    /\ h.phase # Completed => /\ ComparePhases(FindPreviousPhase(h.phase), g.phase) >= 0
                              /\ h.phase.year < FirstYear + LastYears

LEMMA ForwardLemma ==
    ASSUME NEW g, NEW h, NEW i0 \in 2..6, NEW y0 \in Nat, g.phase = At(i0, y0),
           \/ h.phase = Completed
           \/ \E i \in 2..6, y \in Nat : h.phase = At(i, y) /\ InTime(i, y) /\ (y > y0 \/ (y = y0 /\ i > i0))
    PROVE  Forward(h, g)
  <1>1. CASE h.phase = Completed
    BY <1>1, CompletedLemma DEF Forward
  <1>2. ASSUME NEW i \in 2..6, NEW y \in Nat, h.phase = At(i, y), InTime(i, y), y > y0 \/ (y = y0 /\ i > i0)
        PROVE  Forward(h, g)
    <2>1. ComparePhases(h.phase, g.phase) = 1 /\ ComparePhases(g.phase, h.phase) = -1
      BY <1>2, CompareLemma
    <2>2. h.phase.year = y /\ y < FirstYear + LastYears
      BY <1>2, PlayedLemma DEF InTime
    <2>3. PICK j \in 2..6, z \in Nat : FindPreviousPhase(h.phase) = At(j, z) /\ (z > y0 \/ (z = y0 /\ j > i0) \/ (z = y0 /\ j = i0))
      <3>1. CASE i = 2
        <4>1. y - 1 \in Nat /\ (y - 1 > y0 \/ y - 1 = y0) /\ FindPreviousPhase(h.phase) = At(6, y - 1)
          BY <1>2, <3>1, PreviousLemma
        <4>. QED  BY <4>1
      <3>2. CASE i # 2
        <4>1. i - 1 \in 2..6 /\ FindPreviousPhase(h.phase) = At(i - 1, y)
          BY <1>2, <3>2, PreviousLemma
        <4>. QED  BY <1>2, <4>1
      <3>. QED  BY <3>1, <3>2
    <2>4. ComparePhases(At(j, z), At(i0, y0)) \in {0, 1}
      BY <2>3, CompareLemma
    <2>. QED  BY <2>1, <2>2, <2>3, <2>4 DEF Forward
  <1>. QED  BY <1>1, <1>2

-----------------------------------------------------------------------------
(* Putting a state back: a step for each power, one after the other. *)

\* Every power has its place in the list.
LEMMA PowerListLemma ==
    /\ Len(PowerList) \in Nat
    /\ \A i \in 1..Len(PowerList) : PowerList[i] \in Powers
    /\ \A p \in Powers : \E i \in 1..Len(PowerList) : PowerList[i] = p
  <1>. DEFINE N == Cardinality(Powers)
              Ok(f) == f \in [1..N -> Powers] /\ IsInjective(f)
  <1>1. IsFiniteSet(Powers) /\ N \in Nat
    BY EngineAssumption, FS_CardinalityType
  <1>2. \E f \in [1..N -> Powers] : IsInjective(f)
    <2>1. PICK f : f \in Bijection(1..N, Powers)
      BY <1>1, FS_CardinalityType DEF ExistsBijection
    <2>. QED  BY <2>1 DEF Bijection, Injection, IsInjective
  <1>3. PowerList \in [1..N -> Powers] /\ IsInjective(PowerList)
    <2>1. PowerList = CHOOSE f \in [1..N -> Powers] : IsInjective(f)
      BY DEF PowerList, SetToSeq
    <2>. QED  BY <1>2, <2>1
  <1>4. PowerList \in Surjection(1..N, Powers)
    <2>1. PowerList \in Injection(1..N, Powers)
      BY <1>3 DEF Injection, IsInjective
    <2>2. Cardinality(1..N) = N
      BY <1>1, FS_Interval
    <2>. HIDE DEF N
    <2>. QED  BY <1>1, <2>1, <2>2, FS_Injection DEF N
  <1>5. Len(PowerList) = N
    <2>1. PowerList \in Seq(Powers)
      BY <1>1, <1>3
    <2>. QED  BY <1>1, <1>3, <2>1
  <1>6. \A p \in Powers : \E i \in 1..N : PowerList[i] = p
    BY <1>4 DEF Surjection
  <1>. QED  BY <1>1, <1>3, <1>5, <1>6

\* The two steps of set_state for a power.
UnitsStep(s, x, p) == SetUnits(x, p, s.units[p], DOMAIN s.retreats[p])
CentersStep(s, x, p) == SetCenters(x, p, s.centers[p])
StepOf(k, s, x, p) == IF k = 1 THEN UnitsStep(s, x, p) ELSE CentersStep(s, x, p)
IsChain(f, k, s, g, n) == f = [m \in 0..n |-> IF m = 0 THEN g ELSE StepOf(k, s, f[m - 1], PowerList[m])]

\* The games between the steps.
LEMMA ChainLemma ==
    ASSUME NEW k, NEW s, NEW g, NEW N \in Nat
    PROVE  \E f : IsChain(f, k, s, g, N)
  <1>. DEFINE Bad == {n \in Nat : ~\E f : IsChain(f, k, s, g, n)}
  <1>. SUFFICES ASSUME Bad # {} PROVE FALSE
    OBVIOUS
  <1>1. PICK n \in Bad : \A m \in Bad : n <= m
    BY LeastOne
  <1>2. n # 0
    <2>. DEFINE f == [m \in 0..0 |-> g]
    <2>1. f = [m \in 0..0 |-> IF m = 0 THEN g ELSE StepOf(k, s, f[m - 1], PowerList[m])]
      OBVIOUS
    <2>. HIDE DEF f
    <2>2. IsChain(f, k, s, g, 0)
      BY <2>1 DEF IsChain
    <2>. QED  BY <2>2
  <1>3. n - 1 \in Nat /\ n - 1 \notin Bad
    BY <1>1, <1>2
  <1>4. PICK f : IsChain(f, k, s, g, n - 1)
    BY <1>3
  <1>. DEFINE h == [m \in 0..n |-> IF m = n THEN StepOf(k, s, f[n - 1], PowerList[n]) ELSE f[m]]
  <1>5. \A m \in 0..n : h[m] = IF m = 0 THEN g ELSE StepOf(k, s, h[m - 1], PowerList[m])
    <2>1. \A m \in 0..n - 1 : f[m] = IF m = 0 THEN g ELSE StepOf(k, s, f[m - 1], PowerList[m])
      BY <1>4 DEF IsChain
    <2>2. \A m \in 0..n - 1 : h[m] = f[m]
      OBVIOUS
    <2>3. h[n] = StepOf(k, s, f[n - 1], PowerList[n])
      OBVIOUS
    <2>. HIDE DEF h
    <2>4. ASSUME NEW m \in 0..n PROVE h[m] = IF m = 0 THEN g ELSE StepOf(k, s, h[m - 1], PowerList[m])
      <3>1. CASE m = 0
        BY <1>2, <1>3, <2>1, <2>2, <3>1
      <3>2. CASE m = n
        BY <1>2, <1>3, <2>2, <2>3, <3>2
      <3>3. CASE m # 0 /\ m # n
        <4>1. m \in 0..n - 1 /\ m - 1 \in 0..n - 1
          BY <3>3
        <4>. QED  BY <2>1, <2>2, <3>3, <4>1
      <3>. QED  BY <3>1, <3>2, <3>3
    <2>. QED  BY <2>4
  <1>6. h = [m \in 0..n |-> h[m]]
    OBVIOUS
  <1>. HIDE DEF h
  <1>7. IsChain(h, k, s, g, n)
    BY <1>5, <1>6 DEF IsChain
  <1>. QED  BY <1>1, <1>7

\* What ForEachPower computes.
AllUnitsSet(s, g) == ForEachPower(LAMBDA x, p : SetUnits(x, p, s.units[p], DOMAIN s.retreats[p]), g)
AllCentersSet(s, g) == ForEachPower(LAMBDA x, p : SetCenters(x, p, s.centers[p]), g)
LEMMA EachUnits ==
    ASSUME NEW s, NEW g
    PROVE  \E f : /\ f[0] = g /\ \A n \in 1..Len(PowerList) : f[n] = UnitsStep(s, f[n - 1], PowerList[n])
                  /\ AllUnitsSet(s, g) = f[Len(PowerList)]
  <1>. DEFINE N == Len(PowerList)
              Ok(f) == f = [n \in 0..N |-> IF n = 0 THEN g ELSE SetUnits(f[n - 1], PowerList[n], s.units[PowerList[n]], DOMAIN s.retreats[PowerList[n]])]
  <1>0. N \in Nat
    BY PowerListLemma
  <1>1. AllUnitsSet(s, g) = (CHOOSE f : Ok(f))[N]
    BY DEF ForEachPower, AllUnitsSet, AllCentersSet
  <1>2. \E f : Ok(f)
    <2>1. PICK f : IsChain(f, 1, s, g, N)
      BY <1>0, ChainLemma
    <2>2. Ok(f)
      BY <2>1 DEF IsChain, StepOf, UnitsStep
    <2>. HIDE DEF Ok
    <2>. QED  BY <2>2
  <1>3. PICK f : f = CHOOSE k : Ok(k)
    OBVIOUS
  <1>4. Ok(f)
    <2>. HIDE DEF Ok
    <2>. QED  BY <1>2, <1>3
  <1>5. \A n \in 0..N : f[n] = IF n = 0 THEN g ELSE UnitsStep(s, f[n - 1], PowerList[n])
    BY <1>4 DEF UnitsStep
  <1>6. f[0] = g /\ \A n \in 1..N : f[n] = UnitsStep(s, f[n - 1], PowerList[n])
    BY <1>0, <1>5
  <1>. QED  BY <1>1, <1>3, <1>6

LEMMA EachCenters ==
    ASSUME NEW s, NEW g
    PROVE  \E f : /\ f[0] = g /\ \A n \in 1..Len(PowerList) : f[n] = CentersStep(s, f[n - 1], PowerList[n])
                  /\ AllCentersSet(s, g) = f[Len(PowerList)]
  <1>. DEFINE N == Len(PowerList)
              Ok(f) == f = [n \in 0..N |-> IF n = 0 THEN g ELSE SetCenters(f[n - 1], PowerList[n], s.centers[PowerList[n]])]
  <1>0. N \in Nat
    BY PowerListLemma
  <1>1. AllCentersSet(s, g) = (CHOOSE f : Ok(f))[N]
    BY DEF ForEachPower, AllUnitsSet, AllCentersSet
  <1>2. \E f : Ok(f)
    <2>1. PICK f : IsChain(f, 2, s, g, N)
      BY <1>0, ChainLemma
    <2>2. Ok(f)
      BY <2>1 DEF IsChain, StepOf, CentersStep
    <2>. HIDE DEF Ok
    <2>. QED  BY <2>2
  <1>3. PICK f : f = CHOOSE k : Ok(k)
    OBVIOUS
  <1>4. Ok(f)
    <2>. HIDE DEF Ok
    <2>. QED  BY <1>2, <1>3
  <1>5. \A n \in 0..N : f[n] = IF n = 0 THEN g ELSE CentersStep(s, f[n - 1], PowerList[n])
    BY <1>4 DEF CentersStep
  <1>6. f[0] = g /\ \A n \in 1..N : f[n] = CentersStep(s, f[n - 1], PowerList[n])
    BY <1>0, <1>5
  <1>. QED  BY <1>1, <1>3, <1>6

\* What neither of the two steps changes.
SameFrame(h, g) ==
    /\ h.phase = g.phase /\ h.orders = g.orders /\ h.adjust = g.adjust
    /\ h.popped = g.popped /\ h.dislodged = g.dislodged /\ h.outcome = g.outcome

LEMMA HashKeeps ==
    ASSUME NEW g, IsGame(g), NEW us, NEW h, h = HashUnits(g, us) \/ h = HashDislodged(g, us)
    PROVE  IsGame(h) /\ SameBoard(h, g) /\ SameFrame(h, g) /\ h.influence = g.influence
  <1>1. PICK keys : h = UpdateHash(g, keys)
    BY DEF HashUnits, HashDislodged
  <1>. QED  BY <1>1, HashFields DEF SameRest, SameFrame

LEMMA ClearUnitsFields ==
    ASSUME NEW g, IsGame(g), NEW p, NEW c, c = ClearUnits(g, p)
    PROVE  /\ IsGame(c) /\ SameFrame(c, g) /\ c.centers = g.centers
           /\ c.units = [g.units EXCEPT ![p] = {}] /\ c.retreats = [g.retreats EXCEPT ![p] = <<>>]
  <1>1. PICK a : a = HashUnits(g, g.units[p])
    OBVIOUS
  <1>2. PICK d : d = HashDislodged(a, DOMAIN g.retreats[p])
    OBVIOUS
  <1>3. IsGame(a) /\ SameBoard(a, g) /\ SameFrame(a, g)
    BY <1>1, HashKeeps
  <1>4. IsGame(d) /\ SameBoard(d, a) /\ SameFrame(d, a)
    BY <1>2, <1>3, HashKeeps
  <1>5. c = [d EXCEPT !.units[p] = {}, !.retreats[p] = <<>>, !.influence[p] = {}]
    BY <1>1, <1>2 DEF ClearUnits
  <1>6. /\ IsGame(c) /\ SameFrame(c, d) /\ c.centers = d.centers
        /\ c.units = [d.units EXCEPT ![p] = {}] /\ c.retreats = [d.retreats EXCEPT ![p] = <<>>]
    BY <1>4, <1>5 DEF IsGame, Fields, SameFrame
  <1>. QED  BY <1>3, <1>4, <1>6 DEF SameBoard, SameFrame

\* The units of another power that stand in a province of us.
Hit(f, q, us) == {u \in f[q] : Short[u.loc] \in Provinces(us)}
HitOut(r, q, out) == {u \in DOMAIN r[q] : Short[u.loc] \in Provinces(out)}
ValidOnes(us) == {u \in us : ValidUnit(u.type, u.loc, FALSE)}

Placed(h, g, p, us, out) ==
    \E c : /\ c = ClearUnits(g, p)
           /\ h.units = [q \in Powers |-> (c.units[q] \ Hit(c.units, q, us)) \cup IF q = p THEN ValidOnes(us) ELSE {}]
           /\ DOMAIN h.retreats = Powers
           /\ \A q \in Powers : DOMAIN h.retreats[q] =
                  (DOMAIN c.retreats[q] \ HitOut(c.retreats, q, out)) \cup IF q = p THEN out ELSE {}

LEMMA SetUnitsFields ==
    ASSUME NEW g, IsGame(g), NEW p, NEW us, NEW out, NEW h, h = SetUnits(g, p, us, out)
    PROVE  /\ IsGame(h) /\ SameFrame(h, g) /\ h.centers = g.centers
           /\ Placed(h, g, p, us, out)
  <1>. DEFINE c == ClearUnits(g, p)
              a == HashUnits(c, UNION {Hit(c.units, q, us) : q \in Powers})
              b == HashDislodged(a, UNION {HitOut(c.retreats, q, out) : q \in Powers})
              d == HashUnits(b, ValidOnes(us))
              e == HashDislodged(d, out)
              placed == [e EXCEPT
            !.units = [q \in Powers |-> (@[q] \ Hit(c.units, q, us)) \cup IF q = p THEN ValidOnes(us) ELSE {}],
            !.retreats = [q \in Powers |->
                [u \in (DOMAIN @[q] \ HitOut(c.retreats, q, out)) \cup (IF q = p THEN out ELSE {}) |-> IF u \in DOMAIN @[q] THEN @[q][u] ELSE {}]],
            !.influence = [q \in Powers |-> (@[q] \ Provinces(us \cup out)) \cup IF q = p THEN Provinces(ValidOnes(us)) ELSE {}]]
  <1>12. h = IF g.phase.type # "R" THEN placed
             ELSE [placed EXCEPT !.retreats = [q \in Powers |-> [u \in DOMAIN @[q] |-> FreeNeighbours(placed, u)]]]
    BY DEF SetUnits, Hit, HitOut, ValidOnes
  <1>. HIDE DEF c, a, b, d, e, placed
  <1>2. IsGame(c) /\ SameFrame(c, g) /\ c.centers = g.centers
    BY ClearUnitsFields DEF c
  <1>7. IsGame(a) /\ SameBoard(a, c) /\ SameFrame(a, c)
    BY <1>2, HashKeeps DEF a
  <1>8. IsGame(b) /\ SameBoard(b, a) /\ SameFrame(b, a)
    BY <1>7, HashKeeps DEF b
  <1>9. IsGame(d) /\ SameBoard(d, b) /\ SameFrame(d, b)
    BY <1>8, HashKeeps DEF d
  <1>10. IsGame(e) /\ SameBoard(e, d) /\ SameFrame(e, d)
    BY <1>9, HashKeeps DEF e
  <1>11. IsGame(e) /\ SameBoard(e, c) /\ SameFrame(e, c)
    BY ONLY <1>7, <1>8, <1>9, <1>10 DEF SameBoard, SameFrame
  <1>13. PICK t : t = placed
    OBVIOUS
  <1>14. /\ IsGame(t) /\ SameFrame(t, e) /\ t.centers = e.centers
         /\ t.units = [q \in Powers |-> (e.units[q] \ Hit(c.units, q, us)) \cup IF q = p THEN ValidOnes(us) ELSE {}]
         /\ t.retreats = [q \in Powers |->
                [u \in (DOMAIN e.retreats[q] \ HitOut(c.retreats, q, out)) \cup (IF q = p THEN out ELSE {}) |->
                    IF u \in DOMAIN e.retreats[q] THEN e.retreats[q][u] ELSE {}]]
    BY <1>11, <1>13 DEF IsGame, Fields, SameFrame, placed
  <1>15. /\ DOMAIN t.retreats = Powers
         /\ \A q \in Powers : DOMAIN t.retreats[q] = (DOMAIN e.retreats[q] \ HitOut(c.retreats, q, out)) \cup IF q = p THEN out ELSE {}
    BY ONLY <1>14
  <1>16. PICK w : w = [q \in Powers |-> [u \in DOMAIN t.retreats[q] |-> FreeNeighbours(t, u)]]
    OBVIOUS
  <1>17. h = t \/ h = [t EXCEPT !.retreats = w]
    BY <1>12, <1>13, <1>16
  <1>18. /\ IsGame(h) /\ SameFrame(h, t) /\ h.centers = t.centers /\ h.units = t.units
         /\ DOMAIN h.retreats = Powers /\ \A q \in Powers : DOMAIN h.retreats[q] = DOMAIN t.retreats[q]
    <2>1. CASE h = t
      BY <1>14, <1>15, <2>1 DEF SameFrame
    <2>2. CASE h = [t EXCEPT !.retreats = w]
      <3>1. IsGame(h) /\ SameFrame(h, t) /\ h.centers = t.centers /\ h.units = t.units /\ h.retreats = w
        BY ONLY <1>14, <2>2 DEF IsGame, Fields, SameFrame
      <3>. QED  BY ONLY <1>16, <3>1
    <2>. QED  BY <1>17, <2>1, <2>2
  <1>19. SameFrame(h, g) /\ h.centers = g.centers
    BY ONLY <1>2, <1>11, <1>14, <1>18 DEF SameBoard, SameFrame
  <1>20. h.units = [q \in Powers |-> (c.units[q] \ Hit(c.units, q, us)) \cup IF q = p THEN ValidOnes(us) ELSE {}]
    BY ONLY <1>11, <1>14, <1>18 DEF SameBoard
  <1>21. \A q \in Powers : DOMAIN h.retreats[q] = (DOMAIN c.retreats[q] \ HitOut(c.retreats, q, out)) \cup IF q = p THEN out ELSE {}
    BY ONLY <1>11, <1>15, <1>18 DEF SameBoard
  <1>. QED  BY <1>18, <1>19, <1>20, <1>21 DEF c, Placed

LEMMA SetCentersFields ==
    ASSUME NEW g, IsGame(g), NEW p, NEW cs, NEW h, h = SetCenters(g, p, cs)
    PROVE  /\ IsGame(h) /\ SameFrame(h, g) /\ h.units = g.units /\ h.retreats = g.retreats
           /\ h.centers = [q \in Powers |-> (g.centers[q] \ IF q = p THEN g.centers[p] ELSE g.centers[q] \cap cs)
                                            \cup IF q = p THEN cs \cap Scs ELSE {}]
  <1>. DEFINE lost(q) == IF q = p THEN g.centers[p] ELSE g.centers[q] \cap cs
              gained(q) == IF q = p THEN cs \cap Scs ELSE {}
  <1>1. PICK a : a = HashCenters(g, [q \in Powers |-> lost(q)])
    OBVIOUS
  <1>2. PICK b : b = HashCenters(a, [q \in Powers |-> gained(q)])
    OBVIOUS
  <1>3. PICK k1, k2 : a = UpdateHash(g, k1) /\ b = UpdateHash(a, k2)
    BY <1>1, <1>2 DEF HashCenters
  <1>4. IsGame(a) /\ SameBoard(a, g) /\ SameRest(a, g) /\ a.adjust = g.adjust
    BY ONLY IsGame(g), <1>3, HashFields
  <1>5. IsGame(b) /\ SameBoard(b, a) /\ SameRest(b, a) /\ b.adjust = a.adjust
    BY ONLY <1>3, <1>4, HashFields
  <1>6. h = [b EXCEPT !.centers = [q \in Powers |-> (@[q] \ lost(q)) \cup gained(q)]]
    BY <1>1, <1>2 DEF SetCenters
  <1>. HIDE DEF lost, gained
  <1>7. /\ IsGame(h) /\ SameFrame(h, b) /\ h.units = b.units /\ h.retreats = b.retreats
        /\ h.centers = [q \in Powers |-> (b.centers[q] \ lost(q)) \cup gained(q)]
    BY ONLY <1>5, <1>6 DEF IsGame, Fields, SameFrame
  <1>8. SameFrame(h, g) /\ h.units = g.units /\ h.retreats = g.retreats /\ b.centers = g.centers
    BY ONLY <1>4, <1>5, <1>7 DEF SameBoard, SameRest, SameFrame
  <1>. QED  BY ONLY <1>7, <1>8 DEF lost, gained

\* The tables of a position: each power's units are its own and can stand where
\* they are; no location has two units, and no province units of two powers.
SoundUnits(f) ==
    /\ f \in [Powers -> SUBSET UnitType]
    /\ \A p \in Powers : \A u \in f[p] : u.pow = p /\ ValidUnit(u.type, u.loc, FALSE)
    /\ \A p \in Powers : \A u, v \in f[p] : u.loc = v.loc => u = v
    /\ \A p, q \in Powers : p # q => \A u \in f[p], v \in f[q] : Short[u.loc] # Short[v.loc]
Out(r) == [p \in Powers |-> DOMAIN r[p]]
SoundRetreats(r) ==
    /\ r = [p \in Powers |-> [u \in DOMAIN r[p] |-> r[p][u]]]
    /\ SoundUnits(Out(r))
    /\ \A p \in Powers : \A u \in DOMAIN r[p] : \A l \in r[p][u] : l \in Locs /\ ValidUnit(u.type, l, FALSE)
SoundCenters(c) == c \in [Powers -> SUBSET Scs] /\ \A p, q \in Powers : p # q => c[p] \cap c[q] = {}
Position(g) ==
    SoundUnits(g.units) /\ SoundRetreats(g.retreats) /\ SoundCenters(g.centers) /\ g.influence \in [Powers -> SUBSET Locs]

\* After n steps the first n powers have the units of the state.
IsTable(f) == f = [p \in Powers |-> f[p]]
Ready(g, s) == Position(s) /\ IsTable(g.units) /\ DOMAIN g.retreats = Powers /\ IsTable(g.centers)
Manned(x, g, s, n) ==
    /\ IsGame(x) /\ SameFrame(x, g) /\ x.centers = g.centers
    /\ Ready(g, s) =>
         /\ IsTable(x.units) /\ DOMAIN x.retreats = Powers
         /\ \A i \in 1..n : /\ x.units[PowerList[i]] = s.units[PowerList[i]]
                            /\ DOMAIN x.retreats[PowerList[i]] = DOMAIN s.retreats[PowerList[i]]

\* Units of other powers are not hit by those of a power.
LEMMA NoHit ==
    ASSUME NEW f, SoundUnits(f), NEW p \in Powers, NEW q \in Powers, p # q
    PROVE  {u \in f[q] : Short[u.loc] \in Provinces(f[p])} = {}
  BY DEF SoundUnits, Provinces

LEMMA UnitsStepLemma ==
    ASSUME NEW g, NEW s, NEW x, NEW n \in 1..Len(PowerList), Manned(x, g, s, n - 1), NEW h, h = UnitsStep(s, x, PowerList[n])
    PROVE  Manned(h, g, s, n)
  <1>. DEFINE p == PowerList[n]
  <1>0. p \in Powers /\ Len(PowerList) \in Nat
    BY PowerListLemma
  <1>1. IsGame(x)
    BY DEF Manned
  <1>. HIDE DEF p
  <1>2. h = SetUnits(x, p, s.units[p], DOMAIN s.retreats[p])
    BY DEF UnitsStep, p
  <1>3. PICK us, out : us = s.units[p] /\ out = DOMAIN s.retreats[p]
    OBVIOUS
  <1>4. /\ IsGame(h) /\ SameFrame(h, x) /\ h.centers = x.centers
        /\ Placed(h, x, p, us, out)
    <2>1. h = SetUnits(x, p, us, out)
      BY <1>2, <1>3
    <2>. QED  BY ONLY <1>1, <2>1, SetUnitsFields
  <1>5. SameFrame(h, g) /\ h.centers = g.centers
    BY ONLY <1>4, Manned(x, g, s, n - 1) DEF Manned, SameFrame
  <1>6. ASSUME Ready(g, s)
        PROVE  /\ IsTable(h.units) /\ DOMAIN h.retreats = Powers
               /\ \A i \in 1..n : /\ h.units[PowerList[i]] = s.units[PowerList[i]]
                                  /\ DOMAIN h.retreats[PowerList[i]] = DOMAIN s.retreats[PowerList[i]]
    <2>1. PICK c : /\ c = ClearUnits(x, p)
                   /\ h.units = [q \in Powers |-> (c.units[q] \ Hit(c.units, q, us)) \cup IF q = p THEN ValidOnes(us) ELSE {}]
                   /\ DOMAIN h.retreats = Powers
                   /\ \A q \in Powers : DOMAIN h.retreats[q] =
                            (DOMAIN c.retreats[q] \ HitOut(c.retreats, q, out)) \cup IF q = p THEN out ELSE {}
      BY <1>4 DEF Placed
    <2>2. c.units = [x.units EXCEPT ![p] = {}] /\ c.retreats = [x.retreats EXCEPT ![p] = <<>>]
      BY ONLY <1>1, <2>1, ClearUnitsFields
    <2>3. DOMAIN x.units = Powers /\ DOMAIN x.retreats = Powers
      BY <1>6 DEF Manned, IsTable
    <2>4. SoundUnits(s.units) /\ SoundUnits(Out(s.retreats))
      BY <1>6 DEF Ready, Position, SoundRetreats
    <2>5. c.units[p] = {} /\ DOMAIN c.retreats[p] = {}
      BY <1>0, <2>2, <2>3
    <2>6. h.units[p] = us
      <3>1. ValidOnes(us) = us
        BY <1>0, <1>3, <2>4 DEF ValidOnes, SoundUnits
      <3>2. h.units[p] = (c.units[p] \ Hit(c.units, p, us)) \cup ValidOnes(us)
        BY <1>0, <2>1
      <3>. QED  BY <2>5, <3>1, <3>2
    <2>7. DOMAIN h.retreats[p] = out
      <3>1. DOMAIN h.retreats[p] = (DOMAIN c.retreats[p] \ HitOut(c.retreats, p, out)) \cup out
        BY <1>0, <2>1
      <3>. QED  BY <2>5, <3>1
    <2>8. ASSUME NEW q \in Powers, q # p, x.units[q] = s.units[q] PROVE h.units[q] = s.units[q]
      <3>1. c.units[q] = s.units[q]
        BY <2>2, <2>3, <2>8
      <3>2. Hit(c.units, q, us) = {}
        BY <1>0, <1>3, <2>4, <2>8, <3>1, NoHit DEF Hit
      <3>. QED  BY <2>1, <2>8, <3>1, <3>2
    <2>9. ASSUME NEW q \in Powers, q # p, DOMAIN x.retreats[q] = DOMAIN s.retreats[q]
          PROVE  DOMAIN h.retreats[q] = DOMAIN s.retreats[q]
      <3>1. DOMAIN c.retreats[q] = DOMAIN s.retreats[q]
        BY <2>2, <2>3, <2>9
      <3>2. HitOut(c.retreats, q, out) = {}
        <4>1. Out(s.retreats)[q] = DOMAIN s.retreats[q] /\ Out(s.retreats)[p] = out
          BY <1>0, <1>3 DEF Out
        <4>2. {u \in Out(s.retreats)[q] : Short[u.loc] \in Provinces(Out(s.retreats)[p])} = {}
          BY <1>0, <2>4, <2>9, NoHit
        <4>. QED  BY <3>1, <4>1, <4>2 DEF HitOut
      <3>. QED  BY <2>1, <2>9, <3>1, <3>2
    <2>10. ASSUME NEW i \in 1..n
           PROVE  h.units[PowerList[i]] = s.units[PowerList[i]] /\ DOMAIN h.retreats[PowerList[i]] = DOMAIN s.retreats[PowerList[i]]
      <3>1. CASE PowerList[i] = p
        BY <1>3, <2>6, <2>7, <3>1
      <3>2. CASE PowerList[i] # p
        <4>1. i \in 1..n - 1 /\ PowerList[i] \in Powers
          BY <1>0, <2>10, <3>2, PowerListLemma DEF p
        <4>2. x.units[PowerList[i]] = s.units[PowerList[i]] /\ DOMAIN x.retreats[PowerList[i]] = DOMAIN s.retreats[PowerList[i]]
          BY <1>6, <4>1 DEF Manned
        <4>. QED  BY <2>8, <2>9, <3>2, <4>1, <4>2
      <3>. QED  BY <3>1, <3>2
    <2>11. IsTable(h.units) /\ DOMAIN h.retreats = Powers
      BY <2>1 DEF IsTable
    <2>. QED  BY <2>10, <2>11
  <1>. QED  BY <1>4, <1>5, <1>6 DEF Manned

\* After n steps the first n powers have the centers of the state.
Owned(x, g, s, n) ==
    /\ IsGame(x) /\ SameFrame(x, g) /\ x.units = g.units /\ x.retreats = g.retreats
    /\ Position(s) => \A i \in 1..n : x.centers[PowerList[i]] = s.centers[PowerList[i]]
    /\ IsTable(g.centers) => IsTable(x.centers)

LEMMA CentersStepLemma ==
    ASSUME NEW g, NEW s, NEW x, NEW n \in 1..Len(PowerList), Owned(x, g, s, n - 1), NEW h, h = CentersStep(s, x, PowerList[n])
    PROVE  Owned(h, g, s, n)
  <1>. DEFINE p == PowerList[n]
  <1>0. p \in Powers /\ Len(PowerList) \in Nat
    BY PowerListLemma
  <1>1. IsGame(x)
    BY DEF Owned
  <1>. HIDE DEF p
  <1>3. PICK cs : cs = s.centers[p]
    OBVIOUS
  <1>2. h = SetCenters(x, p, cs)
    BY <1>3 DEF CentersStep, p
  <1>4. /\ IsGame(h) /\ SameFrame(h, x) /\ h.units = x.units /\ h.retreats = x.retreats
        /\ h.centers = [q \in Powers |-> (x.centers[q] \ IF q = p THEN x.centers[p] ELSE x.centers[q] \cap cs)
                                            \cup IF q = p THEN cs \cap Scs ELSE {}]
    BY ONLY <1>1, <1>2, SetCentersFields
  <1>5. SameFrame(h, g) /\ h.units = g.units /\ h.retreats = g.retreats
    BY ONLY <1>4, Owned(x, g, s, n - 1) DEF Owned, SameFrame
  <1>6. ASSUME Position(s), NEW i \in 1..n PROVE h.centers[PowerList[i]] = s.centers[PowerList[i]]
    <2>1. SoundCenters(s.centers)
      BY <1>6 DEF Position
    <2>2. CASE PowerList[i] = p
      <3>1. h.centers[p] = (x.centers[p] \ x.centers[p]) \cup (cs \cap Scs)
        BY <1>0, <1>4
      <3>2. cs \subseteq Scs
        BY <1>0, <1>3, <2>1 DEF SoundCenters
      <3>. QED  BY <1>3, <2>2, <3>1, <3>2
    <2>3. CASE PowerList[i] # p
      <3>. DEFINE q == PowerList[i]
      <3>1. i \in 1..n - 1 /\ q \in Powers
        BY <1>0, <2>3, PowerListLemma DEF p
      <3>2. x.centers[q] = s.centers[q]
        BY <1>6, <3>1 DEF Owned
      <3>. HIDE DEF q
      <3>3. h.centers[q] = x.centers[q] \ (x.centers[q] \cap cs)
        BY <1>4, <2>3, <3>1 DEF q
      <3>4. s.centers[q] \cap cs = {}
        BY <1>0, <1>3, <2>1, <2>3, <3>1 DEF SoundCenters, q
      <3>5. h.centers[q] = s.centers[q]
        BY <3>2, <3>3, <3>4
      <3>. QED  BY <3>5 DEF q
    <2>. QED  BY <2>2, <2>3
  <1>7. IsTable(h.centers)
    BY ONLY <1>4 DEF IsTable
  <1>. QED  BY <1>4, <1>5, <1>6, <1>7 DEF Owned

\* All steps for the units, and all steps for the centers.
LEMMA MannedLemma ==
    ASSUME NEW g, IsGame(g), NEW s, NEW h, h = AllUnitsSet(s, g)
    PROVE  Manned(h, g, s, Len(PowerList))
  <1>. DEFINE N == Len(PowerList)
  <1>0. N \in Nat
    BY PowerListLemma
  <1>1. PICK f : /\ f[0] = g /\ \A n \in 1..N : f[n] = UnitsStep(s, f[n - 1], PowerList[n])
                 /\ h = f[N]
    BY EachUnits
  <1>2. Manned(g, g, s, 0)
    BY DEF Manned, SameFrame, Ready
  <1>. DEFINE Bad == {n \in 0..N : ~Manned(f[n], g, s, n)}
  <1>3. Bad = {}
    <2>. SUFFICES ASSUME Bad # {} PROVE FALSE
      OBVIOUS
    <2>1. Bad \subseteq Nat
      BY <1>0
    <2>2. PICK n \in Bad : \A m \in Bad : n <= m
      <3>. HIDE DEF Bad
      <3>. QED  BY <2>1, LeastOne
    <2>3. n # 0
      BY <1>1, <1>2, <2>2
    <2>4. n \in 1..N /\ n - 1 \in 0..N /\ ~(n <= n - 1)
      BY <1>0, <2>2, <2>3
    <2>5. Manned(f[n - 1], g, s, n - 1)
      BY <2>2, <2>4
    <2>6. f[n] = UnitsStep(s, f[n - 1], PowerList[n])
      BY <1>1, <2>4
    <2>7. Manned(f[n], g, s, n)
      BY <2>4, <2>5, <2>6, UnitsStepLemma
    <2>. QED  BY <2>2, <2>7
  <1>. QED  BY <1>0, <1>1, <1>3

LEMMA OwnedLemma ==
    ASSUME NEW g, IsGame(g), NEW s, NEW h, h = AllCentersSet(s, g)
    PROVE  Owned(h, g, s, Len(PowerList))
  <1>. DEFINE N == Len(PowerList)
  <1>0. N \in Nat
    BY PowerListLemma
  <1>1. PICK f : /\ f[0] = g /\ \A n \in 1..N : f[n] = CentersStep(s, f[n - 1], PowerList[n])
                 /\ h = f[N]
    BY EachCenters
  <1>2. Owned(g, g, s, 0)
    BY DEF Owned, SameFrame
  <1>. DEFINE Bad == {n \in 0..N : ~Owned(f[n], g, s, n)}
  <1>3. Bad = {}
    <2>. SUFFICES ASSUME Bad # {} PROVE FALSE
      OBVIOUS
    <2>1. Bad \subseteq Nat
      BY <1>0
    <2>2. PICK n \in Bad : \A m \in Bad : n <= m
      <3>. HIDE DEF Bad
      <3>. QED  BY <2>1, LeastOne
    <2>3. n # 0
      BY <1>1, <1>2, <2>2
    <2>4. n \in 1..N /\ n - 1 \in 0..N /\ ~(n <= n - 1)
      BY <1>0, <2>2, <2>3
    <2>5. Owned(f[n - 1], g, s, n - 1)
      BY <2>2, <2>4
    <2>6. f[n] = CentersStep(s, f[n - 1], PowerList[n])
      BY <1>1, <2>4
    <2>7. Owned(f[n], g, s, n)
      BY <2>4, <2>5, <2>6, CentersStepLemma
    <2>. QED  BY <2>2, <2>7
  <1>. QED  BY <1>0, <1>1, <1>3

\* A state that is put back: into whatever game, it is the state again.
LEMMA SetStateFields ==
    ASSUME NEW g, IsGame(g), NEW s, NEW h, h = SetStateOf(g, s)
    PROVE  /\ IsGame(h) /\ h.phase = s.phase /\ h.influence = s.influence /\ h.outcome = g.outcome
           /\ h.orders = [p \in Powers |-> <<>>] /\ h.adjust = [p \in Powers |-> <<>>]
           /\ h.hash = RebuildHash(h)
           /\ Ready(g, s) => h.units = s.units /\ h.retreats = s.retreats /\ h.centers = s.centers
  <1>. DEFINE phased == [ClearOrders(g) EXCEPT !.phase = s.phase]
              manned == AllUnitsSet(s, phased)
              mid == [manned EXCEPT !.retreats = SavedRetreats(manned, s)]
              owned == AllCentersSet(s, mid)
              done == [owned EXCEPT !.influence = s.influence]
  <1>1. h = [done EXCEPT !.hash = RebuildHash(done)]
    BY DEF SetStateOf, AllUnitsSet, AllCentersSet
  <1>2. PICK c : c = ClearOrders(g)
    OBVIOUS
  <1>3. /\ IsGame(c) /\ SameBoard(c, g) /\ c.outcome = g.outcome
        /\ c.orders = [p \in Powers |-> <<>>] /\ c.adjust = [p \in Powers |-> <<>>]
    BY ONLY <1>2, IsGame(g), ClearOrdersFields
  <1>4. phased = [c EXCEPT !.phase = s.phase]
    BY <1>2
  <1>. HIDE DEF phased
  <1>5. /\ IsGame(phased) /\ SameBoard(phased, c) /\ phased.phase = s.phase /\ phased.outcome = c.outcome
        /\ phased.orders = c.orders /\ phased.adjust = c.adjust
    <2>1. IsGame(c)
      BY <1>3
    <2>. QED  BY ONLY <2>1, <1>4, PhaseFields
  <1>6. Manned(manned, phased, s, Len(PowerList))
    BY <1>5, MannedLemma
  <1>. HIDE DEF manned
  <1>7. IsGame(manned) /\ SameFrame(manned, phased)
    BY <1>6 DEF Manned
  <1>8. /\ IsGame(mid) /\ SameFrame(mid, manned) /\ mid.units = manned.units /\ mid.centers = manned.centers
        /\ mid.retreats = SavedRetreats(manned, s)
    BY <1>7 DEF IsGame, Fields, SameFrame
  <1>. HIDE DEF mid
  <1>9. Owned(owned, mid, s, Len(PowerList))
    BY <1>8, OwnedLemma
  <1>. HIDE DEF owned
  <1>10. IsGame(owned) /\ SameFrame(owned, mid) /\ owned.units = mid.units /\ owned.retreats = mid.retreats
    BY <1>9 DEF Owned
  <1>11. PICK d : d = done
    OBVIOUS
  <1>12. /\ IsGame(d) /\ SameFrame(d, owned) /\ SameBoard(d, owned) /\ d.influence = s.influence
    BY <1>10, <1>11 DEF IsGame, Fields, SameFrame, SameBoard
  <1>13. h = UpdateHash(d, Xor(d.hash, RebuildHash(d))) \/ h = [d EXCEPT !.hash = RebuildHash(d)]
    BY <1>1, <1>11
  <1>14. h = [d EXCEPT !.hash = RebuildHash(d)]
    BY <1>1, <1>11
  <1>15. IsGame(h) /\ SameFrame(h, d) /\ SameBoard(h, d) /\ h.influence = d.influence /\ h.hash = RebuildHash(d)
    BY <1>12, <1>14 DEF IsGame, Fields, SameFrame, SameBoard
  <1>16. RebuildHash(h) = RebuildHash(d)
    BY <1>15 DEF RebuildHash, SameBoard
  <1>17. /\ h.phase = s.phase /\ h.outcome = g.outcome
         /\ h.orders = [p \in Powers |-> <<>>] /\ h.adjust = [p \in Powers |-> <<>>]
    BY ONLY <1>3, <1>5, <1>7, <1>8, <1>10, <1>12, <1>15 DEF SameFrame
  <1>18. h.units = manned.units /\ h.retreats = SavedRetreats(manned, s) /\ h.centers = owned.centers
    BY ONLY <1>8, <1>10, <1>12, <1>15 DEF SameBoard
  <1>19. ASSUME Ready(g, s) PROVE h.units = s.units /\ h.retreats = s.retreats /\ h.centers = s.centers
    <2>1. Ready(phased, s)
      BY ONLY <1>3, <1>5, <1>19 DEF Ready, SameBoard
    <2>2. /\ IsTable(manned.units) /\ DOMAIN manned.retreats = Powers
          /\ \A p \in Powers : manned.units[p] = s.units[p] /\ DOMAIN manned.retreats[p] = DOMAIN s.retreats[p]
      <3>1. /\ IsTable(manned.units) /\ DOMAIN manned.retreats = Powers
            /\ \A i \in 1..Len(PowerList) : /\ manned.units[PowerList[i]] = s.units[PowerList[i]]
                                            /\ DOMAIN manned.retreats[PowerList[i]] = DOMAIN s.retreats[PowerList[i]]
        BY <1>6, <2>1 DEF Manned
      <3>. QED  BY <3>1, PowerListLemma
    <2>3. /\ s.units \in [Powers -> SUBSET UnitType] /\ s.centers \in [Powers -> SUBSET Scs]
          /\ s.retreats = [p \in Powers |-> [u \in DOMAIN s.retreats[p] |-> s.retreats[p][u]]]
      BY <1>19 DEF Ready, Position, SoundUnits, SoundRetreats, SoundCenters
    <2>4. \A p \in Powers : owned.centers[p] = s.centers[p]
      <3>1. \A i \in 1..Len(PowerList) : owned.centers[PowerList[i]] = s.centers[PowerList[i]]
        BY <1>9, <1>19 DEF Owned, Ready
      <3>. QED  BY <3>1, PowerListLemma
    <2>5. manned.units = [p \in Powers |-> manned.units[p]] /\ owned.centers = [p \in Powers |-> owned.centers[p]]
      <3>1. IsTable(owned.centers)
        <4>1. mid.centers = g.centers
          BY ONLY <1>3, <1>5, <1>6, <1>8 DEF Manned, SameBoard
        <4>2. IsTable(mid.centers)
          BY ONLY <1>19, <4>1 DEF Ready
        <4>. QED  BY <1>9, <4>2 DEF Owned
      <3>. QED  BY <2>2, <3>1 DEF IsTable
    <2>6. SavedRetreats(manned, s) = s.retreats
      BY <2>2, <2>3 DEF SavedRetreats
    <2>. QED  BY <1>18, <2>2, <2>3, <2>4, <2>5, <2>6
  <1>. QED  BY <1>12, <1>15, <1>16, <1>17, <1>19
-----------------------------------------------------------------------------
(* The phases of a game. *)

PhaseInv == InPhase(game) /\ (saved # NoState => OkPhase(saved.phase))

LEMMA PhaseInitLemma == Init => PhaseInv
  <1>. SUFFICES ASSUME Init PROVE PhaseInv
    OBVIOUS
  <1>1. PICK s \in Setups : game = NewGame(s)
    BY DEF Init
  <1>2. IsGame(game) /\ game.phase = At(2, FirstYear)
    BY <1>1, NewGameFields
  <1>3. InTime(2, FirstYear) /\ FirstYear \in Nat
    BY EngineAssumption DEF InTime
  <1>. QED  BY <1>2, <1>3 DEF PhaseInv, InPhase, OkPhase, Init

\* A draw ends the game as it is.
LEMMA DrawFields ==
    ASSUME Draw, IsGame(game)
    PROVE  /\ IsGame(game') /\ game'.units = game.units /\ game'.centers = game.centers /\ game'.influence = game.influence
           /\ game'.orders = [p \in Powers |-> <<>>] /\ game'.adjust = [p \in Powers |-> <<>>]
           /\ game'.retreats = [p \in Powers |-> <<>>] /\ game'.phase = Completed /\ game'.outcome \subseteq Powers
           /\ game'.hash = Xor(game.hash, DislodgedKeys(UNION {DOMAIN game.retreats[p] : p \in Powers}))
  <1>1. PICK d, v, h : d = ClearOrders(game) /\ v \subseteq Powers /\ h = Finish(d, v) /\ game' = h
    BY DEF Draw
  <1>2. /\ IsGame(d) /\ SameBoard(d, game) /\ d.hash = game.hash /\ d.influence = game.influence
        /\ d.orders = [p \in Powers |-> <<>>]
    BY <1>1, ClearOrdersFields
  <1>3. /\ IsGame(h) /\ h.units = d.units /\ h.centers = d.centers /\ h.influence = d.influence
        /\ h.orders = d.orders
        /\ h.retreats = [p \in Powers |-> <<>>] /\ h.adjust = [p \in Powers |-> <<>>]
        /\ h.phase = Completed /\ h.outcome = v /\ h.hash = ClearRetreats(d).hash
    BY ONLY <1>1, <1>2, FinishFields
  <1>4. ClearRetreats(d).hash = Xor(d.hash, DislodgedKeys(UNION {DOMAIN d.retreats[p] : p \in Powers}))
    BY <1>2, ClearRetreatsFields
  <1>. QED  BY <1>1, <1>2, <1>3, <1>4 DEF SameBoard

LEMMA PhaseStepLemma == PhaseInv /\ [Next]_vars => PhaseInv'
  <1>. SUFFICES ASSUME PhaseInv, [Next]_vars PROVE PhaseInv'
    OBVIOUS
  <1>0. InPhase(game) /\ (saved # NoState => OkPhase(saved.phase))
    BY DEF PhaseInv
  <1>1. CASE UNCHANGED vars
    BY <1>1 DEF vars, PhaseInv
  <1>2. ASSUME NEW p \in Powers, SetOrders(p) PROVE PhaseInv'
    <2>1. PICK list : game' = SetOrdersOf(game, p, list)
      BY <1>2 DEF SetOrders
    <2>2. IsGame(game') /\ game'.phase = game.phase
      BY <1>0, <2>1, SetOrdersFields DEF InPhase
    <2>. QED  BY <1>0, <1>2, <2>2 DEF InPhase, PhaseInv, SetOrders
  <1>3. CASE Process
    <2>1. game.phase # Completed /\ saved' = saved
      BY <1>3 DEF Process
    <2>2. PICK i \in 2..6, y \in Nat : game.phase = At(i, y) /\ InTime(i, y)
      BY <1>0, <2>1, InPlay
    <2>3. Reached(Results(game), i, y, game')
      BY <1>0, <1>3, <2>2, ProcessReaches DEF InPhase
    <2>. QED  BY <1>0, <2>1, <2>3 DEF Reached, InPhase, OkPhase, PhaseInv
  <1>4. CASE Draw
    BY <1>0, <1>4, DrawFields DEF InPhase, OkPhase, PhaseInv, Draw
  <1>5. CASE Save
    <2>1. game' = game /\ saved'.phase = game.phase
      BY <1>5 DEF Save, GetState
    <2>. QED  BY <1>0, <2>1 DEF PhaseInv, InPhase
  <1>6. CASE SetState
    <2>1. game' = SetStateOf(game, saved) /\ saved' = saved /\ saved # NoState
      BY <1>6 DEF SetState
    <2>2. IsGame(game') /\ game'.phase = saved.phase
      BY <1>0, <2>1, SetStateFields DEF InPhase
    <2>. QED  BY <1>0, <2>1, <2>2 DEF PhaseInv, InPhase
  <1>. QED  BY <1>1, <1>2, <1>3, <1>4, <1>5, <1>6 DEF Next

\* The phases of a game go forward (Game._advance_phase): the comparison of phases
\* agrees, only phases of the years of the game are reached, and no phase comes twice.
THEOREM EnginePhasesGoOn == Spec => PhasesGoOn
  <1>1. PhaseInv /\ [Next]_vars => (Advance => Forward(game', game))
    <2>. SUFFICES ASSUME PhaseInv, [Next]_vars, saved = NoState, game'.phase # game.phase
                  PROVE  Forward(game', game)
      BY DEF Advance
    <2>0. InPhase(game)
      BY DEF PhaseInv
    <2>1. CASE UNCHANGED vars
      BY <2>1 DEF vars
    <2>2. ASSUME NEW p \in Powers, SetOrders(p) PROVE FALSE
      <3>1. PICK list : game' = SetOrdersOf(game, p, list)
        BY <2>2 DEF SetOrders
      <3>. QED  BY <2>0, <3>1, SetOrdersFields DEF InPhase
    <2>3. CASE Process
      <3>1. PICK i \in 2..6, y \in Nat : game.phase = At(i, y) /\ InTime(i, y)
        BY <2>0, <2>3, InPlay DEF Process
      <3>2. Reached(Results(game), i, y, game')
        BY <2>0, <2>3, <3>1, ProcessReaches DEF InPhase
      <3>. QED  BY <3>1, <3>2, ForwardLemma DEF Reached
    <2>4. CASE Draw
      <3>1. PICK i \in 2..6, y \in Nat : game.phase = At(i, y) /\ InTime(i, y)
        BY <2>0, <2>4, InPlay DEF Draw
      <3>4. game'.phase = Completed
        BY <2>0, <2>4, DrawFields DEF InPhase
      <3>. QED  BY <3>1, <3>4, ForwardLemma
    <2>5. CASE Save
      BY <2>5 DEF Save
    <2>6. CASE SetState
      BY <2>6 DEF SetState
    <2>. QED  BY <2>1, <2>2, <2>3, <2>4, <2>5, <2>6 DEF Next
  <1>2. PhaseInv /\ [Next]_vars =>
          [Advance => /\ ComparePhases(game'.phase, game.phase) = 1
                      /\ ComparePhases(game.phase, game'.phase) = -1
                      /\ game'.phase # Completed => /\ ComparePhases(FindPreviousPhase(game'.phase), game.phase) >= 0
                                                    /\ game'.phase.year < FirstYear + LastYears]_vars
    BY <1>1 DEF Forward
  <1>. QED  BY <1>2, PhaseInitLemma, PhaseStepLemma, PTL DEF Spec, PhasesGoOn
-----------------------------------------------------------------------------
(* The orders that are kept. *)

\* Every non-empty set of places in a list has a last one.
LEMMA LastOne ==
    ASSUME NEW n \in Nat, NEW A, A \subseteq 1..n, A # {}
    PROVE  \E x \in A : \A y \in A : y <= x
  <1>. DEFINE B == {n - x : x \in A}
  <1>1. B \subseteq Nat /\ B # {}
    <2>1. PICK a : a \in A
      OBVIOUS
    <2>2. n - a \in B
      BY <2>1
    <2>3. \A x \in A : n - x \in Nat
      OBVIOUS
    <2>. QED  BY <2>2, <2>3
  <1>2. PICK b \in B : \A c \in B : b <= c
    <2>. HIDE DEF B
    <2>. QED  BY <1>1, LeastOne
  <1>3. PICK x \in A : b = n - x
    OBVIOUS
  <1>4. ASSUME NEW y \in A PROVE y <= x
    <2>1. n - x <= n - y
      BY <1>2, <1>3
    <2>. QED  BY <2>1
  <1>. QED  BY <1>4

\* The orders of a game stand up: they are for units of their power, and would be accepted now.
StandUp(g) ==
    \A p \in Powers : \A u \in DOMAIN g.orders[p] : u \in g.units[p] /\ ValidOrder(Board(g), u, g.orders[p][u])
OrdersInv == PhaseInv /\ DOMAIN game.orders = Powers /\ StandUp(game)

LEMMA NoOrdersStandUp ==
    ASSUME NEW g, g.orders = [p \in Powers |-> <<>>]
    PROVE  DOMAIN g.orders = Powers /\ StandUp(g)
  BY DEF StandUp

LEMMA AddOrdersStandUp ==
    ASSUME NEW g, IsGame(g), DOMAIN g.orders = Powers, StandUp(g), NEW p \in Powers, NEW T, NEW list \in Seq(T),
           NEW h, h = AddOrders(g, p, list)
    PROVE  DOMAIN h.orders = Powers /\ StandUp(h)
  <1>. DEFINE given(i) == WithCoasts(Board(g), list[i].u, list[i].o)
              accepted == {i \in DOMAIN list : list[i].u \in g.units[p] /\ ValidOrder(Board(g), list[i].u, given(i))}
              of(u) == {i \in accepted : list[i].u = u}
              last(u) == CHOOSE i \in of(u) : \A j \in of(u) : j <= i
              new == [u \in DOMAIN g.orders[p] \cup {list[i].u : i \in accepted} |->
                         IF of(u) = {} THEN g.orders[p][u] ELSE given(last(u))]
  <1>1. h = [g EXCEPT !.orders[p] = new]
    BY DEF AddOrders
  <1>2. ASSUME NEW u \in DOMAIN new PROVE u \in g.units[p] /\ ValidOrder(Board(g), u, new[u])
    <2>1. CASE of(u) = {}
      <3>1. u \in DOMAIN g.orders[p]
        BY <1>2, <2>1
      <3>2. new[u] = g.orders[p][u]
        BY <2>1
      <3>. HIDE DEF new
      <3>. QED  BY <3>1, <3>2 DEF StandUp
    <2>2. CASE of(u) # {}
      <3>1. of(u) \subseteq 1..Len(list) /\ Len(list) \in Nat
        OBVIOUS
      <3>2. \E i \in of(u) : \A j \in of(u) : j <= i
        <4>. HIDE DEF of
        <4>. QED  BY <2>2, <3>1, LastOne
      <3>3. last(u) \in of(u)
        <4>. HIDE DEF of
        <4>. QED  BY <3>2
      <3>4. new[u] = given(last(u))
        <4>. HIDE DEF of, last, given
        <4>. QED  BY <1>2, <2>2
      <3>. HIDE DEF last, given, new
      <3>. QED  BY <3>3, <3>4
    <2>. QED  BY <2>1, <2>2
  <1>. HIDE DEF new
  <1>3. h.units = g.units /\ DOMAIN h.orders = Powers /\ h.orders = [g.orders EXCEPT ![p] = new]
    BY <1>1 DEF IsGame, Fields
  <1>4. Board(h) = Board(g)
    BY <1>3 DEF Board
  <1>5. ASSUME NEW q \in Powers, NEW u \in DOMAIN h.orders[q]
        PROVE  u \in h.units[q] /\ ValidOrder(Board(h), u, h.orders[q][u])
    <2>1. CASE q = p
      BY <1>2, <1>3, <1>4, <1>5, <2>1
    <2>2. CASE q # p
      <3>1. h.orders[q] = g.orders[q]
        BY <1>3, <2>2
      <3>. QED  BY <1>3, <1>4, <1>5, <3>1 DEF StandUp
    <2>. QED  BY <2>1, <2>2
  <1>. QED  BY <1>3, <1>5 DEF StandUp

LEMMA SetOrdersStandUp ==
    ASSUME NEW g, IsGame(g), DOMAIN g.orders = Powers, StandUp(g), NEW p \in Powers, NEW T, NEW list \in Seq(T),
           NEW h, h = SetOrdersOf(g, p, list)
    PROVE  DOMAIN h.orders = Powers /\ StandUp(h)
  <1>1. ASSUME NEW a, h = [g EXCEPT !.adjust[p] = a] PROVE DOMAIN h.orders = Powers /\ StandUp(h)
    <2>1. h.orders = g.orders /\ h.units = g.units
      BY <1>1 DEF IsGame, Fields
    <2>. QED  BY <2>1 DEF StandUp, Board
  <1>2. CASE g.phase.type = "R"
    <2>1. \E a : h = [g EXCEPT !.adjust[p] = a]
      BY <1>2 DEF SetOrdersOf, AddRetreatOrders
    <2>. QED  BY <1>1, <2>1
  <1>3. CASE g.phase.type = "A"
    <2>1. \E a : h = [g EXCEPT !.adjust[p] = a]
      BY <1>3 DEF SetOrdersOf, AddAdjustOrders
    <2>. QED  BY <1>1, <2>1
  <1>4. CASE g.phase.type # "R" /\ g.phase.type # "A"
    <2>1. h = AddOrders(g, p, list)
      BY <1>4 DEF SetOrdersOf
    <2>. QED  BY <2>1, AddOrdersStandUp
  <1>. QED  BY <1>2, <1>3, <1>4

LEMMA OrdersStepLemma == OrdersInv /\ [Next]_vars => OrdersInv'
  <1>. SUFFICES ASSUME OrdersInv, [Next]_vars PROVE DOMAIN game'.orders = Powers /\ StandUp(game')
    BY PhaseStepLemma DEF OrdersInv
  <1>0. InPhase(game) /\ IsGame(game) /\ DOMAIN game.orders = Powers /\ StandUp(game)
    BY DEF OrdersInv, PhaseInv, InPhase
  <1>1. CASE UNCHANGED vars
    BY <1>0, <1>1 DEF vars
  <1>2. ASSUME NEW p \in Powers, SetOrders(p) PROVE DOMAIN game'.orders = Powers /\ StandUp(game')
    <2>1. PICK list \in Seq(Texts(game.phase.type)) : game' = SetOrdersOf(game, p, list)
      BY <1>2 DEF SetOrders
    <2>. QED  BY <1>0, <2>1, SetOrdersStandUp
  <1>3. CASE Process
    <2>1. PICK i \in 2..6, y \in Nat : game.phase = At(i, y) /\ InTime(i, y)
      BY <1>0, <1>3, InPlay DEF Process
    <2>2. game'.orders = [p \in Powers |-> <<>>]
      BY <1>0, <1>3, <2>1, ProcessReaches
    <2>. QED  BY <2>2, NoOrdersStandUp
  <1>4. CASE Draw
    BY <1>0, <1>4, DrawFields, NoOrdersStandUp
  <1>5. CASE Save
    BY <1>0, <1>5 DEF Save
  <1>6. CASE SetState
    <2>1. game'.orders = [p \in Powers |-> <<>>]
      BY <1>0, <1>6, SetStateFields DEF SetState
    <2>. QED  BY <2>1, NoOrdersStandUp
  <1>. QED  BY <1>1, <1>2, <1>3, <1>4, <1>5, <1>6 DEF Next

\* The orders kept for a power in a movement phase are orders for its units that
\* would be accepted now (Game._add_order): whatever was ordered before, and
\* whatever became of the board since.
THEOREM EngineOrdersStandUp == Spec => []OrdersStandUp
  <1>1. Init => OrdersInv
    <2>. SUFFICES ASSUME Init PROVE DOMAIN game.orders = Powers /\ StandUp(game)
      BY PhaseInitLemma DEF OrdersInv
    <2>1. game.orders = [p \in Powers |-> <<>>]
      BY NewGameFields DEF Init
    <2>. QED  BY <2>1, NoOrdersStandUp
  <1>2. OrdersInv => OrdersStandUp
    BY DEF OrdersInv, StandUp, OrdersStandUp
  <1>. QED  BY <1>1, <1>2, OrdersStepLemma, PTL DEF Spec
-----------------------------------------------------------------------------
(* The hash: what xoring keys in and out does to the keys of a board. *)

\* The keys of units on the board, of dislodged units, of centers and homes.
AllCenterKeys(c) == UNION {CenterKeys(p, c[p]) : p \in Powers}
KeysOf(us, ds, c) == UnitKeys(us) \cup DislodgedKeys(ds) \cup AllCenterKeys(c) \cup UNION {HomeKeys(p) : p \in Powers}
Apart(us, vs) == \A u \in us, v \in vs : u.loc # v.loc

LEMMA RebuildLemma ==
    ASSUME NEW g
    PROVE  RebuildHash(g) = KeysOf(Board(g), Dislodged(g), g.centers)
  <1>1. \A k : k \in UnitKeys(Board(g)) <=> \E p \in Powers : k \in UnitKeys(g.units[p])
    BY DEF UnitKeys, Board
  <1>2. \A k : k \in DislodgedKeys(Dislodged(g)) <=> \E p \in Powers : k \in DislodgedKeys(DOMAIN g.retreats[p])
    BY DEF DislodgedKeys, Dislodged
  <1>3. \A k : k \in AllCenterKeys(g.centers) <=> \E p \in Powers : k \in CenterKeys(p, g.centers[p])
    BY DEF AllCenterKeys
  <1>4. \A k : k \in RebuildHash(g) <=> \E p \in Powers : \/ k \in UnitKeys(g.units[p])
                                                            \/ k \in DislodgedKeys(DOMAIN g.retreats[p])
                                                            \/ k \in CenterKeys(p, g.centers[p]) \/ k \in HomeKeys(p)
    BY DEF RebuildHash
  <1>5. ASSUME NEW k PROVE k \in RebuildHash(g) <=> k \in KeysOf(Board(g), Dislodged(g), g.centers)
    BY <1>1, <1>2, <1>3, <1>4 DEF KeysOf
  <1>. QED  BY <1>5 DEF RebuildHash, KeysOf

\* A key is of one kind.
LEMMA KindsLemma ==
    ASSUME NEW us, NEW ds, NEW c
    PROVE  /\ \A k \in UnitKeys(us) : k \notin DislodgedKeys(ds) /\ k \notin AllCenterKeys(c) /\ \A p \in Powers : k \notin HomeKeys(p)
           /\ \A k \in DislodgedKeys(ds) : k \notin AllCenterKeys(c) /\ \A p \in Powers : k \notin HomeKeys(p)
           /\ \A k \in AllCenterKeys(c) : \A p \in Powers : k \notin HomeKeys(p)
  <1>1. \A k \in UnitKeys(us) : k[1] = "unit_type" \/ k[1] = "units"
    BY DEF UnitKeys
  <1>2. \A k \in DislodgedKeys(ds) : k[1] = "dis_unit_type" \/ k[1] = "dis_units"
    BY DEF DislodgedKeys
  <1>3. \A k \in AllCenterKeys(c) : k[1] = "center"
    BY DEF AllCenterKeys, CenterKeys
  <1>4. \A p \in Powers : \A k \in HomeKeys(p) : k[1] = "home"
    BY DEF HomeKeys
  <1>. QED  BY <1>1, <1>2, <1>3, <1>4

\* Units of different places have different keys.
LEMMA UnitKeysApart ==
    ASSUME NEW us, NEW vs, Apart(us, vs)
    PROVE  UnitKeys(us) \cap UnitKeys(vs) = {} /\ DislodgedKeys(us) \cap DislodgedKeys(vs) = {}
  <1>1. \A ws : \A k \in UnitKeys(ws) : \E u \in ws : k[3] = u.loc
    BY DEF UnitKeys
  <1>2. \A ws : \A k \in DislodgedKeys(ws) : \E u \in ws : k[3] = u.loc
    BY DEF DislodgedKeys
  <1>3. ASSUME NEW k \in UnitKeys(us), k \in UnitKeys(vs) PROVE FALSE
    BY <1>1, <1>3 DEF Apart
  <1>4. ASSUME NEW k \in DislodgedKeys(us), k \in DislodgedKeys(vs) PROVE FALSE
    BY <1>2, <1>4 DEF Apart
  <1>. QED  BY <1>3, <1>4

LEMMA KeysUnion ==
    ASSUME NEW us, NEW vs
    PROVE  UnitKeys(us \cup vs) = UnitKeys(us) \cup UnitKeys(vs) /\ DislodgedKeys(us \cup vs) = DislodgedKeys(us) \cup DislodgedKeys(vs)
  <1>1. \A k : k \in UnitKeys(us \cup vs) <=> k \in UnitKeys(us) \/ k \in UnitKeys(vs)
    BY DEF UnitKeys
  <1>2. \A k : k \in DislodgedKeys(us \cup vs) <=> k \in DislodgedKeys(us) \/ k \in DislodgedKeys(vs)
    BY DEF DislodgedKeys
  <1>. QED  BY <1>1, <1>2

\* Xor, by membership.
LEMMA XorIn == \A a, b, k : k \in Xor(a, b) <=> ~(k \in a <=> k \in b)
  BY DEF Xor

\* Units come, to free places.
LEMMA UnitsCome ==
    ASSUME NEW us, NEW ds, NEW c, NEW new, Apart(us, new)
    PROVE  Xor(KeysOf(us, ds, c), UnitKeys(new)) = KeysOf(us \cup new, ds, c)
  <1>1. \A k \in UnitKeys(new) : k \notin KeysOf(us, ds, c)
    BY UnitKeysApart, KindsLemma DEF KeysOf
  <1>2. UnitKeys(us \cup new) = UnitKeys(us) \cup UnitKeys(new)
    BY KeysUnion
  <1>. QED  BY <1>1, <1>2, Zenon DEF KeysOf, Xor

\* Units go that were there.
LEMMA UnitsGo ==
    ASSUME NEW us, NEW ds, NEW c, NEW gone, Apart(us, gone)
    PROVE  Xor(KeysOf(us \cup gone, ds, c), UnitKeys(gone)) = KeysOf(us, ds, c)
  <1>1. \A k \in UnitKeys(gone) : k \notin KeysOf(us, ds, c)
    BY UnitKeysApart, KindsLemma DEF KeysOf
  <1>2. UnitKeys(us \cup gone) = UnitKeys(us) \cup UnitKeys(gone)
    BY KeysUnion
  <1>. QED  BY <1>1, <1>2, Zenon DEF KeysOf, Xor

\* Units are dislodged, when none was; and none is any more.
LEMMA DislodgedCome ==
    ASSUME NEW us, NEW c, NEW ds
    PROVE  Xor(KeysOf(us, {}, c), DislodgedKeys(ds)) = KeysOf(us, ds, c)
  <1>1. \A k \in DislodgedKeys(ds) : k \notin UnitKeys(us) /\ k \notin AllCenterKeys(c) /\ \A p \in Powers : k \notin HomeKeys(p)
    BY KindsLemma
  <1>2. DislodgedKeys({}) = {}
    BY DEF DislodgedKeys
  <1>. QED  BY <1>1, <1>2, Zenon DEF KeysOf, Xor

LEMMA DislodgedGo ==
    ASSUME NEW us, NEW c, NEW ds
    PROVE  Xor(KeysOf(us, ds, c), DislodgedKeys(ds)) = KeysOf(us, {}, c)
  <1>1. \A k \in DislodgedKeys(ds) : k \notin UnitKeys(us) /\ k \notin AllCenterKeys(c) /\ \A p \in Powers : k \notin HomeKeys(p)
    BY KindsLemma
  <1>2. DislodgedKeys({}) = {}
    BY DEF DislodgedKeys
  <1>. QED  BY <1>1, <1>2, Zenon DEF KeysOf, Xor

\* Centers change hands.
LEMMA CentersChange ==
    ASSUME NEW us, NEW ds, NEW c, NEW d
    PROVE  Xor(KeysOf(us, ds, c), UNION {CenterKeys(p, Xor(c[p], d[p])) : p \in Powers}) = KeysOf(us, ds, d)
  <1>. DEFINE new == UNION {CenterKeys(p, Xor(c[p], d[p])) : p \in Powers}
  <1>1. \A k : k \in new <=> \E p \in Powers : \E l \in Xor(c[p], d[p]) : k = <<"center", p, l>>
    BY DEF CenterKeys
  <1>2. \A k : k \in AllCenterKeys(c) <=> \E p \in Powers : \E l \in c[p] : k = <<"center", p, l>>
    BY DEF CenterKeys, AllCenterKeys
  <1>3. \A k : k \in AllCenterKeys(d) <=> \E p \in Powers : \E l \in d[p] : k = <<"center", p, l>>
    BY DEF CenterKeys, AllCenterKeys
  <1>4. \A p, q, l, m : <<"center", p, l>> = <<"center", q, m>> => p = q /\ l = m
    OBVIOUS
  <1>5. \A k : k \in new <=> ~(k \in AllCenterKeys(c) <=> k \in AllCenterKeys(d))
    <2>1. ASSUME NEW k, NEW p \in Powers, NEW l, k = <<"center", p, l>>
          PROVE  /\ k \in new <=> l \in Xor(c[p], d[p])
                 /\ k \in AllCenterKeys(c) <=> l \in c[p]
                 /\ k \in AllCenterKeys(d) <=> l \in d[p]
      BY <1>1, <1>2, <1>3, <1>4, <2>1
    <2>2. ASSUME NEW k, ~\E p \in Powers : \E l : k = <<"center", p, l>>
          PROVE  k \notin new /\ k \notin AllCenterKeys(c) /\ k \notin AllCenterKeys(d)
      BY <1>1, <1>2, <1>3, <2>2
    <2>. QED  BY <2>1, <2>2, XorIn
  <1>. HIDE DEF new
  <1>6. \A k \in AllCenterKeys(c) \cup AllCenterKeys(d) : k \notin UnitKeys(us) /\ k \notin DislodgedKeys(ds) /\ \A p \in Powers : k \notin HomeKeys(p)
    BY KindsLemma
  <1>7. ASSUME NEW k PROVE k \in Xor(KeysOf(us, ds, c), new) <=> k \in KeysOf(us, ds, d)
    BY <1>5, <1>6, XorIn DEF KeysOf
  <1>. QED  BY <1>7 DEF new
-----------------------------------------------------------------------------
(* A good game: its tables are a position, and its hash is that of the tables. *)

Hashed(g) == g.hash = RebuildHash(g)
Good(g) == IsGame(g) /\ Position(g) /\ Hashed(g) /\ g.outcome \subseteq Powers

LEMMA ArrivedFields ==
    ASSUME NEW r, NEW u \in UnitType, NEW v, v = Arrived(r, u)
    PROVE  /\ v.loc = r.cmd[u].to /\ v.pow = u.pow /\ v.type = u.type
           /\ v.loc \in Locs => v \in UnitType
  BY DEF UnitType, Arrived

\* A place where a unit may retreat to is one where it can stand.
LEMMA RetreatsLemma ==
    ASSUME NEW r, NEW u \in UnitType, NEW l \in Retreats(r, u)
    PROVE  l \in Locs /\ ValidUnit(u.type, l, FALSE)
  <1>. DEFINE near == {m \in {e.loc : e \in ToSet(AbutList(u.loc))} :
                          Abuts(u.type, u.loc, "-", m) \/ Abuts(u.type, u.loc, "-", Short[m])}
  <1>1. \E m \in near : l = IF u.type = "F" THEN m ELSE Short[m]
    BY DEF Retreats
  <1>2. u.type \in Types /\ u.loc \in Locs
    BY DEF UnitType
  <1>3. PICK m \in near : l = IF u.type = "F" THEN m ELSE Short[m]
    BY <1>1
  <1>4. m \in Locs /\ Short[m] \in Locs /\ Short[Short[m]] = Short[m] /\ (Short[m] # m => Short[m] \in Lower)
    <2>1. m \in Locs
      BY <1>2, MapAssumption DEF AbutList
    <2>. QED  BY <2>1, MapAssumption
  <1>5. \A n \in Locs : Abuts(u.type, u.loc, "-", n) <=> ComputeAbuts(u.type, u.loc, "-", n)
    <2>1. TAKE n \in Locs
    <2>2. <<u.type, u.loc, "-", n>> \in Types \X Locs \X Kinds \X Locs
      BY <1>2 DEF Kinds
    <2>. QED  BY <2>2 DEF Abuts, AbutsCache
  <1>6. ComputeAbuts(u.type, u.loc, "-", m) \/ ComputeAbuts(u.type, u.loc, "-", Short[m])
    BY <1>3, <1>4, <1>5
  <1>7. ASSUME NEW n \in Locs, ComputeAbuts(u.type, u.loc, "-", n)
        PROVE  /\ u.type = "F" => Area[n] # "SHUT" /\ Area[n] # "LAND" /\ n \notin Lower
               /\ u.type = "A" => ~OnCoast(n) /\ Area[n] # "SHUT" /\ Area[n] # "WATER"
    BY <1>7 DEF ComputeAbuts
  <1>8. \A n \in Locs : Area[n] \in AreaTypes
    BY MapAssumption
  <1>9. CASE u.type = "F"
    <2>1. l = m
      BY <1>3, <1>9
    <2>2. Area[m] # "SHUT" /\ Area[m] # "LAND" /\ m \notin Lower
      BY <1>4, <1>6, <1>7, <1>9
    <2>. QED  BY <1>4, <1>8, <1>9, <2>1, <2>2 DEF ValidUnit, AreaTypes
  <1>10. CASE u.type = "A"
    <2>1. l = Short[m]
      BY <1>3, <1>10
    <2>2. Area[l] # "SHUT" /\ Area[l] # "WATER" /\ ~OnCoast(l)
      <3>1. CASE ComputeAbuts(u.type, u.loc, "-", m)
        <4>1. Short[m] = m
          BY <1>4, <1>7, <1>10, <3>1 DEF OnCoast
        <4>. QED  BY <1>4, <1>7, <1>10, <2>1, <3>1, <4>1
      <3>2. CASE ComputeAbuts(u.type, u.loc, "-", Short[m])
        BY <1>4, <1>7, <1>10, <2>1, <3>2
      <3>. QED  BY <1>6, <3>1, <3>2
    <2>. QED  BY <1>4, <1>8, <1>10, <2>1, <2>2 DEF ValidUnit, AreaTypes
  <1>. QED  BY <1>2, <1>9, <1>10 DEF Types

\* The units after settled moves: the others have stayed, and none is where one arrives.
LEMMA SettledUnits ==
    ASSUME NEW g, SoundUnits(g.units), NEW r, Settled(r, Board(g))
    PROVE  /\ SoundUnits(MovedUnits(g, r))
           /\ \A u, v \in Board(g) : u \in Moved(r) /\ v \notin Beaten(r) \cup Moved(r) => Short[Arrived(r, u).loc] # Short[v.loc]
           /\ \A u, v \in Moved(r) : u # v => Short[Arrived(r, u).loc] # Short[Arrived(r, v).loc]
           /\ Beaten(r) \subseteq Board(g) /\ Moved(r) \subseteq Board(g)
           /\ \A u \in Moved(r) : Arrived(r, u) \in UnitType
  <1>. DEFINE stay(v) == v \in Board(g) /\ v \notin Beaten(r) \cup Moved(r)
  <1>1. \A u \in Board(g) : u \in UnitType
    BY DEF Board, SoundUnits
  <1>2. DOMAIN r.cmd = Board(g)
    BY DEF Settled
  <1>3. ASSUME NEW u \in Moved(r)
        PROVE  /\ u \in Board(g) /\ r.cmd[u].to \in Locs /\ ValidUnit(u.type, r.cmd[u].to, FALSE) /\ r.out[u] = None
               /\ \A v \in Board(g) : v \in Moved(r) /\ v # u => Short[r.cmd[u].to] # Short[r.cmd[v].to]
               /\ \A v \in Board(g) : v \notin Beaten(r) \cup Moved(r) => Short[r.cmd[u].to] # Short[v.loc]
    <2>1. u \in Board(g) /\ Attacks(r, u)
      BY <1>2, <1>3 DEF Moved
    <2>2. Goes(r, u) = r.cmd[u].to
      BY <2>1 DEF Goes
    <2>3. /\ Goes(r, u) \in Locs /\ ValidUnit(u.type, Goes(r, u), FALSE) /\ r.out[u] = None
          /\ \A v \in Board(g) \ {u} : r.out[v] = None => Short[Goes(r, u)] # Short[Goes(r, v)]
      BY <2>1 DEF Settled
    <2>4. ASSUME NEW v \in Board(g), v \in Moved(r), v # u PROVE Short[r.cmd[u].to] # Short[r.cmd[v].to]
      <3>1. Attacks(r, v)
        BY <2>4 DEF Moved
      <3>2. r.out[v] = None /\ Goes(r, v) = r.cmd[v].to
        BY <2>4, <3>1 DEF Settled, Goes
      <3>. QED  BY <2>2, <2>3, <2>4, <3>2
    <2>5. ASSUME NEW v \in Board(g), v \notin Beaten(r) \cup Moved(r) PROVE Short[r.cmd[u].to] # Short[v.loc]
      <3>1. ~Attacks(r, v) /\ r.out[v] = None
        BY <1>2, <2>5 DEF Moved, Beaten
      <3>2. Goes(r, v) = v.loc /\ v # u
        BY <2>1, <3>1 DEF Goes
      <3>. QED  BY <2>2, <2>3, <2>5, <3>1, <3>2
    <2>. QED  BY <2>1, <2>2, <2>3, <2>4, <2>5
  <1>4. ASSUME NEW u \in Moved(r)
        PROVE  /\ Arrived(r, u) \in UnitType /\ Arrived(r, u).loc = r.cmd[u].to
               /\ Arrived(r, u).pow = u.pow /\ Arrived(r, u).type = u.type
    <2>1. u \in UnitType /\ r.cmd[u].to \in Locs
      BY <1>1, <1>3
    <2>2. PICK v : v = Arrived(r, u)
      OBVIOUS
    <2>3. v.loc = r.cmd[u].to /\ v.pow = u.pow /\ v.type = u.type /\ (v.loc \in Locs => v \in UnitType)
      BY ONLY <2>1, <2>2, ArrivedFields
    <2>. QED  BY <2>1, <2>2, <2>3
  <1>12. \A u, v \in Moved(r) : u # v => Short[Arrived(r, u).loc] # Short[Arrived(r, v).loc]
    <2>. SUFFICES ASSUME NEW u \in Moved(r), NEW v \in Moved(r), u # v PROVE Short[Arrived(r, u).loc] # Short[Arrived(r, v).loc]
      OBVIOUS
    <2>1. v \in Board(g) /\ Arrived(r, v).loc = r.cmd[v].to
      BY <1>3, <1>4
    <2>2. Arrived(r, u).loc = r.cmd[u].to
      BY <1>4
    <2>3. Short[r.cmd[u].to] # Short[r.cmd[v].to]
      BY <1>3, <2>1
    <2>. QED  BY <2>1, <2>2, <2>3
  <1>13. \A u \in Moved(r), v \in Board(g) : v \notin Beaten(r) \cup Moved(r) => Short[Arrived(r, u).loc] # Short[v.loc]
    <2>. SUFFICES ASSUME NEW u \in Moved(r), NEW v \in Board(g), v \notin Beaten(r) \cup Moved(r)
                  PROVE  Short[Arrived(r, u).loc] # Short[v.loc]
      OBVIOUS
    <2>1. Arrived(r, u).loc = r.cmd[u].to
      BY <1>4
    <2>2. Short[r.cmd[u].to] # Short[v.loc]
      BY <1>3
    <2>. QED  BY <2>1, <2>2
  <1>5. \A p \in Powers : g.units[p] \subseteq Board(g) /\ \A u \in g.units[p] : u.pow = p /\ ValidUnit(u.type, u.loc, FALSE)
    BY DEF SoundUnits, Board
  <1>6. ASSUME NEW p \in Powers, NEW w \in MovedUnits(g, r)[p]
        PROVE  \/ w \in g.units[p] /\ stay(w)
               \/ \E u \in Moved(r) : u \in g.units[p] /\ w = Arrived(r, u)
    BY <1>5, <1>6 DEF MovedUnits, Staying, Coming
  <1>. HIDE DEF stay
  <1>7. ASSUME NEW p \in Powers, NEW w \in MovedUnits(g, r)[p]
        PROVE  w \in UnitType /\ w.pow = p /\ ValidUnit(w.type, w.loc, FALSE)
    <2>1. CASE w \in g.units[p]
      BY <1>1, <1>5, <2>1
    <2>2. CASE \E u \in Moved(r) : u \in g.units[p] /\ w = Arrived(r, u)
      <3>1. PICK u \in Moved(r) : u \in g.units[p] /\ w = Arrived(r, u)
        BY <2>2
      <3>2. w \in UnitType /\ w.loc = r.cmd[u].to /\ w.pow = u.pow /\ w.type = u.type
        BY <1>4, <3>1
      <3>. QED  BY <1>3, <1>5, <3>1, <3>2
    <2>. QED  BY <1>6, <1>7, <2>1, <2>2
  <1>8. ASSUME NEW p \in Powers, NEW q \in Powers, NEW v \in MovedUnits(g, r)[p], NEW w \in MovedUnits(g, r)[q],
               \/ p = q /\ v.loc = w.loc
               \/ p # q /\ Short[v.loc] = Short[w.loc]
        PROVE  p = q /\ v = w
    <2>0. Short[v.loc] = Short[w.loc]
      BY <1>8
    <2>1. CASE v \in g.units[p] /\ stay(v) /\ w \in g.units[q] /\ stay(w)
      BY <1>8, <2>1 DEF SoundUnits
    <2>2. ASSUME NEW u \in Moved(r), u \in g.units[p], v = Arrived(r, u), w \in g.units[q], stay(w)
          PROVE  FALSE
      BY <1>13, <2>0, <2>2 DEF stay
    <2>3. ASSUME NEW u \in Moved(r), u \in g.units[q], w = Arrived(r, u), v \in g.units[p], stay(v)
          PROVE  FALSE
      BY <1>13, <2>0, <2>3 DEF stay
    <2>4. ASSUME NEW u \in Moved(r), u \in g.units[p], v = Arrived(r, u), NEW t \in Moved(r), t \in g.units[q], w = Arrived(r, t)
          PROVE  p = q /\ v = w
      <3>1. u = t
        BY <1>12, <2>0, <2>4
      <3>. QED  BY <1>5, <2>4, <3>1
    <2>. QED  BY <1>6, <1>8, <2>1, <2>2, <2>3, <2>4
  <1>9. MovedUnits(g, r) \in [Powers -> SUBSET UnitType]
    <2>1. \A p \in Powers : MovedUnits(g, r)[p] \subseteq UnitType
      BY <1>7
    <2>2. MovedUnits(g, r) = [p \in Powers |-> MovedUnits(g, r)[p]]
      BY DEF MovedUnits
    <2>. QED  BY <2>1, <2>2
  <1>10. SoundUnits(MovedUnits(g, r))
    <2>. DEFINE f == MovedUnits(g, r)
    <2>1. \A p \in Powers : \A u \in f[p] : u.pow = p /\ ValidUnit(u.type, u.loc, FALSE)
      BY <1>7
    <2>2. \A p \in Powers : \A u, v \in f[p] : u.loc = v.loc => u = v
      BY <1>8
    <2>3. \A p, q \in Powers : p # q => \A u \in f[p], v \in f[q] : Short[u.loc] # Short[v.loc]
      BY <1>8
    <2>. HIDE DEF f
    <2>4. f \in [Powers -> SUBSET UnitType]
      BY <1>9 DEF f
    <2>. QED  BY <2>1, <2>2, <2>3, <2>4 DEF SoundUnits, f
  <1>11. Beaten(r) \subseteq Board(g) /\ Moved(r) \subseteq Board(g)
    BY <1>2 DEF Beaten, Moved
  <1>14. \A u \in Moved(r) : Arrived(r, u) \in UnitType
    BY <1>4
  <1>. QED  BY <1>10, <1>11, <1>12, <1>13, <1>14

LEMMA XorAssoc == \A a, b, c : Xor(a, Xor(b, c)) = Xor(Xor(a, b), c)
  <1>. SUFFICES ASSUME NEW a, NEW b, NEW c PROVE Xor(a, Xor(b, c)) = Xor(Xor(a, b), c)
    OBVIOUS
  <1>1. ASSUME NEW k PROVE k \in Xor(a, Xor(b, c)) <=> k \in Xor(Xor(a, b), c)
    BY XorIn
  <1>. QED  BY <1>1

\* All units of the powers.
AllOf(f) == UNION {f[p] : p \in Powers}
LEMMA OneAtAPlace ==
    ASSUME NEW f, SoundUnits(f)
    PROVE  \A u, v \in AllOf(f) : u.loc = v.loc => u = v
  <1>. SUFFICES ASSUME NEW p \in Powers, NEW q \in Powers, NEW u \in f[p], NEW v \in f[q], u.loc = v.loc PROVE u = v
    BY DEF AllOf
  <1>. QED  BY DEF SoundUnits

LEMMA PartApart ==
    ASSUME NEW f, SoundUnits(f), NEW us, us \subseteq AllOf(f)
    PROVE  Apart(AllOf(f) \ us, us) /\ (AllOf(f) \ us) \cup us = AllOf(f)
  BY OneAtAPlace DEF Apart

LEMMA NoDislodged ==
    ASSUME NEW g, NoRetreats(g)
    PROVE  Dislodged(g) = {}
  BY DEF NoRetreats, Dislodged

\* Some of the dislodged units are part of the units.
LEMMA PartSound ==
    ASSUME NEW f, SoundUnits(f), NEW e, e = [p \in Powers |-> e[p]], \A p \in Powers : e[p] \subseteq f[p]
    PROVE  SoundUnits(e)
  <1>1. e \in [Powers -> SUBSET UnitType]
    <2>1. \A p \in Powers : e[p] \in SUBSET UnitType
      BY DEF SoundUnits
    <2>. QED  BY <2>1
  <1>2. \A p \in Powers : \A u \in e[p] : u \in f[p]
    OBVIOUS
  <1>3. \A p \in Powers : \A u \in e[p] : u.pow = p /\ ValidUnit(u.type, u.loc, FALSE)
    BY <1>2 DEF SoundUnits
  <1>4. \A p \in Powers : \A u, v \in e[p] : u.loc = v.loc => u = v
    BY <1>2 DEF SoundUnits
  <1>5. \A p, q \in Powers : p # q => \A u \in e[p], v \in e[q] : Short[u.loc] # Short[v.loc]
    BY <1>2 DEF SoundUnits
  <1>. QED  BY <1>1, <1>3, <1>4, <1>5 DEF SoundUnits

LEMMA MovedRetreatsLemma ==
    ASSUME NEW g, SoundUnits(g.units), NEW r, Beaten(r) \subseteq Board(g)
    PROVE  /\ SoundRetreats(MovedRetreats(g, r))
           /\ UNION {DOMAIN MovedRetreats(g, r)[p] : p \in Powers} = Beaten(r) \ Lost(r)
  <1>. DEFINE f == MovedRetreats(g, r)
  <1>1. \A p \in Powers : f[p] = [u \in Fleeing(g, r, p) |-> Retreats(r, u)]
    BY DEF MovedRetreats
  <1>2. \A p \in Powers : DOMAIN f[p] = Fleeing(g, r, p) /\ \A u \in Fleeing(g, r, p) : f[p][u] = Retreats(r, u)
    BY <1>1
  <1>3. f = [p \in Powers |-> [u \in DOMAIN f[p] |-> f[p][u]]]
    <2>1. f = [p \in Powers |-> f[p]]
      BY DEF MovedRetreats
    <2>2. \A p \in Powers : f[p] = [u \in DOMAIN f[p] |-> f[p][u]]
      BY <1>1
    <2>. HIDE DEF f
    <2>. QED  BY <2>1, <2>2
  <1>. HIDE DEF f
  <1>4. SoundUnits(Out(f))
    <2>1. Out(f) = [p \in Powers |-> Out(f)[p]]
      BY DEF Out
    <2>2. \A p \in Powers : Out(f)[p] \subseteq g.units[p]
      BY <1>2 DEF Out, Fleeing
    <2>. QED  BY <2>1, <2>2, PartSound
  <1>5. ASSUME NEW p \in Powers, NEW u \in DOMAIN f[p], NEW l \in f[p][u] PROVE l \in Locs /\ ValidUnit(u.type, l, FALSE)
    <2>1. u \in Fleeing(g, r, p) /\ l \in Retreats(r, u)
      BY <1>2, <1>5
    <2>2. u \in UnitType
      BY <2>1 DEF Fleeing, SoundUnits
    <2>. QED  BY <2>1, <2>2, RetreatsLemma
  <1>6. SoundRetreats(f)
    BY <1>3, <1>4, <1>5 DEF SoundRetreats
  <1>7. UNION {DOMAIN f[p] : p \in Powers} = Beaten(r) \ Lost(r)
    <2>1. UNION {DOMAIN f[p] : p \in Powers} = UNION {Fleeing(g, r, p) : p \in Powers}
      BY <1>2
    <2>2. \A u : u \in UNION {Fleeing(g, r, p) : p \in Powers} <=> u \in Beaten(r) \ Lost(r)
      BY DEF Fleeing, Lost, Board
    <2>. QED  BY <2>1, <2>2
  <1>. QED  BY <1>6, <1>7 DEF f

\* What a power influences is a set of locations.
LEMMA ProvincesLemma ==
    ASSUME NEW us, us \subseteq UnitType
    PROVE  Provinces(us) \subseteq Locs
  BY MapAssumption DEF Provinces, UnitType

\* The hash after moves.
LEMMA MovedHashLemma ==
    ASSUME NEW g, SoundUnits(g.units), Hashed(g), NoRetreats(g), NEW r, Settled(r, Board(g)),
           NEW h, h.units = MovedUnits(g, r), h.retreats = MovedRetreats(g, r), h.centers = g.centers, h.hash = MovedHash(g, r)
    PROVE  Hashed(h)
  <1>. DEFINE bm == Beaten(r) \cup Moved(r)
              rest == Board(g) \ bm
              arr == Arrivals(g, r)
              ds == Beaten(r) \ Lost(r)
  <1>1. /\ SoundUnits(MovedUnits(g, r)) /\ bm \subseteq Board(g) /\ Beaten(r) \subseteq Board(g)
        /\ \A u, v \in Board(g) : u \in Moved(r) /\ v \notin bm => Short[Arrived(r, u).loc] # Short[v.loc]
    BY SettledUnits
  <1>2. g.hash = KeysOf(rest \cup bm, {}, g.centers) /\ Apart(rest, bm)
    <2>1. Board(g) = AllOf(g.units)
      BY DEF Board, AllOf
    <2>2. Apart(rest, bm) /\ rest \cup bm = Board(g)
      BY <1>1, <2>1, PartApart
    <2>. QED  BY <2>2, RebuildLemma, NoDislodged DEF Hashed
  <1>3. Apart(rest, arr)
    <2>. SUFFICES ASSUME NEW v \in rest, NEW a \in arr PROVE v.loc # a.loc
      BY DEF Apart
    <2>1. PICK u \in Moved(r) : u \in Board(g) /\ a = Arrived(r, u)
      BY DEF Arrivals, Coming, Board
    <2>2. v \in Board(g) /\ v \notin bm
      OBVIOUS
    <2>. QED  BY <1>1, <2>1, <2>2
  <1>4. Board(h) = rest \cup arr
    <2>1. \A u : u \in Board(h) <=> \E p \in Powers : u \in Staying(g, r, p) \/ u \in Coming(g, r, p)
      BY DEF Board, MovedUnits
    <2>2. \A u : u \in arr <=> \E p \in Powers : u \in Coming(g, r, p)
      BY DEF Arrivals
    <2>3. \A u : u \in rest <=> \E p \in Powers : u \in Staying(g, r, p)
      BY DEF Staying, Board
    <2>. HIDE DEF rest, arr
    <2>. QED  BY <2>1, <2>2, <2>3
  <1>5. Dislodged(h) = ds
    BY <1>1, MovedRetreatsLemma DEF Dislodged
  <1>. HIDE DEF bm, rest, arr, ds
  <1>6. MovedHash(g, r) = Xor(Xor(g.hash, Xor(UnitKeys(bm), UnitKeys(arr))), DislodgedKeys(ds))
    BY DEF MovedHash, bm, arr, ds
  <1>7. Xor(g.hash, Xor(UnitKeys(bm), UnitKeys(arr))) = KeysOf(rest \cup arr, {}, g.centers)
    <2>1. Xor(g.hash, UnitKeys(bm)) = KeysOf(rest, {}, g.centers)
      BY <1>2, UnitsGo
    <2>2. Xor(KeysOf(rest, {}, g.centers), UnitKeys(arr)) = KeysOf(rest \cup arr, {}, g.centers)
      BY <1>3, UnitsCome
    <2>. QED  BY <2>1, <2>2, XorAssoc
  <1>8. MovedHash(g, r) = KeysOf(rest \cup arr, ds, g.centers)
    BY <1>6, <1>7, DislodgedCome
  <1>. QED  BY <1>4, <1>5, <1>8, RebuildLemma DEF Hashed

LEMMA MoveGood ==
    ASSUME NEW g, Good(g), NoRetreats(g), NEW r, Settled(r, Board(g)), NEW h, h = MoveUnits(g, r)
    PROVE  Good(h)
  <1>1. /\ IsGame(h) /\ h.phase = g.phase /\ h.centers = g.centers /\ h.adjust = g.adjust /\ h.outcome = g.outcome
        /\ h.units = MovedUnits(g, r) /\ h.retreats = MovedRetreats(g, r)
        /\ h.influence = MovedInfluence(g, r) /\ h.hash = MovedHash(g, r)
    BY MoveFields DEF Good
  <1>2. /\ IsGame(g) /\ SoundUnits(g.units) /\ SoundCenters(g.centers) /\ g.influence \in [Powers -> SUBSET Locs]
        /\ Hashed(g) /\ g.outcome \subseteq Powers
    BY DEF Good, Position
  <1>3. /\ SoundUnits(MovedUnits(g, r)) /\ Beaten(r) \subseteq Board(g) /\ \A u \in Moved(r) : Arrived(r, u) \in UnitType
    BY <1>2, SettledUnits
  <1>4. SoundRetreats(h.retreats)
    BY <1>1, <1>2, <1>3, MovedRetreatsLemma
  <1>5. h.influence \in [Powers -> SUBSET Locs]
    <2>1. \A p \in Powers : Provinces(Coming(g, r, p)) \subseteq Locs
      <3>1. \A p \in Powers : Coming(g, r, p) \subseteq UnitType
        BY <1>3 DEF Coming
      <3>. QED  BY <3>1, ProvincesLemma
    <2>2. \A p \in Powers : MovedInfluence(g, r)[p] \subseteq Locs
      BY <1>2, <2>1 DEF MovedInfluence, Visit
    <2>3. MovedInfluence(g, r) = [p \in Powers |-> MovedInfluence(g, r)[p]]
      BY DEF MovedInfluence
    <2>. QED  BY <1>1, <2>2, <2>3
  <1>6. Hashed(h)
    BY <1>1, <1>2, MovedHashLemma
  <1>. QED  BY <1>1, <1>2, <1>3, <1>4, <1>5, <1>6 DEF Good, Position
-----------------------------------------------------------------------------
(* The walk to the next phase keeps a game good. *)

HomesApart == \A p, q \in Powers : p # q => Homes[p] \cap Homes[q] = {}

LEMMA NoRetreatsSound ==
    ASSUME NEW h, h.retreats = [p \in Powers |-> <<>>]
    PROVE  SoundRetreats(h.retreats) /\ Dislodged(h) = {} /\ NoRetreats(h)
  <1>1. \A p \in Powers : h.retreats[p] = <<>> /\ DOMAIN h.retreats[p] = {}
    OBVIOUS
  <1>2. \A p \in Powers : Out(h.retreats)[p] = {}
    BY <1>1 DEF Out
  <1>3. Out(h.retreats) \in [Powers -> SUBSET UnitType]
    <2>1. Out(h.retreats) = [p \in Powers |-> Out(h.retreats)[p]]
      BY DEF Out
    <2>. QED  BY <1>2, <2>1
  <1>4. SoundUnits(Out(h.retreats))
    BY <1>2, <1>3 DEF SoundUnits
  <1>5. h.retreats = [p \in Powers |-> [u \in DOMAIN h.retreats[p] |-> h.retreats[p][u]]]
    <2>1. \A p \in Powers : h.retreats[p] = [u \in DOMAIN h.retreats[p] |-> h.retreats[p][u]]
      BY <1>1
    <2>2. h.retreats = [p \in Powers |-> h.retreats[p]]
      OBVIOUS
    <2>. QED  BY <2>1, <2>2
  <1>. QED  BY <1>1, <1>4, <1>5 DEF SoundRetreats, Dislodged, NoRetreats

\* The retreats are cleared, with their keys.
Cleared(h, g) ==
    /\ h.units = g.units /\ h.centers = g.centers /\ h.influence = g.influence
    /\ h.retreats = [p \in Powers |-> <<>>]
    /\ h.hash = Xor(g.hash, DislodgedKeys(UNION {DOMAIN g.retreats[p] : p \in Powers}))
LEMMA ClearedGood ==
    ASSUME NEW g, Good(g), NEW h, IsGame(h), Cleared(h, g), h.outcome \subseteq Powers
    PROVE  Good(h)
  <1>1. SoundUnits(h.units) /\ SoundCenters(h.centers) /\ h.influence \in [Powers -> SUBSET Locs]
    BY DEF Good, Position, Cleared
  <1>2. SoundRetreats(h.retreats) /\ Dislodged(h) = {}
    BY NoRetreatsSound DEF Cleared
  <1>3. Board(h) = Board(g)
    BY DEF Board, Cleared
  <1>4. h.hash = KeysOf(Board(h), {}, h.centers)
    <2>1. g.hash = KeysOf(Board(g), Dislodged(g), g.centers)
      BY RebuildLemma DEF Good, Hashed
    <2>2. h.hash = Xor(g.hash, DislodgedKeys(Dislodged(g))) /\ h.centers = g.centers
      BY DEF Cleared, Dislodged
    <2>. QED  BY <1>3, <2>1, <2>2, DislodgedGo
  <1>5. Hashed(h)
    BY <1>2, <1>4, RebuildLemma DEF Hashed
  <1>. QED  BY <1>1, <1>2, <1>5 DEF Good, Position

\* The centers that powers own after a capture are in one hand.
LEMMA TakenSound ==
    ASSUME HomesApart, NEW g, SoundUnits(g.units), SoundCenters(g.centers)
    PROVE  SoundCenters(TakenCenters(g))
  <1>. DEFINE c == StartCenters(g)
  <1>1. \A p, q \in Powers : p # q => c[p] \cap c[q] = {}
    BY DEF StartCenters, HomesApart, SoundCenters
  <1>. HIDE DEF c
  <1>2. ASSUME NEW p \in Powers, NEW q \in Powers, p # q, NEW l, l \in OwnsOf(g, c, p), l \in OwnsOf(g, c, q) PROVE FALSE
    <2>1. ASSUME NEW a \in Powers, NEW b \in Powers, a # b, l \in Provinces(g.units[a]) PROVE l \notin OwnsOf(g, c, b)
      <3>1. PICK u \in g.units[a] : l = Short[u.loc]
        BY <2>1 DEF Provinces
      <3>2. l \notin Provinces(g.units[b])
        BY <2>1, <3>1 DEF Provinces, SoundUnits
      <3>3. u \in Board(g) \ g.units[b]
        BY <2>1, <3>1 DEF Board, SoundUnits
      <3>4. l \in Provinces(Board(g) \ g.units[b])
        BY <3>1, <3>3 DEF Provinces
      <3>. QED  BY <3>2, <3>4 DEF OwnsOf
    <2>2. l \in c[p] /\ l \in c[q]
      BY <1>2, <2>1 DEF OwnsOf
    <2>. QED  BY <1>1, <1>2, <2>2
  <1>3. TakenCenters(g) = [p \in Powers |-> OwnsOf(g, c, p)]
    BY DEF TakenCenters, c
  <1>4. \A p \in Powers : OwnsOf(g, c, p) \subseteq Scs
    BY DEF OwnsOf
  <1>. QED  BY <1>2, <1>3, <1>4 DEF SoundCenters

LEMMA TakenHashLemma ==
    ASSUME NEW g, Hashed(g)
    PROVE  TakenHash(g) = KeysOf(Board(g), Dislodged(g), TakenCenters(g))
  <1>1. g.hash = KeysOf(Board(g), Dislodged(g), g.centers)
    BY RebuildLemma DEF Hashed
  <1>2. StartHash(g) = KeysOf(Board(g), Dislodged(g), StartCenters(g))
    <2>1. CASE \E p \in Powers : g.centers[p] # {}
      BY <1>1, <2>1 DEF StartHash, StartCenters
    <2>2. CASE ~\E p \in Powers : g.centers[p] # {}
      <3>1. \A p \in Powers : Xor(g.centers[p], Homes[p]) = Homes[p]
        BY <2>2 DEF Xor
      <3>2. UNION {CenterKeys(p, Xor(g.centers[p], Homes[p])) : p \in Powers} = UNION {CenterKeys(p, Homes[p]) : p \in Powers}
        BY <3>1
      <3>3. StartHash(g) = Xor(g.hash, UNION {CenterKeys(p, Homes[p]) : p \in Powers}) /\ StartCenters(g) = Homes
        BY <2>2 DEF StartHash, StartCenters
      <3>4. Xor(KeysOf(Board(g), Dislodged(g), g.centers), UNION {CenterKeys(p, Xor(g.centers[p], Homes[p])) : p \in Powers})
              = KeysOf(Board(g), Dislodged(g), Homes)
        BY CentersChange
      <3>. QED  BY <1>1, <3>2, <3>3, <3>4
    <2>. QED  BY <2>1, <2>2
  <1>. DEFINE c == StartCenters(g)
              d == TakenCenters(g)
  <1>3. \A p \in Powers : d[p] = OwnsOf(g, c, p)
    BY DEF TakenCenters
  <1>4. UNION {CenterKeys(p, Xor(c[p], OwnsOf(g, c, p))) : p \in Powers} = UNION {CenterKeys(p, Xor(c[p], d[p])) : p \in Powers}
    BY <1>3
  <1>5. TakenHash(g) = Xor(StartHash(g), UNION {CenterKeys(p, Xor(c[p], OwnsOf(g, c, p))) : p \in Powers})
    BY DEF TakenHash
  <1>. HIDE DEF c, d
  <1>6. Xor(KeysOf(Board(g), Dislodged(g), c), UNION {CenterKeys(p, Xor(c[p], d[p])) : p \in Powers}) = KeysOf(Board(g), Dislodged(g), d)
    BY CentersChange
  <1>. QED  BY <1>2, <1>4, <1>5, <1>6 DEF c, d

LEMMA CaptureGood ==
    ASSUME HomesApart, NEW g, Good(g), NEW h, h = CaptureCenters(g)
    PROVE  Good(h)
  <1>0. IsGame(g) /\ SoundUnits(g.units) /\ SoundCenters(g.centers) /\ Hashed(g) /\ g.outcome \subseteq Powers
        /\ SoundRetreats(g.retreats) /\ g.influence \in [Powers -> SUBSET Locs]
    BY DEF Good, Position
  <1>1. IsGame(h) /\ h.units = g.units /\ h.influence = g.influence /\ h.centers = TakenCenters(g) /\ (GoesOn(h, g) \/ Ends(h, g))
    BY ONLY <1>0, h = CaptureCenters(g), CaptureFields
  <1>2. SoundCenters(h.centers) /\ SoundUnits(h.units) /\ h.influence \in [Powers -> SUBSET Locs]
    BY <1>0, <1>1, TakenSound
  <1>3. TakenHash(g) = KeysOf(Board(h), Dislodged(g), h.centers)
    <2>1. Board(h) = Board(g)
      BY <1>1 DEF Board
    <2>. QED  BY <1>0, <1>1, <2>1, TakenHashLemma
  <1>4. CASE GoesOn(h, g)
    <2>1. h.retreats = g.retreats /\ h.hash = TakenHash(g) /\ h.outcome = g.outcome
      BY <1>4 DEF GoesOn
    <2>2. Dislodged(h) = Dislodged(g)
      BY <2>1 DEF Dislodged
    <2>3. Hashed(h)
      BY <1>3, <2>1, <2>2, RebuildLemma DEF Hashed
    <2>. QED  BY <1>0, <1>1, <1>2, <2>1, <2>3 DEF Good, Position
  <1>5. CASE Ends(h, g)
    <2>1. h.retreats = [p \in Powers |-> <<>>] /\ h.hash = Xor(TakenHash(g), DislodgedKeys(Dislodged(g))) /\ h.outcome \subseteq Powers
      BY <1>5 DEF Ends, Dislodged
    <2>2. SoundRetreats(h.retreats) /\ Dislodged(h) = {}
      BY <2>1, NoRetreatsSound
    <2>3. h.hash = KeysOf(Board(h), {}, h.centers)
      BY <1>3, <2>1, DislodgedGo
    <2>4. Hashed(h)
      BY <2>2, <2>3, RebuildLemma DEF Hashed
    <2>. QED  BY <1>1, <1>2, <2>1, <2>2, <2>4 DEF Good, Position
  <1>. QED  BY <1>1, <1>4, <1>5

\* The tables of a game decide if it is good.
LEMMA SameGood ==
    ASSUME NEW g, Good(g), NEW h, IsGame(h), SameBoard(h, g), h.influence = g.influence, h.hash = g.hash, h.outcome = g.outcome
    PROVE  Good(h)
  <1>1. Position(h)
    BY DEF Good, Position, SameBoard
  <1>2. RebuildHash(h) = RebuildHash(g)
    BY DEF RebuildHash, SameBoard
  <1>. QED  BY <1>1, <1>2 DEF Good, Hashed

LEMMA WalkGood ==
    ASSUME HomesApart, NEW x, Good(x.g), NEW z, z = AdvanceStep(x)
    PROVE  Good(z.g)
  <1>1. CASE ~x.go
    BY <1>1 DEF AdvanceStep
  <1>2. CASE x.go
    <2>1. PICK f, g : f = x.g /\ g = [f EXCEPT !.phase = FindNextPhase(@)] /\ z = CheckPhase(g)
      BY <1>2 DEF AdvanceStep
    <2>2. IsGame(f) /\ Good(f)
      BY <2>1 DEF Good
    <2>3. Good(g)
      <3>1. g = [f EXCEPT !.phase = FindNextPhase(f.phase)]
        BY <2>1
      <3>2. IsGame(g) /\ SameBoard(g, f) /\ g.influence = f.influence /\ g.hash = f.hash /\ g.outcome = f.outcome
        BY ONLY <2>2, <3>1, PhaseFields
      <3>. QED  BY <2>2, <3>2, SameGood
    <2>4. PICK c, h : c = ClearRetreats(g) /\ h = CaptureCenters(g)
      OBVIOUS
    <2>5. z.g = g \/ z.g = c \/ z.g = h
      <3>1. z = Skip(c) \/ z = Skip(h) \/ z = [g |-> h, go |-> FALSE] \/ z = [g |-> g, go |-> FALSE]
        BY <2>1, <2>4 DEF CheckPhase
      <3>. QED  BY <3>1 DEF Skip
    <2>6. Good(c)
      <3>1. IsGame(g) /\ g.outcome \subseteq Powers
        BY <2>3 DEF Good
      <3>2. IsGame(c) /\ Cleared(c, g) /\ c.outcome = g.outcome
        BY ONLY <2>4, <3>1, ClearRetreatsFields DEF Cleared, SameRest
      <3>. QED  BY <2>3, <3>1, <3>2, ClearedGood
    <2>7. Good(h)
      BY <2>3, <2>4, CaptureGood
    <2>. QED  BY <2>3, <2>5, <2>6, <2>7
  <1>. QED  BY <1>1, <1>2

LEMMA NextPhaseGood ==
    ASSUME HomesApart, NEW g, Good(g)
    PROVE  Good(NextPhase(g))
  <1>. DEFINE x0 == First(g)
              x1 == AdvanceStep(x0)
              x2 == AdvanceStep(x1)
              x3 == AdvanceStep(x2)
              x4 == AdvanceStep(x3)
              x5 == AdvanceStep(x4)
              x6 == AdvanceStep(x5)
  <1>1. Good(x0.g)
    BY DEF First
  <1>2. Good(x1.g)
    <2>. HIDE DEF x0
    <2>. QED  BY <1>1, WalkGood
  <1>3. Good(x2.g)
    <2>. HIDE DEF x1
    <2>. QED  BY <1>2, WalkGood
  <1>4. Good(x3.g)
    <2>. HIDE DEF x2
    <2>. QED  BY <1>3, WalkGood
  <1>5. Good(x4.g)
    <2>. HIDE DEF x3
    <2>. QED  BY <1>4, WalkGood
  <1>6. Good(x5.g)
    <2>. HIDE DEF x4
    <2>. QED  BY <1>5, WalkGood
  <1>7. Good(x6.g)
    <2>. HIDE DEF x5
    <2>. QED  BY <1>6, WalkGood
  <1>8. PICK a : a = x6.g
    OBVIOUS
  <1>9. PICK h : h = NextPhase(g)
    OBVIOUS
  <1>10. h = ClearOrders(a)
    BY <1>8, <1>9, AdvanceUnfolds DEF NextPhase
  <1>11. Good(a)
    BY <1>7, <1>8
  <1>. HIDE DEF x6
  <1>12. IsGame(h) /\ SameBoard(h, a) /\ h.influence = a.influence /\ h.hash = a.hash /\ h.outcome = a.outcome
    BY ONLY <1>10, <1>11, ClearOrdersFields DEF Good
  <1>13. Good(h)
    BY <1>11, <1>12, SameGood
  <1>. QED  BY <1>9, <1>13
-----------------------------------------------------------------------------
(* The orders of retreat and adjustment phases. *)

Entry == [do : {"B", "D", "R", "WAIVE", "VOID"}, u : (Types \X Locs) \cup {NoName}, to : Locs \cup {None}]

\* A list without some places: the other elements, in order.
IsRest(f, list, places, n) ==
    f = [m \in 0..n |-> IF m = 0 THEN <<>> ELSE IF m \in places THEN f[m - 1] ELSE Append(f[m - 1], list[m])]

LEMMA RestLemma ==
    ASSUME NEW list, NEW places, NEW N \in Nat
    PROVE  \E f : IsRest(f, list, places, N)
  <1>. DEFINE Bad == {n \in Nat : ~\E f : IsRest(f, list, places, n)}
              step(m, x) == IF m \in places THEN x ELSE Append(x, list[m])
  <1>. SUFFICES ASSUME Bad # {} PROVE FALSE
    OBVIOUS
  <1>1. PICK n \in Bad : \A m \in Bad : n <= m
    BY LeastOne
  <1>2. n # 0
    <2>. DEFINE f == [m \in 0..0 |-> <<>>]
    <2>1. f = [m \in 0..0 |-> IF m = 0 THEN <<>> ELSE step(m, f[m - 1])]
      OBVIOUS
    <2>. HIDE DEF f
    <2>2. IsRest(f, list, places, 0)
      BY <2>1 DEF IsRest
    <2>. QED  BY <2>2
  <1>3. n - 1 \in Nat /\ n - 1 \notin Bad
    BY <1>1, <1>2
  <1>4. PICK f : IsRest(f, list, places, n - 1)
    BY <1>3
  <1>. DEFINE h == [m \in 0..n |-> IF m = n THEN step(n, f[n - 1]) ELSE f[m]]
  <1>5. \A m \in 0..n - 1 : f[m] = IF m = 0 THEN <<>> ELSE step(m, f[m - 1])
    BY <1>4 DEF IsRest
  <1>. HIDE DEF step
  <1>6. \A m \in 0..n : h[m] = IF m = 0 THEN <<>> ELSE step(m, h[m - 1])
    <2>2. \A m \in 0..n - 1 : h[m] = f[m]
      OBVIOUS
    <2>3. h[n] = step(n, f[n - 1])
      OBVIOUS
    <2>. HIDE DEF h
    <2>4. ASSUME NEW m \in 0..n PROVE h[m] = IF m = 0 THEN <<>> ELSE step(m, h[m - 1])
      <3>1. CASE m = 0
        BY <1>2, <1>3, <1>5, <2>2, <3>1
      <3>2. CASE m = n
        BY <1>2, <1>3, <2>2, <2>3, <3>2
      <3>3. CASE m # 0 /\ m # n
        <4>1. m \in 0..n - 1 /\ m - 1 \in 0..n - 1
          BY <3>3
        <4>. QED  BY <1>5, <2>2, <3>3, <4>1
      <3>. QED  BY <3>1, <3>2, <3>3
    <2>. QED  BY <2>4
  <1>7. h = [m \in 0..n |-> h[m]]
    OBVIOUS
  <1>. HIDE DEF h
  <1>8. IsRest(h, list, places, n)
    BY <1>6, <1>7 DEF IsRest, step
  <1>. QED  BY <1>1, <1>8

LEMMA WithoutLemma ==
    ASSUME NEW S, NEW list \in Seq(S), NEW places, NEW w, w = Without(list, places)
    PROVE  w \in Seq(S) /\ \A e \in ToSet(w) : \E i \in DOMAIN list : i \notin places /\ e = list[i]
  <1>. DEFINE N == Len(list)
              Holds(f) == f = [n \in 0..N |-> IF n = 0 THEN <<>> ELSE IF n \in places THEN f[n - 1] ELSE Append(f[n - 1], list[n])]
              kept(s, n) == s \in Seq(S) /\ \A k \in 1..Len(s) : \E i \in 1..n : i \notin places /\ s[k] = list[i]
  <1>0. N \in Nat /\ DOMAIN list = 1..N /\ \A i \in 1..N : list[i] \in S
    OBVIOUS
  <1>1. w = (CHOOSE f : Holds(f))[N]
    BY DEF Without
  <1>2. \E f : Holds(f)
    <2>1. PICK f : IsRest(f, list, places, N)
      BY <1>0, RestLemma
    <2>2. Holds(f)
      BY <2>1 DEF IsRest
    <2>. HIDE DEF Holds
    <2>. QED  BY <2>2
  <1>3. PICK f : f = CHOOSE k : Holds(k)
    OBVIOUS
  <1>4. Holds(f)
    <2>. HIDE DEF Holds
    <2>. QED  BY <1>2, <1>3
  <1>5. f[0] = <<>> /\ \A n \in 1..N : f[n] = IF n \in places THEN f[n - 1] ELSE Append(f[n - 1], list[n])
    <2>1. \A n \in 0..N : f[n] = IF n = 0 THEN <<>> ELSE IF n \in places THEN f[n - 1] ELSE Append(f[n - 1], list[n])
      BY <1>4
    <2>. QED  BY <1>0, <2>1
  <1>. DEFINE Bad == {n \in 0..N : ~kept(f[n], n)}
  <1>6. Bad = {}
    <2>. SUFFICES ASSUME Bad # {} PROVE FALSE
      OBVIOUS
    <2>1. Bad \subseteq Nat
      BY <1>0
    <2>2. PICK n \in Bad : \A m \in Bad : n <= m
      <3>. HIDE DEF Bad
      <3>. QED  BY <2>1, LeastOne
    <2>3. n # 0
      <3>1. kept(<<>>, 0)
        OBVIOUS
      <3>. HIDE DEF kept
      <3>. QED  BY <1>5, <2>2, <3>1
    <2>4. n \in 1..N /\ n - 1 \in 0..N /\ ~(n <= n - 1)
      BY <1>0, <2>2, <2>3
    <2>5. kept(f[n - 1], n - 1)
      <3>. HIDE DEF kept
      <3>. QED  BY <2>2, <2>4
    <2>6. PICK s : s = f[n - 1]
      OBVIOUS
    <2>7. kept(s, n - 1)
      BY <2>5, <2>6
    <2>8. kept(f[n], n)
      <3>1. CASE n \in places
        <4>1. f[n] = s
          BY <1>5, <2>4, <2>6, <3>1
        <4>2. \A i \in 1..n - 1 : i \in 1..n
          OBVIOUS
        <4>. QED  BY <2>7, <4>1, <4>2
      <3>2. CASE n \notin places
        <4>1. f[n] = Append(s, list[n])
          BY <1>5, <2>4, <2>6, <3>2
        <4>2. s \in Seq(S) /\ list[n] \in S
          BY <1>0, <2>4, <2>7
        <4>3. PICK t : t = Append(s, list[n])
          OBVIOUS
        <4>4. t \in Seq(S) /\ Len(t) = Len(s) + 1 /\ t[Len(s) + 1] = list[n] /\ \A k \in 1..Len(s) : t[k] = s[k]
          BY <4>2, <4>3
        <4>5. ASSUME NEW k \in 1..Len(t) PROVE \E i \in 1..n : i \notin places /\ t[k] = list[i]
          <5>0. Len(s) \in Nat
            BY <4>2
          <5>1. CASE k = Len(s) + 1
            BY <2>4, <3>2, <4>4, <5>1
          <5>2. CASE k # Len(s) + 1
            <6>1. k \in 1..Len(s)
              BY <4>4, <5>0, <5>2
            <6>2. PICK i \in 1..n - 1 : i \notin places /\ s[k] = list[i]
              BY <2>7, <6>1
            <6>. QED  BY <4>4, <6>1, <6>2
          <5>. QED  BY <5>1, <5>2
        <4>. QED  BY <4>1, <4>3, <4>4, <4>5
      <3>. QED  BY <3>1, <3>2
    <2>. QED  BY <2>2, <2>8
  <1>7. w = f[N] /\ kept(f[N], N)
    <2>1. w = f[N]
      BY <1>1, <1>3
    <2>. HIDE DEF kept
    <2>2. N \in 0..N
      BY <1>0
    <2>. QED  BY <1>6, <2>1, <2>2
  <1>8. kept(w, N)
    BY <1>7
  <1>. QED  BY <1>0, <1>8 DEF ToSet

LEMMA JoinLemma ==
    ASSUME NEW S, NEW a \in Seq(S), NEW b \in Seq(S), NEW c, c = a \o b
    PROVE  c \in Seq(S) /\ \A e \in ToSet(c) : e \in ToSet(a) \/ e \in ToSet(b)
  <1>1. c \in Seq(S) /\ Len(c) = Len(a) + Len(b)
    OBVIOUS
  <1>2. Len(a) \in Nat /\ Len(b) \in Nat /\ DOMAIN a = 1..Len(a) /\ DOMAIN b = 1..Len(b) /\ DOMAIN c = 1..Len(c)
    BY <1>1
  <1>3. \A i \in 1..Len(c) : c[i] = IF i <= Len(a) THEN a[i] ELSE b[i - Len(a)]
    BY <1>1
  <1>4. ASSUME NEW i \in 1..Len(c) PROVE c[i] \in ToSet(a) \/ c[i] \in ToSet(b)
    <2>1. CASE i <= Len(a)
      BY <1>2, <1>3, <2>1 DEF ToSet
    <2>2. CASE ~(i <= Len(a))
      <3>1. i - Len(a) \in 1..Len(b)
        BY <1>1, <1>2, <2>2
      <3>. QED  BY <1>2, <1>3, <2>2, <3>1 DEF ToSet
    <2>. QED  BY <2>1, <2>2
  <1>. QED  BY <1>1, <1>2, <1>4 DEF ToSet

\* What is kept of the orders of a power: the retreats and the builds would be
\* accepted now, and one unit at the most is built at a location.
Counts(e) == e.do \notin {"VOID", "WAIVE"}
Proper(g, p, list) ==
    /\ list \in Seq(Entry)
    /\ \A e \in ToSet(list) : (e.do = "R" => RetreatAccepted(g, p, e)) /\ (e.do = "B" => AdjustAccepted(g, p, e))
    /\ \A d, e \in ToSet(list) : d.do = "B" /\ e.do = "B" /\ d.u[2] = e.u[2] => d.u = e.u
AdjustFits(g) == DOMAIN g.adjust = Powers /\ \A p \in Powers : Proper(g, p, g.adjust[p])

LEMMA EmptyProper ==
    ASSUME NEW g, NEW p
    PROVE  Proper(g, p, <<>>)
  BY DEF Proper, ToSet

LEMMA ReplaceProper ==
    ASSUME NEW g, NEW p, NEW adjust, NEW new, Proper(g, p, adjust), Proper(g, p, new), NEW c, c = Replace(adjust, new)
    PROVE  Proper(g, p, c)
  <1>. DEFINE locs == {e.u[2] : e \in {x \in ToSet(new) : Counts(x)}}
              places == {i \in DOMAIN adjust : Counts(adjust[i]) /\ adjust[i].u[2] \in locs}
  <1>1. adjust \in Seq(Entry) /\ new \in Seq(Entry)
    BY DEF Proper
  <1>2. PICK w : w = Without(adjust, places)
    OBVIOUS
  <1>3. c = w \o new
    BY <1>2 DEF Replace, Counts
  <1>4. w \in Seq(Entry) /\ \A e \in ToSet(w) : \E i \in DOMAIN adjust : i \notin places /\ e = adjust[i]
    <2>. HIDE DEF places
    <2>. QED  BY <1>1, <1>2, WithoutLemma
  <1>5. c \in Seq(Entry) /\ \A e \in ToSet(c) : e \in ToSet(w) \/ e \in ToSet(new)
    BY <1>1, <1>3, <1>4, JoinLemma
  <1>6. ASSUME NEW e \in ToSet(w) PROVE e \in ToSet(adjust) /\ (Counts(e) => \A x \in ToSet(new) : Counts(x) => x.u[2] # e.u[2])
    <2>1. PICK i \in DOMAIN adjust : i \notin places /\ e = adjust[i]
      BY <1>4
    <2>. QED  BY <2>1 DEF ToSet
  <1>. HIDE DEF locs, places
  <1>7. ASSUME NEW e \in ToSet(c) PROVE (e.do = "R" => RetreatAccepted(g, p, e)) /\ (e.do = "B" => AdjustAccepted(g, p, e))
    <2>1. e \in ToSet(adjust) \/ e \in ToSet(new)
      BY <1>5, <1>6
    <2>. QED  BY <2>1 DEF Proper
  <1>8. ASSUME NEW d \in ToSet(c), NEW e \in ToSet(c), d.do = "B", e.do = "B", d.u[2] = e.u[2] PROVE d.u = e.u
    <2>1. Counts(d) /\ Counts(e)
      BY <1>8 DEF Counts
    <2>2. CASE d \in ToSet(new) /\ e \in ToSet(new)
      BY <1>8, <2>2 DEF Proper
    <2>3. CASE d \in ToSet(w) /\ e \in ToSet(w)
      BY <1>6, <1>8, <2>3 DEF Proper
    <2>4. CASE d \in ToSet(w) /\ e \in ToSet(new)
      BY <1>6, <1>8, <2>1, <2>4
    <2>5. CASE d \in ToSet(new) /\ e \in ToSet(w)
      BY <1>6, <1>8, <2>1, <2>5
    <2>. QED  BY <1>5, <2>2, <2>3, <2>4, <2>5
  <1>. QED  BY <1>5, <1>7, <1>8 DEF Proper

\* The numbers of units, centers and sites are finite.
LEMMA FiniteLemma ==
    ASSUME NEW g, SoundUnits(g.units), SoundCenters(g.centers), NEW p \in Powers
    PROVE  /\ IsFiniteSet(g.units[p]) /\ IsFiniteSet(g.centers[p]) /\ IsFiniteSet(BuildSites(g, p))
           /\ Surplus(g, p) \in Int /\ Need(g, p) \in Int
  <1>1. IsFiniteSet(Locs) /\ Scs \subseteq Locs
    BY EngineAssumption
  <1>2. IsFiniteSet(g.units[p])
    <2>. DEFINE us == g.units[p]
                f == [u \in us |-> u.loc]
    <2>1. f \in Injection(us, Locs)
      <3>1. \A u \in us : u.loc \in Locs
        BY DEF SoundUnits, UnitType
      <3>2. \A u, v \in us : f[u] = f[v] => u = v
        BY DEF SoundUnits
      <3>. QED  BY <3>1, <3>2 DEF Injection, IsInjective
    <2>. HIDE DEF f
    <2>. QED  BY <1>1, <2>1, FS_Injection
  <1>3. IsFiniteSet(g.centers[p])
    BY <1>1, FS_Subset DEF SoundCenters
  <1>4. IsFiniteSet(BuildSites(g, p))
    <2>1. BuildSites(g, p) \subseteq g.centers[p]
      BY DEF BuildSites
    <2>. QED  BY <1>3, <2>1, FS_Subset
  <1>5. Surplus(g, p) \in Int
    BY <1>2, <1>3, FS_CardinalityType DEF Surplus
  <1>6. Need(g, p) \in Int
    BY <1>4, <1>5, FS_CardinalityType DEF Need, Smaller
  <1>. QED  BY <1>2, <1>3, <1>4, <1>5, <1>6

LEMMA WaiveLemma == Waive \in Entry /\ Waive.do = "WAIVE"
  BY DEF Waive, Entry, NoName, None

LEMMA WaivesProper ==
    ASSUME NEW g, NEW p, NEW list, Proper(g, p, list), NEW need \in Int, NEW dummy, NEW c, c = SetWaives(list, need, dummy)
    PROVE  Proper(g, p, c)
  <1>. DEFINE waives == {i \in DOMAIN list : list[i] = Waive}
              extra == {i \in waives : 0 < need /\ Cardinality({j \in waives : j <= i}) <= Len(list) - need}
              left == Without(list, extra)
              missing == IF waives # extra \/ dummy THEN need - Len(left) ELSE 0
              more == [i \in 1..missing |-> Waive]
  <1>1. c = left \o more
    BY DEF SetWaives
  <1>2. list \in Seq(Entry)
    BY DEF Proper
  <1>. HIDE DEF extra
  <1>3. PICK w : w = left
    OBVIOUS
  <1>4. w \in Seq(Entry) /\ \A e \in ToSet(w) : \E i \in DOMAIN list : i \notin extra /\ e = list[i]
    BY <1>2, <1>3, WithoutLemma
  <1>5. missing \in Int
    <2>1. Len(left) \in Int
      BY <1>3, <1>4
    <2>. HIDE DEF left
    <2>. QED  BY <2>1
  <1>. HIDE DEF missing, left
  <1>6. more \in Seq(Entry) /\ \A e \in ToSet(more) : e = Waive
    <2>1. CASE missing \in Nat
      <3>1. more \in [1..missing -> Entry]
        BY WaiveLemma
      <3>2. more \in Seq(Entry)
        BY <2>1, <3>1
      <3>. QED  BY <3>2 DEF ToSet
    <2>2. CASE missing \notin Nat
      <3>1. 1..missing = {}
        BY <1>5, <2>2
      <3>2. more = <<>>
        BY <3>1
      <3>. HIDE DEF more
      <3>. QED  BY <3>2 DEF ToSet
    <2>. QED  BY <2>1, <2>2
  <1>. HIDE DEF more
  <1>7. c \in Seq(Entry) /\ \A e \in ToSet(c) : e \in ToSet(w) \/ e \in ToSet(more)
    <2>1. c = w \o more
      BY <1>1, <1>3
    <2>. QED  BY <1>4, <1>6, <2>1, JoinLemma
  <1>8. \A e \in ToSet(c) : e \in ToSet(list) \/ e.do = "WAIVE"
    <2>1. \A e \in ToSet(w) : e \in ToSet(list)
      BY <1>4 DEF ToSet
    <2>. QED  BY <1>6, <1>7, <2>1, WaiveLemma
  <1>. QED  BY <1>7, <1>8 DEF Proper

\* The entries of a call.
LEMMA VoidLemma ==
    ASSUME NEW e \in Entry
    PROVE  Void(e) \in Entry /\ Void(e).do = "VOID"
  BY DEF Void, Entry

RetreatEntries(g, p, list) == Entries(list, LAMBDA e : RetreatAccepted(g, p, e), SameUnit)
AdjustEntries(g, p, list) == Entries(list, LAMBDA e : AdjustAccepted(g, p, e), SamePlace)

LEMMA RetreatEntriesProper ==
    ASSUME NEW g, NEW p, NEW list \in Seq(Texts("R")), NEW new, new = RetreatEntries(g, p, list)
    PROVE  Proper(g, p, new)
  <1>1. list \in Seq(Entry)
    <2>1. Texts("R") \subseteq Entry
      BY DEF Texts, Entry
    <2>. QED  BY <2>1
  <1>2. DOMAIN list = 1..Len(list) /\ Len(list) \in Nat
    BY <1>1
  <1>3. /\ new = [i \in 1..Len(list) |-> new[i]]
        /\ \A i \in 1..Len(list) : \/ new[i] = list[i] /\ RetreatAccepted(g, p, list[i])
                                   \/ new[i] = Void(list[i])
    BY <1>2 DEF Entries, RetreatEntries
  <1>4. \A i \in 1..Len(list) : list[i] \in Entry /\ new[i] \in Entry
    BY <1>1, <1>3, VoidLemma
  <1>5. new \in Seq(Entry) /\ DOMAIN new = 1..Len(list)
    BY <1>2, <1>3, <1>4
  <1>6. \A i \in 1..Len(list) : (new[i].do = "R" => RetreatAccepted(g, p, new[i])) /\ new[i].do # "B"
    <2>. SUFFICES ASSUME NEW i \in 1..Len(list) PROVE (new[i].do = "R" => RetreatAccepted(g, p, new[i])) /\ new[i].do # "B"
      OBVIOUS
    <2>1. CASE new[i] = list[i] /\ RetreatAccepted(g, p, list[i])
      <3>1. list[i].do # "B"
        BY <2>1 DEF RetreatAccepted
      <3>. QED  BY <2>1, <3>1
    <2>2. CASE new[i] = Void(list[i])
      BY <1>4, <2>2, VoidLemma
    <2>. QED  BY <1>3, <2>1, <2>2
  <1>. QED  BY <1>5, <1>6 DEF Proper, ToSet

LEMMA AdjustEntriesProper ==
    ASSUME NEW g, NEW p, NEW list \in Seq(Texts("A")), NEW new, new = AdjustEntries(g, p, list)
    PROVE  Proper(g, p, new)
  <1>1. list \in Seq(Entry)
    <2>1. Texts("A") \subseteq Entry
      BY DEF Texts, Entry
    <2>. QED  BY <2>1
  <1>2. DOMAIN list = 1..Len(list) /\ Len(list) \in Nat
    BY <1>1
  <1>3. /\ new = [i \in 1..Len(list) |-> new[i]]
        /\ \A i \in 1..Len(list) :
              \/ /\ new[i] = list[i] /\ AdjustAccepted(g, p, list[i])
                 /\ \A j \in 1..i - 1 : AdjustAccepted(g, p, list[j]) => ~SamePlace(list[j], list[i])
              \/ new[i] = Void(list[i])
    BY <1>2 DEF Entries, AdjustEntries
  <1>4. \A i \in 1..Len(list) : list[i] \in Entry /\ new[i] \in Entry
    BY <1>1, <1>3, VoidLemma
  <1>5. new \in Seq(Entry) /\ DOMAIN new = 1..Len(list)
    BY <1>2, <1>3, <1>4
  <1>6. \A i \in 1..Len(list) : new[i].do # "VOID" =>
              /\ new[i] = list[i] /\ AdjustAccepted(g, p, list[i])
              /\ \A j \in 1..i - 1 : AdjustAccepted(g, p, list[j]) => ~SamePlace(list[j], list[i])
    BY <1>3, <1>4, VoidLemma
  <1>7. \A i \in 1..Len(list) : (new[i].do = "B" => AdjustAccepted(g, p, new[i])) /\ new[i].do # "R"
    <2>. SUFFICES ASSUME NEW i \in 1..Len(list) PROVE (new[i].do = "B" => AdjustAccepted(g, p, new[i])) /\ new[i].do # "R"
      OBVIOUS
    <2>1. CASE new[i].do # "VOID"
      <3>1. new[i] = list[i] /\ AdjustAccepted(g, p, list[i])
        BY <1>6, <2>1
      <3>2. list[i].do # "R"
        BY <3>1 DEF AdjustAccepted
      <3>. QED  BY <3>1, <3>2
    <2>. QED  BY <2>1
  <1>8. ASSUME NEW i \in 1..Len(list), NEW j \in 1..Len(list), new[i].do = "B", new[j].do = "B", j < i PROVE new[i].u[2] # new[j].u[2]
    <2>1. new[i] = list[i] /\ new[j] = list[j] /\ AdjustAccepted(g, p, list[j]) /\ j \in 1..i - 1
      BY <1>2, <1>6, <1>8
    <2>2. ~SamePlace(list[j], list[i])
      BY <1>6, <1>8, <2>1
    <2>. QED  BY <1>8, <2>1, <2>2 DEF SamePlace
  <1>9. ASSUME NEW i \in 1..Len(list), NEW j \in 1..Len(list), new[i].do = "B", new[j].do = "B", new[i].u[2] = new[j].u[2] PROVE i = j
    BY <1>2, <1>8, <1>9
  <1>. QED  BY <1>5, <1>7, <1>9 DEF Proper, ToSet

\* What an entry is accepted for depends on the tables.
LEMMA SameAccepted ==
    ASSUME NEW g, NEW h, SameBoard(h, g), NEW p, NEW list, Proper(g, p, list)
    PROVE  Proper(h, p, list)
  <1>1. Board(h) = Board(g) /\ BuildSites(h, p) = BuildSites(g, p) /\ Surplus(h, p) = Surplus(g, p)
    BY SameToDo DEF SameBoard, Board
  <1>2. \A e : RetreatAccepted(h, p, e) <=> RetreatAccepted(g, p, e)
    BY <1>1 DEF RetreatAccepted, SameBoard
  <1>3. ASSUME NEW e, e.do = "B" PROVE AdjustAccepted(h, p, e) <=> AdjustAccepted(g, p, e)
    BY <1>1, <1>3 DEF AdjustAccepted
  <1>. QED  BY <1>2, <1>3 DEF Proper

LEMMA SetOrdersFits ==
    ASSUME NEW g, IsGame(g), SoundUnits(g.units), SoundCenters(g.centers), AdjustFits(g),
           NEW p \in Powers, NEW list \in Seq(Texts(g.phase.type)), NEW h, h = SetOrdersOf(g, p, list)
    PROVE  AdjustFits(h)
  <1>1. SameBoard(h, g)
    BY SetOrdersFields
  <1>2. DOMAIN g.adjust = Powers /\ \A q \in Powers : Proper(g, q, g.adjust[q])
    BY DEF AdjustFits
  <1>3. ASSUME NEW a, Proper(g, p, a), h = [g EXCEPT !.adjust[p] = a] PROVE AdjustFits(h)
    <2>1. h.adjust = [g.adjust EXCEPT ![p] = a]
      BY <1>3 DEF IsGame, Fields
    <2>2. DOMAIN h.adjust = Powers /\ \A q \in Powers : h.adjust[q] = IF q = p THEN a ELSE g.adjust[q]
      BY <1>2, <2>1
    <2>3. \A q \in Powers : Proper(g, q, h.adjust[q])
      BY <1>2, <1>3, <2>2
    <2>. QED  BY <1>1, <2>2, <2>3, SameAccepted DEF AdjustFits
  <1>4. CASE g.phase.type = "R"
    <2>1. PICK new : new = RetreatEntries(g, p, list)
      OBVIOUS
    <2>2. Proper(g, p, new)
      BY <1>4, <2>1, RetreatEntriesProper
    <2>3. PICK c : c = Replace(g.adjust[p], new)
      OBVIOUS
    <2>4. Proper(g, p, c)
      BY <1>2, <2>2, <2>3, ReplaceProper
    <2>5. PICK a : a = IF list = <<>> THEN <<>> ELSE c
      OBVIOUS
    <2>6. Proper(g, p, a)
      BY <2>4, <2>5, EmptyProper
    <2>7. h = AddRetreatOrders(g, p, list)
      BY <1>4 DEF SetOrdersOf
    <2>8. h = [g EXCEPT !.adjust[p] = a]
      BY <2>1, <2>3, <2>5, <2>7 DEF AddRetreatOrders, RetreatEntries
    <2>. QED  BY <1>3, <2>6, <2>8
  <1>5. CASE g.phase.type = "A"
    <2>1. PICK new : new = AdjustEntries(g, p, list)
      OBVIOUS
    <2>2. Proper(g, p, new)
      BY <1>5, <2>1, AdjustEntriesProper
    <2>3. PICK c : c = Replace(g.adjust[p], new)
      OBVIOUS
    <2>4. Proper(g, p, c)
      BY <1>2, <2>2, <2>3, ReplaceProper
    <2>5. PICK d : d = SetWaives(c, Need(g, p), p \in Dummies)
      OBVIOUS
    <2>6. Proper(g, p, d)
      BY <2>4, <2>5, FiniteLemma, WaivesProper
    <2>7. PICK a : a = IF list = <<>> THEN <<>> ELSE d
      OBVIOUS
    <2>8. Proper(g, p, a)
      BY <2>6, <2>7, EmptyProper
    <2>9. h = AddAdjustOrders(g, p, list)
      BY <1>5 DEF SetOrdersOf
    <2>10. h = [g EXCEPT !.adjust[p] = a]
      BY <2>1, <2>3, <2>5, <2>7, <2>9 DEF AddAdjustOrders, AdjustEntries
    <2>. QED  BY <1>3, <2>8, <2>10
  <1>6. CASE g.phase.type # "R" /\ g.phase.type # "A"
    <2>1. PICK a : h = [g EXCEPT !.orders[p] = a]
      BY <1>6 DEF SetOrdersOf, AddOrders
    <2>2. h.adjust = g.adjust
      BY <2>1 DEF IsGame, Fields
    <2>. QED  BY <1>1, <1>2, <2>2, SameAccepted DEF AdjustFits
  <1>. QED  BY <1>4, <1>5, <1>6
-----------------------------------------------------------------------------
(* The results of retreats and adjustments are good. *)

LEMMA UnitEqual ==
    ASSUME NEW u \in UnitType, NEW v \in UnitType, u.pow = v.pow, u.type = v.type, u.loc = v.loc
    PROVE  u = v
  BY DEF UnitType

LEMMA MakeUnit ==
    ASSUME NEW p \in Powers, NEW t \in Types, NEW l \in Locs, NEW w, w = [pow |-> p, type |-> t, loc |-> l]
    PROVE  w \in UnitType /\ w.pow = p /\ w.type = t /\ w.loc = l
  BY DEF UnitType

\* A unit that comes back was dislodged, and goes to a free province.
BackFrom(g, p, w, a) ==
    /\ a \in Done(g) /\ w.type = a.u[1] /\ w.loc = a.to
    /\ \E v \in DOMAIN g.retreats[p] : a.u = Name(v)
IsBack(g, p, w) ==
    /\ w \in UnitType /\ w.pow = p /\ ValidUnit(w.type, w.loc, FALSE) /\ Short[w.loc] \notin Provinces(Board(g))
    /\ \E a : BackFrom(g, p, w, a)

LEMMA BackLemma ==
    ASSUME NEW g, SoundRetreats(g.retreats), AdjustFits(g), NEW p \in Powers, NEW w \in Back(g, p)
    PROVE  IsBack(g, p, w)
  <1>1. PICK a \in Done(g) : a.p = p /\ w = [pow |-> p, type |-> a.u[1], loc |-> a.to]
    BY DEF Back
  <1>2. PICK e : e \in ToSet(g.adjust[p]) /\ e.do = "R" /\ a.u = e.u /\ a.to = e.to
    <2>1. PICK q \in Powers : \E e \in ToSet(g.adjust[q]) : e.do = "R" /\ a = [p |-> q, u |-> e.u, to |-> e.to]
      BY <1>1 DEF Done, RetreatOrders
    <2>2. PICK e \in ToSet(g.adjust[q]) : e.do = "R" /\ a = [p |-> q, u |-> e.u, to |-> e.to]
      BY <2>1
    <2>3. q = p
      BY <1>1, <2>2
    <2>. QED  BY <2>2, <2>3
  <1>3. a.u = e.u /\ a.to = e.to
    BY <1>2
  <1>4. RetreatAccepted(g, p, e)
    BY <1>2, <1>3 DEF AdjustFits, Proper
  <1>5. PICK v \in DOMAIN g.retreats[p] : Name(v) = e.u /\ e.to \in g.retreats[p][v] /\ Short[e.to] \notin Provinces(Board(g))
    BY <1>2, <1>4 DEF RetreatAccepted
  <1>6. e.to \in Locs /\ ValidUnit(v.type, e.to, FALSE)
    BY <1>5 DEF SoundRetreats
  <1>7. v \in UnitType /\ v.type \in Types
    <2>1. v \in Out(g.retreats)[p]
      BY <1>5 DEF Out
    <2>. QED  BY <2>1 DEF SoundRetreats, SoundUnits, UnitType
  <1>8. a.u[1] = v.type
    BY <1>3, <1>5 DEF Name
  <1>9. w \in UnitType /\ w.pow = p /\ w.type = v.type /\ w.loc = e.to
    BY <1>1, <1>3, <1>6, <1>7, <1>8, MakeUnit
  <1>10. BackFrom(g, p, w, a)
    BY <1>1, <1>3, <1>5, <1>8, <1>9 DEF BackFrom
  <1>. QED  BY <1>5, <1>6, <1>9, <1>10 DEF IsBack

\* No two units come back to one province.
LEMMA BackApart ==
    ASSUME NEW g, SoundRetreats(g.retreats), NEW p \in Powers, NEW q \in Powers, NEW v, NEW w,
           IsBack(g, p, v), IsBack(g, q, w), Short[v.loc] = Short[w.loc], p # q \/ v.loc = w.loc
    PROVE  p = q /\ v = w
  <1>1. PICK a : BackFrom(g, p, v, a)
    BY DEF IsBack
  <1>2. PICK b : BackFrom(g, q, w, b)
    BY DEF IsBack
  <1>3. a.u = b.u
    <2>. SUFFICES ASSUME b.u # a.u PROVE FALSE
      OBVIOUS
    <2>1. a \in RetreatOrders(g) /\ b \in RetreatOrders(g) /\ a.u \notin Failed(g)
      BY <1>1, <1>2 DEF BackFrom, Done
    <2>2. Short[b.to] = Short[a.to]
      BY <1>1, <1>2 DEF BackFrom
    <2>3. a \in Clashing(g)
      BY <2>1, <2>2 DEF Clashing
    <2>. QED  BY <2>1, <2>3 DEF Failed
  <1>4. p = q
    <2>1. PICK x \in DOMAIN g.retreats[p] : a.u = Name(x)
      BY <1>1 DEF BackFrom
    <2>2. PICK y \in DOMAIN g.retreats[q] : b.u = Name(y)
      BY <1>2 DEF BackFrom
    <2>3. x.loc = y.loc
      <3>1. Name(x) = Name(y)
        BY <1>3, <2>1, <2>2
      <3>2. Name(x)[2] = x.loc /\ Name(y)[2] = y.loc
        BY DEF Name
      <3>. QED  BY <3>1, <3>2
    <2>4. x \in Out(g.retreats)[p] /\ y \in Out(g.retreats)[q]
      BY <2>1, <2>2 DEF Out
    <2>. QED  BY <2>3, <2>4 DEF SoundRetreats, SoundUnits
  <1>5. v.loc = w.loc /\ v.type = w.type
    BY <1>1, <1>2, <1>3, <1>4 DEF BackFrom
  <1>. QED  BY <1>4, <1>5, UnitEqual DEF IsBack

\* Units that are put to free provinces, one in each, or at different places of one power.
Joined(f, n) == [p \in Powers |-> f[p] \cup n[p]]
LEMMA JoinSound ==
    ASSUME NEW f, SoundUnits(f), NEW n, SoundUnits(n),
           \A u \in AllOf(n) : Short[u.loc] \notin Provinces(AllOf(f))
    PROVE  SoundUnits(Joined(f, n))
  <1>. DEFINE h == Joined(f, n)
  <1>1. \A p \in Powers : h[p] = f[p] \cup n[p]
    BY DEF Joined
  <1>2. \A p, q \in Powers : \A u \in n[p], v \in f[q] : Short[u.loc] # Short[v.loc]
    BY DEF AllOf, Provinces
  <1>3. h \in [Powers -> SUBSET UnitType]
    <2>1. \A p \in Powers : f[p] \subseteq UnitType /\ n[p] \subseteq UnitType
      BY DEF SoundUnits
    <2>2. \A p \in Powers : h[p] \subseteq UnitType
      BY <1>1, <2>1
    <2>3. h = [p \in Powers |-> h[p]]
      BY DEF Joined
    <2>. QED  BY <2>2, <2>3
  <1>. HIDE DEF h
  <1>4. \A p \in Powers : \A u \in h[p] : u.pow = p /\ ValidUnit(u.type, u.loc, FALSE)
    <2>. SUFFICES ASSUME NEW p \in Powers, NEW u \in h[p] PROVE u.pow = p /\ ValidUnit(u.type, u.loc, FALSE)
      OBVIOUS
    <2>1. CASE u \in f[p]
      BY <2>1 DEF SoundUnits
    <2>2. CASE u \in n[p]
      BY <2>2 DEF SoundUnits
    <2>. QED  BY <1>1, <2>1, <2>2
  <1>5. \A p \in Powers : \A u, v \in h[p] : u.loc = v.loc => u = v
    <2>. SUFFICES ASSUME NEW p \in Powers, NEW u \in h[p], NEW v \in h[p], u.loc = v.loc PROVE u = v
      OBVIOUS
    <2>1. ~(u \in n[p] /\ v \in f[p]) /\ ~(v \in n[p] /\ u \in f[p])
      BY <1>2
    <2>2. (u \in f[p] /\ v \in f[p]) \/ (u \in n[p] /\ v \in n[p])
      BY <1>1, <2>1
    <2>. QED  BY <2>2 DEF SoundUnits
  <1>6. \A p, q \in Powers : p # q => \A u \in h[p], v \in h[q] : Short[u.loc] # Short[v.loc]
    <2>. SUFFICES ASSUME NEW p \in Powers, NEW q \in Powers, p # q, NEW u \in h[p], NEW v \in h[q] PROVE Short[u.loc] # Short[v.loc]
      OBVIOUS
    <2>1. CASE u \in f[p] /\ v \in f[q]
      BY <2>1 DEF SoundUnits
    <2>2. CASE u \in n[p] /\ v \in n[q]
      BY <2>2 DEF SoundUnits
    <2>3. CASE (u \in n[p] /\ v \in f[q]) \/ (u \in f[p] /\ v \in n[q])
      BY <1>2, <2>3
    <2>. QED  BY <1>1, <2>1, <2>2, <2>3
  <1>. QED  BY <1>3, <1>4, <1>5, <1>6 DEF SoundUnits, h

LEMMA BackSound ==
    ASSUME NEW g, SoundUnits(g.units), SoundRetreats(g.retreats), AdjustFits(g)
    PROVE  SoundUnits(BackUnits(g)) /\ Apart(Board(g), AllBack(g)) /\ AllBack(g) \subseteq UnitType
  <1>. DEFINE n == [p \in Powers |-> Back(g, p)]
  <1>1. \A p \in Powers : n[p] = Back(g, p)
    OBVIOUS
  <1>2. \A p \in Powers : \A w \in n[p] : IsBack(g, p, w)
    BY BackLemma
  <1>3. n \in [Powers -> SUBSET UnitType]
    <2>1. \A p \in Powers : n[p] \subseteq UnitType
      BY <1>2 DEF IsBack
    <2>2. n = [p \in Powers |-> n[p]]
      OBVIOUS
    <2>. HIDE DEF n
    <2>. QED  BY <2>1, <2>2
  <1>. HIDE DEF n
  <1>4. SoundUnits(n)
    <2>1. \A p \in Powers : \A w \in n[p] : w.pow = p /\ ValidUnit(w.type, w.loc, FALSE)
      BY <1>2 DEF IsBack
    <2>2. \A p \in Powers : \A v, w \in n[p] : v.loc = w.loc => v = w
      BY <1>2, BackApart
    <2>3. \A p, q \in Powers : p # q => \A v \in n[p], w \in n[q] : Short[v.loc] # Short[w.loc]
      BY <1>2, BackApart
    <2>. QED  BY <1>3, <2>1, <2>2, <2>3 DEF SoundUnits
  <1>5. AllOf(n) = AllBack(g) /\ AllOf(g.units) = Board(g)
    BY <1>1 DEF AllOf, AllBack, Board
  <1>6. \A w \in AllOf(n) : Short[w.loc] \notin Provinces(Board(g))
    BY <1>2 DEF AllOf, IsBack
  <1>7. SoundUnits(Joined(g.units, n))
    BY <1>4, <1>5, <1>6, JoinSound
  <1>8. Joined(g.units, n) = BackUnits(g)
    BY <1>1 DEF Joined, BackUnits
  <1>9. Apart(Board(g), AllBack(g))
    BY <1>5, <1>6 DEF Apart, Provinces
  <1>10. AllBack(g) \subseteq UnitType
    BY <1>3, <1>5 DEF AllOf
  <1>. QED  BY <1>7, <1>8, <1>9, <1>10

LEMMA RetreatGood ==
    ASSUME NEW g, Good(g), AdjustFits(g), NEW h, h = RetreatResults(g)
    PROVE  Good(h)
  <1>0. /\ IsGame(g) /\ SoundUnits(g.units) /\ SoundRetreats(g.retreats) /\ SoundCenters(g.centers) /\ Hashed(g)
        /\ g.influence \in [Powers -> SUBSET Locs] /\ g.outcome \subseteq Powers
    BY DEF Good, Position
  <1>1. /\ IsGame(h) /\ h.centers = g.centers /\ h.outcome = g.outcome
        /\ h.units = BackUnits(g) /\ h.retreats = [p \in Powers |-> <<>>]
        /\ h.influence = BackInfluence(g) /\ h.hash = BackHash(g)
    BY ONLY <1>0, h = RetreatResults(g), RetreatFields
  <1>2. SoundUnits(BackUnits(g)) /\ Apart(Board(g), AllBack(g)) /\ AllBack(g) \subseteq UnitType
    BY <1>0, BackSound
  <1>3. SoundRetreats(h.retreats) /\ Dislodged(h) = {}
    BY <1>1, NoRetreatsSound
  <1>4. h.influence \in [Powers -> SUBSET Locs]
    <2>1. \A p \in Powers : Back(g, p) \subseteq AllBack(g)
      BY DEF AllBack
    <2>2. \A p \in Powers : {u.loc : u \in Back(g, p)} \subseteq Locs
      BY <1>2, <2>1 DEF UnitType
    <2>3. \A p \in Powers : BackInfluence(g)[p] \subseteq Locs
      BY <1>0, <2>2 DEF BackInfluence, Visit
    <2>4. BackInfluence(g) = [p \in Powers |-> BackInfluence(g)[p]]
      BY DEF BackInfluence
    <2>. QED  BY <1>1, <2>3, <2>4
  <1>5. Hashed(h)
    <2>1. Board(h) = Board(g) \cup AllBack(g)
      <3>1. \A u : u \in Board(h) <=> \E p \in Powers : u \in g.units[p] \/ u \in Back(g, p)
        BY <1>1 DEF Board, BackUnits
      <3>. QED  BY <3>1 DEF Board, AllBack
    <2>2. BackHash(g) = Xor(Xor(g.hash, UnitKeys(AllBack(g))), DislodgedKeys(Dislodged(g)))
      BY DEF BackHash, Dislodged
    <2>3. Xor(g.hash, UnitKeys(AllBack(g))) = KeysOf(Board(h), Dislodged(g), g.centers)
      BY <1>0, <1>2, <2>1, RebuildLemma, UnitsCome DEF Hashed
    <2>4. BackHash(g) = KeysOf(Board(h), {}, g.centers)
      BY <2>2, <2>3, DislodgedGo
    <2>. QED  BY <1>1, <1>3, <2>4, RebuildLemma DEF Hashed
  <1>. QED  BY <1>0, <1>1, <1>2, <1>3, <1>4, <1>5 DEF Good, Position

\* A unit that is built stands on a center of its power, in a free province.
IsBuilt(g, p, w) ==
    /\ w \in UnitType /\ w.pow = p /\ ValidUnit(w.type, w.loc, FALSE)
    /\ Short[w.loc] \notin Provinces(Board(g)) /\ Short[w.loc] \in g.centers[p]
    /\ \E e \in ToSet(g.adjust[p]) : e.do = "B" /\ e.u[1] = w.type /\ e.u[2] = w.loc

LEMMA BuiltLemma ==
    ASSUME NEW g, AdjustFits(g), NEW p \in Powers, NEW w \in Built(g, p)
    PROVE  IsBuilt(g, p, w)
  <1>1. PICK e \in Counted(g, p) : e.do = "B" /\ w = [pow |-> p, type |-> e.u[1], loc |-> e.u[2]]
    BY DEF Built
  <1>2. e \in ToSet(g.adjust[p])
    BY DEF Counted, ToSet
  <1>3. AdjustAccepted(g, p, e)
    BY <1>1, <1>2 DEF AdjustFits, Proper
  <1>4. e.u \in Types \X Locs /\ Short[e.u[2]] \in BuildSites(g, p) /\ ValidUnit(e.u[1], e.u[2], FALSE)
    BY <1>1, <1>3 DEF AdjustAccepted
  <1>5. e.u[1] \in Types /\ e.u[2] \in Locs
    BY <1>4
  <1>6. w \in UnitType /\ w.pow = p /\ w.type = e.u[1] /\ w.loc = e.u[2]
    BY <1>1, <1>5, MakeUnit
  <1>7. Short[e.u[2]] \in g.centers[p] /\ Short[e.u[2]] \notin Provinces(Board(g))
    BY <1>4 DEF BuildSites
  <1>. QED  BY <1>1, <1>2, <1>4, <1>6, <1>7 DEF IsBuilt

LEMMA BuiltSound ==
    ASSUME NEW g, SoundUnits(g.units), SoundCenters(g.centers), AdjustFits(g)
    PROVE  SoundUnits(AdjustedUnits(g)) /\ Apart(Board(g), AllBuilt(g))
  <1>. DEFINE n == [p \in Powers |-> Built(g, p)]
              f == [p \in Powers |-> g.units[p] \ AllGone(g)]
  <1>1. \A p \in Powers : n[p] = Built(g, p) /\ f[p] = g.units[p] \ AllGone(g)
    OBVIOUS
  <1>2. \A p \in Powers : \A w \in n[p] : IsBuilt(g, p, w)
    BY BuiltLemma
  <1>3. n \in [Powers -> SUBSET UnitType] /\ f = [p \in Powers |-> f[p]]
    <2>1. \A p \in Powers : n[p] \subseteq UnitType
      BY <1>2 DEF IsBuilt
    <2>2. n = [p \in Powers |-> n[p]] /\ f = [p \in Powers |-> f[p]]
      OBVIOUS
    <2>. HIDE DEF n, f
    <2>. QED  BY <2>1, <2>2
  <1>. HIDE DEF n, f
  <1>4. SoundUnits(f)
    BY <1>1, <1>3, PartSound
  <1>5. SoundUnits(n)
    <2>1. \A p \in Powers : \A w \in n[p] : w.pow = p /\ ValidUnit(w.type, w.loc, FALSE)
      BY <1>2 DEF IsBuilt
    <2>2. ASSUME NEW p \in Powers, NEW v \in n[p], NEW w \in n[p], v.loc = w.loc PROVE v = w
      <3>0. IsBuilt(g, p, v) /\ IsBuilt(g, p, w)
        BY <1>2
      <3>1. PICK d \in ToSet(g.adjust[p]) : d.do = "B" /\ d.u[1] = v.type /\ d.u[2] = v.loc
        BY ONLY <3>0 DEF IsBuilt
      <3>2. PICK e \in ToSet(g.adjust[p]) : e.do = "B" /\ e.u[1] = w.type /\ e.u[2] = w.loc
        BY ONLY <3>0 DEF IsBuilt
      <3>3. d.u = e.u
        BY <2>2, <3>1, <3>2 DEF AdjustFits, Proper
      <3>4. v \in UnitType /\ w \in UnitType /\ v.pow = w.pow
        BY ONLY <3>0 DEF IsBuilt
      <3>. QED  BY <2>2, <3>1, <3>2, <3>3, <3>4, UnitEqual
    <2>3. ASSUME NEW p \in Powers, NEW q \in Powers, p # q, NEW v \in n[p], NEW w \in n[q]
          PROVE  Short[v.loc] # Short[w.loc]
      <3>1. IsBuilt(g, p, v) /\ IsBuilt(g, q, w)
        BY <1>2
      <3>2. Short[v.loc] \in g.centers[p] /\ Short[w.loc] \in g.centers[q]
        BY <3>1 DEF IsBuilt
      <3>3. g.centers[p] \cap g.centers[q] = {}
        BY <2>3 DEF SoundCenters
      <3>. QED  BY <3>2, <3>3
    <2>. QED  BY <1>3, <2>1, <2>2, <2>3 DEF SoundUnits
  <1>6. AllOf(n) = AllBuilt(g) /\ AllOf(f) \subseteq Board(g)
    BY <1>1 DEF AllOf, AllBuilt, Board
  <1>7. ASSUME NEW w \in AllOf(n) PROVE Short[w.loc] \notin Provinces(Board(g))
    <2>1. PICK p \in Powers : w \in n[p]
      BY DEF AllOf
    <2>2. IsBuilt(g, p, w)
      BY <1>2, <2>1
    <2>. QED  BY <2>2 DEF IsBuilt
  <1>8. \A w \in AllOf(n) : Short[w.loc] \notin Provinces(AllOf(f))
    BY <1>6, <1>7 DEF Provinces
  <1>9. SoundUnits(Joined(f, n))
    BY <1>4, <1>5, <1>8, JoinSound
  <1>10. Joined(f, n) = AdjustedUnits(g)
    <2>1. \A p \in Powers : {u \in AllBuilt(g) : u.pow = p} = n[p]
      <3>1. \A p \in Powers : \A w \in n[p] : w.pow = p
        BY <1>2 DEF IsBuilt
      <3>. QED  BY <1>6, <3>1 DEF AllOf
    <2>2. \A p \in Powers : f[p] \cup n[p] = (g.units[p] \ AllGone(g)) \cup {u \in AllBuilt(g) : u.pow = p}
      BY <1>1, <2>1
    <2>. QED  BY <2>2 DEF Joined, AdjustedUnits
  <1>11. Apart(Board(g), AllBuilt(g))
    BY <1>6, <1>7 DEF Apart, Provinces
  <1>. QED  BY <1>9, <1>10, <1>11

LEMMA AdjustGood ==
    ASSUME NEW g, Good(g), AdjustFits(g), NEW h, h = AdjustResults(g)
    PROVE  Good(h)
  <1>0. /\ IsGame(g) /\ SoundUnits(g.units) /\ SoundRetreats(g.retreats) /\ SoundCenters(g.centers) /\ Hashed(g)
        /\ g.influence \in [Powers -> SUBSET Locs] /\ g.outcome \subseteq Powers
    BY DEF Good, Position
  <1>1. /\ IsGame(h) /\ SameButLost(h, g) /\ h.centers = g.centers
        /\ h.units = AdjustedUnits(g) /\ h.retreats = [p \in Powers |-> <<>>] /\ h.hash = AdjustedHash(g)
    BY ONLY <1>0, h = AdjustResults(g), AdjustFields
  <1>2. SoundUnits(AdjustedUnits(g)) /\ Apart(Board(g), AllBuilt(g))
    BY <1>0, BuiltSound
  <1>3. SoundRetreats(h.retreats) /\ Dislodged(h) = {}
    BY <1>1, NoRetreatsSound
  <1>4. Hashed(h)
    <2>. DEFINE gone == AllGone(g)
                built == AllBuilt(g)
                rest == Board(g) \ gone
    <2>1. gone \subseteq Board(g)
      BY DEF AllGone, Disbanded, CivilDisorder, Board
    <2>2. Apart(rest, gone) /\ rest \cup gone = Board(g)
      BY <1>0, <2>1, PartApart DEF Board, AllOf
    <2>3. Apart(rest, built) /\ Apart(gone, built)
      BY <1>2, <2>1 DEF Apart
    <2>4. Board(h) = rest \cup built
      <3>1. \A u : u \in Board(h) <=> \E p \in Powers : (u \in g.units[p] /\ u \notin gone) \/ (u \in built /\ u.pow = p)
        BY <1>1 DEF Board, AdjustedUnits
      <3>2. ASSUME NEW u \in built PROVE u.pow \in Powers
        <4>1. PICK p \in Powers : u \in Built(g, p)
          BY DEF built, AllBuilt
        <4>2. IsBuilt(g, p, u)
          BY <4>1, BuiltLemma
        <4>. QED  BY <4>2 DEF IsBuilt
      <3>. QED  BY <3>1, <3>2 DEF Board
    <2>. HIDE DEF gone, built, rest
    <2>5. UnitKeys(built \cup gone) = Xor(UnitKeys(gone), UnitKeys(built))
      BY <2>3, KeysUnion, UnitKeysApart DEF Xor
    <2>6. Xor(g.hash, UnitKeys(gone)) = KeysOf(rest, Dislodged(g), g.centers)
      BY <1>0, <2>2, RebuildLemma, UnitsGo DEF Hashed
    <2>7. Xor(KeysOf(rest, Dislodged(g), g.centers), UnitKeys(built)) = KeysOf(rest \cup built, Dislodged(g), g.centers)
      BY <2>3, UnitsCome
    <2>8. Xor(g.hash, UnitKeys(built \cup gone)) = KeysOf(rest \cup built, Dislodged(g), g.centers)
      BY <2>5, <2>6, <2>7, XorAssoc
    <2>9. AdjustedHash(g) = Xor(Xor(g.hash, UnitKeys(built \cup gone)), DislodgedKeys(Dislodged(g)))
      BY DEF AdjustedHash, built, gone, Dislodged
    <2>10. AdjustedHash(g) = KeysOf(Board(h), {}, g.centers)
      BY <2>4, <2>8, <2>9, DislodgedGo
    <2>. QED  BY <1>1, <1>3, <2>10, RebuildLemma DEF Hashed
  <1>. QED  BY <1>0, <1>1, <1>2, <1>3, <1>4 DEF Good, Position, SameButLost
-----------------------------------------------------------------------------
(* The inductive invariant: a good game, whose dislodged units wait in a      *)
(* retreat phase, with entries that are accepted, and a good state saved.     *)

Waiting(g) == g.phase.type = "R" \/ NoRetreats(g)
IsState(s) == s = GetState(s) /\ Position(s) /\ Waiting(s)
SoundInv ==
    /\ PhaseInv /\ Good(game) /\ Waiting(game) /\ AdjustFits(game)
    /\ saved # NoState => IsState(saved)

LEMMA TypesOfPhases ==
    ASSUME NEW g, NEW i \in 2..6, NEW y \in Nat, g.phase = At(i, y)
    PROVE  /\ i \in {2, 4} => g.phase.type = "M"
           /\ i \in {3, 5} => g.phase.type = "R"
           /\ i = 6 => g.phase.type = "A"
  BY FlowLemma DEF Phase

LEMMA NoAdjustFits ==
    ASSUME NEW g, g.adjust = [p \in Powers |-> <<>>]
    PROVE  AdjustFits(g)
  BY EmptyProper DEF AdjustFits

LEMMA SoundInitLemma == Init => SoundInv
  <1>. SUFFICES ASSUME Init PROVE SoundInv
    OBVIOUS
  <1>1. PICK s \in Setups : game = NewGame(s)
    BY DEF Init
  <1>2. /\ IsGame(game) /\ game.units = s.units /\ game.centers = s.centers
        /\ game.retreats = [p \in Powers |-> <<>>] /\ game.influence = [p \in Powers |-> Provinces(s.units[p])]
        /\ game.adjust = [p \in Powers |-> <<>>] /\ game.outcome = {} /\ game.hash = RebuildHash(game)
    BY <1>1, NewGameFields
  <1>3. SoundUnits(game.units)
    <2>. DEFINE f == s.units
    <2>1. f \in [Powers -> SUBSET UnitType]
      BY SetupsAssumption
    <2>2. \A p \in Powers : \A u \in f[p] : u.pow = p /\ ValidUnit(u.type, u.loc, FALSE)
      BY SetupsAssumption
    <2>3. \A p, q \in Powers : \A u \in f[p], v \in f[q] : Short[u.loc] = Short[v.loc] => u = v
      BY SetupsAssumption
    <2>4. game.units = f
      BY <1>2
    <2>. HIDE DEF f
    <2>5. ASSUME NEW p \in Powers, NEW u \in f[p], NEW v \in f[p], u.loc = v.loc PROVE u = v
      BY ONLY <2>3, <2>5
    <2>6. ASSUME NEW p \in Powers, NEW q \in Powers, p # q, NEW u \in f[p], NEW v \in f[q] PROVE Short[u.loc] # Short[v.loc]
      <3>1. u.pow # v.pow
        BY ONLY <2>2, <2>6
      <3>. QED  BY ONLY <2>3, <2>6, <3>1
    <2>7. SoundUnits(f)
      BY ONLY <2>1, <2>2, <2>5, <2>6 DEF SoundUnits
    <2>. QED  BY <2>4, <2>7
  <1>4. SoundCenters(game.centers)
    BY <1>2, SetupsAssumption DEF SoundCenters
  <1>5. SoundRetreats(game.retreats) /\ NoRetreats(game)
    BY <1>2, NoRetreatsSound
  <1>6. game.influence \in [Powers -> SUBSET Locs]
    <2>0. s.units \in [Powers -> SUBSET UnitType]
      BY ONLY s \in Setups, SetupsAssumption
    <2>1. \A p \in Powers : s.units[p] \subseteq UnitType
      BY ONLY <2>0
    <2>2. \A p \in Powers : Provinces(s.units[p]) \subseteq Locs
      BY <2>1, ProvincesLemma
    <2>. QED  BY <1>2, <2>2
  <1>7. Good(game)
    BY <1>2, <1>3, <1>4, <1>5, <1>6 DEF Good, Position, Hashed
  <1>8. AdjustFits(game)
    BY <1>2, NoAdjustFits
  <1>9. saved = NoState
    BY DEF Init
  <1>. QED  BY <1>5, <1>7, <1>8, <1>9, PhaseInitLemma DEF SoundInv, Waiting

\* A processing, once the moves are settled.
LEMMA ProcessGood ==
    ASSUME HomesApart, SoundInv, MovesAreSettled, Process
    PROVE  Good(game') /\ Waiting(game') /\ AdjustFits(game')
  <1>0. Good(game) /\ Waiting(game) /\ AdjustFits(game) /\ InPhase(game) /\ IsGame(game)
    BY DEF SoundInv, PhaseInv, InPhase
  <1>1. PICK i \in 2..6, y \in Nat : game.phase = At(i, y) /\ InTime(i, y)
    BY <1>0, InPlay DEF Process
  <1>2. /\ game' = NextPhase(Results(game)) /\ Reached(Results(game), i, y, game')
        /\ game'.adjust = [p \in Powers |-> <<>>]
    BY <1>0, <1>1, ProcessReaches
  <1>3. /\ i \in {2, 4} => game.phase.type = "M"
        /\ i \in {3, 5} => game.phase.type = "R"
        /\ i = 6 => game.phase.type = "A"
    BY <1>1, TypesOfPhases
  <1>4. PICK h : h = Results(game)
    OBVIOUS
  <1>5. Good(h)
    <2>1. CASE i \in {2, 4}
      <3>1. PICK r : r = Resolved(game)
        OBVIOUS
      <3>2. Settled(r, Board(game)) /\ NoRetreats(game)
        BY <1>0, <1>3, <2>1, <3>1 DEF MovesAreSettled, Waiting
      <3>3. h = MoveUnits(game, r)
        BY <1>0, <1>1, <1>4, <2>1, <3>1, ResultsLemma DEF MoveResults
      <3>. QED  BY <1>0, <3>2, <3>3, MoveGood
    <2>2. CASE i \in {3, 5}
      <3>1. h = RetreatResults(game)
        BY <1>0, <1>1, <1>4, <2>2, ResultsLemma
      <3>. QED  BY <1>0, <3>1, RetreatGood
    <2>3. CASE i = 6
      <3>1. h = AdjustResults(game)
        BY <1>0, <1>1, <1>4, <2>3, ResultsLemma
      <3>. QED  BY <1>0, <3>1, AdjustGood
    <2>. QED  BY <2>1, <2>2, <2>3
  <1>6. Good(game')
    BY <1>2, <1>4, <1>5, NextPhaseGood
  <1>7. Waiting(game')
    <2>1. CASE NoRetreats(game')
      BY <2>1 DEF Waiting
    <2>2. CASE ~NoRetreats(game')
      <3>1. PICK j \in 2..6, z \in Nat : game'.phase = At(j, z) /\ Fits(game', j)
        BY <1>2, <2>2 DEF Reached
      <3>2. j \in {3, 5}
        BY <2>2, <3>1 DEF Fits
      <3>. QED  BY <3>1, <3>2, TypesOfPhases DEF Waiting
    <2>. QED  BY <2>1, <2>2
  <1>. QED  BY <1>2, <1>6, <1>7, NoAdjustFits

LEMMA SoundStepLemma == HomesApart /\ SoundInv /\ MovesAreSettled /\ [Next]_vars => SoundInv'
  <1>. SUFFICES ASSUME HomesApart, SoundInv, MovesAreSettled, [Next]_vars PROVE SoundInv'
    OBVIOUS
  <1>0. /\ PhaseInv' /\ Good(game) /\ Waiting(game) /\ AdjustFits(game) /\ (saved # NoState => IsState(saved))
        /\ IsGame(game) /\ game.outcome \subseteq Powers
    BY PhaseStepLemma DEF SoundInv, Good
  <1>1. CASE UNCHANGED vars
    BY <1>0, <1>1 DEF vars, SoundInv
  <1>2. ASSUME NEW p \in Powers, SetOrders(p) PROVE SoundInv'
    <2>1. PICK list \in Seq(Texts(game.phase.type)) : game' = SetOrdersOf(game, p, list)
      BY <1>2 DEF SetOrders
    <2>2. /\ IsGame(game') /\ game'.phase = game.phase /\ SameBoard(game', game) /\ game'.influence = game.influence
          /\ game'.hash = game.hash /\ game'.outcome = game.outcome
      BY <1>0, <2>1, SetOrdersFields
    <2>3. Good(game')
      BY <1>0, <2>2, SameGood
    <2>4. AdjustFits(game')
      BY <1>0, <2>1, SetOrdersFits DEF Good, Position
    <2>5. Waiting(game')
      BY <1>0, <2>2 DEF Waiting, NoRetreats, SameBoard
    <2>6. saved' = saved
      BY <1>2 DEF SetOrders
    <2>. QED  BY <1>0, <2>3, <2>4, <2>5, <2>6 DEF SoundInv
  <1>3. CASE Process
    <2>1. saved' = saved
      BY <1>3 DEF Process
    <2>. QED  BY <1>0, <1>3, <2>1, ProcessGood DEF SoundInv
  <1>4. CASE Draw
    <2>1. Good(game') /\ NoRetreats(game') /\ AdjustFits(game')
      BY <1>0, <1>4, DrawFields, ClearedGood, NoRetreatsLemma, NoAdjustFits DEF Cleared
    <2>2. saved' = saved
      BY <1>4 DEF Draw
    <2>. QED  BY <1>0, <2>1, <2>2 DEF SoundInv, Waiting
  <1>5. CASE Save
    <2>1. game' = game /\ saved' = GetState(game)
      BY <1>5 DEF Save
    <2>2. IsState(saved')
      <3>1. PICK s : s = GetState(game)
        OBVIOUS
      <3>2. /\ s.phase = game.phase /\ s.units = game.units /\ s.retreats = game.retreats /\ s.centers = game.centers
            /\ s.influence = game.influence
        BY <3>1 DEF GetState
      <3>3. s = GetState(s)
        BY <3>1, <3>2 DEF GetState
      <3>4. Position(s) /\ Waiting(s)
        BY <1>0, <3>2 DEF Good, Position, Waiting, NoRetreats
      <3>. QED  BY <2>1, <3>1, <3>3, <3>4 DEF IsState
    <2>. QED  BY <1>0, <2>1, <2>2 DEF SoundInv
  <1>6. CASE SetState
    <2>1. game' = SetStateOf(game, saved) /\ saved' = saved /\ IsState(saved)
      BY <1>0, <1>6 DEF SetState
    <2>2. Ready(game, saved)
      BY <1>0, <2>1 DEF Ready, Good, Position, IsState, IsTable, SoundUnits, SoundRetreats, SoundCenters
    <2>3. /\ IsGame(game') /\ game'.phase = saved.phase /\ game'.influence = saved.influence /\ game'.outcome = game.outcome
          /\ game'.adjust = [p \in Powers |-> <<>>] /\ game'.hash = RebuildHash(game')
          /\ game'.units = saved.units /\ game'.retreats = saved.retreats /\ game'.centers = saved.centers
      BY <1>0, <2>1, <2>2, SetStateFields
    <2>4. Good(game') /\ Waiting(game')
      BY <1>0, <2>1, <2>3 DEF Good, Position, Hashed, IsState, Waiting, NoRetreats
    <2>. QED  BY <1>0, <2>1, <2>3, <2>4, NoAdjustFits DEF SoundInv
  <1>. QED  BY <1>1, <1>2, <1>3, <1>4, <1>5, <1>6 DEF Next

\* The invariant says that the hash is current, and that the saved state can be put back.
LEMMA HashLemma == SoundInv => HashIsCurrent
  BY DEF SoundInv, Good, Hashed, HashIsCurrent

LEMMA RestoreLemma == SoundInv => RestoreIsExact
  <1>. SUFFICES ASSUME SoundInv, saved # NoState PROVE GetState(SetStateOf(game, saved)) = saved
    BY DEF RestoreIsExact
  <1>1. Good(game) /\ IsState(saved) /\ IsGame(game)
    BY DEF SoundInv, Good
  <1>2. PICK h : h = SetStateOf(game, saved)
    OBVIOUS
  <1>3. Ready(game, saved)
    BY <1>1 DEF Ready, Good, Position, IsState, IsTable, SoundUnits, SoundRetreats, SoundCenters
  <1>4. /\ h.phase = saved.phase /\ h.influence = saved.influence
        /\ h.units = saved.units /\ h.retreats = saved.retreats /\ h.centers = saved.centers
    BY <1>1, <1>2, <1>3, SetStateFields
  <1>5. GetState(h) = GetState(saved)
    BY <1>4 DEF GetState
  <1>. QED  BY <1>1, <1>2, <1>5 DEF IsState
-----------------------------------------------------------------------------
(* One unit in a province, under the influence of its power.                  *)

\* The units of one power are in different provinces; and what InfluenceIsLast says.
Alone(f) == \A p \in Powers : \A u, v \in f[p] : Short[u.loc] = Short[v.loc] => u = v
Influenced(f, infl) ==
    /\ \A p, q \in Powers : p # q => infl[p] \cap infl[q] = {}
    /\ \A p \in Powers : \A u \in f[p] : Short[u.loc] \in infl[p] \cup Homes[p]
Tidy(g) == Alone(g.units) /\ Influenced(g.units, g.influence)

\* Units that come to provinces without one, a province each.
Come(f, n) ==
    /\ \A p, q \in Powers : p # q => \A u \in n[p], v \in n[q] : Short[u.loc] # Short[v.loc]
    /\ \A u \in AllOf(n) : Short[u.loc] \notin Provinces(AllOf(f))

LEMMA AloneLemma ==
    ASSUME NEW f, NEW n, Alone(f), Alone(n), Come(f, n)
    PROVE  Alone(Joined(f, n))
  <1>. SUFFICES ASSUME NEW p \in Powers, NEW u \in f[p] \cup n[p], NEW v \in f[p] \cup n[p], Short[u.loc] = Short[v.loc] PROVE u = v
    BY DEF Alone, Joined
  <1>1. ~(u \in n[p] /\ v \in f[p]) /\ ~(v \in n[p] /\ u \in f[p])
    BY DEF Come, AllOf, Provinces
  <1>. QED  BY <1>1 DEF Alone

Visited(infl, n) == [p \in Powers |-> Visit(infl[p], Provinces(AllOf(n)), Provinces(n[p]))]
LEMMA VisitLemma ==
    ASSUME NEW f, NEW n, Come(f, n), NEW infl, Influenced(f, infl)
    PROVE  Influenced(Joined(f, n), Visited(infl, n))
  <1>. DEFINE i == Visited(infl, n)
              all == Provinces(AllOf(n))
  <1>1. \A p \in Powers : i[p] = (infl[p] \ all) \cup Provinces(n[p])
    BY DEF Visited, Visit
  <1>2. \A p \in Powers : Provinces(n[p]) \subseteq all
    BY DEF Provinces, AllOf
  <1>3. \A p, q \in Powers : p # q => Provinces(n[p]) \cap Provinces(n[q]) = {}
    BY DEF Provinces, Come
  <1>4. \A p, q \in Powers : p # q => infl[p] \cap infl[q] = {}
    BY DEF Influenced
  <1>. HIDE DEF i, all
  <1>5. ASSUME NEW p \in Powers, NEW q \in Powers, p # q PROVE i[p] \cap i[q] = {}
    <2>1. infl[p] \cap infl[q] = {} /\ Provinces(n[p]) \cap Provinces(n[q]) = {}
      BY <1>3, <1>4, <1>5
    <2>2. i[p] = (infl[p] \ all) \cup Provinces(n[p]) /\ i[q] = (infl[q] \ all) \cup Provinces(n[q])
      BY <1>1
    <2>3. Provinces(n[p]) \subseteq all /\ Provinces(n[q]) \subseteq all
      BY <1>2
    <2>. QED  BY ONLY <2>1, <2>2, <2>3
  <1>6. ASSUME NEW p \in Powers, NEW u \in f[p] \cup n[p] PROVE Short[u.loc] \in i[p] \cup Homes[p]
    <2>1. CASE u \in n[p]
      BY <1>1, <2>1 DEF Provinces
    <2>2. CASE u \in f[p]
      <3>1. Short[u.loc] \notin all
        BY <2>2 DEF Come, AllOf, Provinces, all
      <3>2. Short[u.loc] \in infl[p] \cup Homes[p]
        BY <2>2 DEF Influenced
      <3>. QED  BY <1>1, <3>1, <3>2
    <2>. QED  BY <1>6, <2>1, <2>2
  <1>. QED  BY <1>5, <1>6 DEF Influenced, Joined, i

LEMMA MoveTidy ==
    ASSUME NEW g, Good(g), Tidy(g), NEW r, Settled(r, Board(g)), NEW h, h = MoveUnits(g, r)
    PROVE  Tidy(h)
  <1>. DEFINE f == [p \in Powers |-> Staying(g, r, p)]
              n == [p \in Powers |-> Coming(g, r, p)]
  <1>1. h.units = MovedUnits(g, r) /\ h.influence = MovedInfluence(g, r)
    BY MoveFields DEF Good
  <1>2. \A p \in Powers : f[p] = Staying(g, r, p) /\ n[p] = Coming(g, r, p)
    OBVIOUS
  <1>. HIDE DEF f, n
  <1>3. /\ \A u, v \in Board(g) : u \in Moved(r) /\ v \notin Beaten(r) \cup Moved(r) => Short[Arrived(r, u).loc] # Short[v.loc]
        /\ \A u, v \in Moved(r) : u # v => Short[Arrived(r, u).loc] # Short[Arrived(r, v).loc]
        /\ \A p \in Powers : \A u \in g.units[p] : u.pow = p /\ u \in Board(g)
    <2>1. SoundUnits(g.units)
      BY DEF Good, Position
    <2>2. \A p \in Powers : \A u \in g.units[p] : u.pow = p /\ u \in Board(g)
      BY <2>1 DEF SoundUnits, Board
    <2>. QED  BY <2>1, <2>2, SettledUnits
  <1>4. \A p \in Powers : \A w \in n[p] : \E u \in Moved(r) : u \in g.units[p] /\ w = Arrived(r, u)
    BY <1>2 DEF Coming
  <1>5. \A p \in Powers : \A w \in f[p] : w \in g.units[p] /\ w \notin Beaten(r) \cup Moved(r)
    BY <1>2 DEF Staying
  <1>6. Alone(f) /\ Influenced(f, g.influence)
    BY <1>5 DEF Tidy, Alone, Influenced
  <1>7. Alone(n)
    <2>. SUFFICES ASSUME NEW p \in Powers, NEW v \in n[p], NEW w \in n[p], Short[v.loc] = Short[w.loc] PROVE v = w
      BY DEF Alone
    <2>1. PICK t \in Moved(r) : v = Arrived(r, t)
      BY <1>4
    <2>2. PICK u \in Moved(r) : w = Arrived(r, u)
      BY <1>4
    <2>3. t = u
      BY <1>3, <2>1, <2>2
    <2>. QED  BY <2>1, <2>2, <2>3
  <1>8. Come(f, n)
    <2>1. ASSUME NEW p \in Powers, NEW q \in Powers, p # q, NEW v \in n[p], NEW w \in n[q] PROVE Short[v.loc] # Short[w.loc]
      <3>1. PICK t \in Moved(r) : t \in g.units[p] /\ v = Arrived(r, t)
        BY <1>4
      <3>2. PICK u \in Moved(r) : u \in g.units[q] /\ w = Arrived(r, u)
        BY <1>4
      <3>3. t # u
        BY <1>3, <2>1, <3>1, <3>2
      <3>. QED  BY <1>3, <3>1, <3>2, <3>3
    <2>2. ASSUME NEW p \in Powers, NEW q \in Powers, NEW v \in n[p], NEW w \in f[q] PROVE Short[v.loc] # Short[w.loc]
      <3>1. PICK t \in Moved(r) : t \in g.units[p] /\ v = Arrived(r, t)
        BY <1>4
      <3>. QED  BY <1>3, <1>5, <3>1
    <2>. QED  BY <2>1, <2>2 DEF Come, AllOf, Provinces
  <1>9. h.units = Joined(f, n)
    BY <1>1, <1>2 DEF Joined, MovedUnits
  <1>10. h.influence = Visited(g.influence, n)
    <2>1. AllOf(n) = Arrivals(g, r)
      BY <1>2 DEF AllOf, Arrivals
    <2>. QED  BY <1>1, <1>2, <2>1 DEF Visited, MovedInfluence
  <1>. QED  BY <1>6, <1>7, <1>8, <1>9, <1>10, AloneLemma, VisitLemma DEF Tidy

\* Two orders of a power for one province would build there twice, and a fleet
\* that retreats to a coast leaves its influence on the coast.
Plain(g) ==
    \A p \in Powers :
        /\ \A d, e \in ToSet(g.adjust[p]) : d.do = "B" /\ e.do = "B" /\ Short[d.u[2]] = Short[e.u[2]] => d.u = e.u
        /\ \A e \in ToSet(g.adjust[p]) : e.do = "R" => Short[e.to] = e.to

LEMMA RetreatTidy ==
    ASSUME NEW g, Good(g), Tidy(g), AdjustFits(g), Plain(g), NEW h, h = RetreatResults(g)
    PROVE  Tidy(h)
  <1>. DEFINE n == [p \in Powers |-> Back(g, p)]
  <1>0. /\ IsGame(g) /\ SoundUnits(g.units) /\ SoundRetreats(g.retreats)
    BY DEF Good, Position
  <1>1. h.units = BackUnits(g) /\ h.influence = BackInfluence(g)
    BY ONLY <1>0, h = RetreatResults(g), RetreatFields
  <1>2. \A p \in Powers : n[p] = Back(g, p)
    OBVIOUS
  <1>. HIDE DEF n
  <1>3. \A p \in Powers : \A w \in n[p] : IsBack(g, p, w)
    BY <1>0, <1>2, BackLemma
  <1>4. ASSUME NEW p \in Powers, NEW w \in n[p] PROVE Short[w.loc] = w.loc
    <2>1. PICK a : BackFrom(g, p, w, a)
      BY <1>3 DEF IsBack
    <2>2. a \in RetreatOrders(g) /\ w.loc = a.to
      BY <2>1 DEF BackFrom, Done
    <2>3. PICK q \in Powers : \E e \in ToSet(g.adjust[q]) : e.do = "R" /\ a = [p |-> q, u |-> e.u, to |-> e.to]
      BY <2>2 DEF RetreatOrders
    <2>4. PICK e \in ToSet(g.adjust[q]) : e.do = "R" /\ a.to = e.to
      BY <2>3
    <2>. QED  BY <2>2, <2>4 DEF Plain
  <1>5. ASSUME NEW p \in Powers, NEW q \in Powers, NEW v \in n[p], NEW w \in n[q], Short[v.loc] = Short[w.loc] PROVE p = q /\ v = w
    <2>1. v.loc = w.loc
      BY <1>4, <1>5
    <2>. QED  BY <1>0, <1>3, <1>5, <2>1, BackApart
  <1>6. Alone(n)
    BY <1>5 DEF Alone
  <1>7. Come(g.units, n)
    <2>1. \A p, q \in Powers : p # q => \A u \in n[p], v \in n[q] : Short[u.loc] # Short[v.loc]
      BY <1>5
    <2>2. AllOf(g.units) = Board(g)
      BY DEF AllOf, Board
    <2>3. \A u \in AllOf(n) : Short[u.loc] \notin Provinces(Board(g))
      BY <1>3 DEF AllOf, IsBack
    <2>. QED  BY <2>1, <2>2, <2>3 DEF Come
  <1>8. h.units = Joined(g.units, n)
    BY <1>1, <1>2 DEF Joined, BackUnits
  <1>9. h.influence = Visited(g.influence, n)
    <2>1. AllOf(n) = AllBack(g)
      BY <1>2 DEF AllOf, AllBack
    <2>2. \A p \in Powers : Provinces(n[p]) = {u.loc : u \in Back(g, p)}
      BY <1>2, <1>4 DEF Provinces
    <2>3. Provinces(AllOf(n)) = {u.loc : u \in AllBack(g)}
      <3>1. \A w \in AllOf(n) : Short[w.loc] = w.loc
        BY <1>4 DEF AllOf
      <3>. QED  BY <2>1, <3>1 DEF Provinces
    <2>. QED  BY <1>1, <2>2, <2>3 DEF Visited, BackInfluence
  <1>. QED  BY <1>6, <1>7, <1>8, <1>9, AloneLemma, VisitLemma DEF Tidy

LEMMA AdjustTidy ==
    ASSUME "BUILD_ANY" \notin Rules, NEW g, Good(g), Tidy(g), AdjustFits(g), Plain(g), NEW h, h = AdjustResults(g)
    PROVE  Tidy(h)
  <1>. DEFINE f == [p \in Powers |-> g.units[p] \ AllGone(g)]
              n == [p \in Powers |-> Built(g, p)]
  <1>0. IsGame(g) /\ SoundUnits(g.units) /\ SoundCenters(g.centers)
    BY DEF Good, Position
  <1>1. h.units = AdjustedUnits(g) /\ h.influence = g.influence
    BY ONLY <1>0, h = AdjustResults(g), AdjustFields DEF SameButLost
  <1>2. \A p \in Powers : f[p] = g.units[p] \ AllGone(g) /\ n[p] = Built(g, p)
    OBVIOUS
  <1>. HIDE DEF f, n
  <1>3. \A p \in Powers : \A w \in n[p] : IsBuilt(g, p, w)
    BY <1>2, BuiltLemma
  <1>4. ASSUME NEW p \in Powers, NEW w \in n[p] PROVE Short[w.loc] \in Homes[p]
    <2>0. IsBuilt(g, p, w)
      BY <1>3
    <2>1. PICK e \in ToSet(g.adjust[p]) : e.do = "B" /\ e.u[2] = w.loc
      BY <2>0 DEF IsBuilt
    <2>2. AdjustAccepted(g, p, e)
      BY <2>1 DEF AdjustFits, Proper
    <2>3. Short[w.loc] \in BuildSites(g, p)
      BY <2>1, <2>2 DEF AdjustAccepted
    <2>. QED  BY <2>3 DEF BuildSites
  <1>5. Alone(n)
    <2>. SUFFICES ASSUME NEW p \in Powers, NEW v \in n[p], NEW w \in n[p], Short[v.loc] = Short[w.loc] PROVE v = w
      BY DEF Alone
    <2>0. IsBuilt(g, p, v) /\ IsBuilt(g, p, w)
      BY <1>3
    <2>1. PICK d \in ToSet(g.adjust[p]) : d.do = "B" /\ d.u[1] = v.type /\ d.u[2] = v.loc
      BY ONLY <2>0 DEF IsBuilt
    <2>2. PICK e \in ToSet(g.adjust[p]) : e.do = "B" /\ e.u[1] = w.type /\ e.u[2] = w.loc
      BY ONLY <2>0 DEF IsBuilt
    <2>3. d.u = e.u
      BY <2>1, <2>2 DEF Plain
    <2>4. v \in UnitType /\ w \in UnitType /\ v.pow = w.pow
      BY ONLY <2>0 DEF IsBuilt
    <2>. QED  BY <2>1, <2>2, <2>3, <2>4, UnitEqual
  <1>6. Come(f, n)
    <2>1. ASSUME NEW p \in Powers, NEW q \in Powers, p # q, NEW v \in n[p], NEW w \in n[q] PROVE Short[v.loc] # Short[w.loc]
      <3>0. IsBuilt(g, p, v) /\ IsBuilt(g, q, w)
        BY <1>3
      <3>1. Short[v.loc] \in g.centers[p] /\ Short[w.loc] \in g.centers[q]
        BY ONLY <3>0 DEF IsBuilt
      <3>2. g.centers[p] \cap g.centers[q] = {}
        BY <1>0, <2>1 DEF SoundCenters
      <3>. QED  BY <3>1, <3>2
    <2>2. ASSUME NEW p \in Powers, NEW w \in n[p], NEW q \in Powers, NEW v \in f[q] PROVE Short[w.loc] # Short[v.loc]
      <3>1. IsBuilt(g, p, w) /\ v \in g.units[q]
        BY <1>2, <1>3
      <3>2. Short[w.loc] \notin Provinces(Board(g)) /\ v \in Board(g)
        BY <3>1 DEF IsBuilt, Board
      <3>. QED  BY <3>2 DEF Provinces
    <2>. QED  BY <2>1, <2>2 DEF Come, AllOf, Provinces
  <1>7. h.units = Joined(f, n)
    <2>1. AllBuilt(g) = AllOf(n)
      BY <1>2 DEF AllOf, AllBuilt
    <2>2. \A p \in Powers : \A w \in n[p] : w.pow = p
      BY <1>3 DEF IsBuilt
    <2>3. \A p \in Powers : {u \in AllOf(n) : u.pow = p} = n[p]
      BY <2>2 DEF AllOf
    <2>. QED  BY <1>1, <1>2, <2>1, <2>3 DEF Joined, AdjustedUnits
  <1>8. Alone(f)
    BY <1>2 DEF Tidy, Alone
  <1>9. Influenced(h.units, g.influence)
    <2>1. \A p, q \in Powers : p # q => g.influence[p] \cap g.influence[q] = {}
      BY DEF Tidy, Influenced
    <2>2. ASSUME NEW p \in Powers, NEW u \in f[p] \cup n[p] PROVE Short[u.loc] \in g.influence[p] \cup Homes[p]
      BY <1>2, <1>4, <2>2 DEF Tidy, Influenced
    <2>. QED  BY <1>7, <2>1, <2>2 DEF Influenced, Joined
  <1>. QED  BY <1>1, <1>5, <1>6, <1>7, <1>8, <1>9, AloneLemma DEF Tidy

\* The next phase is found without touching the units.
SameUnits(h, g) ==
    h.units = g.units /\ h.influence = g.influence /\ h.popped = g.popped /\ h.dislodged = g.dislodged
LEMMA WalkKeeps ==
    ASSUME NEW x, IsGame(x.g), NEW z, z = AdvanceStep(x)
    PROVE  IsGame(z.g) /\ SameUnits(z.g, x.g)
  <1>1. CASE ~x.go
    BY <1>1 DEF AdvanceStep, SameUnits
  <1>2. CASE x.go
    <2>1. PICK f, g : f = x.g /\ g = [f EXCEPT !.phase = FindNextPhase(@)] /\ z = CheckPhase(g)
      BY <1>2 DEF AdvanceStep
    <2>2. IsGame(g) /\ SameUnits(g, f)
      <3>1. g = [f EXCEPT !.phase = FindNextPhase(f.phase)] /\ IsGame(f)
        BY <2>1
      <3>. QED  BY ONLY <3>1, PhaseFields DEF SameBoard, SameUnits
    <2>3. PICK c, h : c = ClearRetreats(g) /\ h = CaptureCenters(g)
      OBVIOUS
    <2>4. z.g = g \/ z.g = c \/ z.g = h
      <3>1. z = Skip(c) \/ z = Skip(h) \/ z = [g |-> h, go |-> FALSE] \/ z = [g |-> g, go |-> FALSE]
        BY <2>1, <2>3 DEF CheckPhase
      <3>. QED  BY <3>1 DEF Skip
    <2>5. IsGame(c) /\ SameUnits(c, g)
      <3>1. IsGame(g) /\ c = ClearRetreats(g)
        BY ONLY <2>2, <2>3
      <3>2. IsGame(c) /\ SameRest(c, g) /\ c.units = g.units
        BY ONLY <3>1, ClearRetreatsFields
      <3>. QED  BY ONLY <3>2 DEF SameRest, SameUnits
    <2>6. IsGame(h) /\ SameUnits(h, g)
      BY ONLY <2>2, <2>3, CaptureFields DEF SameUnits
    <2>. QED  BY <2>1, <2>2, <2>4, <2>5, <2>6 DEF SameUnits
  <1>. QED  BY <1>1, <1>2

LEMMA NextPhaseKeeps ==
    ASSUME NEW g, IsGame(g), NEW h, h = NextPhase(g)
    PROVE  SameUnits(h, g)
  <1>. DEFINE x0 == First(g)
              x1 == AdvanceStep(x0)
              x2 == AdvanceStep(x1)
              x3 == AdvanceStep(x2)
              x4 == AdvanceStep(x3)
              x5 == AdvanceStep(x4)
              x6 == AdvanceStep(x5)
              Kept(x) == IsGame(x.g) /\ SameUnits(x.g, g)
  <1>. HIDE DEF Kept
  <1>1. Kept(x0)
    BY DEF First, Kept, SameUnits
  <1>2. ASSUME NEW x, Kept(x), NEW z, z = AdvanceStep(x) PROVE Kept(z)
    BY <1>2, WalkKeeps DEF Kept, SameUnits
  <1>3. Kept(x1)
    <2>. HIDE DEF x0
    <2>. QED  BY <1>1, <1>2
  <1>4. Kept(x2)
    <2>. HIDE DEF x1
    <2>. QED  BY <1>2, <1>3
  <1>5. Kept(x3)
    <2>. HIDE DEF x2
    <2>. QED  BY <1>2, <1>4
  <1>6. Kept(x4)
    <2>. HIDE DEF x3
    <2>. QED  BY <1>2, <1>5
  <1>7. Kept(x5)
    <2>. HIDE DEF x4
    <2>. QED  BY <1>2, <1>6
  <1>8. Kept(x6)
    <2>. HIDE DEF x5
    <2>. QED  BY <1>2, <1>7
  <1>9. AdvancePhase(g) = x6.g
    BY AdvanceUnfolds
  <1>. HIDE DEF x6
  <1>10. PICK f : f = x6.g
    OBVIOUS
  <1>11. h = ClearOrders(f) /\ IsGame(f) /\ SameUnits(f, g)
    BY <1>8, <1>9, <1>10 DEF NextPhase, Kept
  <1>12. SameUnits(h, f)
    BY ONLY <1>11, ClearOrdersFields DEF SameBoard, SameUnits
  <1>. QED  BY <1>11, <1>12 DEF SameUnits

EntriesArePlain == Plain(game)
TidyInv == SoundInv /\ Tidy(game) /\ (saved # NoState => Tidy(saved))

LEMMA TidyInitLemma == Init => TidyInv
  <1>. SUFFICES ASSUME Init PROVE TidyInv
    OBVIOUS
  <1>1. PICK s \in Setups : game = NewGame(s)
    BY DEF Init
  <1>2. PICK f : f = s.units
    OBVIOUS
  <1>3. /\ \A p \in Powers : \A u \in f[p] : u.pow = p
        /\ \A p, q \in Powers : \A u \in f[p], v \in f[q] : Short[u.loc] = Short[v.loc] => u = v
    <2>1. \A p \in Powers : \A u \in s.units[p] : u.pow = p
      BY SetupsAssumption
    <2>2. \A p, q \in Powers : \A u \in s.units[p], v \in s.units[q] : Short[u.loc] = Short[v.loc] => u = v
      BY SetupsAssumption
    <2>. QED  BY ONLY <1>2, <2>1, <2>2
  <1>4. game.units = f /\ game.influence = [p \in Powers |-> Provinces(f[p])]
    BY <1>1, <1>2, NewGameFields
  <1>5. Alone(f)
    BY ONLY <1>3 DEF Alone
  <1>6. Influenced(f, [p \in Powers |-> Provinces(f[p])])
    <2>1. ASSUME NEW p \in Powers, NEW q \in Powers, p # q PROVE Provinces(f[p]) \cap Provinces(f[q]) = {}
      <3>. SUFFICES ASSUME NEW u \in f[p], NEW v \in f[q], Short[u.loc] = Short[v.loc] PROVE FALSE
        BY DEF Provinces
      <3>1. u = v /\ u.pow = p /\ v.pow = q
        BY ONLY <1>3, Short[u.loc] = Short[v.loc], p \in Powers, q \in Powers, u \in f[p], v \in f[q]
      <3>. QED  BY <2>1, <3>1
    <2>2. \A p \in Powers : \A u \in f[p] : Short[u.loc] \in Provinces(f[p])
      BY DEF Provinces
    <2>. QED  BY <2>1, <2>2 DEF Influenced
  <1>7. saved = NoState
    BY DEF Init
  <1>. QED  BY <1>4, <1>5, <1>6, <1>7, SoundInitLemma DEF TidyInv, Tidy

LEMMA ProcessTidy ==
    ASSUME "BUILD_ANY" \notin Rules, SoundInv, Tidy(game), MovesAreSettled, EntriesArePlain, Process
    PROVE  Tidy(game')
  <1>0. Good(game) /\ AdjustFits(game) /\ InPhase(game) /\ IsGame(game)
    BY DEF SoundInv, PhaseInv, InPhase
  <1>1. PICK i \in 2..6, y \in Nat : game.phase = At(i, y) /\ InTime(i, y)
    BY <1>0, InPlay DEF Process
  <1>2. game' = NextPhase(Results(game))
    BY <1>0, <1>1, ProcessReaches
  <1>3. i \in {2, 4} => game.phase.type = "M"
    BY <1>1, TypesOfPhases
  <1>4. PICK h : h = Results(game)
    OBVIOUS
  <1>5. IsGame(h)
    BY <1>0, <1>1, <1>4, ResultsLemma
  <1>6. Tidy(h)
    <2>1. CASE i \in {2, 4}
      <3>1. PICK r : r = Resolved(game)
        OBVIOUS
      <3>2. Settled(r, Board(game))
        BY <1>3, <2>1, <3>1 DEF MovesAreSettled
      <3>3. h = MoveUnits(game, r)
        BY <1>0, <1>1, <1>4, <2>1, <3>1, ResultsLemma DEF MoveResults
      <3>. QED  BY <1>0, <3>2, <3>3, MoveTidy
    <2>2. CASE i \in {3, 5}
      <3>1. h = RetreatResults(game)
        BY <1>0, <1>1, <1>4, <2>2, ResultsLemma
      <3>. QED  BY <1>0, <3>1, RetreatTidy DEF EntriesArePlain
    <2>3. CASE i = 6
      <3>1. h = AdjustResults(game)
        BY <1>0, <1>1, <1>4, <2>3, ResultsLemma
      <3>. QED  BY <1>0, <3>1, AdjustTidy DEF EntriesArePlain
    <2>. QED  BY <2>1, <2>2, <2>3
  <1>7. game'.units = h.units /\ game'.influence = h.influence
    BY <1>2, <1>4, <1>5, NextPhaseKeeps DEF SameUnits
  <1>. QED  BY <1>6, <1>7 DEF Tidy

LEMMA TidyStepLemma ==
    HomesApart /\ "BUILD_ANY" \notin Rules /\ TidyInv /\ MovesAreSettled /\ EntriesArePlain /\ [Next]_vars => TidyInv'
  <1>. SUFFICES ASSUME HomesApart, "BUILD_ANY" \notin Rules, TidyInv, MovesAreSettled, EntriesArePlain, [Next]_vars
                PROVE  TidyInv'
    OBVIOUS
  <1>0. /\ SoundInv /\ SoundInv' /\ Tidy(game) /\ (saved # NoState => Tidy(saved)) /\ IsGame(game)
    BY SoundStepLemma DEF TidyInv, SoundInv, Good
  <1>1. CASE UNCHANGED vars
    BY <1>0, <1>1 DEF vars, TidyInv
  <1>2. ASSUME NEW p \in Powers, SetOrders(p) PROVE TidyInv'
    <2>1. PICK list \in Seq(Texts(game.phase.type)) : game' = SetOrdersOf(game, p, list)
      BY <1>2 DEF SetOrders
    <2>2. SameBoard(game', game) /\ game'.influence = game.influence
      BY <1>0, <2>1, SetOrdersFields
    <2>3. Tidy(game') /\ saved' = saved
      BY <1>0, <1>2, <2>2 DEF Tidy, SameBoard, SetOrders
    <2>. QED  BY <1>0, <2>3 DEF TidyInv
  <1>3. CASE Process
    <2>1. saved' = saved
      BY <1>3 DEF Process
    <2>. QED  BY <1>0, <1>3, <2>1, ProcessTidy DEF TidyInv
  <1>4. CASE Draw
    <2>1. game'.units = game.units /\ game'.influence = game.influence
      BY <1>0, <1>4, DrawFields
    <2>2. saved' = saved
      BY <1>4 DEF Draw
    <2>. QED  BY <1>0, <2>1, <2>2 DEF TidyInv, Tidy
  <1>5. CASE Save
    <2>1. game' = game /\ saved' = GetState(game)
      BY <1>5 DEF Save
    <2>2. saved'.units = game.units /\ saved'.influence = game.influence
      BY <2>1 DEF GetState
    <2>. QED  BY <1>0, <2>1, <2>2 DEF TidyInv, Tidy
  <1>6. CASE SetState
    <2>1. game' = SetStateOf(game, saved) /\ saved' = saved /\ IsState(saved) /\ Good(game) /\ Tidy(saved)
      BY <1>0, <1>6 DEF SetState, SoundInv
    <2>2. Ready(game, saved)
      BY <2>1 DEF Ready, Good, Position, IsState, IsTable, SoundUnits, SoundRetreats, SoundCenters
    <2>3. game'.influence = saved.influence /\ game'.units = saved.units
      BY <1>0, <2>1, <2>2, SetStateFields
    <2>. QED  BY <1>0, <2>1, <2>3 DEF TidyInv, Tidy
  <1>. QED  BY <1>1, <1>2, <1>3, <1>4, <1>5, <1>6 DEF Next

LEMMA BoardLemma == TidyInv => BoardIsSound
  <1>. SUFFICES ASSUME TidyInv PROVE BoardIsSound
    OBVIOUS
  <1>1. /\ SoundUnits(game.units) /\ SoundRetreats(game.retreats) /\ SoundCenters(game.centers)
        /\ game.influence \in [Powers -> SUBSET Locs] /\ game.outcome \subseteq Powers
        /\ Alone(game.units) /\ Influenced(game.units, game.influence)
    BY DEF TidyInv, SoundInv, Good, Position, Tidy
  <1>2. TypeOK
    <2>1. game.units \in [Powers -> SUBSET UnitType] /\ game.centers \in [Powers -> SUBSET Scs]
      BY <1>1 DEF SoundUnits, SoundCenters
    <2>2. \A p, q \in Powers : p # q => game.centers[p] \cap game.centers[q] = {}
      BY <1>1 DEF SoundCenters
    <2>3. \A p \in Powers : \A u \in game.units[p] : u.pow = p /\ ValidUnit(u.type, u.loc, FALSE)
      BY <1>1 DEF SoundUnits
    <2>4. \A p \in Powers : \A u \in DOMAIN game.retreats[p] : u.pow = p /\ ValidUnit(u.type, u.loc, FALSE)
      <3>1. SoundUnits(Out(game.retreats))
        BY <1>1 DEF SoundRetreats
      <3>2. \A p \in Powers : Out(game.retreats)[p] = DOMAIN game.retreats[p]
        BY DEF Out
      <3>3. \A p \in Powers : \A u \in Out(game.retreats)[p] : u.pow = p /\ ValidUnit(u.type, u.loc, FALSE)
        BY <3>1 DEF SoundUnits
      <3>. QED  BY <3>2, <3>3
    <2>. QED  BY <1>1, <2>1, <2>2, <2>3, <2>4 DEF TypeOK
  <1>3. OnePerProvince
    <2>. SUFFICES ASSUME NEW u \in Board(game), NEW v \in Board(game), Short[u.loc] = Short[v.loc] PROVE u = v
      BY DEF OnePerProvince
    <2>1. PICK p \in Powers : u \in game.units[p]
      BY DEF Board
    <2>2. PICK q \in Powers : v \in game.units[q]
      BY DEF Board
    <2>3. p = q
      BY <1>1, <2>1, <2>2 DEF SoundUnits
    <2>. QED  BY <1>1, <2>1, <2>2, <2>3 DEF Alone
  <1>4. InfluenceIsLast
    BY <1>1 DEF Influenced, InfluenceIsLast, Provinces
  <1>. QED  BY <1>2, <1>3, <1>4 DEF BoardIsSound

-----------------------------------------------------------------------------
(* Counting the units: each comes from another, or from an order that counts. *)

\* R gives every element of S one of T, and no element of T to two of S.
LEMMA CountLemma ==
    ASSUME NEW S, NEW T, IsFiniteSet(T), NEW R,
           \A s \in S : \E t \in T : <<s, t>> \in R,
           \A s, v \in S : \A t \in T : <<s, t>> \in R /\ <<v, t>> \in R => s = v
    PROVE  IsFiniteSet(S) /\ Cardinality(S) <= Cardinality(T)
  <1>. DEFINE f == [s \in S |-> CHOOSE t \in T : <<s, t>> \in R]
  <1>1. \A s \in S : f[s] \in T /\ <<s, f[s]>> \in R
    OBVIOUS
  <1>2. f \in [S -> T]
    OBVIOUS
  <1>. HIDE DEF f
  <1>3. \A s, v \in S : f[s] = f[v] => s = v
    <2>. SUFFICES ASSUME NEW s \in S, NEW v \in S, f[s] = f[v] PROVE s = v
      OBVIOUS
    <2>1. f[s] \in T /\ <<s, f[s]>> \in R /\ <<v, f[s]>> \in R
      BY <1>1
    <2>. QED  BY <2>1
  <1>4. f \in Injection(S, T)
    BY <1>2, <1>3 DEF Injection, IsInjective
  <1>. QED  BY <1>4, FS_Injection

\* Two sets that have nothing in common.
LEMMA SumLemma ==
    ASSUME NEW S, NEW T, IsFiniteSet(S), IsFiniteSet(T)
    PROVE  /\ Cardinality(S) \in Nat /\ Cardinality(T) \in Nat /\ IsFiniteSet(S \cup T)
           /\ Cardinality(S \cup T) <= Cardinality(S) + Cardinality(T)
           /\ S \cap T = {} => Cardinality(S \cup T) = Cardinality(S) + Cardinality(T)
  <1>1. Cardinality(S) \in Nat /\ Cardinality(T) \in Nat
    BY FS_CardinalityType
  <1>2. /\ IsFiniteSet(S \cup T)
        /\ Cardinality(S \cup T) = Cardinality(S) + Cardinality(T) - Cardinality(S \cap T)
    BY FS_Union
  <1>3. Cardinality(S \cap T) \in Nat
    <2>1. IsFiniteSet(S \cap T)
      BY FS_Intersection
    <2>. QED  BY <2>1, FS_CardinalityType
  <1>4. S \cap T = {} => Cardinality(S \cap T) = 0
    BY FS_EmptySet
  <1>. QED  BY <1>1, <1>2, <1>3, <1>4

LEMMA FiniteUnits ==
    ASSUME NEW f, SoundUnits(f), NEW p \in Powers, NEW us, us \subseteq f[p]
    PROVE  IsFiniteSet(us) /\ Cardinality(us) \in Nat /\ Cardinality(us) <= Cardinality(f[p])
  <1>1. IsFiniteSet(f[p])
    <2>. DEFINE R == {x \in f[p] \X Locs : x[2] = x[1].loc}
    <2>1. IsFiniteSet(Locs)
      BY EngineAssumption
    <2>2. \A u \in f[p] : u.loc \in Locs
      BY DEF SoundUnits, UnitType
    <2>3. \A u \in f[p] : \A l \in Locs : <<u, l>> \in R <=> l = u.loc
      OBVIOUS
    <2>4. \A u, v \in f[p] : u.loc = v.loc => u = v
      BY DEF SoundUnits
    <2>. HIDE DEF R
    <2>5. \A u \in f[p] : \E l \in Locs : <<u, l>> \in R
      BY <2>2, <2>3
    <2>6. \A u, v \in f[p] : \A l \in Locs : <<u, l>> \in R /\ <<v, l>> \in R => u = v
      BY <2>3, <2>4
    <2>. QED  BY ONLY <2>1, <2>5, <2>6, CountLemma
  <1>. QED  BY <1>1, FS_Subset, FS_CardinalityType

\* Moves: who arrives was there, and who is dislodged was too.
LEMMA MovesCount ==
    ASSUME NEW g, SoundUnits(g.units), NEW r, Settled(r, Board(g)), NEW p \in Powers
    PROVE  /\ Cardinality(MovedUnits(g, r)[p]) \in Nat /\ Cardinality(DOMAIN MovedRetreats(g, r)[p]) \in Nat
           /\ Cardinality(MovedUnits(g, r)[p]) + Cardinality(DOMAIN MovedRetreats(g, r)[p]) <= Cardinality(g.units[p])
  <1>. DEFINE us == g.units[p]
              still == Staying(g, r, p)
              came == Coming(g, r, p)
              fled == Fleeing(g, r, p)
              goers == Moved(r) \cap us
              A == still \cup goers
              R == {x \in (still \cup came) \X A : \/ x[1] \in still /\ x[2] = x[1]
                                                   \/ x[2] \in goers /\ x[1] = Arrived(r, x[2])}
  <1>1. \A u \in Moved(r) : u \notin Beaten(r)
    BY DEF Moved, Beaten, Settled
  <1>2. still \cap goers = {} /\ A \cap fled = {} /\ A \cup fled \subseteq us
    BY <1>1 DEF Staying, Fleeing
  <1>3. IsFiniteSet(A) /\ IsFiniteSet(fled) /\ Cardinality(A \cup fled) <= Cardinality(us) /\ Cardinality(us) \in Nat
    <2>. HIDE DEF A, fled
    <2>. QED  BY <1>2, FiniteUnits
  <1>4. \A w \in still \cup came : \E u \in A : <<w, u>> \in R
    <2>1. ASSUME NEW w \in still PROVE \E u \in A : <<w, u>> \in R
      <3>1. <<w, w>> \in R
        BY <2>1
      <3>. QED  BY <3>1
    <2>2. ASSUME NEW w \in came PROVE \E u \in A : <<w, u>> \in R
      <3>1. PICK u \in goers : w = Arrived(r, u)
        BY <2>2 DEF Coming
      <3>2. <<w, u>> \in R
        BY <2>2, <3>1
      <3>. QED  BY <3>1, <3>2
    <2>. HIDE DEF R, A, still, came
    <2>. QED  BY <2>1, <2>2
  <1>5. \A v, w \in still \cup came : \A u \in A : <<v, u>> \in R /\ <<w, u>> \in R => v = w
    <2>1. \A v \in still \cup came : \A u \in A :
             <<v, u>> \in R => (u \in still /\ v = u) \/ (u \in goers /\ v = Arrived(r, u))
      OBVIOUS
    <2>. HIDE DEF R, still, came, goers, A
    <2>. QED  BY <1>2, <2>1
  <1>6. IsFiniteSet(still \cup came) /\ Cardinality(still \cup came) <= Cardinality(A)
    <2>. HIDE DEF R, still, came, A
    <2>. QED  BY ONLY <1>3, <1>4, <1>5, CountLemma
  <1>7. /\ Cardinality(A) \in Nat /\ Cardinality(fled) \in Nat /\ Cardinality(still \cup came) \in Nat
        /\ Cardinality(A \cup fled) = Cardinality(A) + Cardinality(fled)
    <2>. HIDE DEF A, fled, still, came
    <2>. QED  BY <1>2, <1>3, <1>6, SumLemma, FS_CardinalityType
  <1>8. MovedUnits(g, r)[p] = still \cup came /\ DOMAIN MovedRetreats(g, r)[p] = fled
    BY DEF MovedUnits, MovedRetreats
  <1>. HIDE DEF us, still, came, fled, A
  <1>. QED  BY <1>3, <1>6, <1>7, <1>8 DEF us

\* Retreats: each unit that comes back was dislodged, and has one order to retreat.
OneRetreat(list) == \A d, e \in ToSet(list) : d.do = "R" /\ e.do = "R" /\ d.u = e.u => d.to = e.to

LEMMA BackCount ==
    ASSUME NEW g, SoundUnits(g.units), SoundRetreats(g.retreats), AdjustFits(g), NEW p \in Powers, OneRetreat(g.adjust[p])
    PROVE  /\ Cardinality(BackUnits(g)[p]) \in Nat
           /\ Cardinality(BackUnits(g)[p]) <= Cardinality(g.units[p]) + Cardinality(DOMAIN g.retreats[p])
  <1>. DEFINE Unit(e) == [pow |-> p, type |-> e.u[1], loc |-> e.to]
              By(w, v) == \E e \in ToSet(g.adjust[p]) : e.do = "R" /\ e.u = Name(v) /\ w = Unit(e)
              S == Back(g, p)
              T == DOMAIN g.retreats[p]
              R == {x \in S \X T : By(x[1], x[2])}
  <1>1. IsFiniteSet(T) /\ Cardinality(T) \in Nat /\ IsFiniteSet(g.units[p]) /\ Cardinality(g.units[p]) \in Nat
    <2>1. T \subseteq Out(g.retreats)[p] /\ SoundUnits(Out(g.retreats))
      BY DEF Out, SoundRetreats
    <2>. HIDE DEF T
    <2>. QED  BY <2>1, FiniteUnits
  <1>2. ASSUME NEW w \in S PROVE \E v \in T : By(w, v)
    <2>1. PICK a \in Done(g) : a.p = p /\ w = [pow |-> p, type |-> a.u[1], loc |-> a.to]
      BY <1>2 DEF Back
    <2>2. PICK e : e \in ToSet(g.adjust[p]) /\ e.do = "R" /\ a.u = e.u /\ a.to = e.to
      <3>1. PICK q \in Powers : \E e \in ToSet(g.adjust[q]) : e.do = "R" /\ a = [p |-> q, u |-> e.u, to |-> e.to]
        BY <2>1 DEF Done, RetreatOrders
      <3>2. PICK e \in ToSet(g.adjust[q]) : e.do = "R" /\ a = [p |-> q, u |-> e.u, to |-> e.to]
        BY <3>1
      <3>3. q = p
        BY <2>1, <3>2
      <3>. QED  BY <3>2, <3>3
    <2>3. RetreatAccepted(g, p, e)
      BY <2>2 DEF AdjustFits, Proper
    <2>4. PICK v \in T : Name(v) = e.u
      BY <2>2, <2>3 DEF RetreatAccepted
    <2>5. w = Unit(e)
      BY <2>1, <2>2
    <2>6. By(w, v)
      <3>. HIDE DEF Unit
      <3>. QED  BY <2>2, <2>4, <2>5
    <2>. QED  BY <2>4, <2>6
  <1>3. ASSUME NEW v, NEW w, NEW t, By(v, t), By(w, t) PROVE v = w
    <2>1. PICK d \in ToSet(g.adjust[p]) : d.do = "R" /\ d.u = Name(t) /\ v = Unit(d)
      BY <1>3
    <2>2. PICK e \in ToSet(g.adjust[p]) : e.do = "R" /\ e.u = Name(t) /\ w = Unit(e)
      BY <1>3
    <2>3. d.u = e.u /\ d.to = e.to
      BY <2>1, <2>2 DEF OneRetreat
    <2>. QED  BY <2>1, <2>2, <2>3
  <1>. HIDE DEF By
  <1>4. IsFiniteSet(S) /\ Cardinality(S) <= Cardinality(T)
    <2>1. \A s \in S : \E t \in T : <<s, t>> \in R
      <3>. SUFFICES ASSUME NEW s \in S PROVE \E t \in T : <<s, t>> \in R
        OBVIOUS
      <3>1. PICK t \in T : By(s, t)
        BY <1>2
      <3>2. <<s, t>> \in R
        BY <3>1
      <3>. QED  BY <3>2
    <2>2. \A s, v \in S : \A t \in T : <<s, t>> \in R /\ <<v, t>> \in R => s = v
      BY <1>3
    <2>. HIDE DEF R, S, T
    <2>. QED  BY ONLY <1>1, <2>1, <2>2, CountLemma
  <1>5. BackUnits(g)[p] = g.units[p] \cup S
    BY DEF BackUnits
  <1>. HIDE DEF S, T
  <1>6. Cardinality(BackUnits(g)[p]) \in Nat /\ Cardinality(S) \in Nat
        /\ Cardinality(BackUnits(g)[p]) <= Cardinality(g.units[p]) + Cardinality(S)
    BY <1>1, <1>4, <1>5, SumLemma, FS_CardinalityType
  <1>. QED  BY <1>1, <1>4, <1>6 DEF T

\* Builds: their places among the builds ordered are at most the surplus.
Upto(list, d, k) == {j \in 1..k : list[j].do = d}

LEMMA UptoLemma ==
    ASSUME NEW list, NEW d, NEW k \in Nat, list[k].do = d, k # 0
    PROVE  /\ Cardinality(Upto(list, d, k)) \in Nat \ {0}
           /\ \A m \in 1..k - 1 : Cardinality(Upto(list, d, m)) # Cardinality(Upto(list, d, k))
  <1>1. IsFiniteSet(Upto(list, d, k)) /\ Cardinality(Upto(list, d, k)) \in Nat
    <2>1. IsFiniteSet(1..k)
      BY FS_Interval
    <2>. QED  BY <2>1, FS_Subset, FS_CardinalityType DEF Upto
  <1>2. k \in Upto(list, d, k)
    BY DEF Upto
  <1>3. Cardinality(Upto(list, d, k)) # 0
    BY <1>1, <1>2, FS_EmptySet
  <1>4. ASSUME NEW m \in 1..k - 1 PROVE Cardinality(Upto(list, d, m)) # Cardinality(Upto(list, d, k))
    <2>1. Upto(list, d, m) \subseteq Upto(list, d, k) /\ k \notin Upto(list, d, m)
      BY DEF Upto
    <2>. QED  BY <1>1, <1>2, <2>1, FS_Subset
  <1>. QED  BY <1>1, <1>3, <1>4

BuiltAt(g, p, w, k) ==
    /\ k \in 1..Len(g.adjust[p]) /\ g.adjust[p][k].do = "B" /\ Cardinality(Upto(g.adjust[p], "B", k)) <= Surplus(g, p)
    /\ w = [pow |-> p, type |-> g.adjust[p][k].u[1], loc |-> g.adjust[p][k].u[2]]

LEMMA BuiltCount ==
    ASSUME NEW g, NEW p \in Powers, g.adjust[p] \in Seq(Entry), Surplus(g, p) \in Int
    PROVE  /\ IsFiniteSet(Built(g, p)) /\ Cardinality(Built(g, p)) \in Nat
           /\ IF Surplus(g, p) > 0 THEN Cardinality(Built(g, p)) <= Surplus(g, p) ELSE Built(g, p) = {}
  <1>. DEFINE list == g.adjust[p]
              rank(i) == Cardinality({j \in 1..i : list[j].do = list[i].do})
              T == 1..Surplus(g, p)
              R == {x \in Built(g, p) \X T : \E k : BuiltAt(g, p, x[1], k) /\ x[2] = Cardinality(Upto(list, "B", k))}
  <1>1. ASSUME NEW w \in Built(g, p) PROVE \E k : BuiltAt(g, p, w, k)
    <2>1. PICK e \in Counted(g, p) : e.do = "B" /\ w = [pow |-> p, type |-> e.u[1], loc |-> e.u[2]]
      BY <1>1 DEF Built
    <2>2. Counted(g, p) = {list[i] : i \in {k \in DOMAIN list : \/ (list[k].do = "B" /\ rank(k) <= Surplus(g, p))
                                                               \/ (list[k].do = "D" /\ rank(k) <= 0 - Surplus(g, p))}}
      BY DEF Counted
    <2>. HIDE DEF rank, list
    <2>3. PICK k \in DOMAIN list : e = list[k] /\ (\/ (list[k].do = "B" /\ rank(k) <= Surplus(g, p))
                                                   \/ (list[k].do = "D" /\ rank(k) <= 0 - Surplus(g, p)))
      BY <2>1, <2>2
    <2>4. list[k].do = "B" /\ rank(k) <= Surplus(g, p)
      BY <2>1, <2>3
    <2>5. rank(k) = Cardinality(Upto(list, "B", k))
      BY <2>4 DEF rank, Upto
    <2>6. k \in 1..Len(list)
      BY DEF list
    <2>. QED  BY <2>1, <2>3, <2>4, <2>5, <2>6 DEF BuiltAt, list
  <1>2. ASSUME NEW w, NEW k, BuiltAt(g, p, w, k)
        PROVE  Cardinality(Upto(list, "B", k)) \in T /\ k \in Nat /\ k # 0 /\ list[k].do = "B"
    <2>1. k \in Nat /\ k # 0 /\ list[k].do = "B" /\ Cardinality(Upto(list, "B", k)) <= Surplus(g, p)
      BY <1>2 DEF BuiltAt
    <2>. HIDE DEF list
    <2>2. Cardinality(Upto(list, "B", k)) \in Nat \ {0}
      BY <2>1, UptoLemma
    <2>. QED  BY <2>1, <2>2
  <1>3. ASSUME NEW v, NEW w, NEW k, NEW m, BuiltAt(g, p, v, k), BuiltAt(g, p, w, m),
               Cardinality(Upto(list, "B", k)) = Cardinality(Upto(list, "B", m))
        PROVE  v = w
    <2>1. k \in Nat /\ k # 0 /\ list[k].do = "B" /\ m \in Nat /\ m # 0 /\ list[m].do = "B"
      BY <1>2, <1>3
    <2>2. k = m
      <3>. HIDE DEF list
      <3>1. ~(k < m)
        <4>. SUFFICES ASSUME k < m PROVE FALSE
          OBVIOUS
        <4>1. k \in 1..m - 1
          BY <2>1
        <4>. QED  BY <1>3, <2>1, <4>1, UptoLemma
      <3>2. ~(m < k)
        <4>. SUFFICES ASSUME m < k PROVE FALSE
          OBVIOUS
        <4>1. m \in 1..k - 1
          BY <2>1
        <4>. QED  BY <1>3, <2>1, <4>1, UptoLemma
      <3>. QED  BY <2>1, <3>1, <3>2
    <2>. QED  BY <1>3, <2>2 DEF BuiltAt
  <1>4. \A w \in Built(g, p) : \E n \in T : <<w, n>> \in R
    <2>. SUFFICES ASSUME NEW w \in Built(g, p) PROVE \E n \in T : <<w, n>> \in R
      OBVIOUS
    <2>1. PICK k : BuiltAt(g, p, w, k)
      BY <1>1
    <2>2. Cardinality(Upto(list, "B", k)) \in T
      BY <1>2, <2>1
    <2>. HIDE DEF T, list
    <2>3. <<w, Cardinality(Upto(list, "B", k))>> \in R
      BY <2>1, <2>2
    <2>. QED  BY <2>2, <2>3
  <1>5. \A v, w \in Built(g, p) : \A n \in T : <<v, n>> \in R /\ <<w, n>> \in R => v = w
    <2>. SUFFICES ASSUME NEW v \in Built(g, p), NEW w \in Built(g, p), NEW n \in T, <<v, n>> \in R, <<w, n>> \in R PROVE v = w
      OBVIOUS
    <2>. HIDE DEF T, list
    <2>1. PICK k : BuiltAt(g, p, v, k) /\ n = Cardinality(Upto(list, "B", k))
      OBVIOUS
    <2>2. PICK m : BuiltAt(g, p, w, m) /\ n = Cardinality(Upto(list, "B", m))
      OBVIOUS
    <2>. QED  BY <1>3, <2>1, <2>2
  <1>6. IsFiniteSet(T) /\ Cardinality(T) = IF 1 > Surplus(g, p) THEN 0 ELSE Surplus(g, p)
    BY FS_Interval
  <1>. HIDE DEF R
  <1>7. IsFiniteSet(Built(g, p)) /\ Cardinality(Built(g, p)) <= Cardinality(T)
    <2>. HIDE DEF T
    <2>. QED  BY ONLY <1>4, <1>5, <1>6, CountLemma
  <1>8. Surplus(g, p) <= 0 => Built(g, p) = {}
    <2>. SUFFICES ASSUME Surplus(g, p) <= 0, NEW w \in Built(g, p) PROVE FALSE
      OBVIOUS
    <2>1. PICK k : BuiltAt(g, p, w, k)
      BY <1>1
    <2>2. Cardinality(Upto(list, "B", k)) \in T
      BY <1>2, <2>1
    <2>. QED  BY <2>2
  <1>. HIDE DEF T
  <1>. QED  BY <1>6, <1>7, <1>8, FS_CardinalityType

\* Civil disorder takes units in an order: no two are at one place of it.
LEMMA DistanceLemma ==
    ASSUME NEW q \in Types \X Locs \X Powers
    PROVE  Distances[q] \in Nat
  <1>. DEFINE N == Cardinality(Locs)
              Holds(f) == f = [n \in 0..N |-> IF n = 0 THEN {q[2]}
                                  ELSE LET nearer == f[n - 1] IN nearer \cup UNION {Steps(q[1], l) : l \in nearer}]
              within == CHOOSE f : Holds(f)
              ns == {n \in 0..N : {Short[l] : l \in within[n]} \cap Homes[q[3]] # {}}
  <1>1. Distances[q] = IF ns = {} THEN Far ELSE CHOOSE n \in ns : \A m \in ns : n <= m
    BY DEF Distances
  <1>2. ns \subseteq Nat
    <2>1. N \in Nat
      BY EngineAssumption, FS_CardinalityType
    <2>. QED  BY <2>1
  <1>. HIDE DEF ns
  <1>3. CASE ns = {}
    BY <1>1, <1>3 DEF Far
  <1>4. CASE ns # {}
    <2>1. \E n \in ns : \A m \in ns : n <= m
      BY <1>2, <1>4, LeastOne
    <2>. QED  BY <1>1, <1>2, <1>4, <2>1
  <1>. QED  BY <1>3, <1>4

LEMMA BeforeLemma ==
    ASSUME NEW p \in Powers, NEW us, \A u \in us : u \in UnitType /\ u.pow = p
    PROVE  /\ \A u \in us : RemovedBefore(p, u, u)
           /\ \A u, v \in us : RemovedBefore(p, u, v) \/ RemovedBefore(p, v, u)
           /\ \A u, v \in us : RemovedBefore(p, u, v) /\ RemovedBefore(p, v, u) => u = v
           /\ \A u, v, w \in us : RemovedBefore(p, u, v) /\ RemovedBefore(p, v, w) => RemovedBefore(p, u, w)
  <1>1. \A u \in us : DistanceToHome(p, u) \in Nat /\ u.type \in {"A", "F"} /\ u.loc \in Locs /\ Rank[u.loc] \in Nat
    <2>. SUFFICES ASSUME NEW u \in us
                  PROVE  DistanceToHome(p, u) \in Nat /\ u.type \in {"A", "F"} /\ u.loc \in Locs /\ Rank[u.loc] \in Nat
      OBVIOUS
    <2>1. u.type \in Types /\ u.loc \in Locs
      BY DEF UnitType
    <2>2. DistanceToHome(p, u) \in Nat
      BY <2>1, DistanceLemma DEF DistanceToHome
    <2>. QED  BY <2>1, <2>2, EngineAssumption DEF Types
  <1>2. \A u, v \in us : Rank[u.loc] = Rank[v.loc] /\ u.type = v.type => u = v
    <2>. SUFFICES ASSUME NEW u \in us, NEW v \in us, Rank[u.loc] = Rank[v.loc], u.type = v.type PROVE u = v
      OBVIOUS
    <2>1. u.loc = v.loc
      BY <1>1, EngineAssumption
    <2>. QED  BY <2>1, UnitEqual
  <1>3. \A u, v \in us :
           RemovedBefore(p, u, v) <=>
              \/ DistanceToHome(p, u) > DistanceToHome(p, v)
              \/ DistanceToHome(p, u) = DistanceToHome(p, v) /\ u.type = "F" /\ v.type = "A"
              \/ DistanceToHome(p, u) = DistanceToHome(p, v) /\ u.type = v.type /\ Rank[u.loc] <= Rank[v.loc]
    <2>. SUFFICES ASSUME NEW u \in us, NEW v \in us
                  PROVE  RemovedBefore(p, u, v) <=>
              \/ DistanceToHome(p, u) > DistanceToHome(p, v)
              \/ DistanceToHome(p, u) = DistanceToHome(p, v) /\ u.type = "F" /\ v.type = "A"
              \/ DistanceToHome(p, u) = DistanceToHome(p, v) /\ u.type = v.type /\ Rank[u.loc] <= Rank[v.loc]
      OBVIOUS
    <2>1. DistanceToHome(p, u) \in Nat /\ DistanceToHome(p, v) \in Nat /\ u.type \in {"A", "F"} /\ v.type \in {"A", "F"}
      BY <1>1
    <2>. QED  BY <2>1 DEF RemovedBefore
  <1>4. \A u \in us : RemovedBefore(p, u, u)
    BY <1>1, <1>3
  <1>5. \A u, v \in us : RemovedBefore(p, u, v) \/ RemovedBefore(p, v, u)
    BY <1>1, <1>3
  <1>6. \A u, v \in us : RemovedBefore(p, u, v) /\ RemovedBefore(p, v, u) => u = v
    BY <1>1, <1>2, <1>3
  <1>7. \A u, v, w \in us : RemovedBefore(p, u, v) /\ RemovedBefore(p, v, w) => RemovedBefore(p, u, w)
    BY <1>1, <1>3
  <1>. QED  BY <1>4, <1>5, <1>6, <1>7

\* The place of a unit among some units.
Before(p, us, u) == {v \in us : RemovedBefore(p, v, u)}
LEMMA PlaceLemma ==
    ASSUME NEW p \in Powers, NEW us, IsFiniteSet(us), \A u \in us : u \in UnitType /\ u.pow = p
    PROVE  /\ \A u \in us : Cardinality(Before(p, us, u)) \in 1..Cardinality(us)
           /\ \A u, v \in us : Cardinality(Before(p, us, u)) = Cardinality(Before(p, us, v)) => u = v
  <1>. DEFINE place(u) == Cardinality(Before(p, us, u))
  <1>1. \A u \in us : IsFiniteSet(Before(p, us, u)) /\ place(u) \in Nat /\ place(u) <= Cardinality(us) /\ Cardinality(us) \in Nat
    <2>1. \A u \in us : Before(p, us, u) \subseteq us
      BY DEF Before
    <2>. QED  BY <2>1, FS_Subset, FS_CardinalityType
  <1>2. ASSUME NEW u \in us PROVE place(u) # 0
    <2>1. u \in Before(p, us, u)
      BY BeforeLemma DEF Before
    <2>. QED  BY <1>1, <2>1, FS_EmptySet
  <1>3. ASSUME NEW u \in us, NEW v \in us, RemovedBefore(p, u, v), u # v PROVE place(u) # place(v)
    <2>1. Before(p, us, u) \subseteq Before(p, us, v)
      BY <1>3, BeforeLemma DEF Before
    <2>2. v \in Before(p, us, v) /\ v \notin Before(p, us, u)
      BY <1>3, BeforeLemma DEF Before
    <2>. QED  BY <1>1, <2>1, <2>2, FS_Subset
  <1>4. ASSUME NEW u \in us, NEW v \in us, place(u) = place(v) PROVE u = v
    <2>1. RemovedBefore(p, u, v) \/ RemovedBefore(p, v, u)
      BY BeforeLemma
    <2>. HIDE DEF place
    <2>. QED  BY <1>3, <1>4, <2>1
  <1>. QED  BY <1>1, <1>2, <1>4

\* After a winter there are as many units as centers, at the most.
Remaining(g, p) == g.units[p] \ (Disbanded(g, p) \cup CivilDisorder(g, p))
LEMMA DisorderCount ==
    ASSUME NEW g, SoundUnits(g.units), SoundCenters(g.centers), NEW p \in Powers, Surplus(g, p) < 0
    PROVE  Cardinality(Remaining(g, p)) <= Cardinality(g.centers[p])
  <1>. DEFINE us == g.units[p]
              D == Disbanded(g, p)
              others == us \ D
              m == 0 - Surplus(g, p) - Cardinality(D)
              T == m + 1 .. Cardinality(others)
              S == Remaining(g, p)
              R == {x \in S \X T : x[2] = Cardinality(Before(p, others, x[1]))}
  <1>1. IsFiniteSet(us) /\ Cardinality(us) \in Nat /\ Cardinality(g.centers[p]) \in Nat
    <2>1. IsFiniteSet(us) /\ IsFiniteSet(g.centers[p])
      BY FiniteLemma
    <2>. QED  BY <2>1, FS_CardinalityType
  <1>2. Surplus(g, p) = Cardinality(g.centers[p]) - Cardinality(us)
    BY DEF Surplus
  <1>3. D \subseteq us
    BY DEF Disbanded
  <1>4. /\ IsFiniteSet(others) /\ Cardinality(others) \in Nat /\ Cardinality(D) \in Nat
        /\ Cardinality(us) = Cardinality(others) + Cardinality(D)
    <2>. HIDE DEF D, us
    <2>1. IsFiniteSet(D) /\ IsFiniteSet(others)
      BY <1>1, <1>3, FS_Subset
    <2>2. others \cap D = {} /\ others \cup D = us
      BY <1>3
    <2>. HIDE DEF others
    <2>. QED  BY <2>1, <2>2, SumLemma
  <1>5. \A u \in others : u \in UnitType /\ u.pow = p
    BY DEF SoundUnits
  <1>6. \A u \in S : u \in others /\ ~(Cardinality(Before(p, others, u)) <= m)
    BY DEF Remaining, CivilDisorder, Before
  <1>7. S \subseteq others
    BY <1>6
  <1>. HIDE DEF S, others, D, us
  <1>8. CASE m < 0
    <2>1. Cardinality(S) <= Cardinality(others)
      BY <1>4, <1>7, FS_Subset
    <2>2. IsFiniteSet(S) /\ Cardinality(S) \in Nat
      BY <1>4, <1>7, FS_Subset, FS_CardinalityType
    <2>. QED  BY <1>1, <1>2, <1>4, <1>8, <2>1, <2>2 DEF S
  <1>9. CASE m >= 0
    <2>1. m \in Nat
      BY <1>1, <1>2, <1>4, <1>9
    <2>2. IsFiniteSet(T) /\ Cardinality(T) = IF m + 1 > Cardinality(others) THEN 0 ELSE Cardinality(others) - m
      <3>. HIDE DEF m
      <3>1. m + 1 \in Int /\ Cardinality(others) \in Int
        BY <1>4, <2>1
      <3>2. /\ IsFiniteSet(T)
            /\ Cardinality(T) = IF m + 1 > Cardinality(others) THEN 0 ELSE Cardinality(others) - (m + 1) + 1
        BY <3>1, FS_Interval
      <3>3. Cardinality(others) - (m + 1) + 1 = Cardinality(others) - m
        BY <1>4, <2>1
      <3>. QED  BY <3>2, <3>3
    <2>3. Cardinality(T) = Cardinality(g.centers[p])
      BY <1>1, <1>2, <1>4, <1>9, <2>2
    <2>4. \A u \in S : Cardinality(Before(p, others, u)) \in T
      <3>1. \A u \in S : Cardinality(Before(p, others, u)) \in 1..Cardinality(others)
        BY <1>4, <1>5, <1>7, PlaceLemma
      <3>. HIDE DEF m
      <3>. QED  BY <1>4, <1>6, <2>1, <3>1
    <2>. HIDE DEF T, m
    <2>5. \A u \in S : \A n \in T : <<u, n>> \in R <=> n = Cardinality(Before(p, others, u))
      OBVIOUS
    <2>. HIDE DEF R
    <2>6. \A u \in S : \E n \in T : <<u, n>> \in R
      BY <2>4, <2>5
    <2>7. \A u, v \in S : \A n \in T : <<u, n>> \in R /\ <<v, n>> \in R => u = v
      <3>1. \A u, v \in S : Cardinality(Before(p, others, u)) = Cardinality(Before(p, others, v)) => u = v
        BY <1>4, <1>5, <1>7, PlaceLemma
      <3>. QED  BY <2>5, <3>1
    <2>8. Cardinality(S) <= Cardinality(T)
      BY ONLY <2>2, <2>6, <2>7, CountLemma
    <2>. QED  BY <2>3, <2>8 DEF S
  <1>10. m \in Int
    BY <1>1, <1>2, <1>4
  <1>. HIDE DEF m
  <1>. QED  BY <1>8, <1>9, <1>10

LEMMA AdjustCount ==
    ASSUME NEW g, SoundUnits(g.units), SoundCenters(g.centers), NEW p \in Powers, g.adjust[p] \in Seq(Entry)
    PROVE  Cardinality(AdjustedUnits(g)[p]) \in Nat /\ Cardinality(AdjustedUnits(g)[p]) <= Cardinality(g.centers[p])
  <1>. DEFINE us == g.units[p]
              built == Built(g, p)
  <1>1. /\ IsFiniteSet(us) /\ Cardinality(us) \in Nat /\ Cardinality(g.centers[p]) \in Nat
        /\ Surplus(g, p) = Cardinality(g.centers[p]) - Cardinality(us) /\ Surplus(g, p) \in Int
    <2>1. IsFiniteSet(us) /\ IsFiniteSet(g.centers[p]) /\ Surplus(g, p) \in Int
      BY FiniteLemma
    <2>. QED  BY <2>1, FS_CardinalityType DEF Surplus
  <1>2. /\ IsFiniteSet(built) /\ Cardinality(built) \in Nat
        /\ IF Surplus(g, p) > 0 THEN Cardinality(built) <= Surplus(g, p) ELSE built = {}
    BY <1>1, BuiltCount
  <1>3. {u \in AllBuilt(g) : u.pow = p} = built
    <2>1. \A q \in Powers : \A u \in Built(g, q) : u.pow = q
      BY DEF Built
    <2>. QED  BY <2>1 DEF AllBuilt
  <1>4. AdjustedUnits(g)[p] = (us \ AllGone(g)) \cup built
    BY <1>3 DEF AdjustedUnits
  <1>5. us \ AllGone(g) \subseteq Remaining(g, p)
    BY DEF AllGone, Remaining
  <1>6. Remaining(g, p) \subseteq us
    BY DEF Remaining
  <1>. DEFINE left == us \ AllGone(g)
  <1>. HIDE DEF us, built
  <1>7. /\ IsFiniteSet(left) /\ Cardinality(left) \in Nat /\ Cardinality(left) <= Cardinality(Remaining(g, p))
        /\ Cardinality(Remaining(g, p)) \in Nat /\ Cardinality(Remaining(g, p)) <= Cardinality(us)
    <2>1. IsFiniteSet(Remaining(g, p)) /\ Cardinality(Remaining(g, p)) <= Cardinality(us)
      BY <1>1, <1>6, FS_Subset
    <2>. HIDE DEF left
    <2>2. left \subseteq Remaining(g, p)
      BY <1>5 DEF left
    <2>. QED  BY <2>1, <2>2, FS_Subset, FS_CardinalityType
  <1>8. CASE Surplus(g, p) < 0
    <2>1. built = {}
      BY <1>1, <1>2, <1>8
    <2>2. AdjustedUnits(g)[p] = left
      BY <1>4, <2>1
    <2>3. Cardinality(Remaining(g, p)) <= Cardinality(g.centers[p])
      BY <1>8, DisorderCount
    <2>. HIDE DEF left
    <2>. QED  BY <1>1, <1>7, <2>2, <2>3
  <1>9. CASE Surplus(g, p) >= 0
    <2>1. Cardinality(built) <= Surplus(g, p)
      BY <1>1, <1>2, <1>9, FS_EmptySet
    <2>. HIDE DEF left
    <2>2. Cardinality(AdjustedUnits(g)[p]) <= Cardinality(left) + Cardinality(built)
      BY <1>2, <1>4, <1>7, SumLemma DEF left
    <2>3. Cardinality(AdjustedUnits(g)[p]) \in Nat
      <3>1. IsFiniteSet(AdjustedUnits(g)[p])
        BY <1>2, <1>4, <1>7, SumLemma DEF left
      <3>. QED  BY <3>1, FS_CardinalityType
    <2>. QED  BY <1>1, <1>2, <1>7, <2>1, <2>2, <2>3
  <1>. QED  BY <1>1, <1>8, <1>9
-----------------------------------------------------------------------------
(* Where the walk stops with units that wait: at once, in the retreats after the moves. *)

LEMMA WalkStaysQuiet ==
    ASSUME NEW x, IsGame(x.g), NoRetreats(x.g), NEW z, z = AdvanceStep(x)
    PROVE  IsGame(z.g) /\ NoRetreats(z.g)
  <1>1. CASE ~x.go
    <2>1. z = x
      BY <1>1 DEF AdvanceStep
    <2>. QED  BY <2>1
  <1>2. CASE x.go
    <2>1. PICK g : g = [x.g EXCEPT !.phase = FindNextPhase(@)]
      OBVIOUS
    <2>2. IsGame(g) /\ SameBoard(g, x.g)
      <3>1. PICK ph : ph = FindNextPhase(x.g.phase)
        OBVIOUS
      <3>2. g = [x.g EXCEPT !.phase = ph]
        BY <2>1, <3>1
      <3>. QED  BY <3>2, PhaseFields
    <2>3. NoRetreats(g)
      BY <2>2 DEF NoRetreats, SameBoard
    <2>4. z = CheckPhase(g)
      BY <1>2, <2>1 DEF AdvanceStep
    <2>5. PICK c, h : c = ClearRetreats(g) /\ h = CaptureCenters(g)
      OBVIOUS
    <2>6. z.g = g \/ z.g = c \/ z.g = h
      <3>1. z = Skip(c) \/ z = Skip(h) \/ z = [g |-> h, go |-> FALSE] \/ z = [g |-> g, go |-> FALSE]
        BY <2>4, <2>5 DEF CheckPhase
      <3>. QED  BY <3>1 DEF Skip
    <2>7. IsGame(c) /\ NoRetreats(c)
      <3>1. IsGame(c) /\ c.retreats = [p \in Powers |-> <<>>]
        BY ONLY <2>2, <2>5, ClearRetreatsFields
      <3>. QED  BY <3>1, NoRetreatsLemma
    <2>8. IsGame(h) /\ NoRetreats(h)
      <3>1. IsGame(h) /\ (GoesOn(h, g) \/ Ends(h, g))
        BY ONLY <2>2, <2>5, CaptureFields
      <3>2. h.retreats = g.retreats \/ h.retreats = [p \in Powers |-> <<>>]
        BY <3>1 DEF GoesOn, Ends
      <3>. QED  BY <2>3, <3>1, <3>2 DEF NoRetreats
    <2>. QED  BY <2>2, <2>3, <2>6, <2>7, <2>8
  <1>. QED  BY <1>1, <1>2

LEMMA RetreatsReached ==
    ASSUME NEW g, IsGame(g), NEW i0 \in 2..6, NEW y0 \in Nat, g.phase = At(i0, y0), i0 \in {2, 4} \/ NoRetreats(g),
           NEW h, h = NextPhase(g)
    PROVE  \/ NoRetreats(g) /\ NoRetreats(h)
           \/ i0 \in {2, 4} /\ h.phase = At(i0 + 1, y0) /\ SameBoard(h, g)
  <1>. DEFINE x0 == First(g)
              x1 == AdvanceStep(x0)
              x2 == AdvanceStep(x1)
              x3 == AdvanceStep(x2)
              x4 == AdvanceStep(x3)
              x5 == AdvanceStep(x4)
              x6 == AdvanceStep(x5)
              Quiet(x) == IsGame(x.g) /\ NoRetreats(x.g)
  <1>0. AdvancePhase(g) = x6.g
    BY AdvanceUnfolds
  <1>1. ASSUME NEW f, IsGame(f), f = AdvancePhase(g)
        PROVE  SameBoard(h, f) /\ h.phase = f.phase
    <2>1. h = ClearOrders(f)
      BY <1>1 DEF NextPhase
    <2>. QED  BY ONLY <1>1, <2>1, ClearOrdersFields
  <1>. HIDE DEF Quiet
  <1>2. CASE NoRetreats(g)
    <2>1. Quiet(x0)
      BY <1>2 DEF First, Quiet
    <2>2. ASSUME NEW x, Quiet(x), NEW z, z = AdvanceStep(x) PROVE Quiet(z)
      BY <2>2, WalkStaysQuiet DEF Quiet
    <2>3. Quiet(x1)
      <3>. HIDE DEF x0
      <3>. QED  BY <2>1, <2>2
    <2>4. Quiet(x2)
      <3>. HIDE DEF x1
      <3>. QED  BY <2>2, <2>3
    <2>5. Quiet(x3)
      <3>. HIDE DEF x2
      <3>. QED  BY <2>2, <2>4
    <2>6. Quiet(x4)
      <3>. HIDE DEF x3
      <3>. QED  BY <2>2, <2>5
    <2>7. Quiet(x5)
      <3>. HIDE DEF x4
      <3>. QED  BY <2>2, <2>6
    <2>8. Quiet(x6)
      <3>. HIDE DEF x5
      <3>. QED  BY <2>2, <2>7
    <2>. HIDE DEF x6
    <2>9. PICK f : f = x6.g
      OBVIOUS
    <2>10. IsGame(f) /\ NoRetreats(f) /\ f = AdvancePhase(g)
      BY <1>0, <2>8, <2>9 DEF Quiet
    <2>11. SameBoard(h, f)
      BY <1>1, <2>10
    <2>. QED  BY <1>2, <2>10, <2>11 DEF SameBoard, NoRetreats
  <1>3. CASE ~NoRetreats(g)
    <2>1. i0 \in {2, 4} /\ i0 + 1 \in {3, 5}
      BY <1>3
    <2>2. PICK d : d = [g EXCEPT !.phase = FindNextPhase(@)]
      OBVIOUS
    <2>3. IsGame(d) /\ SameBoard(d, g) /\ d.phase = At(i0 + 1, y0)
      <3>1. FindNextPhase(g.phase) = At(i0 + 1, y0)
        BY <2>1, NextLemma
      <3>2. d = [g EXCEPT !.phase = At(i0 + 1, y0)]
        BY <2>2, <3>1
      <3>. QED  BY <3>2, PhaseFields
    <2>4. ~NoRetreats(d)
      BY <1>3, <2>3 DEF NoRetreats, SameBoard
    <2>5. x1 = CheckPhase(d)
      BY <2>2 DEF AdvanceStep, First
    <2>6. x1.g = d /\ ~x1.go
      <3>. HIDE DEF x1
      <3>. QED  BY <2>1, <2>3, <2>4, <2>5, CheckCases
    <2>7. ASSUME NEW x, ~x.go PROVE AdvanceStep(x) = x
      BY <2>7 DEF AdvanceStep
    <2>8. x6 = x1
      <3>. HIDE DEF x1
      <3>. QED  BY <2>6, <2>7
    <2>. HIDE DEF x6
    <2>9. d = AdvancePhase(g)
      BY <1>0, <2>6, <2>8
    <2>10. SameBoard(h, d) /\ h.phase = d.phase
      BY <1>1, <2>3, <2>9
    <2>. QED  BY <2>1, <2>3, <2>10 DEF SameBoard
  <1>. QED  BY <1>2, <1>3
-----------------------------------------------------------------------------
(* One order to retreat for each unit. *)

LEMMA EmptyOneRetreat == OneRetreat(<<>>)
  BY DEF OneRetreat, ToSet

\* What is kept of the orders, and then the new ones, each of another location.
LEMMA ReplaceOneRetreat ==
    ASSUME NEW adjust \in Seq(Entry), NEW new \in Seq(Entry), OneRetreat(adjust), OneRetreat(new), NEW c, c = Replace(adjust, new)
    PROVE  OneRetreat(c) /\ c \in Seq(Entry)
  <1>. DEFINE locs == {e.u[2] : e \in {x \in ToSet(new) : Counts(x)}}
              places == {i \in DOMAIN adjust : Counts(adjust[i]) /\ adjust[i].u[2] \in locs}
  <1>2. PICK w : w = Without(adjust, places)
    OBVIOUS
  <1>3. c = w \o new
    BY <1>2 DEF Replace, Counts
  <1>4. w \in Seq(Entry) /\ \A e \in ToSet(w) : \E i \in DOMAIN adjust : i \notin places /\ e = adjust[i]
    <2>. HIDE DEF places
    <2>. QED  BY <1>2, WithoutLemma
  <1>5. c \in Seq(Entry) /\ \A e \in ToSet(c) : e \in ToSet(w) \/ e \in ToSet(new)
    BY <1>3, <1>4, JoinLemma
  <1>6. ASSUME NEW e \in ToSet(w) PROVE e \in ToSet(adjust) /\ (Counts(e) => \A x \in ToSet(new) : Counts(x) => x.u[2] # e.u[2])
    <2>1. PICK i \in DOMAIN adjust : i \notin places /\ e = adjust[i]
      BY <1>4
    <2>. QED  BY <2>1 DEF ToSet
  <1>. HIDE DEF locs, places
  <1>7. ASSUME NEW d \in ToSet(c), NEW e \in ToSet(c), d.do = "R", e.do = "R", d.u = e.u PROVE d.to = e.to
    <2>1. Counts(d) /\ Counts(e)
      BY <1>7 DEF Counts
    <2>2. CASE d \in ToSet(new) /\ e \in ToSet(new)
      BY <1>7, <2>2 DEF OneRetreat
    <2>3. CASE d \in ToSet(w) /\ e \in ToSet(w)
      BY <1>6, <1>7, <2>3 DEF OneRetreat
    <2>4. CASE d \in ToSet(w) /\ e \in ToSet(new)
      BY <1>6, <1>7, <2>1, <2>4
    <2>5. CASE d \in ToSet(new) /\ e \in ToSet(w)
      BY <1>6, <1>7, <2>1, <2>5
    <2>. QED  BY <1>5, <2>2, <2>3, <2>4, <2>5
  <1>. QED  BY <1>5, <1>7 DEF OneRetreat

\* A second order of one call for the same unit is void.
LEMMA EntriesOneRetreat ==
    ASSUME NEW g, NEW p, NEW list \in Seq(Texts("R")), NEW new, new = RetreatEntries(g, p, list)
    PROVE  OneRetreat(new)
  <1>1. list \in Seq(Entry)
    <2>1. Texts("R") \subseteq Entry
      BY DEF Texts, Entry
    <2>. QED  BY <2>1
  <1>2. DOMAIN list = 1..Len(list) /\ Len(list) \in Nat
    BY <1>1
  <1>3. /\ new = [i \in 1..Len(list) |-> new[i]]
        /\ \A i \in 1..Len(list) : \/ /\ new[i] = list[i] /\ RetreatAccepted(g, p, list[i])
                                      /\ \A j \in 1..i - 1 : RetreatAccepted(g, p, list[j]) => ~SameUnit(list[j], list[i])
                                   \/ new[i] = Void(list[i])
    BY <1>2 DEF Entries, RetreatEntries
  <1>4. \A i \in 1..Len(list) : list[i] \in Entry
    BY <1>1
  <1>5. \A i \in 1..Len(list) : new[i].do = "R" =>
              /\ new[i] = list[i] /\ RetreatAccepted(g, p, list[i])
              /\ \A j \in 1..i - 1 : RetreatAccepted(g, p, list[j]) => ~SameUnit(list[j], list[i])
    BY <1>3, <1>4, VoidLemma
  <1>6. ASSUME NEW i \in 1..Len(list), NEW j \in 1..Len(list), new[i].do = "R", new[j].do = "R", j < i PROVE new[i].u # new[j].u
    <2>1. new[i] = list[i] /\ new[j] = list[j] /\ RetreatAccepted(g, p, list[j]) /\ j \in 1..i - 1
      BY <1>2, <1>5, <1>6
    <2>2. ~SameUnit(list[j], list[i])
      BY <1>5, <1>6, <2>1
    <2>. QED  BY <2>1, <2>2 DEF SameUnit
  <1>7. ASSUME NEW i \in 1..Len(list), NEW j \in 1..Len(list), new[i].do = "R", new[j].do = "R", new[i].u = new[j].u PROVE i = j
    BY <1>2, <1>6, <1>7
  <1>8. DOMAIN new = 1..Len(list)
    BY <1>3
  <1>. QED  BY <1>7, <1>8 DEF OneRetreat, ToSet


\* In a retreat phase no unit has two orders.
Single(g) == g.phase.type = "R" => \A p \in Powers : OneRetreat(g.adjust[p])

LEMMA SetOrdersSingle ==
    ASSUME NEW g, IsGame(g), AdjustFits(g), Single(g), NEW p \in Powers, NEW list \in Seq(Texts(g.phase.type)),
           NEW h, h = SetOrdersOf(g, p, list)
    PROVE  Single(h)
  <1>. SUFFICES ASSUME h.phase.type = "R" PROVE \A q \in Powers : OneRetreat(h.adjust[q])
    BY DEF Single
  <1>1. g.phase.type = "R"
    BY SetOrdersFields
  <1>2. PICK new : new = RetreatEntries(g, p, list)
    OBVIOUS
  <1>3. OneRetreat(new) /\ new \in Seq(Entry)
    BY <1>1, <1>2, EntriesOneRetreat, RetreatEntriesProper DEF Proper
  <1>4. DOMAIN g.adjust = Powers /\ \A q \in Powers : g.adjust[q] \in Seq(Entry) /\ OneRetreat(g.adjust[q])
    BY <1>1 DEF AdjustFits, Proper, Single
  <1>5. PICK c : c = Replace(g.adjust[p], new)
    OBVIOUS
  <1>6. OneRetreat(c)
    BY <1>3, <1>4, <1>5, ReplaceOneRetreat
  <1>7. PICK a : a = IF list = <<>> THEN <<>> ELSE c
    OBVIOUS
  <1>8. OneRetreat(a)
    BY <1>6, <1>7, EmptyOneRetreat
  <1>9. h = [g EXCEPT !.adjust[p] = a]
    BY <1>1, <1>2, <1>5, <1>7 DEF SetOrdersOf, AddRetreatOrders, RetreatEntries
  <1>10. h.adjust = [g.adjust EXCEPT ![p] = a]
    BY <1>9 DEF IsGame, Fields
  <1>. QED  BY <1>4, <1>8, <1>10
-----------------------------------------------------------------------------
(* Position and phase fit each other.                                         *)

\* There is something to do: retreats, or a power to build or disband.
Busy(g) ==
    /\ g.phase.type # "R" => NoRetreats(g)
    /\ g.phase.type = "R" => ~NoRetreats(g)
    /\ g.phase.type = "A" => \E p \in Powers : MustAdjust(g, p)

\* In spring a power has centers for its units, those that wait included.
Room(g) ==
    g.phase.season = "SPRING" /\ g.phase.year > FirstYear =>
        \A p \in Powers : Cardinality(g.units[p]) + Cardinality(DOMAIN g.retreats[p]) <= Cardinality(g.centers[p])

FitInv ==
    /\ SoundInv /\ Single(game) /\ Busy(game) /\ Room(game)
    /\ saved # NoState => Busy(saved) /\ Room(saved)

LEMMA SeasonsOfPhases ==
    ASSUME NEW g, NEW i \in 2..6, NEW y \in Nat, g.phase = At(i, y)
    PROVE  (g.phase.season = "SPRING" <=> i \in {2, 3}) /\ g.phase.year = y
  <1>1. i = 2 \/ i = 3 \/ i = 4 \/ i = 5 \/ i = 6
    OBVIOUS
  <1>. QED  BY <1>1, FlowLemma DEF Phase

LEMMA OverFits ==
    ASSUME NEW g, g.phase = Completed, NoRetreats(g)
    PROVE  Busy(g) /\ Room(g) /\ Single(g)
  BY DEF Busy, Room, Single, Completed

LEMMA NoneWait ==
    ASSUME NEW g, NoRetreats(g), NEW p \in Powers
    PROVE  Cardinality(DOMAIN g.retreats[p]) = 0
  <1>1. DOMAIN g.retreats[p] = {}
    BY DEF NoRetreats
  <1>. QED  BY <1>1, FS_EmptySet

LEMMA SameFit ==
    ASSUME NEW g, NEW h, h.phase = g.phase, SameBoard(h, g), Busy(g), Room(g)
    PROVE  Busy(h) /\ Room(h)
  <1>1. \A p : MustAdjust(h, p) <=> MustAdjust(g, p)
    BY SameToDo DEF SameBoard
  <1>2. NoRetreats(h) <=> NoRetreats(g)
    BY DEF SameBoard, NoRetreats
  <1>. QED  BY <1>1, <1>2 DEF Busy, Room, SameBoard

\* After the results of a phase, powers have centers for their units where the
\* walk to the next phase counts on it.
LEMMA ResultsFed ==
    ASSUME SoundInv, MovesAreSettled, Single(game), Room(game), NEW i \in 2..6, NEW y \in Nat, game.phase = At(i, y),
           NEW h, h = Results(game)
    PROVE  /\ Fed(h, i, y)
           /\ i = 2 /\ y > FirstYear => Room(h)
  <1>0. /\ IsGame(game) /\ SoundUnits(game.units) /\ SoundRetreats(game.retreats) /\ SoundCenters(game.centers)
        /\ AdjustFits(game)
    BY DEF SoundInv, Good, Position
  <1>1. h.centers = game.centers /\ IsGame(h) /\ h.phase = game.phase
    BY <1>0, ResultsLemma
  <1>2. \A p \in Powers : Cardinality(game.centers[p]) \in Nat /\ Cardinality(game.units[p]) \in Nat
    BY <1>0, FiniteLemma, FS_CardinalityType
  <1>3. /\ i \in {2, 4} => game.phase.type = "M"
        /\ i \in {3, 5} => game.phase.type = "R"
        /\ game.phase.year = y /\ (i \in {2, 3} => game.phase.season = "SPRING")
    BY TypesOfPhases, SeasonsOfPhases
  <1>4. CASE i = 2 /\ y > FirstYear
    <2>1. PICK r : r = Resolved(game)
      OBVIOUS
    <2>2. Settled(r, Board(game))
      BY <1>3, <1>4, <2>1 DEF MovesAreSettled
    <2>3. h = MoveUnits(game, r)
      BY <1>0, <1>4, <2>1, ResultsLemma DEF MoveResults
    <2>4. h.units = MovedUnits(game, r) /\ h.retreats = MovedRetreats(game, r)
      BY <1>0, <2>3, MoveFields
    <2>5. ASSUME NEW p \in Powers
          PROVE  /\ Cardinality(h.units[p]) \in Nat /\ Cardinality(DOMAIN h.retreats[p]) \in Nat
                 /\ Cardinality(h.units[p]) + Cardinality(DOMAIN h.retreats[p]) <= Cardinality(h.centers[p])
      <3>1. Cardinality(game.units[p]) + Cardinality(DOMAIN game.retreats[p]) <= Cardinality(game.centers[p])
        BY <1>3, <1>4 DEF Room
      <3>2. Cardinality(DOMAIN game.retreats[p]) = 0
        BY <1>3, <1>4, NoneWait DEF SoundInv, Waiting
      <3>3. /\ Cardinality(h.units[p]) \in Nat /\ Cardinality(DOMAIN h.retreats[p]) \in Nat
            /\ Cardinality(h.units[p]) + Cardinality(DOMAIN h.retreats[p]) <= Cardinality(game.units[p])
        BY <1>0, <2>2, <2>4, MovesCount
      <3>. QED  BY <1>1, <1>2, <3>1, <3>2, <3>3
    <2>6. ASSUME NEW p \in Powers PROVE ~(Surplus(h, p) < 0)
      BY <1>1, <1>2, <2>5 DEF Surplus
    <2>. QED  BY <1>4, <2>5, <2>6 DEF Fed, Supplied, Room
  <1>5. CASE i = 3 /\ y > FirstYear
    <2>1. h.units = BackUnits(game)
      <3>1. h = RetreatResults(game)
        BY <1>0, <1>5, ResultsLemma
      <3>. QED  BY <1>0, <3>1, RetreatFields
    <2>2. ASSUME NEW p \in Powers PROVE ~(Surplus(h, p) < 0)
      <3>1. Cardinality(game.units[p]) + Cardinality(DOMAIN game.retreats[p]) <= Cardinality(game.centers[p])
        BY <1>3, <1>5 DEF Room
      <3>2. OneRetreat(game.adjust[p])
        BY <1>3, <1>5 DEF Single
      <3>3. /\ Cardinality(h.units[p]) \in Nat
            /\ Cardinality(h.units[p]) <= Cardinality(game.units[p]) + Cardinality(DOMAIN game.retreats[p])
        BY <1>0, <2>1, <3>2, BackCount
      <3>4. Cardinality(DOMAIN game.retreats[p]) \in Nat
        <4>1. DOMAIN game.retreats[p] \subseteq Out(game.retreats)[p] /\ SoundUnits(Out(game.retreats))
          BY <1>0 DEF Out, SoundRetreats
        <4>. QED  BY <4>1, FiniteUnits
      <3>. QED  BY <1>1, <1>2, <3>1, <3>3, <3>4 DEF Surplus
    <2>. QED  BY <1>5, <2>2 DEF Fed, Supplied
  <1>6. CASE i = 6
    <2>1. h.units = AdjustedUnits(game)
      <3>1. h = AdjustResults(game)
        BY <1>0, <1>6, ResultsLemma
      <3>. QED  BY <1>0, <3>1, AdjustFields
    <2>2. ASSUME NEW p \in Powers PROVE ~(Surplus(h, p) < 0)
      <3>1. game.adjust[p] \in Seq(Entry)
        BY <1>0 DEF AdjustFits, Proper
      <3>2. Cardinality(h.units[p]) <= Cardinality(game.centers[p]) /\ Cardinality(h.units[p]) \in Nat
        BY <1>0, <2>1, <3>1, AdjustCount
      <3>. QED  BY <1>1, <1>2, <3>2 DEF Surplus
    <2>. QED  BY <1>6, <2>2 DEF Fed, Supplied
  <1>7. CASE i \in {4, 5} \/ (i \in {2, 3} /\ ~(y > FirstYear))
    BY <1>7 DEF Fed
  <1>. QED  BY <1>4, <1>5, <1>6, <1>7

\* A processing ends in a phase with something to do, and with centers for all units.
LEMMA ProcessFits ==
    ASSUME HomesApart, Skips, FitInv, MovesAreSettled, Process
    PROVE  Single(game') /\ Busy(game') /\ Room(game')
  <1>0. SoundInv /\ Single(game) /\ Room(game) /\ InPhase(game) /\ IsGame(game)
    BY DEF FitInv, SoundInv, PhaseInv, InPhase
  <1>1. PICK i \in 2..6, y \in Nat : game.phase = At(i, y) /\ InTime(i, y)
    BY <1>0, InPlay DEF Process
  <1>2. PICK h : h = Results(game)
    OBVIOUS
  <1>3. game' = NextPhase(h) /\ Reached(h, i, y, game') /\ game'.adjust = [p \in Powers |-> <<>>]
    BY <1>0, <1>1, <1>2, ProcessReaches
  <1>4. Fed(h, i, y) /\ (i = 2 /\ y > FirstYear => Room(h))
    BY <1>0, <1>1, <1>2, ResultsFed
  <1>5. IsGame(h) /\ h.phase = At(i, y) /\ (i \in {2, 4} \/ NoRetreats(h))
    BY <1>0, <1>1, <1>2, ResultsLemma
  <1>6. Single(game')
    <2>1. \A p \in Powers : game'.adjust[p] = <<>>
      BY <1>3
    <2>. QED  BY <2>1, EmptyOneRetreat DEF Single
  <1>7. Good(game')
    BY <1>0, ProcessGood
  <1>8. CASE game'.phase = Completed /\ NoRetreats(game')
    BY <1>6, <1>8, OverFits
  <1>9. ASSUME NEW j \in 2..6, NEW z \in Nat, game'.phase = At(j, z), InTime(j, z), Fits(game', j),
               Fed(h, i, y) /\ j \in {2, 3} /\ z > FirstYear => Supplied(game')
        PROVE  Busy(game') /\ Room(game')
    <2>1. /\ j \in {2, 4} => game'.phase.type = "M"
          /\ j \in {3, 5} => game'.phase.type = "R"
          /\ j = 6 => game'.phase.type = "A"
          /\ (game'.phase.season = "SPRING" <=> j \in {2, 3}) /\ game'.phase.year = z
      BY <1>9, TypesOfPhases, SeasonsOfPhases
    <2>2. Busy(game')
      <3>1. j = 2 \/ j = 3 \/ j = 4 \/ j = 5 \/ j = 6
        OBVIOUS
      <3>. QED  BY <1>9, <2>1, <3>1 DEF Busy, Fits
    <2>3. CASE j = 2 /\ z > FirstYear
      <3>1. NoRetreats(game') /\ Supplied(game')
        BY <1>4, <1>9, <2>3 DEF Fits
      <3>2. ASSUME NEW p \in Powers
            PROVE  Cardinality(game'.units[p]) + Cardinality(DOMAIN game'.retreats[p]) <= Cardinality(game'.centers[p])
        <4>1. Cardinality(DOMAIN game'.retreats[p]) = 0
          BY <3>1, NoneWait
        <4>2. Cardinality(game'.units[p]) \in Nat /\ Cardinality(game'.centers[p]) \in Nat
          BY <1>7, FiniteLemma, FS_CardinalityType DEF Good, Position
        <4>3. ~(Surplus(game', p) < 0)
          BY <3>1 DEF Supplied
        <4>. QED  BY <4>1, <4>2, <4>3 DEF Surplus
      <3>3. Room(game')
        BY <3>2 DEF Room
      <3>. QED  BY <2>2, <3>3
    <2>4. CASE j = 3 /\ z > FirstYear
      <3>1. ~NoRetreats(game')
        BY <1>9, <2>4 DEF Fits
      <3>2. i \in {2, 4} /\ game'.phase = At(i + 1, y) /\ SameBoard(game', h)
        BY <1>3, <1>5, <3>1, RetreatsReached
      <3>3. i = 2 /\ y = z
        <4>1. i + 1 \in 2..6
          BY <3>2
        <4>2. FlowIndex(At(i + 1, y)) = i + 1 /\ FlowIndex(At(j, z)) = j /\ At(i + 1, y).year = y /\ At(j, z).year = z
          BY <4>1, PlayedLemma
        <4>3. At(i + 1, y) = At(j, z)
          BY <1>9, <3>2
        <4>. QED  BY <2>4, <4>2, <4>3
      <3>4. Room(h)
        BY <1>4, <2>4, <3>3
      <3>5. h.phase.season = "SPRING" /\ h.phase.year > FirstYear
        BY <1>5, <2>4, <3>3, SeasonsOfPhases
      <3>6. Room(game')
        BY <3>2, <3>4, <3>5 DEF Room, SameBoard
      <3>. QED  BY <2>2, <3>6
    <2>5. CASE ~(j \in {2, 3} /\ z > FirstYear)
      BY <2>1, <2>2, <2>5 DEF Room
    <2>. QED  BY <2>3, <2>4, <2>5
  <1>. QED  BY <1>3, <1>6, <1>8, <1>9 DEF Reached

LEMMA FitInitLemma == Init => FitInv
  <1>. SUFFICES ASSUME Init PROVE FitInv
    OBVIOUS
  <1>1. PICK s \in Setups : game = NewGame(s)
    BY DEF Init
  <1>2. game.phase = At(2, FirstYear) /\ game.retreats = [p \in Powers |-> <<>>]
    BY <1>1, NewGameFields
  <1>3. FirstYear \in Nat /\ 2 \in 2..6
    BY EngineAssumption
  <1>4. game.phase.type = "M" /\ game.phase.year = FirstYear
    BY <1>2, <1>3, TypesOfPhases, SeasonsOfPhases
  <1>5. Busy(game) /\ Room(game) /\ Single(game)
    BY <1>2, <1>3, <1>4, NoRetreatsLemma DEF Busy, Room, Single
  <1>6. saved = NoState
    BY DEF Init
  <1>. QED  BY <1>5, <1>6, SoundInitLemma DEF FitInv

LEMMA FitStepLemma == HomesApart /\ Skips /\ FitInv /\ MovesAreSettled /\ [Next]_vars => FitInv'
  <1>. SUFFICES ASSUME HomesApart, Skips, FitInv, MovesAreSettled, [Next]_vars PROVE FitInv'
    OBVIOUS
  <1>0. /\ SoundInv /\ SoundInv' /\ Single(game) /\ Busy(game) /\ Room(game) /\ (saved # NoState => Busy(saved) /\ Room(saved))
        /\ IsGame(game) /\ AdjustFits(game) /\ Good(game) /\ (saved # NoState => IsState(saved))
    BY SoundStepLemma DEF FitInv, SoundInv, Good
  <1>1. CASE UNCHANGED vars
    BY <1>0, <1>1 DEF vars, FitInv
  <1>2. ASSUME NEW p \in Powers, SetOrders(p) PROVE FitInv'
    <2>1. PICK list \in Seq(Texts(game.phase.type)) : game' = SetOrdersOf(game, p, list)
      BY <1>2 DEF SetOrders
    <2>2. game'.phase = game.phase /\ SameBoard(game', game)
      BY <1>0, <2>1, SetOrdersFields
    <2>3. Busy(game') /\ Room(game')
      BY <1>0, <2>2, SameFit
    <2>4. Single(game')
      BY <1>0, <2>1, SetOrdersSingle
    <2>5. saved' = saved
      BY <1>2 DEF SetOrders
    <2>. QED  BY <1>0, <2>3, <2>4, <2>5 DEF FitInv
  <1>3. CASE Process
    <2>1. saved' = saved
      BY <1>3 DEF Process
    <2>. QED  BY <1>0, <1>3, <2>1, ProcessFits DEF FitInv
  <1>4. CASE Draw
    <2>1. game'.phase = Completed /\ NoRetreats(game')
      BY <1>0, <1>4, DrawFields, NoRetreatsLemma
    <2>2. saved' = saved
      BY <1>4 DEF Draw
    <2>. QED  BY <1>0, <2>1, <2>2, OverFits DEF FitInv
  <1>5. CASE Save
    <2>1. game' = game /\ saved' = GetState(game)
      BY <1>5 DEF Save
    <2>2. PICK s : s = GetState(game)
      OBVIOUS
    <2>3. s.phase = game.phase /\ SameBoard(s, game)
      BY <2>2 DEF GetState, SameBoard
    <2>4. Busy(s) /\ Room(s)
      BY <1>0, <2>3, SameFit
    <2>. QED  BY <1>0, <2>1, <2>2, <2>4 DEF FitInv
  <1>6. CASE SetState
    <2>1. game' = SetStateOf(game, saved) /\ saved' = saved /\ IsState(saved) /\ Busy(saved) /\ Room(saved)
      BY <1>0, <1>6 DEF SetState
    <2>2. Ready(game, saved)
      BY <1>0, <2>1 DEF Ready, Good, Position, IsState, IsTable, SoundUnits, SoundRetreats, SoundCenters
    <2>3. /\ game'.phase = saved.phase /\ game'.adjust = [p \in Powers |-> <<>>]
          /\ game'.units = saved.units /\ game'.retreats = saved.retreats /\ game'.centers = saved.centers
      BY <1>0, <2>1, <2>2, SetStateFields
    <2>4. Busy(game') /\ Room(game')
      BY <2>1, <2>3, SameFit DEF SameBoard
    <2>5. Single(game')
      <3>1. \A p \in Powers : game'.adjust[p] = <<>>
        BY <2>3
      <3>. QED  BY <3>1, EmptyOneRetreat DEF Single
    <2>. QED  BY <1>0, <2>1, <2>4, <2>5 DEF FitInv
  <1>. QED  BY <1>1, <1>2, <1>3, <1>4, <1>5, <1>6 DEF Next
-----------------------------------------------------------------------------
(* The units, listed for the adjudication. *)

Element(s) == CHOOSE x \in s : TRUE
Small(S, n) == {s \in SUBSET S : Cardinality(s) <= n}

\* The lists of the small subsets, by the recursion of FoldSet.
IsLine(f, S, n) == f = [s \in Small(S, n) |-> IF s = {} THEN <<>> ELSE Append(f[s \ {Element(s)}], Element(s))]

LEMMA SmallLemma ==
    ASSUME NEW S, IsFiniteSet(S), NEW n \in Nat, NEW s \in Small(S, n)
    PROVE  /\ IsFiniteSet(s) /\ Cardinality(s) \in Nat /\ Cardinality(s) <= n
           /\ s # {} => Element(s) \in s /\ n # 0 /\ s \ {Element(s)} \in Small(S, n - 1)
  <1>1. IsFiniteSet(s) /\ Cardinality(s) \in Nat /\ Cardinality(s) <= n
    BY FS_Subset, FS_CardinalityType DEF Small
  <1>2. ASSUME s # {} PROVE Element(s) \in s /\ n # 0 /\ s \ {Element(s)} \in Small(S, n - 1)
    <2>1. Element(s) \in s
      BY <1>2 DEF Element
    <2>2. PICK x : x = Element(s)
      OBVIOUS
    <2>3. Cardinality(s \ {x}) = Cardinality(s) - 1 /\ Cardinality(s \ {x}) \in Nat
      BY <1>1, <2>1, <2>2, FS_RemoveElement, FS_CardinalityType
    <2>. QED  BY <1>1, <2>1, <2>2, <2>3 DEF Small
  <1>. QED  BY <1>1, <1>2

LEMMA LineExists ==
    ASSUME NEW S, IsFiniteSet(S), NEW N \in Nat
    PROVE  \E f : IsLine(f, S, N)
  <1>. DEFINE Listed == {n \in 0..N : \E f : IsLine(f, S, n)}
  <1>1. 0 \in Listed
    <2>. DEFINE f == [s \in Small(S, 0) |-> <<>>]
    <2>1. \A s \in Small(S, 0) : s = {}
      BY SmallLemma
    <2>2. f = [s \in Small(S, 0) |-> IF s = {} THEN <<>> ELSE Append(f[s \ {Element(s)}], Element(s))]
      BY <2>1
    <2>. HIDE DEF f
    <2>3. IsLine(f, S, 0)
      BY <2>2 DEF IsLine
    <2>. QED  BY <2>3
  <1>2. ASSUME NEW n \in 1..N, n - 1 \in Listed PROVE n \in Listed
    <2>1. PICK f : IsLine(f, S, n - 1)
      BY <1>2
    <2>. DEFINE h == [s \in Small(S, n) |-> IF s = {} THEN <<>> ELSE Append(f[s \ {Element(s)}], Element(s))]
    <2>2. \A s \in Small(S, n) : h[s] = IF s = {} THEN <<>> ELSE Append(f[s \ {Element(s)}], Element(s))
      OBVIOUS
    <2>3. h = [s \in Small(S, n) |-> h[s]]
      OBVIOUS
    <2>. HIDE DEF h
    <2>4. \A s \in Small(S, n - 1) : s \in Small(S, n) /\ h[s] = f[s]
      <3>. SUFFICES ASSUME NEW s \in Small(S, n - 1) PROVE s \in Small(S, n) /\ h[s] = f[s]
        OBVIOUS
      <3>0. n - 1 \in Nat
        OBVIOUS
      <3>1. s \in Small(S, n)
        <4>1. Cardinality(s) <= n - 1 /\ Cardinality(s) \in Nat
          BY <3>0, SmallLemma
        <4>. QED  BY <4>1 DEF Small
      <3>2. f[s] = IF s = {} THEN <<>> ELSE Append(f[s \ {Element(s)}], Element(s))
        BY <2>1 DEF IsLine
      <3>. QED  BY <2>2, <3>1, <3>2
    <2>5. \A s \in Small(S, n) : s # {} => s \ {Element(s)} \in Small(S, n - 1)
      BY SmallLemma
    <2>6. \A s \in Small(S, n) : h[s] = IF s = {} THEN <<>> ELSE Append(h[s \ {Element(s)}], Element(s))
      BY <2>2, <2>4, <2>5
    <2>7. IsLine(h, S, n)
      BY <2>3, <2>6 DEF IsLine
    <2>. QED  BY <2>7
  <1>. HIDE DEF Listed
  <1>3. \A n \in 0..N : n \in Listed
    BY <1>1, <1>2, AlongLemma
  <1>. QED  BY <1>3 DEF Listed

\* A list of a finite set has its members, no more and no less.
LEMMA LineLists ==
    ASSUME NEW S, IsFiniteSet(S), NEW N \in Nat, NEW f, IsLine(f, S, N)
    PROVE  \A s \in Small(S, N) : f[s] \in Seq(S) /\ ToSet(f[s]) = s
  <1>. DEFINE Ok == {n \in 0..N : \A s \in Small(S, N) : Cardinality(s) <= n => f[s] \in Seq(S) /\ ToSet(f[s]) = s}
  <1>0. \A s \in Small(S, N) : f[s] = IF s = {} THEN <<>> ELSE Append(f[s \ {Element(s)}], Element(s))
    BY DEF IsLine
  <1>1. f[{}] = <<>> /\ <<>> \in Seq(S) /\ ToSet(<<>>) = {}
    <2>1. {} \in Small(S, N)
      BY FS_EmptySet DEF Small
    <2>2. f[{}] = <<>>
      BY <1>0, <2>1
    <2>3. ToSet(<<>>) = {}
      BY DEF ToSet
    <2>. QED  BY <2>2, <2>3
  <1>2. 0 \in Ok
    <2>1. ASSUME NEW s \in Small(S, N), Cardinality(s) <= 0 PROVE s = {}
      <3>1. IsFiniteSet(s) /\ Cardinality(s) \in Nat
        BY SmallLemma
      <3>. QED  BY <2>1, <3>1, FS_EmptySet
    <2>2. \A s \in Small(S, N) : Cardinality(s) <= 0 => f[s] \in Seq(S) /\ ToSet(f[s]) = s
      <3>. SUFFICES ASSUME NEW s \in Small(S, N), Cardinality(s) <= 0 PROVE f[s] \in Seq(S) /\ ToSet(f[s]) = s
        OBVIOUS
      <3>1. s = {}
        BY <2>1
      <3>2. f[{}] \in Seq(S) /\ ToSet(f[{}]) = {}
        BY ONLY <1>1
      <3>. QED  BY ONLY <3>1, <3>2
    <2>. QED  BY <2>2
  <1>3. ASSUME NEW n \in 1..N, n - 1 \in Ok PROVE n \in Ok
    <2>. SUFFICES ASSUME NEW s \in Small(S, N), Cardinality(s) <= n PROVE f[s] \in Seq(S) /\ ToSet(f[s]) = s
      OBVIOUS
    <2>1. CASE s = {}
      BY <1>1, <2>1
    <2>2. CASE s # {}
      <3>1. PICK x, t : x = Element(s) /\ t = s \ {x}
        OBVIOUS
      <3>2. x \in s /\ x \in S /\ IsFiniteSet(s) /\ Cardinality(s) \in Nat
        BY <2>2, <3>1, SmallLemma DEF Small
      <3>3. Cardinality(t) = Cardinality(s) - 1
        BY <3>1, <3>2, FS_RemoveElement
      <3>4. t \in Small(S, N)
        BY <3>1, <3>2, <3>3 DEF Small
      <3>5. Cardinality(t) <= n - 1
        BY <3>2, <3>3
      <3>6. f[t] \in Seq(S) /\ ToSet(f[t]) = t
        BY <1>3, <3>4, <3>5
      <3>7. f[s] = Append(f[t], x)
        BY <1>0, <2>2, <3>1
      <3>8. PICK q : q = f[t]
        OBVIOUS
      <3>9. /\ q \in Seq(S) /\ ToSet(q) = t /\ f[s] = Append(q, x)
        BY <3>6, <3>7, <3>8
      <3>10. /\ Append(q, x) \in Seq(S) /\ Len(q) \in Nat /\ DOMAIN q = 1..Len(q)
             /\ DOMAIN Append(q, x) = 1..Len(q) + 1
             /\ \A i \in 1..Len(q) : Append(q, x)[i] = q[i]
             /\ Append(q, x)[Len(q) + 1] = x
        BY <3>2, <3>9
      <3>11. ToSet(Append(q, x)) = ToSet(q) \cup {x}
        <4>1. PICK a : a = Append(q, x)
          OBVIOUS
        <4>2. ToSet(a) \subseteq ToSet(q) \cup {x}
          BY <3>10, <4>1 DEF ToSet
        <4>3. ToSet(q) \subseteq ToSet(a)
          BY <3>10, <4>1 DEF ToSet
        <4>4. x \in ToSet(a)
          <5>1. Len(q) + 1 \in DOMAIN a /\ a[Len(q) + 1] = x
            BY <3>10, <4>1
          <5>. QED  BY <5>1 DEF ToSet
        <4>. QED  BY <4>1, <4>2, <4>3, <4>4
      <3>. QED  BY <3>1, <3>2, <3>9, <3>10, <3>11
    <2>. QED  BY <2>1, <2>2
  <1>. HIDE DEF Ok
  <1>4. \A n \in 0..N : n \in Ok
    BY <1>2, <1>3, AlongLemma
  <1>5. N \in Ok
    BY <1>4
  <1>. QED  BY <1>5 DEF Ok, Small

LEMMA InOrderLemma ==
    ASSUME NEW S, IsFiniteSet(S), NEW list, list = InOrder(S)
    PROVE  Len(list) \in Nat /\ DOMAIN list = 1..Len(list) /\ ToSet(list) = S
  <1>. DEFINE N == Cardinality(S)
              IsIt(it) == it = [s \in SUBSET S |-> IF s = {} THEN <<>> ELSE Append(it[s \ {Element(s)}], Element(s))]
  <1>1. N \in Nat /\ Small(S, N) = SUBSET S
    <2>1. N \in Nat
      BY FS_CardinalityType
    <2>2. \A s \in SUBSET S : Cardinality(s) <= N
      BY FS_Subset
    <2>. QED  BY <2>1, <2>2 DEF Small
  <1>2. list = (CHOOSE it : IsIt(it))[S]
    BY DEF InOrder, FoldSet, MapThenFoldSet, Element
  <1>3. \E f : IsIt(f)
    <2>1. PICK f : IsLine(f, S, N)
      <3>. HIDE DEF N
      <3>. QED  BY <1>1, LineExists
    <2>. QED  BY <1>1, <2>1 DEF IsLine
  <1>4. PICK f : IsIt(f) /\ list = f[S]
    <2>. HIDE DEF IsIt
    <2>. QED  BY <1>2, <1>3
  <1>5. IsLine(f, S, N)
    BY <1>1, <1>4 DEF IsLine
  <1>. HIDE DEF N, IsIt
  <1>6. list \in Seq(S) /\ ToSet(list) = S
    BY <1>1, <1>4, <1>5, LineLists
  <1>. QED  BY <1>6

LEMMA BoardFielded ==
    ASSUME NEW g, SoundUnits(g.units), Alone(g.units), NEW us, us = InOrder(Board(g))
    PROVE  Fielded(us) /\ ToSet(us) = Board(g)
  <1>1. \A u \in Board(g) : u.loc \in Locs
    BY DEF Board, SoundUnits, UnitType
  <1>2. \A u, v \in Board(g) : Short[u.loc] = Short[v.loc] => u = v
    <2>. SUFFICES ASSUME NEW u \in Board(g), NEW v \in Board(g), Short[u.loc] = Short[v.loc] PROVE u = v
      OBVIOUS
    <2>1. PICK p \in Powers : u \in g.units[p]
      BY DEF Board
    <2>2. PICK q \in Powers : v \in g.units[q]
      BY DEF Board
    <2>3. p = q
      BY <2>1, <2>2 DEF SoundUnits
    <2>. QED  BY <2>1, <2>2, <2>3 DEF Alone
  <1>3. IsFiniteSet(Board(g))
    <2>1. PICK B : B = Board(g)
      OBVIOUS
    <2>. DEFINE f == [u \in B |-> u.loc]
    <2>2. f \in Injection(B, Locs)
      <3>1. \A u \in B : f[u] = u.loc /\ f[u] \in Locs
        BY <1>1, <2>1
      <3>2. \A u, v \in B : f[u] = f[v] => u = v
        BY <1>2, <2>1, <3>1
      <3>. HIDE DEF f
      <3>3. f \in [B -> Locs]
        BY <3>1 DEF f
      <3>. QED  BY <3>2, <3>3 DEF Injection, IsInjective
    <2>. HIDE DEF f
    <2>3. IsFiniteSet(Locs)
      BY EngineAssumption
    <2>. QED  BY <2>1, <2>2, <2>3, FS_Injection
  <1>4. Len(us) \in Nat /\ DOMAIN us = 1..Len(us) /\ ToSet(us) = Board(g)
    BY <1>3, InOrderLemma
  <1>. QED  BY <1>1, <1>2, <1>4 DEF Fielded

LEMMA PlacesCover ==
    ASSUME NEW places, places = InOrder({Short[l] : l \in Locs})
    PROVE  Covers(places)
  <1>. DEFINE S == {Short[l] : l \in Locs}
  <1>1. IsFiniteSet(S)
    <2>1. S \subseteq Locs /\ IsFiniteSet(Locs)
      BY MapAssumption, EngineAssumption
    <2>. HIDE DEF S
    <2>. QED  BY <2>1, FS_Subset
  <1>2. \A l \in Locs : Short[l] \in S
    OBVIOUS
  <1>3. places = InOrder(S)
    OBVIOUS
  <1>. HIDE DEF S
  <1>. QED  BY <1>1, <1>2, <1>3, InOrderLemma DEF Covers
-----------------------------------------------------------------------------
(* The orders kept are orders of units that can make them.                    *)

IsOrder(o) == DOMAIN o = OrderFields /\ (o.k = "-" => o.to \in Locs)
OrdersTyped(g) == \A p \in Powers : \A u \in DOMAIN g.orders[p] : IsOrder(g.orders[p][u])

LEMMA DefaultCoastLemma ==
    ASSUME NEW l \in Locs, NEW to \in Locs
    PROVE  DefaultCoast(l, to) \in Locs
  <1>1. PICK coasts : coasts = {e.loc : e \in {x \in ToSet(AbutList(l)) : Short[x.loc] = to}}
    OBVIOUS
  <1>2. coasts \subseteq Locs
    BY <1>1, MapAssumption DEF AbutList
  <1>3. DefaultCoast(l, to) = IF to \notin coasts /\ Cardinality(coasts) = 1 THEN CHOOSE c \in coasts : TRUE ELSE to
    BY <1>1 DEF DefaultCoast
  <1>4. Cardinality(coasts) = 1 => coasts # {}
    BY FS_EmptySet
  <1>. QED  BY <1>2, <1>3, <1>4

\* The orders of other units.
Other(ks, no) == {Order(k, t, at, to, no) : k \in ks, t \in Types, at \in Locs, to \in Locs \cup {None}}
LEMMA OtherLemma ==
    ASSUME NEW ks, NEW no, NEW o \in Other(ks, no)
    PROVE  DOMAIN o = OrderFields /\ o.k \in ks
  <1>1. PICK k \in ks, t \in Types, at \in Locs, to \in Locs \cup {None} : o = Order(k, t, at, to, no)
    BY DEF Other
  <1>. QED  BY <1>1 DEF Order, OrderFields

Moving(bs) == {Move(l, via) : l \in Locs, via \in bs}
LEMMA FormsLemma ==
    ASSUME NEW o \in OrderForms
    PROVE  /\ DOMAIN o = OrderFields
           /\ o.k = "H" \/ (o.k = "-" /\ o.to \in Locs) \/ o.k = "S" \/ o.k = "C"
  <1>0. PICK ks, no, bs, H : ks = {"S", "C"} /\ no = FALSE /\ bs = BOOLEAN /\ H = Hold
    OBVIOUS
  <1>1. OrderForms = {Hold} \cup Moving(BOOLEAN) \cup Other({"S", "C"}, FALSE)
    BY ONLY DEF OrderForms, Other, Moving
  <1>2. o \in {H} \cup Moving(bs) \cup Other(ks, no)
    <2>1. {H} \cup Moving(bs) \cup Other(ks, no) = OrderForms
      BY ONLY <1>0, <1>1
    <2>. QED  BY ONLY <2>1, o \in OrderForms
  <1>3. o = H \/ o \in Moving(bs) \/ o \in Other(ks, no)
    BY ONLY <1>2
  <1>4. CASE o = H
    BY <1>0, <1>4 DEF Hold, Order, OrderFields
  <1>5. CASE o \in Moving(bs)
    <2>1. PICK l \in Locs, via \in bs : o = Move(l, via)
      BY <1>5 DEF Moving
    <2>. QED  BY <2>1 DEF Move, Order, OrderFields
  <1>6. CASE o \in Other(ks, no)
    <2>1. DOMAIN o = OrderFields /\ o.k \in ks
      BY ONLY <1>6, OtherLemma
    <2>. QED  BY <1>0, <2>1
  <1>. QED  BY ONLY <1>3, <1>4, <1>5, <1>6

LEMMA WithCoastsTyped ==
    ASSUME NEW board, NEW u \in UnitType, NEW o \in OrderForms, NEW w, w = WithCoasts(board, u, o)
    PROVE  IsOrder(w)
  <1>0. DOMAIN o = OrderFields /\ (o.k = "-" => o.to \in Locs) /\ u.loc \in Locs
    BY FormsLemma DEF UnitType
  <1>1. \/ o.k = "-" /\ w = [o EXCEPT !.to = Short[o.to]]
        \/ o.k = "-" /\ w = [o EXCEPT !.to = DefaultCoast(u.loc, o.to)]
        \/ o.k = "S" /\ \E at, to : w = [o EXCEPT !.at = at, !.to = to]
        \/ w = o
    BY DEF WithCoasts
  <1>2. o.k = "-" => Short[o.to] \in Locs /\ DefaultCoast(u.loc, o.to) \in Locs
    BY <1>0, DefaultCoastLemma, MapAssumption
  <1>3. ASSUME o.k = "-", NEW l \in Locs, w = [o EXCEPT !.to = l] PROVE IsOrder(w)
    BY <1>0, <1>3 DEF IsOrder, OrderFields
  <1>4. ASSUME o.k = "S", NEW at, NEW to, w = [o EXCEPT !.at = at, !.to = to] PROVE IsOrder(w)
    BY <1>0, <1>4 DEF IsOrder, OrderFields
  <1>5. CASE w = o
    BY ONLY <1>0, <1>5 DEF IsOrder
  <1>6. CASE o.k = "-" /\ \E l \in Locs : w = [o EXCEPT !.to = l]
    BY ONLY <1>3, <1>6
  <1>7. CASE o.k = "S" /\ \E at, to : w = [o EXCEPT !.at = at, !.to = to]
    BY ONLY <1>4, <1>7
  <1>. QED  BY ONLY <1>1, <1>2, <1>5, <1>6, <1>7

LEMMA MoveReaches ==
    ASSUME NEW board, NEW u \in UnitType, NEW o, o.to \in Locs, ValidMove(board, u, o)
    PROVE  ValidUnit(u.type, o.to, FALSE)
  <1>1. PICK l : l = o.to /\ l \in Locs
    OBVIOUS
  <1>2. Area[l] \in AreaTypes /\ (u.type = "A" \/ u.type = "F") /\ u.loc \in Locs
    BY <1>1, MapAssumption DEF UnitType, Types
  <1>3. CASE Abuts(u.type, u.loc, "-", l)
    <2>1. <<u.type, u.loc, "-", l>> \in Types \X Locs \X Kinds \X Locs
      BY <1>1 DEF UnitType, Kinds
    <2>2. ComputeAbuts(u.type, u.loc, "-", l)
      BY <1>3, <2>1 DEF Abuts, AbutsCache
    <2>3. /\ ~(u.type = "A" /\ OnCoast(l)) /\ Area[l] # "SHUT"
          /\ u.type = "F" => Area[l] # "LAND" /\ l \notin Lower
          /\ u.type = "A" => Area[l] # "WATER"
      BY <2>2 DEF ComputeAbuts
    <2>. QED  BY <1>1, <1>2, <2>3 DEF ValidUnit, AreaTypes
  <1>4. CASE Area[l] \in Coastal /\ ~(u.type = "A" /\ OnCoast(l)) /\ CanBeConvoyed(board, u.type, u.loc, l, None)
    <2>1. u.type = "A"
      BY <1>4 DEF CanBeConvoyed
    <2>. QED  BY <1>1, <1>4, <2>1 DEF ValidUnit, Coastal
  <1>. QED  BY <1>1, <1>3, <1>4 DEF ValidMove

LEMMA AddCoastsGo ==
    ASSUME NEW orders, NEW u \in DOMAIN orders, CanGo(u, orders[u])
    PROVE  CanGo(u, AddCoasts(orders)[u])
  <1>1. PICK o : o = orders[u]
    OBVIOUS
  <1>2. AddCoasts(orders)[u] = o \/ (o.k = "S" /\ \E c : AddCoasts(orders)[u] = [o EXCEPT !.to = c])
    BY <1>1 DEF AddCoasts
  <1>3. ASSUME NEW c, o.k = "S", NEW w, w = [o EXCEPT !.to = c] PROVE CanGo(u, w)
    BY <1>1, <1>3 DEF CanGo, OrderFields
  <1>. QED  BY <1>1, <1>2, <1>3

\* So the adjudication of a game settles its moves.
LEMMA ResolvedSettled ==
    ASSUME NEW g, SoundUnits(g.units), Alone(g.units), DOMAIN g.orders = Powers, StandUp(g), OrdersTyped(g)
    PROVE  Settled(Resolved(g), Board(g))
  <1>1. PICK us, all, orders, places :
           /\ us = InOrder(Board(g)) /\ all = AllOrders(g) /\ orders = AddCoasts(all)
           /\ places = InOrder({Short[l] : l \in Locs})
    OBVIOUS
  <1>2. Fielded(us) /\ ToSet(us) = Board(g) /\ Covers(places)
    BY <1>1, BoardFielded, PlacesCover
  <1>3. DOMAIN orders = DOMAIN all
    BY <1>1 DEF AddCoasts
  <1>4. ASSUME NEW u \in DOMAIN all PROVE CanGo(u, all[u])
    <2>1. DOMAIN all = UNION {DOMAIN g.orders[p] : p \in Powers} /\ all[u] = g.orders[u.pow][u]
      BY <1>1 DEF AllOrders
    <2>2. PICK p \in Powers : u \in DOMAIN g.orders[p]
      BY <2>1
    <2>3. u \in g.units[p] /\ ValidOrder(Board(g), u, g.orders[p][u])
      BY <2>2 DEF StandUp
    <2>4. u \in UnitType /\ u.pow = p
      BY <2>3 DEF SoundUnits
    <2>5. PICK o : o = g.orders[p][u]
      OBVIOUS
    <2>6. all[u] = o
      BY <2>1, <2>4, <2>5
    <2>7. DOMAIN o = OrderFields /\ (o.k = "-" => o.to \in Locs)
      BY <2>2, <2>5 DEF OrdersTyped, IsOrder
    <2>8. o.k = "-" => ValidMove(Board(g), u, o)
      BY <2>3, <2>5 DEF ValidOrder
    <2>9. o.k = "-" => ValidUnit(u.type, o.to, FALSE)
      BY <2>4, <2>7, <2>8, MoveReaches
    <2>. QED  BY <2>6, <2>7, <2>9 DEF CanGo
  <1>5. \A u \in ToSet(us) \cap DOMAIN orders : CanGo(u, orders[u])
    BY <1>1, <1>3, <1>4, AddCoastsGo
  <1>6. Settled(Resolve(us, orders, places), ToSet(us))
    BY <1>2, <1>5, ResolutionSettles
  <1>7. Resolved(g) = Resolve(us, orders, places)
    BY <1>1 DEF Resolved
  <1>. QED  BY <1>2, <1>6, <1>7

LEMMA AddOrdersTyped ==
    ASSUME NEW g, IsGame(g), DOMAIN g.orders = Powers, OrdersTyped(g), NEW p \in Powers,
           NEW list \in Seq([u : UnitType, o : OrderForms]), NEW h, h = AddOrders(g, p, list)
    PROVE  OrdersTyped(h)
  <1>. DEFINE given(i) == WithCoasts(Board(g), list[i].u, list[i].o)
              accepted == {i \in DOMAIN list : list[i].u \in g.units[p] /\ ValidOrder(Board(g), list[i].u, given(i))}
              of(u) == {i \in accepted : list[i].u = u}
              last(u) == CHOOSE i \in of(u) : \A j \in of(u) : j <= i
              new == [u \in DOMAIN g.orders[p] \cup {list[i].u : i \in accepted} |->
                         IF of(u) = {} THEN g.orders[p][u] ELSE given(last(u))]
  <1>1. h = [g EXCEPT !.orders[p] = new]
    BY DEF AddOrders
  <1>2. ASSUME NEW i \in DOMAIN list PROVE IsOrder(given(i))
    <2>1. list[i].u \in UnitType /\ list[i].o \in OrderForms
      <3>1. PICK T : T = [u : UnitType, o : OrderForms]
        OBVIOUS
      <3>2. list \in Seq(T)
        BY <3>1
      <3>3. list[i] \in T
        BY ONLY <3>2, i \in DOMAIN list
      <3>. QED  BY ONLY <3>1, <3>3
    <2>2. PICK u, o, w : u = list[i].u /\ o = list[i].o /\ w = given(i)
      OBVIOUS
    <2>3. w = WithCoasts(Board(g), u, o)
      BY <2>2
    <2>4. IsOrder(w)
      BY <2>1, <2>2, <2>3, WithCoastsTyped
    <2>. QED  BY ONLY <2>2, <2>4
  <1>3. ASSUME NEW u \in DOMAIN new PROVE IsOrder(new[u])
    <2>1. CASE of(u) = {}
      <3>1. u \in DOMAIN g.orders[p]
        BY <1>3, <2>1
      <3>2. new[u] = g.orders[p][u]
        BY <2>1
      <3>. HIDE DEF new
      <3>. QED  BY <3>1, <3>2 DEF OrdersTyped
    <2>2. CASE of(u) # {}
      <3>1. of(u) \subseteq 1..Len(list) /\ Len(list) \in Nat
        OBVIOUS
      <3>2. \E i \in of(u) : \A j \in of(u) : j <= i
        <4>. HIDE DEF of
        <4>. QED  BY <2>2, <3>1, LastOne
      <3>3. last(u) \in of(u)
        <4>. HIDE DEF of
        <4>. QED  BY <3>2
      <3>4. new[u] = given(last(u))
        <4>. HIDE DEF of, last, given
        <4>. QED  BY <1>3, <2>2
      <3>5. last(u) \in DOMAIN list
        <4>. HIDE DEF last
        <4>. QED  BY <3>3
      <3>. HIDE DEF last, given, new
      <3>. QED  BY <1>2, <3>4, <3>5
    <2>. QED  BY <2>1, <2>2
  <1>. HIDE DEF new
  <1>4. h.orders = [g.orders EXCEPT ![p] = new]
    BY <1>1 DEF IsGame, Fields
  <1>5. ASSUME NEW q \in Powers, NEW u \in DOMAIN h.orders[q] PROVE IsOrder(h.orders[q][u])
    <2>1. CASE q = p
      BY <1>3, <1>4, <1>5, <2>1
    <2>2. CASE q # p
      <3>1. h.orders[q] = g.orders[q]
        BY <1>4, <2>2
      <3>. QED  BY <1>5, <3>1 DEF OrdersTyped
    <2>. QED  BY <2>1, <2>2
  <1>. QED  BY <1>5 DEF OrdersTyped

LEMMA SetOrdersTyped ==
    ASSUME NEW g, InPhase(g), g.phase # Completed, DOMAIN g.orders = Powers, OrdersTyped(g), NEW p \in Powers,
           NEW list \in Seq(Texts(g.phase.type)), NEW h, h = SetOrdersOf(g, p, list)
    PROVE  OrdersTyped(h)
  <1>0. IsGame(g)
    BY DEF InPhase
  <1>1. ASSUME NEW a, h = [g EXCEPT !.adjust[p] = a] PROVE OrdersTyped(h)
    <2>1. h.orders = g.orders
      BY <1>0, <1>1 DEF IsGame, Fields
    <2>. QED  BY <2>1 DEF OrdersTyped
  <1>2. CASE g.phase.type = "R"
    <2>1. \E a : h = [g EXCEPT !.adjust[p] = a]
      BY <1>2 DEF SetOrdersOf, AddRetreatOrders
    <2>. QED  BY <1>1, <2>1
  <1>3. CASE g.phase.type = "A"
    <2>1. \E a : h = [g EXCEPT !.adjust[p] = a]
      BY <1>3 DEF SetOrdersOf, AddAdjustOrders
    <2>. QED  BY <1>1, <2>1
  <1>4. CASE g.phase.type # "R" /\ g.phase.type # "A"
    <2>1. PICK i \in 2..6, y \in Nat : g.phase = At(i, y)
      BY InPlay
    <2>2. i \in {2, 4} \/ i \in {3, 5} \/ i = 6
      OBVIOUS
    <2>3. g.phase.type = "M"
      BY <1>4, <2>1, <2>2, TypesOfPhases
    <2>4. Texts("M") = [u : UnitType, o : OrderForms]
      BY DEF Texts
    <2>5. list \in Seq([u : UnitType, o : OrderForms])
      <3>1. Seq(Texts(g.phase.type)) = Seq([u : UnitType, o : OrderForms])
        BY ONLY <2>3, <2>4
      <3>. QED  BY ONLY <3>1, list \in Seq(Texts(g.phase.type))
    <2>6. h = AddOrders(g, p, list)
      BY <1>4 DEF SetOrdersOf
    <2>. QED  BY <1>0, <2>5, <2>6, AddOrdersTyped
  <1>. QED  BY <1>2, <1>3, <1>4

LEMMA NoOrdersTyped ==
    ASSUME NEW g, g.orders = [p \in Powers |-> <<>>]
    PROVE  OrdersTyped(g)
  BY DEF OrdersTyped

-----------------------------------------------------------------------------
(* Moves, retreats and builds leave a power one unit in a province.           *)

\* No power leaves two different builds for one province.
BuildsApart(g) ==
    \A p \in Powers : \A d, e \in ToSet(g.adjust[p]) :
        d.do = "B" /\ e.do = "B" /\ Short[d.u[2]] = Short[e.u[2]] => d.u = e.u

LEMMA MoveAlone ==
    ASSUME NEW g, Good(g), Alone(g.units), NEW r, Settled(r, Board(g)), NEW h, h = MoveUnits(g, r)
    PROVE  Alone(h.units)
  <1>1. h.units = MovedUnits(g, r)
    BY MoveFields DEF Good
  <1>2. /\ \A u, v \in Board(g) : u \in Moved(r) /\ v \notin Beaten(r) \cup Moved(r) => Short[Arrived(r, u).loc] # Short[v.loc]
        /\ \A u, v \in Moved(r) : u # v => Short[Arrived(r, u).loc] # Short[Arrived(r, v).loc]
        /\ \A p \in Powers : \A u \in g.units[p] : u.pow = p /\ u \in Board(g)
    <2>1. SoundUnits(g.units)
      BY DEF Good, Position
    <2>2. \A p \in Powers : \A u \in g.units[p] : u.pow = p /\ u \in Board(g)
      BY <2>1 DEF SoundUnits, Board
    <2>. QED  BY <2>1, <2>2, SettledUnits
  <1>3. ASSUME NEW p \in Powers, NEW w \in MovedUnits(g, r)[p]
        PROVE  \/ w \in g.units[p] /\ w \notin Beaten(r) \cup Moved(r)
               \/ \E u \in Moved(r) : u \in g.units[p] /\ w = Arrived(r, u)
    BY <1>3 DEF MovedUnits, Staying, Coming
  <1>4. ASSUME NEW p \in Powers, NEW v \in MovedUnits(g, r)[p], NEW w \in MovedUnits(g, r)[p], Short[v.loc] = Short[w.loc] PROVE v = w
    <2>1. CASE v \in g.units[p] /\ v \notin Beaten(r) \cup Moved(r)
      <3>1. CASE w \in g.units[p]
        BY <1>4, <2>1, <3>1 DEF Alone
      <3>2. ASSUME NEW u \in Moved(r), u \in g.units[p], w = Arrived(r, u) PROVE FALSE
        BY <1>2, <1>4, <2>1, <3>2
      <3>. QED  BY <1>3, <3>1, <3>2
    <2>2. ASSUME NEW t \in Moved(r), t \in g.units[p], v = Arrived(r, t) PROVE v = w
      <3>1. CASE w \in g.units[p] /\ w \notin Beaten(r) \cup Moved(r)
        BY <1>2, <1>4, <2>2, <3>1
      <3>2. ASSUME NEW u \in Moved(r), w = Arrived(r, u) PROVE v = w
        <4>1. t = u
          BY <1>2, <1>4, <2>2, <3>2
        <4>. QED  BY <2>2, <3>2, <4>1
      <3>. QED  BY <1>3, <3>1, <3>2
    <2>. QED  BY <1>3, <2>1, <2>2
  <1>. QED  BY <1>1, <1>4 DEF Alone

LEMMA RetreatAlone ==
    ASSUME NEW g, Good(g), Alone(g.units), AdjustFits(g), Single(g), g.phase.type = "R", NEW h, h = RetreatResults(g)
    PROVE  Alone(h.units)
  <1>0. IsGame(g) /\ SoundUnits(g.units) /\ SoundRetreats(g.retreats)
    BY DEF Good, Position
  <1>1. h.units = BackUnits(g)
    BY ONLY <1>0, h = RetreatResults(g), RetreatFields
  <1>2. ASSUME NEW p \in Powers, NEW w \in BackUnits(g)[p] PROVE w \in g.units[p] \/ (w \in Back(g, p) /\ IsBack(g, p, w))
    BY <1>0, <1>2, BackLemma DEF BackUnits
  <1>3. ASSUME NEW p \in Powers, NEW v \in Back(g, p), NEW w \in Back(g, p), Short[v.loc] = Short[w.loc] PROVE v = w
    <2>0. IsBack(g, p, v) /\ IsBack(g, p, w)
      BY <1>0, BackLemma
    <2>1. PICK a \in Done(g) : a.p = p /\ v = [pow |-> p, type |-> a.u[1], loc |-> a.to]
      BY DEF Back
    <2>2. PICK b \in Done(g) : b.p = p /\ w = [pow |-> p, type |-> b.u[1], loc |-> b.to]
      BY DEF Back
    <2>3. a.u = b.u
      <3>. SUFFICES ASSUME b.u # a.u PROVE FALSE
        OBVIOUS
      <3>1. a \in RetreatOrders(g) /\ b \in RetreatOrders(g) /\ a.u \notin Failed(g)
        BY DEF Done
      <3>2. Short[b.to] = Short[a.to]
        BY <1>3, <2>1, <2>2
      <3>3. a \in Clashing(g)
        BY <3>1, <3>2 DEF Clashing
      <3>. QED  BY <3>1, <3>3 DEF Failed
    <2>4. ASSUME NEW x \in Done(g), x.p = p PROVE \E e \in ToSet(g.adjust[p]) : e.do = "R" /\ e.u = x.u /\ e.to = x.to
      <3>1. PICK q \in Powers : \E e \in ToSet(g.adjust[q]) : e.do = "R" /\ x = [p |-> q, u |-> e.u, to |-> e.to]
        BY DEF Done, RetreatOrders
      <3>2. PICK e \in ToSet(g.adjust[q]) : e.do = "R" /\ x = [p |-> q, u |-> e.u, to |-> e.to]
        BY <3>1
      <3>3. q = p
        BY <2>4, <3>2
      <3>. QED  BY <3>2, <3>3
    <2>5. PICK d \in ToSet(g.adjust[p]) : d.do = "R" /\ d.u = a.u /\ d.to = a.to
      BY <2>1, <2>4
    <2>6. PICK e \in ToSet(g.adjust[p]) : e.do = "R" /\ e.u = b.u /\ e.to = b.to
      BY <2>2, <2>4
    <2>7. a.to = b.to
      BY <2>3, <2>5, <2>6 DEF Single, OneRetreat
    <2>. QED  BY <2>1, <2>2, <2>3, <2>7
  <1>4. ASSUME NEW p \in Powers, NEW v \in BackUnits(g)[p], NEW w \in BackUnits(g)[p], Short[v.loc] = Short[w.loc] PROVE v = w
    <2>1. \A x \in g.units[p] : Short[x.loc] \in Provinces(Board(g))
      BY DEF Board, Provinces
    <2>2. \A x : IsBack(g, p, x) => Short[x.loc] \notin Provinces(Board(g))
      BY DEF IsBack
    <2>. QED  BY <1>2, <1>3, <1>4, <2>1, <2>2 DEF Alone
  <1>. QED  BY <1>1, <1>4 DEF Alone

LEMMA AdjustAlone ==
    ASSUME NEW g, Good(g), Alone(g.units), AdjustFits(g), BuildsApart(g), NEW h, h = AdjustResults(g)
    PROVE  Alone(h.units)
  <1>0. IsGame(g) /\ SoundUnits(g.units)
    BY DEF Good, Position
  <1>1. h.units = AdjustedUnits(g)
    BY ONLY <1>0, h = AdjustResults(g), AdjustFields
  <1>2. ASSUME NEW p \in Powers, NEW w \in AdjustedUnits(g)[p] PROVE w \in g.units[p] \/ IsBuilt(g, p, w)
    <2>1. w \in g.units[p] \/ (w \in AllBuilt(g) /\ w.pow = p)
      BY <1>2 DEF AdjustedUnits
    <2>2. ASSUME w \in AllBuilt(g), w.pow = p PROVE IsBuilt(g, p, w)
      <3>1. PICK q \in Powers : w \in Built(g, q)
        BY <2>2 DEF AllBuilt
      <3>2. IsBuilt(g, q, w)
        BY <3>1, BuiltLemma
      <3>. QED  BY <2>2, <3>2 DEF IsBuilt
    <2>. QED  BY <2>1, <2>2
  <1>3. ASSUME NEW p \in Powers, NEW v, NEW w, IsBuilt(g, p, v), IsBuilt(g, p, w), Short[v.loc] = Short[w.loc] PROVE v = w
    <2>0. IsBuilt(g, p, v) /\ IsBuilt(g, p, w)
      BY <1>3
    <2>1. PICK d \in ToSet(g.adjust[p]) : d.do = "B" /\ d.u[1] = v.type /\ d.u[2] = v.loc
      BY ONLY <2>0 DEF IsBuilt
    <2>2. PICK e \in ToSet(g.adjust[p]) : e.do = "B" /\ e.u[1] = w.type /\ e.u[2] = w.loc
      BY ONLY <2>0 DEF IsBuilt
    <2>3. d.u = e.u
      BY <1>3, <2>1, <2>2 DEF BuildsApart
    <2>4. v \in UnitType /\ w \in UnitType /\ v.pow = w.pow
      BY ONLY <2>0 DEF IsBuilt
    <2>. QED  BY <2>1, <2>2, <2>3, <2>4, UnitEqual
  <1>4. ASSUME NEW p \in Powers, NEW v \in AdjustedUnits(g)[p], NEW w \in AdjustedUnits(g)[p], Short[v.loc] = Short[w.loc] PROVE v = w
    <2>1. \A x \in g.units[p] : Short[x.loc] \in Provinces(Board(g))
      BY DEF Board, Provinces
    <2>2. \A x : IsBuilt(g, p, x) => Short[x.loc] \notin Provinces(Board(g))
      BY DEF IsBuilt
    <2>. QED  BY <1>2, <1>3, <1>4, <2>1, <2>2 DEF Alone
  <1>. QED  BY <1>1, <1>4 DEF Alone

-----------------------------------------------------------------------------
(* The moves are settled in every phase.                                      *)

BuildsAreApart == BuildsApart(game)

\* What the proofs about the board rest on: with the orders of units that can
\* make them and one unit in a province, the adjudication settles the moves.
SettledInv ==
    /\ SoundInv /\ OrdersInv /\ OrdersTyped(game) /\ Single(game) /\ Alone(game.units)
    /\ saved # NoState => Alone(saved.units)

LEMMA SettledLemma == SettledInv => MovesAreSettled
  <1>. SUFFICES ASSUME SettledInv PROVE Settled(Resolved(game), Board(game))
    BY DEF MovesAreSettled
  <1>1. SoundUnits(game.units) /\ Alone(game.units) /\ DOMAIN game.orders = Powers /\ StandUp(game) /\ OrdersTyped(game)
    BY DEF SettledInv, SoundInv, Good, Position, OrdersInv
  <1>. QED  BY <1>1, ResolvedSettled

LEMMA SettledInitLemma == Init => SettledInv
  <1>. SUFFICES ASSUME Init PROVE SettledInv
    OBVIOUS
  <1>1. PICK s \in Setups : game = NewGame(s)
    BY DEF Init
  <1>2. /\ game.units = s.units /\ game.phase = At(2, FirstYear) /\ game.orders = [p \in Powers |-> <<>>]
        /\ game.adjust = [p \in Powers |-> <<>>]
    BY <1>1, NewGameFields
  <1>3. OrdersInv /\ OrdersTyped(game)
    BY <1>2, PhaseInitLemma, NoOrdersStandUp, NoOrdersTyped DEF OrdersInv
  <1>4. Single(game)
    <2>1. \A p \in Powers : game.adjust[p] = <<>>
      BY <1>2
    <2>. QED  BY <2>1, EmptyOneRetreat DEF Single
  <1>5. Alone(game.units)
    <2>1. \A p, q \in Powers : \A u \in s.units[p], v \in s.units[q] : Short[u.loc] = Short[v.loc] => u = v
      BY SetupsAssumption
    <2>. QED  BY ONLY <1>2, <2>1 DEF Alone
  <1>6. saved = NoState
    BY DEF Init
  <1>. QED  BY <1>3, <1>4, <1>5, <1>6, SoundInitLemma DEF SettledInv

LEMMA ProcessAlone ==
    ASSUME SettledInv, BuildsAreApart, Process
    PROVE  Alone(game'.units)
  <1>0. /\ Good(game) /\ AdjustFits(game) /\ InPhase(game) /\ IsGame(game) /\ Alone(game.units) /\ Single(game)
        /\ MovesAreSettled
    BY SettledLemma DEF SettledInv, SoundInv, PhaseInv, InPhase
  <1>1. PICK i \in 2..6, y \in Nat : game.phase = At(i, y) /\ InTime(i, y)
    BY <1>0, InPlay DEF Process
  <1>2. game' = NextPhase(Results(game))
    BY <1>0, <1>1, ProcessReaches
  <1>3. (i \in {2, 4} => game.phase.type = "M") /\ (i \in {3, 5} => game.phase.type = "R")
    BY <1>1, TypesOfPhases
  <1>4. PICK h : h = Results(game)
    OBVIOUS
  <1>5. IsGame(h)
    BY <1>0, <1>1, <1>4, ResultsLemma
  <1>6. Alone(h.units)
    <2>1. CASE i \in {2, 4}
      <3>1. PICK r : r = Resolved(game)
        OBVIOUS
      <3>2. Settled(r, Board(game))
        BY <1>0, <1>3, <2>1, <3>1 DEF MovesAreSettled
      <3>3. h = MoveUnits(game, r)
        BY <1>0, <1>1, <1>4, <2>1, <3>1, ResultsLemma DEF MoveResults
      <3>. QED  BY <1>0, <3>2, <3>3, MoveAlone
    <2>2. CASE i \in {3, 5}
      <3>1. h = RetreatResults(game)
        BY <1>0, <1>1, <1>4, <2>2, ResultsLemma
      <3>. QED  BY <1>0, <1>3, <2>2, <3>1, RetreatAlone
    <2>3. CASE i = 6
      <3>1. h = AdjustResults(game)
        BY <1>0, <1>1, <1>4, <2>3, ResultsLemma
      <3>. QED  BY <1>0, <3>1, AdjustAlone DEF BuildsAreApart
    <2>. QED  BY <2>1, <2>2, <2>3
  <1>7. game'.units = h.units
    BY <1>2, <1>4, <1>5, NextPhaseKeeps DEF SameUnits
  <1>. QED  BY <1>6, <1>7

LEMMA SettledStepLemma == HomesApart /\ SettledInv /\ BuildsAreApart /\ [Next]_vars => SettledInv'
  <1>. SUFFICES ASSUME HomesApart, SettledInv, BuildsAreApart, [Next]_vars PROVE SettledInv'
    OBVIOUS
  <1>0. /\ SoundInv /\ OrdersInv /\ OrdersTyped(game) /\ Single(game) /\ Alone(game.units)
        /\ (saved # NoState => Alone(saved.units))
        /\ InPhase(game) /\ IsGame(game) /\ Good(game) /\ AdjustFits(game) /\ DOMAIN game.orders = Powers
        /\ (saved # NoState => IsState(saved))
    BY DEF SettledInv, SoundInv, OrdersInv, PhaseInv, InPhase
  <1>a. SoundInv' /\ OrdersInv'
    BY <1>0, SettledLemma, SoundStepLemma, OrdersStepLemma
  <1>1. CASE UNCHANGED vars
    BY <1>0, <1>1, <1>a DEF vars, SettledInv
  <1>2. ASSUME NEW p \in Powers, SetOrders(p) PROVE SettledInv'
    <2>1. PICK list \in Seq(Texts(game.phase.type)) : game' = SetOrdersOf(game, p, list)
      BY <1>2 DEF SetOrders
    <2>2. game.phase # Completed /\ saved' = saved
      BY <1>2 DEF SetOrders
    <2>3. game'.units = game.units
      BY <1>0, <2>1, SetOrdersFields DEF SameBoard
    <2>4. Single(game')
      BY <1>0, <2>1, SetOrdersSingle
    <2>5. OrdersTyped(game')
      BY <1>0, <2>1, <2>2, SetOrdersTyped
    <2>. QED  BY <1>0, <1>a, <2>2, <2>3, <2>4, <2>5 DEF SettledInv
  <1>b. ASSUME game'.orders = [p \in Powers |-> <<>>], game'.adjust = [p \in Powers |-> <<>>] PROVE OrdersTyped(game') /\ Single(game')
    <2>1. \A p \in Powers : game'.adjust[p] = <<>>
      BY <1>b
    <2>. QED  BY <1>b, <2>1, NoOrdersTyped, EmptyOneRetreat DEF Single
  <1>3. CASE Process
    <2>1. PICK i \in 2..6, y \in Nat : game.phase = At(i, y) /\ InTime(i, y)
      BY <1>0, <1>3, InPlay DEF Process
    <2>2. game'.orders = [p \in Powers |-> <<>>] /\ game'.adjust = [p \in Powers |-> <<>>]
      BY <1>0, <1>3, <2>1, ProcessReaches
    <2>3. Alone(game'.units)
      BY <1>3, ProcessAlone
    <2>4. saved' = saved
      BY <1>3 DEF Process
    <2>. QED  BY <1>0, <1>a, <1>b, <2>2, <2>3, <2>4 DEF SettledInv
  <1>4. CASE Draw
    <2>1. game'.orders = [p \in Powers |-> <<>>] /\ game'.adjust = [p \in Powers |-> <<>>] /\ game'.units = game.units
      BY <1>0, <1>4, DrawFields
    <2>2. saved' = saved
      BY <1>4 DEF Draw
    <2>. QED  BY <1>0, <1>a, <1>b, <2>1, <2>2 DEF SettledInv
  <1>5. CASE Save
    <2>1. game' = game /\ saved' = GetState(game)
      BY <1>5 DEF Save
    <2>2. saved'.units = game.units
      BY <2>1 DEF GetState
    <2>. QED  BY <1>0, <1>a, <2>1, <2>2 DEF SettledInv
  <1>6. CASE SetState
    <2>1. game' = SetStateOf(game, saved) /\ saved' = saved /\ IsState(saved) /\ Alone(saved.units)
      BY <1>0, <1>6 DEF SetState
    <2>2. Ready(game, saved)
      BY <1>0, <2>1 DEF Ready, Good, Position, IsState, IsTable, SoundUnits, SoundRetreats, SoundCenters
    <2>3. /\ game'.orders = [p \in Powers |-> <<>>] /\ game'.adjust = [p \in Powers |-> <<>>]
          /\ game'.units = saved.units
      BY <1>0, <2>1, <2>2, SetStateFields
    <2>. QED  BY <1>0, <1>a, <1>b, <2>1, <2>3 DEF SettledInv
  <1>. QED  BY <1>1, <1>2, <1>3, <1>4, <1>5, <1>6 DEF Next

-----------------------------------------------------------------------------
(* Every unit that leaves the board is told of.                               *)

\* R pairs the elements of S and of T.
LEMMA EqualCount ==
    ASSUME NEW S, NEW T, IsFiniteSet(T), NEW R,
           \A s \in S : \E t \in T : <<s, t>> \in R,
           \A t \in T : \E s \in S : <<s, t>> \in R,
           \A s, v \in S : \A t \in T : <<s, t>> \in R /\ <<v, t>> \in R => s = v,
           \A s \in S : \A t, v \in T : <<s, t>> \in R /\ <<s, v>> \in R => t = v
    PROVE  IsFiniteSet(S) /\ Cardinality(S) = Cardinality(T) /\ Cardinality(T) \in Nat
  <1>1. IsFiniteSet(S) /\ Cardinality(S) <= Cardinality(T)
    BY CountLemma
  <1>2. PICK Q : Q = {x \in T \X S : <<x[2], x[1]>> \in R}
    OBVIOUS
  <1>3. \A t \in T, s \in S : <<t, s>> \in Q <=> <<s, t>> \in R
    BY <1>2
  <1>4. \A t \in T : \E s \in S : <<t, s>> \in Q
    BY <1>3
  <1>5. \A t, v \in T : \A s \in S : <<t, s>> \in Q /\ <<v, s>> \in Q => t = v
    BY <1>3
  <1>6. Cardinality(T) <= Cardinality(S)
    BY ONLY <1>1, <1>4, <1>5, CountLemma
  <1>. QED  BY <1>1, <1>6, FS_CardinalityType

\* What is left of a finite set, and its size.
LEMMA RestCount ==
    ASSUME NEW S, IsFiniteSet(S), NEW T, T \subseteq S
    PROVE  /\ IsFiniteSet(T) /\ IsFiniteSet(S \ T) /\ Cardinality(S) = Cardinality(S \ T) + Cardinality(T)
           /\ Cardinality(S) \in Nat /\ Cardinality(T) \in Nat /\ Cardinality(S \ T) \in Nat
  <1>1. IsFiniteSet(T) /\ IsFiniteSet(S \ T)
    BY FS_Subset
  <1>2. (S \ T) \cup T = S /\ (S \ T) \cap T = {}
    OBVIOUS
  <1>. QED  BY <1>1, <1>2, SumLemma, FS_CardinalityType

LEMMA FiniteBoard ==
    ASSUME NEW f, SoundUnits(f)
    PROVE  IsFiniteSet(AllOf(f))
  <1>1. PICK R : R = {x \in AllOf(f) \X Locs : x[2] = x[1].loc}
    OBVIOUS
  <1>2. IsFiniteSet(Locs)
    BY EngineAssumption
  <1>3. \A u \in AllOf(f) : u.loc \in Locs
    BY DEF AllOf, SoundUnits, UnitType
  <1>4. \A u \in AllOf(f) : \A l \in Locs : <<u, l>> \in R <=> l = u.loc
    BY <1>1
  <1>5. \A u \in AllOf(f) : \E l \in Locs : <<u, l>> \in R
    BY <1>3, <1>4
  <1>6. \A u, v \in AllOf(f) : \A l \in Locs : <<u, l>> \in R /\ <<v, l>> \in R => u = v
    BY <1>4, OneAtAPlace
  <1>. QED  BY ONLY <1>2, <1>5, <1>6, CountLemma

\* Units at different places have different names.
Names(us) == {Name(u) : u \in us}
LEMMA NamesCount ==
    ASSUME NEW us, IsFiniteSet(us), \A u, v \in us : u.loc = v.loc => u = v
    PROVE  /\ IsFiniteSet(Names(us)) /\ Cardinality(Names(us)) = Cardinality(us)
           /\ \A vs \in SUBSET us : Names(us) \ Names(vs) = Names(us \ vs)
  <1>1. \A u, v \in us : Name(u) = Name(v) => u = v
    <2>1. \A u : Name(u)[2] = u.loc
      BY DEF Name
    <2>. QED  BY <2>1
  <1>2. PICK R : R = {x \in Names(us) \X us : x[1] = Name(x[2])}
    OBVIOUS
  <1>3. \A n \in Names(us), u \in us : <<n, u>> \in R <=> n = Name(u)
    BY <1>2
  <1>4. \A n \in Names(us) : \E u \in us : <<n, u>> \in R
    BY <1>3 DEF Names
  <1>5. \A u \in us : \E n \in Names(us) : <<n, u>> \in R
    BY <1>3 DEF Names
  <1>6. \A n, m \in Names(us) : \A u \in us : <<n, u>> \in R /\ <<m, u>> \in R => n = m
    BY <1>3
  <1>7. \A n \in Names(us) : \A u, v \in us : <<n, u>> \in R /\ <<n, v>> \in R => u = v
    BY <1>1, <1>3
  <1>8. IsFiniteSet(Names(us)) /\ Cardinality(Names(us)) = Cardinality(us)
    BY ONLY IsFiniteSet(us), <1>4, <1>5, <1>6, <1>7, EqualCount
  <1>9. \A vs \in SUBSET us : Names(us) \ Names(vs) = Names(us \ vs)
    BY <1>1 DEF Names
  <1>. QED  BY <1>8, <1>9

\* The units that wait for a retreat are the ones of the dislodged that are not lost.
Tally(g) == g.dislodged \ g.popped = Names(Dislodged(g))

\* Moves: a unit stays, arrives, waits or is lost.
Becomes(r, u, w) == IF u \in Moved(r) THEN w = Arrived(r, u) ELSE w = u
LEMMA MovesAccounted ==
    ASSUME NEW g, SoundUnits(g.units), NEW r, Settled(r, Board(g)),
           NEW h, h.units = MovedUnits(g, r), h.retreats = MovedRetreats(g, r),
           h.popped = {Name(u) : u \in Lost(r)}, h.dislodged = {Name(u) : u \in Beaten(r)}
    PROVE  Tally(h) /\ Cardinality(Board(g)) = AllUnits(h) + Cardinality(h.popped)
  <1>1. /\ \A u, v \in Board(g) : u \in Moved(r) /\ v \notin Beaten(r) \cup Moved(r) => Short[Arrived(r, u).loc] # Short[v.loc]
        /\ \A u, v \in Moved(r) : u # v => Short[Arrived(r, u).loc] # Short[Arrived(r, v).loc]
        /\ Beaten(r) \subseteq Board(g) /\ Moved(r) \subseteq Board(g)
    BY SettledUnits
  <1>2. \A u \in Moved(r) : u \notin Beaten(r)
    BY DEF Moved, Beaten, Settled
  <1>3. Lost(r) \subseteq Beaten(r)
    BY DEF Lost
  <1>4. Dislodged(h) = Beaten(r) \ Lost(r)
    BY <1>1, MovedRetreatsLemma DEF Dislodged
  <1>5. Board(g) = AllOf(g.units) /\ IsFiniteSet(Board(g)) /\ \A u, v \in Board(g) : u.loc = v.loc => u = v
    <2>1. Board(g) = AllOf(g.units)
      BY DEF Board, AllOf
    <2>. QED  BY <2>1, FiniteBoard, OneAtAPlace
  <1>6. PICK left : left = Board(g) \ Beaten(r)
    OBVIOUS
  <1>7. ASSUME NEW w PROVE w \in Board(h) <=> \E u \in left : Becomes(r, u, w)
    <2>1. w \in Board(h) <=> \E p \in Powers : w \in Staying(g, r, p) \/ w \in Coming(g, r, p)
      BY DEF Board, MovedUnits
    <2>2. (\E p \in Powers : w \in Staying(g, r, p)) <=> \E u \in left : u \notin Moved(r) /\ w = u
      BY <1>6 DEF Staying, Board
    <2>3. (\E p \in Powers : w \in Coming(g, r, p)) <=> \E u \in left : u \in Moved(r) /\ w = Arrived(r, u)
      <3>1. (\E p \in Powers : w \in Coming(g, r, p)) <=> \E u \in Moved(r) \cap Board(g) : w = Arrived(r, u)
        BY DEF Coming, Board
      <3>2. \A u : u \in Moved(r) \cap Board(g) <=> u \in left /\ u \in Moved(r)
        BY <1>2, <1>6
      <3>. QED  BY <3>1, <3>2
    <2>. QED  BY <2>1, <2>2, <2>3 DEF Becomes
  <1>8. ASSUME NEW u \in left, NEW v \in left, NEW w, Becomes(r, u, w), Becomes(r, v, w) PROVE u = v
    <2>1. u \in Board(g) /\ v \in Board(g) /\ u \notin Beaten(r) /\ v \notin Beaten(r)
      BY <1>6
    <2>2. CASE u \in Moved(r) /\ v \in Moved(r)
      BY <1>1, <1>8, <2>2 DEF Becomes
    <2>3. CASE u \in Moved(r) /\ v \notin Moved(r)
      BY <1>1, <1>8, <2>1, <2>3 DEF Becomes
    <2>4. CASE u \notin Moved(r) /\ v \in Moved(r)
      BY <1>1, <1>8, <2>1, <2>4 DEF Becomes
    <2>5. CASE u \notin Moved(r) /\ v \notin Moved(r)
      BY <1>8, <2>5 DEF Becomes
    <2>. QED  BY <2>2, <2>3, <2>4, <2>5
  <1>9. /\ IsFiniteSet(left) /\ IsFiniteSet(Beaten(r)) /\ IsFiniteSet(Lost(r))
        /\ Cardinality(Board(g)) = Cardinality(left) + Cardinality(Beaten(r))
        /\ Cardinality(Beaten(r)) = Cardinality(Beaten(r) \ Lost(r)) + Cardinality(Lost(r))
        /\ Cardinality(left) \in Nat /\ Cardinality(Beaten(r) \ Lost(r)) \in Nat /\ Cardinality(Lost(r)) \in Nat
    BY <1>1, <1>3, <1>5, <1>6, RestCount
  <1>10. Cardinality(Board(h)) = Cardinality(left)
    <2>1. PICK R : R = {x \in Board(h) \X left : Becomes(r, x[2], x[1])}
      OBVIOUS
    <2>2. \A w \in Board(h), u \in left : <<w, u>> \in R <=> Becomes(r, u, w)
      BY <2>1
    <2>3. \A w \in Board(h) : \E u \in left : <<w, u>> \in R
      BY <1>7, <2>2
    <2>4. \A u \in left : \E w \in Board(h) : <<w, u>> \in R
      <3>1. \A u \in left : \E w : Becomes(r, u, w)
        BY DEF Becomes
      <3>. QED  BY <1>7, <2>2, <3>1
    <2>5. \A w, x \in Board(h) : \A u \in left : <<w, u>> \in R /\ <<x, u>> \in R => w = x
      BY <2>2 DEF Becomes
    <2>6. \A w \in Board(h) : \A u, v \in left : <<w, u>> \in R /\ <<w, v>> \in R => u = v
      BY <1>8, <2>2
    <2>. QED  BY ONLY <1>9, <2>3, <2>4, <2>5, <2>6, EqualCount
  <1>11. /\ h.popped = Names(Lost(r)) /\ h.dislodged = Names(Beaten(r))
         /\ Cardinality(Names(Lost(r))) = Cardinality(Lost(r))
         /\ Names(Beaten(r)) \ Names(Lost(r)) = Names(Beaten(r) \ Lost(r))
    <2>1. \A u, v \in Beaten(r) : u.loc = v.loc => u = v
      BY <1>1, <1>5
    <2>2. \A u, v \in Lost(r) : u.loc = v.loc => u = v
      BY <1>3, <2>1
    <2>3. h.popped = Names(Lost(r)) /\ h.dislodged = Names(Beaten(r))
      BY DEF Names
    <2>. QED  BY <1>3, <1>9, <2>1, <2>2, <2>3, NamesCount
  <1>12. Tally(h)
    BY <1>4, <1>11 DEF Tally
  <1>13. AllUnits(h) = Cardinality(left) + Cardinality(Beaten(r) \ Lost(r))
    BY <1>4, <1>10 DEF AllUnits
  <1>14. Cardinality(h.popped) = Cardinality(Lost(r))
    BY <1>11
  <1>. QED  BY ONLY <1>9, <1>12, <1>13, <1>14

\* Retreats: a unit that waited is back, or is told of.
DoneNames(g) == {a.u : a \in Done(g)}
Returned(a) == [pow |-> a.p, type |-> a.u[1], loc |-> a.to]

LEMMA OrderedBy ==
    ASSUME NEW g, AdjustFits(g), NEW a \in RetreatOrders(g)
    PROVE  /\ a.p \in Powers
           /\ \E e \in ToSet(g.adjust[a.p]), v \in DOMAIN g.retreats[a.p] :
                 e.do = "R" /\ a.u = e.u /\ a.to = e.to /\ a.u = Name(v)
  <1>1. PICK p \in Powers : \E e \in ToSet(g.adjust[p]) : e.do = "R" /\ a = [p |-> p, u |-> e.u, to |-> e.to]
    BY DEF RetreatOrders
  <1>2. PICK e \in ToSet(g.adjust[p]) : e.do = "R" /\ a = [p |-> p, u |-> e.u, to |-> e.to]
    BY <1>1
  <1>3. a.p = p /\ a.u = e.u /\ a.to = e.to
    BY <1>2
  <1>4. RetreatAccepted(g, p, e)
    BY <1>2 DEF AdjustFits, Proper
  <1>5. PICK v \in DOMAIN g.retreats[p] : Name(v) = e.u
    BY <1>2, <1>4 DEF RetreatAccepted
  <1>. QED  BY <1>2, <1>3, <1>5

\* Each of the orders that are carried out brings one unit back.
LEMMA BackNames ==
    ASSUME NEW g, SoundRetreats(g.retreats), AdjustFits(g), \A p \in Powers : OneRetreat(g.adjust[p])
    PROVE  /\ AllBack(g) = {Returned(a) : a \in Done(g)} /\ DoneNames(g) \subseteq Names(Dislodged(g))
           /\ \A a, b \in Done(g) : Returned(a) = Returned(b) <=> a.u = b.u
  <1>1. \A a \in Done(g) : a \in RetreatOrders(g) /\ a.u \notin Failed(g)
    BY DEF Done
  <1>2. ASSUME NEW a \in Done(g) PROVE a.p \in Powers /\ a.u \in Names(Dislodged(g))
    <2>1. PICK v \in DOMAIN g.retreats[a.p] : a.u = Name(v)
      BY <1>1, OrderedBy
    <2>2. a.p \in Powers
      BY <1>1, OrderedBy
    <2>. QED  BY <2>1, <2>2 DEF Names, Dislodged
  <1>3. AllBack(g) = {Returned(a) : a \in Done(g)}
    <2>1. \A w : w \in AllBack(g) <=> \E p \in Powers : \E a \in Done(g) : a.p = p /\ w = [pow |-> p, type |-> a.u[1], loc |-> a.to]
      BY DEF AllBack, Back
    <2>2. \A w : w \in AllBack(g) <=> \E a \in Done(g) : w = Returned(a)
      BY <1>2, <2>1 DEF Returned
    <2>. QED  BY <2>2
  <1>4. ASSUME NEW a \in Done(g), NEW b \in Done(g), a.u = b.u PROVE Returned(a) = Returned(b)
    <2>0. PICK p \in Powers, q \in Powers : p = a.p /\ q = b.p
      BY <1>1, OrderedBy
    <2>1. PICK d \in ToSet(g.adjust[p]), x \in DOMAIN g.retreats[p] : d.do = "R" /\ a.u = d.u /\ a.to = d.to /\ a.u = Name(x)
      BY <1>1, <2>0, OrderedBy
    <2>2. PICK e \in ToSet(g.adjust[q]), y \in DOMAIN g.retreats[q] : e.do = "R" /\ b.u = e.u /\ b.to = e.to /\ b.u = Name(y)
      BY <1>1, <2>0, OrderedBy
    <2>3. x.loc = y.loc
      <3>1. Name(x) = Name(y)
        BY <1>4, <2>1, <2>2
      <3>2. Name(x)[2] = x.loc /\ Name(y)[2] = y.loc
        BY DEF Name
      <3>. QED  BY <3>1, <3>2
    <2>4. x \in Out(g.retreats)[p] /\ y \in Out(g.retreats)[q]
      BY <2>1, <2>2 DEF Out
    <2>5. p = q
      BY <2>3, <2>4 DEF SoundRetreats, SoundUnits
    <2>6. d.u = e.u
      BY <1>4, <2>1, <2>2
    <2>7. a.to = b.to
      BY <2>1, <2>2, <2>5, <2>6 DEF OneRetreat
    <2>. QED  BY <1>4, <2>0, <2>5, <2>7 DEF Returned
  <1>5. ASSUME NEW a \in Done(g), NEW b \in Done(g), Returned(a) = Returned(b) PROVE a.u = b.u
    <2>1. a.to = b.to
      <3>1. Returned(a).loc = a.to /\ Returned(b).loc = b.to
        BY DEF Returned
      <3>. QED  BY <1>5, <3>1
    <2>. SUFFICES ASSUME a.u # b.u PROVE FALSE
      OBVIOUS
    <2>2. a \in Clashing(g)
      BY <1>1, <2>1 DEF Clashing
    <2>. QED  BY <1>1, <2>2 DEF Failed
  <1>. QED  BY <1>2, <1>3, <1>4, <1>5 DEF DoneNames

LEMMA RetreatsAccounted ==
    ASSUME NEW g, SoundUnits(g.units), SoundRetreats(g.retreats), AdjustFits(g), \A p \in Powers : OneRetreat(g.adjust[p]),
           Tally(g), NEW h, h.units = BackUnits(g), h.popped = Failed(g) \cup (g.dislodged \ DoneNames(g))
    PROVE  AllUnits(g) = Cardinality(Board(h)) + Cardinality(h.popped \ g.popped)
  <1>1. PICK waiting, back, done : waiting = Names(Dislodged(g)) /\ back = AllBack(g) /\ done = DoneNames(g)
    OBVIOUS
  <1>2. /\ back = {Returned(a) : a \in Done(g)} /\ done \subseteq waiting
        /\ \A a, b \in Done(g) : Returned(a) = Returned(b) <=> a.u = b.u
    BY <1>1, BackNames
  <1>3. h.popped \ g.popped = waiting \ done
    <2>1. \A a \in Clashing(g) : a.u \in waiting /\ a.u \notin done
      <3>. SUFFICES ASSUME NEW a \in Clashing(g) PROVE a.u \in waiting /\ a.u \notin done
        OBVIOUS
      <3>1. a \in RetreatOrders(g)
        BY DEF Clashing
      <3>2. PICK p \in Powers : p = a.p /\ \E v \in DOMAIN g.retreats[p] : a.u = Name(v)
        BY <3>1, OrderedBy
      <3>3. a.u \in waiting
        BY <1>1, <3>2 DEF Names, Dislodged
      <3>4. a.u \in Failed(g)
        BY DEF Failed
      <3>. QED  BY <1>1, <3>3, <3>4 DEF DoneNames, Done
    <2>2. \A n : n \in h.popped \ g.popped <=>
                   n \notin g.popped /\ ((\E a \in Clashing(g) : n = a.u) \/ (n \in g.dislodged /\ n \notin done))
      BY <1>1 DEF Failed
    <2>3. \A n : n \in waiting <=> n \in g.dislodged /\ n \notin g.popped
      BY <1>1 DEF Tally
    <2>4. \A n : n \in h.popped \ g.popped <=> n \in waiting \ done
      BY <2>1, <2>2, <2>3
    <2>. QED  BY <2>4
  <1>4. IsFiniteSet(Dislodged(g)) /\ IsFiniteSet(waiting) /\ Cardinality(waiting) = Cardinality(Dislodged(g))
    <2>1. Dislodged(g) = AllOf(Out(g.retreats)) /\ SoundUnits(Out(g.retreats))
      BY DEF Dislodged, AllOf, Out, SoundRetreats
    <2>2. IsFiniteSet(Dislodged(g)) /\ \A u, v \in Dislodged(g) : u.loc = v.loc => u = v
      BY <2>1, FiniteBoard, OneAtAPlace
    <2>. QED  BY <1>1, <2>2, NamesCount
  <1>5. /\ IsFiniteSet(done) /\ Cardinality(waiting) = Cardinality(waiting \ done) + Cardinality(done)
        /\ Cardinality(waiting \ done) \in Nat /\ Cardinality(done) \in Nat
    BY <1>2, <1>4, RestCount
  <1>6. IsFiniteSet(back) /\ Cardinality(back) = Cardinality(done)
    <2>1. PICK R : R = {x \in back \X done : \E a \in Done(g) : x[1] = Returned(a) /\ x[2] = a.u}
      OBVIOUS
    <2>2. \A w \in back, n \in done : <<w, n>> \in R <=> \E a \in Done(g) : w = Returned(a) /\ n = a.u
      BY <2>1
    <2>3. done = {a.u : a \in Done(g)}
      BY <1>1 DEF DoneNames
    <2>4. ASSUME NEW w \in back PROVE \E n \in done : <<w, n>> \in R
      <3>1. PICK a \in Done(g) : w = Returned(a)
        BY <1>2
      <3>2. a.u \in done
        BY <2>3
      <3>. QED  BY <2>2, <3>1, <3>2
    <2>5. ASSUME NEW n \in done PROVE \E w \in back : <<w, n>> \in R
      <3>1. PICK a \in Done(g) : n = a.u
        BY <2>3
      <3>2. Returned(a) \in back
        BY <1>2
      <3>. QED  BY <2>2, <3>1, <3>2
    <2>6. \A v, w \in back : \A n \in done : <<v, n>> \in R /\ <<w, n>> \in R => v = w
      BY <1>2, <2>2
    <2>7. \A w \in back : \A n, m \in done : <<w, n>> \in R /\ <<w, m>> \in R => n = m
      BY <1>2, <2>2
    <2>. QED  BY ONLY <1>5, <2>4, <2>5, <2>6, <2>7, EqualCount
  <1>7. Board(h) = Board(g) \cup back
    <2>1. \A u : u \in Board(h) <=> \E p \in Powers : u \in g.units[p] \/ u \in Back(g, p)
      BY DEF Board, BackUnits
    <2>. QED  BY <1>1, <2>1 DEF Board, AllBack
  <1>8. Board(g) \cap back = {}
    BY <1>1, BackSound DEF Apart
  <1>9. IsFiniteSet(Board(g)) /\ Cardinality(Board(g)) \in Nat
    <2>1. Board(g) = AllOf(g.units)
      BY DEF Board, AllOf
    <2>. QED  BY <2>1, FiniteBoard, FS_CardinalityType
  <1>10. Cardinality(Board(h)) = Cardinality(Board(g)) + Cardinality(back)
    BY <1>6, <1>7, <1>8, <1>9, SumLemma
  <1>11. AllUnits(g) = Cardinality(Board(g)) + Cardinality(waiting)
    BY <1>4 DEF AllUnits
  <1>12. Cardinality(h.popped \ g.popped) = Cardinality(waiting \ done)
    BY <1>3
  <1>. QED  BY ONLY <1>5, <1>6, <1>9, <1>10, <1>11, <1>12

\* As long as no state is put back, and until the game is over.
Untouched == saved = NoState /\ game.phase # Completed
TallyInv == SettledInv /\ (Untouched => Tally(game))

\* The results of a phase, before the walk to the next one.
LEMMA ResultsTally ==
    ASSUME TallyInv, Untouched, NEW i \in 2..6, NEW y \in Nat, game.phase = At(i, y), NEW h, h = Results(game)
    PROVE  /\ Tally(h)
           /\ i \in {2, 4} => AllUnits(game) = AllUnits(h) + Cardinality(h.popped)
           /\ i \in {3, 5} => AllUnits(game) = AllUnits(h) + Cardinality(h.popped \ game.popped)
  <1>0. /\ IsGame(game) /\ SoundUnits(game.units) /\ SoundRetreats(game.retreats) /\ Waiting(game)
        /\ AdjustFits(game) /\ Single(game) /\ Tally(game) /\ MovesAreSettled
    BY SettledLemma DEF TallyInv, SettledInv, SoundInv, Good, Position
  <1>1. /\ i \in {2, 4} => game.phase.type = "M"
        /\ i \in {3, 5} => game.phase.type = "R"
        /\ i = 6 => game.phase.type = "A"
    BY TypesOfPhases
  <1>2. ASSUME NEW g, NoRetreats(g) PROVE Dislodged(g) = {} /\ Names(Dislodged(g)) = {} /\ Cardinality(Dislodged(g)) = 0
    BY <1>2, NoDislodged, FS_EmptySet DEF Names
  <1>3. CASE i \in {2, 4}
    <2>1. PICK r : r = Resolved(game)
      OBVIOUS
    <2>2. Settled(r, Board(game)) /\ NoRetreats(game)
      BY <1>0, <1>1, <1>3, <2>1 DEF MovesAreSettled, Waiting
    <2>3. h = MoveUnits(game, r)
      BY <1>0, <1>3, <2>1, ResultsLemma DEF MoveResults
    <2>4. /\ h.units = MovedUnits(game, r) /\ h.retreats = MovedRetreats(game, r)
          /\ h.popped = {Name(u) : u \in Lost(r)} /\ h.dislodged = {Name(u) : u \in Beaten(r)}
      BY ONLY <1>0, <2>3, MoveFields
    <2>5. Tally(h) /\ Cardinality(Board(game)) = AllUnits(h) + Cardinality(h.popped)
      BY <1>0, <2>2, <2>4, MovesAccounted
    <2>6. IsFiniteSet(Board(game)) /\ Cardinality(Board(game)) \in Nat
      <3>1. Board(game) = AllOf(game.units)
        BY DEF Board, AllOf
      <3>. QED  BY <1>0, <3>1, FiniteBoard, FS_CardinalityType
    <2>7. AllUnits(game) = Cardinality(Board(game))
      BY <1>2, <2>2, <2>6 DEF AllUnits
    <2>. QED  BY <1>3, <2>5, <2>7
  <1>4. CASE i \in {3, 5}
    <2>1. h = RetreatResults(game)
      BY <1>0, <1>4, ResultsLemma
    <2>2. /\ h.units = BackUnits(game) /\ h.retreats = [p \in Powers |-> <<>>]
          /\ h.popped = Failed(game) \cup (game.dislodged \ DoneNames(game)) /\ h.dislodged = {}
      BY ONLY <1>0, <2>1, RetreatFields DEF DoneNames
    <2>3. \A p \in Powers : OneRetreat(game.adjust[p])
      BY <1>0, <1>1, <1>4 DEF Single
    <2>4. AllUnits(game) = Cardinality(Board(h)) + Cardinality(h.popped \ game.popped)
      BY <1>0, <2>2, <2>3, RetreatsAccounted
    <2>5. Names(Dislodged(h)) = {} /\ Cardinality(Dislodged(h)) = 0
      BY <1>2, <2>2, NoRetreatsLemma
    <2>6. IsFiniteSet(Board(h)) /\ Cardinality(Board(h)) \in Nat
      <3>1. SoundUnits(BackUnits(game))
        BY <1>0, BackSound
      <3>2. Board(h) = AllOf(BackUnits(game))
        BY <2>2 DEF Board, AllOf
      <3>. QED  BY <3>1, <3>2, FiniteBoard, FS_CardinalityType
    <2>7. AllUnits(h) = Cardinality(Board(h))
      BY <2>5, <2>6 DEF AllUnits
    <2>. QED  BY <1>4, <2>2, <2>4, <2>5, <2>7 DEF Tally
  <1>5. CASE i = 6
    <2>1. h = AdjustResults(game)
      BY <1>0, <1>5, ResultsLemma
    <2>2. h.dislodged = {} /\ h.retreats = [p \in Powers |-> <<>>]
      BY ONLY <1>0, <2>1, AdjustFields
    <2>3. NoRetreats(game)
      BY <1>0, <1>1, <1>5 DEF Waiting
    <2>4. Names(Dislodged(game)) = {} /\ Names(Dislodged(h)) = {}
      BY <1>2, <2>2, <2>3, NoRetreatsLemma
    <2>. QED  BY <1>0, <1>5, <2>2, <2>4 DEF Tally
  <1>. QED  BY <1>3, <1>4, <1>5

\* The walk to the next phase keeps all of it.
LEMMA ProcessTally ==
    ASSUME TallyInv, Untouched, Process
    PROVE  /\ Tally(game')
           /\ game.phase.type = "M" => AllUnits(game) = AllUnits(game') + Cardinality(game'.popped)
           /\ game.phase.type = "R" => AllUnits(game) = AllUnits(game') + Cardinality(game'.popped \ game.popped)
  <1>0. InPhase(game) /\ IsGame(game)
    BY DEF TallyInv, SettledInv, SoundInv, PhaseInv, InPhase
  <1>1. PICK i \in 2..6, y \in Nat : game.phase = At(i, y) /\ InTime(i, y)
    BY <1>0, InPlay DEF Process
  <1>2. PICK h : h = Results(game)
    OBVIOUS
  <1>3. game' = NextPhase(h)
    BY <1>0, <1>1, <1>2, ProcessReaches
  <1>4. IsGame(h) /\ h.phase = At(i, y) /\ (i \in {2, 4} \/ NoRetreats(h))
    BY <1>0, <1>1, <1>2, ResultsLemma
  <1>5. game'.units = h.units /\ game'.popped = h.popped /\ game'.dislodged = h.dislodged
    BY <1>3, <1>4, NextPhaseKeeps DEF SameUnits
  <1>6. Dislodged(game') = Dislodged(h)
    <2>1. (NoRetreats(h) /\ NoRetreats(game')) \/ SameBoard(game', h)
      BY <1>3, <1>4, RetreatsReached
    <2>. QED  BY <2>1, NoDislodged DEF SameBoard, Dislodged
  <1>7. Board(game') = Board(h)
    BY <1>5 DEF Board
  <1>8. /\ Tally(h)
        /\ i \in {2, 4} => AllUnits(game) = AllUnits(h) + Cardinality(h.popped)
        /\ i \in {3, 5} => AllUnits(game) = AllUnits(h) + Cardinality(h.popped \ game.popped)
    BY <1>1, <1>2, ResultsTally
  <1>9. /\ game.phase.type = "M" => i \in {2, 4}
        /\ game.phase.type = "R" => i \in {3, 5}
    BY <1>1, TypesOfPhases
  <1>. QED  BY <1>5, <1>6, <1>7, <1>8, <1>9 DEF Tally, AllUnits

LEMMA TallyInitLemma == Init => TallyInv
  <1>. SUFFICES ASSUME Init PROVE Tally(game)
    BY SettledInitLemma DEF TallyInv
  <1>1. PICK s \in Setups : game = NewGame(s)
    BY DEF Init
  <1>2. game.retreats = [p \in Powers |-> <<>>]
    BY <1>1, NewGameFields
  <1>3. game.dislodged = {}
    BY <1>1 DEF NewGame
  <1>4. Names(Dislodged(game)) = {}
    BY <1>2, NoRetreatsLemma, NoDislodged DEF Names
  <1>. QED  BY <1>3, <1>4 DEF Tally

LEMMA TallyStepLemma == HomesApart /\ TallyInv /\ BuildsAreApart /\ [Next]_vars => TallyInv'
  <1>. SUFFICES ASSUME HomesApart, TallyInv, BuildsAreApart, [Next]_vars, Untouched' PROVE Tally(game')
    BY SettledStepLemma DEF TallyInv
  <1>0. IsGame(game) /\ (Untouched => Tally(game)) /\ saved' = NoState /\ game'.phase # Completed
    BY DEF TallyInv, SettledInv, SoundInv, Good, Untouched
  <1>1. CASE UNCHANGED vars
    BY <1>0, <1>1 DEF vars, Untouched
  <1>2. ASSUME NEW p \in Powers, SetOrders(p) PROVE Tally(game')
    <2>1. PICK list \in Seq(Texts(game.phase.type)) : game' = SetOrdersOf(game, p, list)
      BY <1>2 DEF SetOrders
    <2>2. Untouched
      BY <1>0, <1>2 DEF SetOrders, Untouched
    <2>3. SameBoard(game', game) /\ game'.popped = game.popped /\ game'.dislodged = game.dislodged
      BY <1>0, <2>1, SetOrdersFields
    <2>. QED  BY <1>0, <2>2, <2>3 DEF Tally, Dislodged, SameBoard
  <1>3. CASE Process
    <2>1. Untouched
      BY <1>0, <1>3 DEF Process, Untouched
    <2>. QED  BY <1>3, <2>1, ProcessTally
  <1>4. CASE Draw
    BY <1>0, <1>4, DrawFields
  <1>5. CASE Save
    <2>1. saved' = GetState(game)
      BY <1>5 DEF Save
    <2>. QED  BY <1>0, <2>1 DEF GetState, NoState
  <1>6. CASE SetState
    BY <1>0, <1>6 DEF SetState
  <1>. QED  BY <1>1, <1>2, <1>3, <1>4, <1>5, <1>6 DEF Next

LEMMA AccountedLemma ==
    TallyInv /\ [Next]_vars =>
        [Advance /\ game.phase.type \in {"M", "R"} /\ game'.phase # Completed
         => AllUnits(game) = AllUnits(game') + Cardinality(Told)]_vars
  <1>. SUFFICES ASSUME TallyInv, [Next]_vars, saved = NoState, game'.phase # game.phase,
                       game.phase.type \in {"M", "R"}, game'.phase # Completed
                PROVE  AllUnits(game) = AllUnits(game') + Cardinality(Told)
    BY DEF Advance
  <1>1. IsGame(game)
    BY DEF TallyInv, SettledInv, SoundInv, Good
  <1>2. CASE Process
    <2>1. Untouched
      BY <1>2 DEF Process, Untouched
    <2>2. /\ game.phase.type = "M" => AllUnits(game) = AllUnits(game') + Cardinality(game'.popped)
          /\ game.phase.type = "R" => AllUnits(game) = AllUnits(game') + Cardinality(game'.popped \ game.popped)
      BY <1>2, <2>1, ProcessTally
    <2>. QED  BY <2>2 DEF Told
  <1>3. ASSUME NEW p \in Powers, SetOrders(p) PROVE FALSE
    <2>1. PICK list : game' = SetOrdersOf(game, p, list)
      BY <1>3 DEF SetOrders
    <2>. QED  BY <1>1, <2>1, SetOrdersFields
  <1>4. ~Draw
    BY <1>1, DrawFields
  <1>5. ~Save /\ ~SetState /\ ~UNCHANGED vars
    BY DEF Save, SetState, vars
  <1>. QED  BY <1>2, <1>3, <1>4, <1>5 DEF Next

-----------------------------------------------------------------------------
(* What holds in every game.                                                  *)

\* On a map without coasts the entries are always plain, and where no center
\* has coasts no power has two builds for one province.
LEMMA PlainLemma ==
    ASSUME \A l \in Locs : Short[l] = l
    PROVE  SoundInv => EntriesArePlain
  <1>. SUFFICES ASSUME SoundInv PROVE Plain(game)
    BY DEF EntriesArePlain
  <1>1. AdjustFits(game) /\ SoundRetreats(game.retreats)
    BY DEF SoundInv, Good, Position
  <1>2. ASSUME NEW p \in Powers, NEW e \in ToSet(game.adjust[p]), e.do = "R" PROVE Short[e.to] = e.to
    <2>1. RetreatAccepted(game, p, e)
      BY <1>1, <1>2 DEF AdjustFits, Proper
    <2>2. PICK u \in DOMAIN game.retreats[p] : e.to \in game.retreats[p][u]
      BY <1>2, <2>1 DEF RetreatAccepted
    <2>3. e.to \in Locs
      BY <1>1, <2>2 DEF SoundRetreats
    <2>. QED  BY <2>3
  <1>3. ASSUME NEW p \in Powers, NEW e \in ToSet(game.adjust[p]), e.do = "B" PROVE Short[e.u[2]] = e.u[2]
    <2>1. AdjustAccepted(game, p, e)
      BY <1>1, <1>3 DEF AdjustFits, Proper
    <2>2. e.u \in Types \X Locs
      BY <1>3, <2>1 DEF AdjustAccepted
    <2>3. e.u[2] \in Locs
      BY <2>2
    <2>. QED  BY <2>3
  <1>4. ASSUME NEW p \in Powers, NEW d \in ToSet(game.adjust[p]), NEW e \in ToSet(game.adjust[p]),
               d.do = "B", e.do = "B", Short[d.u[2]] = Short[e.u[2]]
        PROVE  d.u = e.u
    <2>1. d.u[2] = e.u[2]
      BY <1>3, <1>4
    <2>. QED  BY <1>1, <1>4, <2>1 DEF AdjustFits, Proper
  <1>. QED  BY <1>2, <1>4 DEF Plain

LEMMA ApartLemma ==
    ASSUME \A l \in Locs : Short[l] \in Scs => Short[l] = l
    PROVE  SoundInv => BuildsAreApart
  <1>. SUFFICES ASSUME SoundInv PROVE BuildsApart(game)
    BY DEF BuildsAreApart
  <1>1. AdjustFits(game) /\ SoundCenters(game.centers)
    BY DEF SoundInv, Good, Position
  <1>2. ASSUME NEW p \in Powers, NEW e \in ToSet(game.adjust[p]), e.do = "B" PROVE Short[e.u[2]] = e.u[2]
    <2>1. AdjustAccepted(game, p, e)
      BY <1>1, <1>2 DEF AdjustFits, Proper
    <2>2. e.u \in Types \X Locs /\ Short[e.u[2]] \in BuildSites(game, p)
      BY <1>2, <2>1 DEF AdjustAccepted
    <2>3. Short[e.u[2]] \in game.centers[p]
      BY <2>2 DEF BuildSites
    <2>4. e.u[2] \in Locs /\ Short[e.u[2]] \in Scs
      BY <1>1, <2>2, <2>3 DEF SoundCenters
    <2>. QED  BY <2>4
  <1>3. ASSUME NEW p \in Powers, NEW d \in ToSet(game.adjust[p]), NEW e \in ToSet(game.adjust[p]),
               d.do = "B", e.do = "B", Short[d.u[2]] = Short[e.u[2]]
        PROVE  d.u = e.u
    <2>1. d.u[2] = e.u[2]
      BY <1>2, <1>3
    <2>. QED  BY <1>1, <1>3, <2>1 DEF AdjustFits, Proper
  <1>. QED  BY <1>3 DEF BuildsApart

\* The invariant holds as long as no power has two builds for one province.
LEMMA SettledSafety ==
    ASSUME HomesApart
    PROVE  Spec /\ []BuildsAreApart => []SettledInv
  <1>1. SettledInv /\ BuildsAreApart /\ [Next]_vars => SettledInv'
    BY SettledStepLemma
  <1>. QED  BY <1>1, SettledInitLemma, PTL DEF Spec

\* The moves that are ordered can all be made (Game._resolve_moves, _move_results): no unit
\* arrives where another one is or arrives, in any phase of any game in which no power has
\* two different builds for one province; the code lets it have two where there are coasts.
THEOREM EngineMovesAreSettled ==
    ASSUME HomesApart
    PROVE  Spec /\ []BuildsAreApart => []MovesAreSettled
  BY SettledSafety, SettledLemma, PTL

\* The hash that the eleven places of the code change piece by piece (Game.update_hash)
\* is always the one that Game.rebuild_hash computes from the board.
THEOREM EngineHashIsCurrent ==
    ASSUME HomesApart
    PROVE  Spec /\ []BuildsAreApart => []HashIsCurrent
  <1>1. SettledInv => HashIsCurrent
    BY HashLemma DEF SettledInv
  <1>. QED  BY <1>1, SettledSafety, PTL

\* The saved state can be put back at any time, into whatever the game has become
\* (Game.set_state): Game.get_state then gives it again, although each power in turn
\* clears what the others have where its units and centers are.
THEOREM EngineRestoreIsExact ==
    ASSUME HomesApart
    PROVE  Spec /\ []BuildsAreApart => []RestoreIsExact
  <1>1. SettledInv => RestoreIsExact
    BY RestoreLemma DEF SettledInv
  <1>. QED  BY <1>1, SettledSafety, PTL

\* No unit disappears untold (Game._move_results, Game._other_results): the units before
\* the moves or the retreats are those on the board or waiting after them, and those that
\* the phase adds to the names of the lost: dislodged units without a retreat, and then the
\* ones that have no order, are disbanded, or clash with another.
THEOREM EngineUnitsAccounted ==
    ASSUME HomesApart
    PROVE  Spec /\ []BuildsAreApart => UnitsAccounted
  <1>1. TallyInv /\ BuildsAreApart /\ [Next]_vars => TallyInv'
    BY TallyStepLemma
  <1>. QED  BY <1>1, TallyInitLemma, AccountedLemma, PTL DEF Spec, UnitsAccounted

\* On a map none of whose centers has coasts all of this holds of every game.
THEOREM EngineWithoutCoasts ==
    ASSUME HomesApart, \A l \in Locs : Short[l] \in Scs => Short[l] = l
    PROVE  Spec => []MovesAreSettled /\ []HashIsCurrent /\ []RestoreIsExact /\ UnitsAccounted
  <1>1. SettledInv => BuildsAreApart
    BY ApartLemma DEF SettledInv
  <1>2. SettledInv /\ [Next]_vars => SettledInv'
    BY <1>1, SettledStepLemma
  <1>3. SettledInv => MovesAreSettled /\ HashIsCurrent /\ RestoreIsExact
    BY SettledLemma, HashLemma, RestoreLemma DEF SettledInv
  <1>4. Spec => []BuildsAreApart
    BY <1>1, <1>2, SettledInitLemma, PTL DEF Spec
  <1>. QED  BY <1>2, <1>3, <1>4, SettledInitLemma, EngineUnitsAccounted, PTL DEF Spec

\* The board stays sound (Game._move_results, Game._other_results, Game.set_state): no two
\* units in one province, no center of two powers, no province under the influence of two,
\* and every unit away from home stands where its power has the influence.  It takes that
\* no power leaves two builds for one province, and that no fleet retreats to a coast that
\* has a name of its own, which the code lets both happen.
THEOREM EngineBoardIsSound ==
    ASSUME HomesApart, "BUILD_ANY" \notin Rules
    PROVE  Spec /\ []EntriesArePlain => []BoardIsSound
  <1>1. EntriesArePlain => BuildsAreApart
    BY DEF EntriesArePlain, BuildsAreApart, Plain, BuildsApart
  <1>2. TidyInv /\ MovesAreSettled /\ EntriesArePlain /\ [Next]_vars => TidyInv'
    BY TidyStepLemma
  <1>. QED  BY <1>1, <1>2, EngineMovesAreSettled, TidyInitLemma, BoardLemma, PTL DEF Spec

\* On a map without coasts the board is always sound.
THEOREM EngineBoardWithoutCoasts ==
    ASSUME HomesApart, "BUILD_ANY" \notin Rules, \A l \in Locs : Short[l] = l
    PROVE  Spec => []BoardIsSound
  <1>1. SettledInv /\ TidyInv => BuildsAreApart /\ EntriesArePlain /\ MovesAreSettled
    BY PlainLemma, ApartLemma, SettledLemma DEF SettledInv
  <1>2. SettledInv /\ TidyInv /\ [Next]_vars => SettledInv' /\ TidyInv'
    BY <1>1, SettledStepLemma, TidyStepLemma
  <1>. QED  BY <1>2, SettledInitLemma, TidyInitLemma, BoardLemma, PTL DEF Spec

\* However a phase is reached, by processing, passing over phases or putting a state
\* back, there is something to do in it (Game._check_phase, _advance_phase), and after a
\* winter no power has more units than centers, whatever was ordered: orders to build
\* count up to the surplus, and civil disorder takes what is missing of the others.  The
\* orders that are kept would be accepted now, and the moves among them can all be made.
THEOREM EnginePositionFitsPhase ==
    ASSUME HomesApart, Skips
    PROVE  Spec /\ []BuildsAreApart => []PositionFitsPhase
  <1>1. Init => FitInv
    BY FitInitLemma
  <1>2. FitInv /\ MovesAreSettled /\ [Next]_vars => FitInv'
    BY FitStepLemma
  <1>3. FitInv => NoIdlePhase /\ WithinSupply
    <2>. SUFFICES ASSUME FitInv PROVE NoIdlePhase /\ WithinSupply
      OBVIOUS
    <2>1. Busy(game) /\ Room(game) /\ SoundUnits(game.units) /\ SoundRetreats(game.retreats) /\ SoundCenters(game.centers)
      BY DEF FitInv, SoundInv, Good, Position
    <2>2. Dislodged(game) = {} => NoRetreats(game)
      <3>. SUFFICES ASSUME Dislodged(game) = {}, NEW p \in Powers PROVE game.retreats[p] = <<>>
        BY DEF NoRetreats
      <3>1. DOMAIN game.retreats[p] = {}
        BY DEF Dislodged
      <3>2. game.retreats[p] = [u \in DOMAIN game.retreats[p] |-> game.retreats[p][u]]
        BY <2>1 DEF SoundRetreats
      <3>. QED  BY <3>1, <3>2
    <2>3. NoIdlePhase
      BY <2>1, <2>2, NoDislodged DEF Busy, NoIdlePhase
    <2>4. ASSUME game.phase.season = "SPRING", game.phase.year > FirstYear, NEW p \in Powers PROVE Surplus(game, p) >= 0
      <3>1. Cardinality(game.units[p]) + Cardinality(DOMAIN game.retreats[p]) <= Cardinality(game.centers[p])
        BY <2>1, <2>4 DEF Room
      <3>2. Cardinality(game.units[p]) \in Nat /\ Cardinality(game.centers[p]) \in Nat
        BY <2>1, FiniteLemma, FS_CardinalityType
      <3>3. Cardinality(DOMAIN game.retreats[p]) \in Nat
        <4>1. DOMAIN game.retreats[p] \subseteq Out(game.retreats)[p] /\ SoundUnits(Out(game.retreats))
          BY <2>1 DEF Out, SoundRetreats
        <4>. QED  BY <4>1, FiniteUnits
      <3>. QED  BY <3>1, <3>2, <3>3 DEF Surplus
    <2>. QED  BY <2>3, <2>4 DEF WithinSupply
  <1>4. NoIdlePhase /\ WithinSupply /\ OrdersStandUp /\ MovesAreSettled => PositionFitsPhase
    BY DEF PositionFitsPhase
  <1>. QED  BY <1>1, <1>2, <1>3, <1>4, EngineMovesAreSettled, EngineOrdersStandUp, PTL DEF Spec
=============================================================================
