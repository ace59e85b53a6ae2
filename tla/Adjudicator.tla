---------------------------- MODULE Adjudicator ----------------------------
(***************************************************************************)
(* The resolution of a movement phase: Game._resolve_moves and what it     *)
(* calls (diplomacy/engine/game.py).  A resolution is a record r that the  *)
(* steps of the code change one after the other:                           *)
(*   units   the units in the order of the code's dictionary self.command  *)
(*   places  the order in which the places of self.combat are visited      *)
(*   cmd     self.command, the order of each unit                          *)
(*   res     self.result, a set: no tag is ever there twice                *)
(*   sup     self.supports: a count, and the supporters that do not count  *)
(*           towards a dislodgement                                        *)
(*   paths   self.convoy_paths; may is the local variable may_convoy, the  *)
(*           fleets on the paths of each unit                              *)
(*   combat  self.combat as a set of entries; one made by _strengths       *)
(*           shares the supporters' list of its unit, one made by _boing   *)
(*           has an empty list of its own                                  *)
(*   out     self.dislodged, where each dislodged unit was attacked from   *)
(*   sound   FALSE once a lookup of the code would have raised, or one of  *)
(*           its loops has not ended                                       *)
(* A unit is [pow, type, loc].                                             *)
(***************************************************************************)
EXTENDS GameMap

Order(k, type, at, to, via) == [k |-> k, type |-> type, at |-> at, to |-> to, via |-> via]
Hold == Order("H", None, None, None, FALSE)
Move(to, via) == Order("-", None, None, to, via)
NoUnit == [pow |-> None, type |-> None, loc |-> None]

\* The last word of an order but VIA, and its province.
Target(o) == IF o.to # None THEN o.to ELSE o.at
TargetShort(o) == IF Target(o) = None THEN None ELSE Short[Target(o)]

\* Game._occupant: a site without a coast is any coast of the province.
Occupant(units, site) ==
    IF \E i \in DOMAIN units : site \in {units[i].loc, Short[units[i].loc]}
    THEN units[CHOOSE i \in DOMAIN units : site \in {units[i].loc, Short[units[i].loc]}]
    ELSE NoUnit
Cmd(r, u) == IF u = NoUnit THEN Hold ELSE r.cmd[u]

ViaConvoy(r, u) == u # NoUnit /\ r.cmd[u].k = "-" /\ r.paths[u] # <<>>
Attacks(r, u) == r.cmd[u].k = "-" /\ r.res[u] = {}
Tag(r, us, tag) == [r EXCEPT !.res = [u \in DOMAIN @ |-> IF u \in us THEN @[u] \cup {tag} ELSE @[u]]]

\* Then is a semicolon: the second step starts when the first has its result.
Then(r, Step(_)) == CHOOSE y \in {Step(x) : x \in {r}} : TRUE

\* A loop of the code that goes on while more is set; it must end in time.
While(Pass(_), r) ==
    LET step(x, u) == IF x.more THEN Pass([x EXCEPT !.more = FALSE]) ELSE x
        last == FoldLeft(step, [r EXCEPT !.more = TRUE], r.units \o r.units \o <<NoUnit>>)
    IN  [last EXCEPT !.sound = @ /\ ~last.more]

\* Step 0.  orders is a function of the ordered units; the others hold.
Start(units, orders, places) ==
    LET us == ToSet(units)
    IN  [units |-> units, places |-> places,
         cmd |-> [u \in us |-> IF u \in DOMAIN orders THEN orders[u] ELSE Hold],
         res |-> [u \in us |-> {}], sup |-> [u \in us |-> [n |-> 0, own |-> {}]],
         paths |-> [u \in us |-> <<>>], may |-> [u \in us |-> {}],
         combat |-> {}, out |-> [u \in us |-> None],
         cutters |-> {}, more |-> TRUE, sound |-> TRUE]
----------------------------------------------------------------------------
(* Step 1: convoys. *)

FleetsAtSea(units) == {units[i].loc : i \in {j \in DOMAIN units : units[j].type = "F" /\ Area[units[j].loc] \in Wet}}

\* Some fleets now at sea could carry an army of start to end, through a given one if asked.
HasConvoyPath(units, type, start, end, through) ==
    /\ type = "A"
    /\ \E p \in ConvoyPaths[start][end] : p \subseteq FleetsAtSea(units) /\ (through = None \/ through \in p)

Convoyers(r, u, to) ==
    {f \in DOMAIN r.cmd : /\ u.type = "A" /\ f.type = "F" /\ Area[f.loc] \in Wet
                          /\ r.cmd[f] = Order("C", "A", Short[u.loc], Short[to], FALSE)}

\* The paths of the convoyers, shortest first, if there is intent to convoy:
\* VIA, no other way, or a fleet of the same power among the convoyers.
PathsOf(r, u, to, via, convoyers) ==
    LET fleets == {f.loc : f \in convoyers}
        found == {p \cup {u.loc, to} : p \in {q \in ConvoyPaths[u.loc][to] : q \subseteq fleets}}
        intent == \/ via \/ ~Abuts(u.type, u.loc, "S", to)
                  \/ \E f \in convoyers : f.pow = u.pow /\ HasConvoyPath(r.units, "A", u.loc, to, f.loc)
    IN  IF u.type = "A" /\ fleets # {} /\ intent
        THEN SortSeq(SetToSeq(found), LAMBDA p, q : Cardinality(p) < Cardinality(q)) ELSE <<>>

\* The army takes the paths there are; convoyers that are on none of them fail.
Embark(r, u, convoyers, paths) ==
    LET used == {f \in convoyers : f.loc \in UNION ToSet(paths)}
    IN  [r EXCEPT !.paths[u] = paths, !.may[u] = {f.loc : f \in used},
                  !.res = [f \in DOMAIN @ |-> IF f \in convoyers \ used THEN {"no convoy"} ELSE @[f]]]
Stay(r, u, convoyers) ==
    LET told == IF Abuts(u.type, u.loc, "S", r.cmd[u].to) THEN {} ELSE {"no convoy"}
    IN  [r EXCEPT !.cmd[u].via = FALSE,
                  !.res = [f \in DOMAIN @ |-> IF f \in convoyers THEN {"no convoy"} ELSE IF f = u THEN @[f] \cup told ELSE @[f]]]
Depart(r, u, convoyers, paths) == IF paths = <<>> THEN Stay(r, u, convoyers) ELSE Embark(r, u, convoyers, paths)
ConvoyedMove(r, u) ==
    LET o == r.cmd[u]
    IN  IF o.k # "-" THEN r
        ELSE Depart(r, u, Convoyers(r, u, o.to), PathsOf(r, u, o.to, o.via, Convoyers(r, u, o.to)))

ConvoyOrder(r, f) ==
    LET o == r.cmd[f]
        army == Occupant(r.units, o.at)
    IN  IF o.k # "C" THEN r
        ELSE IF army = NoUnit \/ army.type # "A" THEN [r EXCEPT !.cmd[f] = Hold]
        ELSE IF f.loc \notin r.may[army] \/ o.to # Target(r.cmd[army]) THEN Tag(r, {f}, "void")
        ELSE r

(* Step 2: supports.  The occupant of the place an order is said to attack *)
(* is looked up by its last word, which for a convoyed move is VIA.        *)
BadSupport(r, o, guy) ==
    LET his == r.cmd[guy]
    IN  \/ o.to = None /\ his.k = "-"
        \/ o.to # None /\ ~(his.k = "-" /\ his.to = o.to)
        \/ "no convoy" \in r.res[guy] /\ guy.type = "A"
SupportBy(r, u, guy) ==
    LET his == r.cmd[guy]
        attacked == IF his.via THEN NoUnit ELSE Occupant(r.units, Short[his.to])
        own == r.sup[guy].own
    IN  [n |-> r.sup[guy].n + 1, own |-> IF his.k = "-" /\ attacked.pow = u.pow THEN own \cup {u} ELSE own]
SupportOrder(r, u) ==
    LET o == r.cmd[u]
        guy == Occupant(r.units, o.at)
        named == [r EXCEPT !.cmd[u].type = guy.type, !.cmd[u].at = guy.loc]
    IN  IF o.k # "S" THEN r
        ELSE IF guy = NoUnit THEN Tag([r EXCEPT !.cmd[u] = Hold], {u}, "void")
        ELSE IF BadSupport(r, o, guy) THEN Tag(named, {u}, "void")
        ELSE [named EXCEPT !.sup[guy] = SupportBy(r, u, guy)]

(* Step 3 and after: an attack cuts the support given by the unit it meets. *)
CutSupport(r, u, direct) ==
    LET o == r.cmd[u]
        other == Occupant(r.units, Short[o.to])
        his == Cmd(r, other)
        fleet == Occupant(r.units, TargetShort(his))
        isFleet == fleet.type = "F" /\ fleet.loc = TargetShort(his)
        cut == /\ his.k = "S" /\ {"cut", "void"} \cap r.res[other] = {}
               /\ u.pow # other.pow
               /\ TargetShort(his) # Short[u.loc]
               /\ \/ ~ViaConvoy(r, u)
                  \/ ~isFleet \/ r.cmd[fleet].k # "C" \/ "void" \in r.res[fleet]
                  \/ \E p \in ToSet(r.paths[u]) : TargetShort(his) \notin p
        helped == Occupant(r.units, his.at)
    IN  IF o.k # "-" \/ (direct /\ ViaConvoy(r, u)) \/ ~cut THEN r
        ELSE [Tag(r, {other}, "cut") EXCEPT !.sup[helped] = [n |-> @.n - 1, own |-> @.own \ {other}]]
DirectCut(r, u) == IF r.res[u] = {} THEN CutSupport(r, u, TRUE) ELSE r
----------------------------------------------------------------------------
(* Steps 4 and 5: disrupted convoys. *)

Strengths(r) ==
    [r EXCEPT !.combat = {[at |-> Short[IF Attacks(r, u) THEN r.cmd[u].to ELSE u.loc],
                           str |-> 1 + r.sup[u].n, unit |-> u, shared |-> TRUE] : u \in DOMAIN r.cmd}]
Conflicts(r, place) == {e \in r.combat : e.at = place}
Strongest(r, place) == {e \in Conflicts(r, place) : \A f \in Conflicts(r, place) : f.str <= e.str}
Help(r, e) == IF e.shared THEN r.sup[e.unit].own ELSE {}

\* Game._detect_paradox: along the chain of supports and convoys from a site.
Paradox(r, site, Bad(_)) ==
    LET next(seen, x) ==
          LET o == Cmd(r, seen[Len(seen)])
          IN  IF o.k \notin {"S", "C"} THEN seen
              ELSE LET n == Occupant(r.units, Target(o)) IN IF n = NoUnit THEN seen ELSE Append(seen, n)
    IN  \E u \in ToSet(FoldLeft(next, <<Occupant(r.units, site)>>, r.units)) : u # NoUnit /\ Bad(r.cmd[u])

\* The code removes from the list it walks over: the path after a removed one is not looked at.
RemovePaths(paths, place) ==
    FoldLeft(LAMBDA acc, p : IF ~acc.skip /\ place \in p THEN [skip |-> TRUE, kept |-> acc.kept]
                             ELSE [skip |-> FALSE, kept |-> Append(acc.kept, p)],
             [skip |-> FALSE, kept |-> <<>>], paths).kept

\* A slip the checks must catch: a convoy is disrupted wherever it is attacked.
DisruptAtOnce(r, u, place, tag, cotag) ==
    IF \E e \in Conflicts(r, Short[place]) : e.unit.loc # place
    THEN [r EXCEPT !.paths[u] = <<>>, !.res[u] = {tag}] ELSE r

DisruptAt(r, u, place, tag, cotag) ==
    LET area == Short[place]
        fleet == Occupant(r.units, place)
        strongest == Strongest(r, area)
        dest == r.cmd[u].to
        there == Cmd(r, Occupant(r.units, dest))
        against == there.k \in {"-", "S"} /\ ~there.via /\ TargetShort(there) = area
        chain == Paradox(r, dest, LAMBDA o : o.k = "S" /\ o.type = "F" /\ o.at = area /\ o.to = None)
        spared == \/ \A e \in strongest : e.unit.pow = fleet.pow
                  \/ ~chain /\ \E e \in strongest : e.unit = fleet
                  \/ ~chain /\ Cardinality(strongest) >= 2 /\ ~against
        left == RemovePaths(r.paths[u], place)
        land == Abuts(u.type, u.loc, "-", dest)
        fails == /\ left = <<>>
                 /\ \/ ~land \/ r.cmd[u].via
                    \/ Paradox(r, dest, LAMBDA o : o.k = "S" /\ o.to = area)
        r1 == [r EXCEPT !.paths[u] = left, !.res[u] = IF fails THEN {tag} ELSE @]
    IN  IF spared THEN r
        ELSE IF cotag = None THEN r1 ELSE [r1 EXCEPT !.res[fleet] = {cotag}]

Disrupt(r, tag, cotag) ==
    LET at(x, u, f) == IF f.loc \in x.may[u] THEN DisruptAt(x, u, f.loc, tag, cotag) ELSE x
    IN  FoldLeft(LAMBDA x, u : FoldLeft(LAMBDA y, f : at(y, u, f), x, r.units), r, r.units)

\* A pass of the loop: supports are cut by the convoyed moves that are sure
\* first, and by the doubtful ones only when nothing else is left to do.
CutBy(r, u) == [CutSupport(r, u, FALSE) EXCEPT !.cutters = @ \cup {u}, !.more = TRUE]
SureCut(r, u) == IF r.may[u] = {} \/ r.res[u] # {} \/ u \in r.cutters THEN r ELSE CutBy(r, u)
DoubtfulCut(r, u) ==
    IF r.may[u] = {} THEN r
    ELSE IF "no convoy" \in r.res[u]
    THEN LET helpers == {v \in DOMAIN r.cmd : /\ r.cmd[v].k \in {"S", "C"} /\ r.res[v] = {}
                                              /\ r.cmd[v].type = u.type /\ r.cmd[v].at = u.loc}
         IN  [Tag(r, helpers, "no convoy") EXCEPT !.sup[u] = [n |-> 0, own |-> {}]]
    ELSE IF "maybe" \in r.res[u] /\ u \notin r.cutters THEN CutBy([r EXCEPT !.res[u] = {}], u)
    ELSE r
ConvoyPass(r) ==
    LET tried == Disrupt(Strengths(r), "maybe", None)
        sure == FoldLeft(SureCut, tried, r.units)
    IN  IF sure.more THEN sure
        ELSE FoldLeft(DoubtfulCut, Disrupt(sure, "no convoy", "disrupted"), r.units)
----------------------------------------------------------------------------
(* Steps 6 to 8: who bounces. *)

Boing(r, u) == [Tag(r, {u}, "bounce") EXCEPT !.combat = @ \cup {[at |-> Short[u.loc], str |-> 1, unit |-> u, shared |-> FALSE]}]

\* Step 6: two units that would swap places.
SwapBounce(r, u) ==
    LET swap == Occupant(r.units, Short[r.cmd[u].to])
        swaps == Attacks(r, swap) /\ ~ViaConvoy(r, swap) /\ Short[r.cmd[swap].to] = Short[u.loc]
        mine == r.sup[u].n - Cardinality(r.sup[u].own)
        his == r.sup[swap].n - Cardinality(r.sup[swap].own)
        even == u.pow = swap.pow \/ r.sup[u].n = r.sup[swap].n
        r1 == IF even \/ mine <= his THEN Boing(r, u) ELSE r
        r2 == IF even \/ his <= mine THEN Boing(r1, swap) ELSE r1
    IN  IF ~Attacks(r, u) \/ ViaConvoy(r, u) \/ swap = NoUnit THEN r
        ELSE IF ~swaps THEN r
        ELSE Tag(r2, r.sup[u].own \cup r.sup[swap].own, "void")

\* Step 7: a move that is not alone the strongest of its place.
Outgunned(r, place) ==
    LET alone == Cardinality(Strongest(r, place)) = 1
        losers == {e.unit : e \in IF alone THEN Conflicts(r, place) \ Strongest(r, place) ELSE Conflicts(r, place)}
    IN  FoldLeft(Boing, r, SetToSeq({u \in losers : Attacks(r, u)}))

\* Step 8: a move that would dislodge a unit of its own power, or only with the help of its victim's.
SelfDislodge(r, place) ==
    LET e == CHOOSE x \in Strongest(r, place) : TRUE
        guy == Occupant(r.units, place)
        second == {f.str : f \in Conflicts(r, place) \ Strongest(r, place)}
    IN  IF Cardinality(Strongest(r, place)) # 1 \/ guy = NoUnit THEN r
        ELSE IF /\ Attacks(r, e.unit) /\ ~Attacks(r, guy)
                /\ \/ guy.pow = e.unit.pow
                   \/ \E n \in second : e.str - Cardinality(Help(r, e)) <= n
             THEN Tag(Boing(r, e.unit), Help(r, e), "void")
             ELSE r

BouncePass(r) ==
    LET swapped == FoldLeft(SwapBounce, r, r.units)
        gunned == FoldLeft(Outgunned, r, r.places)
        alone == FoldLeft(SelfDislodge, r, r.places)
        again(x) == [x EXCEPT !.more = TRUE]
    IN  IF swapped # r THEN again(swapped)
        ELSE IF gunned # r THEN again(gunned)
        ELSE IF alone # r THEN again(alone) ELSE r

\* Step 9: a dislodged unit gives no support; what it gave is taken from an entry.
Weaken(r, victim, helped, entries) ==
    LET e == CHOOSE x \in entries : TRUE
    IN  [r EXCEPT !.combat = (@ \ {e}) \cup {[e EXCEPT !.str = @ - 1]},
                  !.sup[helped].own = IF e.shared THEN @ \ {victim} ELSE @]
DislodgeCut(r, u) ==
    LET victim == Occupant(r.units, Short[r.cmd[u].to])
        site == TargetShort(r.cmd[victim])
        helped == Occupant(r.units, r.cmd[victim].at)
        entries == {e \in Conflicts(r, site) : e.unit = helped}
        cut == Tag([r EXCEPT !.more = TRUE], {victim}, "cut")
    IN  IF ~Attacks(r, u) \/ victim = NoUnit THEN r
        ELSE IF \/ r.cmd[victim].k # "S" \/ r.res[victim] # {}
                \/ r.cmd[u].via /\ site # Short[u.loc] THEN r
        ELSE IF entries = {} THEN cut ELSE Weaken(cut, victim, helped, entries)

BattlePass(r) == FoldLeft(DislodgeCut, While(BouncePass, r), r.units)
----------------------------------------------------------------------------
(* Step 10: dislodgements, and moves that may go on after all. *)

NoEffect(r, u, site, shared) ==
    LET gone == {e \in Conflicts(r, site) : e.unit = u /\ (shared \/ Help(r, e) = {})}
    IN  [r EXCEPT !.combat = @ \ gone, !.sound = @ /\ (shared \/ gone # {})]

\* One step of Game._unbounce and the place where it goes on.
UnbounceAt(x, u) ==
    LET r == x.r
        w == (CHOOSE e \in Strongest(r, x.site) : TRUE).unit
        freed == [r EXCEPT !.res[w] = @ \ {"bounce"}]
        home == Short[w.loc]
        vacated == NoEffect(freed, w, home, FALSE)
    IN  IF x.site = None THEN x
        ELSE IF Cardinality(Strongest(r, x.site)) # 1 \/ "bounce" \notin r.res[w] THEN [x EXCEPT !.site = None]
        ELSE IF r.out[w] # None
        THEN [r |-> [freed EXCEPT !.out[w] = None, !.res[w] = @ \ {"dislodged"}], site |-> None]
        ELSE [r |-> vacated, site |-> IF Conflicts(vacated, home) = {} THEN None ELSE home]
Unbounce(r, site) == FoldLeft(UnbounceAt, [r |-> r, site |-> site], r.units).r

Beat(r, u, loser) ==
    LET site == Short[u.loc]
        swapped == /\ ~ViaConvoy(r, u) /\ ~ViaConvoy(r, loser)
                   /\ r.cmd[loser].k = "-" /\ Short[r.cmd[loser].to] = site
        out == [r EXCEPT !.res[loser] = (@ \ {"disrupted"}) \cup {"dislodged"}, !.out[loser] = site]
    IN  Tag(IF swapped THEN NoEffect(out, loser, site, TRUE) ELSE out, r.sup[u].own, "void")
Dislodge(r, u) ==
    LET site == Short[u.loc]
        loser == Occupant(r.units, Short[r.cmd[u].to])
        left == IF loser # NoUnit /\ ~Attacks(r, loser) THEN Beat(r, u, loser) ELSE r
    IN  IF ~Attacks(r, u) THEN r
        ELSE IF Conflicts(left, site) = {} THEN left ELSE Unbounce(left, site)

\* A slip the checks must catch: convoy orders are looked at before all moves are known.
ConvoysAtOnce(r) == FoldLeft(LAMBDA x, u : ConvoyOrder(ConvoyedMove(x, u), u), r, r.units)

\* Game._resolve_moves.
Convoys(r) == FoldLeft(ConvoyOrder, FoldLeft(ConvoyedMove, r, r.units), r.units)
Supports(r) == FoldLeft(DirectCut, FoldLeft(SupportOrder, r, r.units), r.units)
Disruptions(r) == Strengths(While(ConvoyPass, r))
Battles(r) == While(BattlePass, r)
Dislodgements(r) == FoldLeft(Dislodge, r, r.units)
Resolve(units, orders, places) ==
    Then(Then(Then(Then(Then(Start(units, orders, places), Convoys), Supports), Disruptions), Battles), Dislodgements)
----------------------------------------------------------------------------
(* What the rest of the engine relies on, of the resolution r of the units *)
(* us: each has an order, a unit that moves can stand where it goes and is *)
(* not dislodged, and no other unit goes there, nor stays there.           *)

Goes(r, u) == IF Attacks(r, u) THEN r.cmd[u].to ELSE u.loc
Settled(r, us) ==
    /\ DOMAIN r.cmd = us
    /\ \A u \in us : Attacks(r, u) =>
         /\ Goes(r, u) \in Locs /\ ValidUnit(u.type, Goes(r, u), FALSE) /\ r.out[u] = None
         /\ \A v \in us \ {u} : r.out[v] = None => Short[Goes(r, u)] # Short[Goes(r, v)]
============================================================================
