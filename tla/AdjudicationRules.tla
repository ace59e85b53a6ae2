------------------------- MODULE AdjudicationRules -------------------------
(***************************************************************************)
(* What the rules of the game (docs/game-rules/orders) say of a resolved   *)
(* movement phase, as equations: how strong a unit attacks, holds and      *)
(* keeps others out follows from which moves succeed and which units are   *)
(* dislodged, and these follow from the strengths.  The outcome of the     *)
(* engine must solve the equations; it is computed in quite another way.   *)
(*                                                                         *)
(* x is [orders, res, paths]: the orders that were given, the tags of each *)
(* unit, and the convoy paths each army had before any fighting.           *)
(***************************************************************************)
EXTENDS Adjudicator

Ordered(x) == DOMAIN x.orders
OrdersMove(x, u) == x.orders[u].k = "-"
Goal(x, u) == Short[x.orders[u].to]
Succeeds(x, u) == OrdersMove(x, u) /\ x.res[u] = {}
Falls(x, u) == "dislodged" \in x.res[u]
StandsIn(x, place) == {u \in Ordered(x) : Short[u.loc] = place}
Rivals(x, u) == {v \in Ordered(x) \ {u} : OrdersMove(x, v) /\ Goal(x, v) = Goal(x, u)}

\* A convoy carries its army if one of its paths has no dislodged fleet.
AtSea(f) == f.type = "F" /\ Area[f.loc] \in Wet
Carried(x, u) == \E p \in ToSet(x.paths[u]) : \A f \in Ordered(x) : AtSea(f) /\ f.loc \in p => ~Falls(x, f)
CanGo(x, u) ==
    \/ Carried(x, u)
    \/ Abuts(u.type, u.loc, "-", x.orders[u].to) /\ (x.paths[u] = <<>> \/ ~x.orders[u].via)

\* A support is for the order that was given, and it is cut by an attack from
\* elsewhere than where it goes to, or by the loss of the supporter.  An army
\* does not cut by convoy a support for or against a fleet it depends on.
IsFor(x, s, u) ==
    LET o == x.orders[s]
    IN  /\ o.k = "S" /\ o.type = u.type /\ Short[o.at] = Short[u.loc]
        /\ IF o.to = None THEN ~OrdersMove(x, u) ELSE OrdersMove(x, u) /\ Short[o.to] = Goal(x, u)
DependsOn(x, a, f) ==
    /\ x.orders[f].k = "C" /\ "void" \notin x.res[f]
    /\ x.paths[a] # <<>> /\ \A p \in ToSet(x.paths[a]) : f.loc \in p
IsCut(x, s) ==
    \/ Falls(x, s)
    \/ \E a \in Ordered(x) :
         /\ OrdersMove(x, a) /\ a.pow # s.pow /\ Goal(x, a) = Short[s.loc] /\ CanGo(x, a)
         /\ TargetShort(x.orders[s]) # Short[a.loc]
         /\ ~\E f \in StandsIn(x, TargetShort(x.orders[s])) : DependsOn(x, a, f)
Helpers(x, u) == {s \in Ordered(x) : IsFor(x, s, u) /\ ~IsCut(x, s)}
Force(x, u) == 1 + Cardinality(Helpers(x, u))

HeadToHead(x, u, v) ==
    /\ OrdersMove(x, u) /\ OrdersMove(x, v) /\ ~Carried(x, u) /\ ~Carried(x, v)
    /\ Goal(x, u) = Short[v.loc] /\ Goal(x, v) = Short[u.loc]

(* Nobody dislodges a unit of his own, nor with the help of the victim's power. *)
Resisting(x, u) == {v \in StandsIn(x, Goal(x, u)) : ~Succeeds(x, v) \/ HeadToHead(x, u, v)}
AttackForce(x, u) ==
    LET them == {v.pow : v \in Resisting(x, u)}
    IN  IF ~CanGo(x, u) \/ u.pow \in them THEN 0
        ELSE 1 + Cardinality({s \in Helpers(x, u) : s.pow \notin them})
HoldForce(x, place) ==
    LET staying == {v \in StandsIn(x, place) : ~Succeeds(x, v)}
    IN  IF staying = {} THEN 0
        ELSE LET v == CHOOSE v \in staying : TRUE IN IF OrdersMove(x, v) THEN 1 ELSE Force(x, v)
PreventForce(x, u) ==
    LET beaten == \E v \in StandsIn(x, Goal(x, u)) : HeadToHead(x, u, v) /\ Succeeds(x, v)
    IN  IF ~CanGo(x, u) \/ beaten THEN 0 ELSE Force(x, u)

ShouldSucceed(x, u) ==
    LET opponents == {v \in StandsIn(x, Goal(x, u)) : HeadToHead(x, u, v)}
        attack == AttackForce(x, u)
    IN  /\ IF opponents # {} THEN \A v \in opponents : attack > Force(x, v) ELSE attack > HoldForce(x, Goal(x, u))
        /\ \A v \in Rivals(x, u) : attack > PreventForce(x, v)
ShouldFall(x, u) == ~Succeeds(x, u) /\ \E v \in Ordered(x) : Succeeds(x, v) /\ Goal(x, v) = Short[u.loc]

Solves(x, u) ==
    /\ OrdersMove(x, u) => (Succeeds(x, u) <=> ShouldSucceed(x, u))
    /\ Falls(x, u) <=> ShouldFall(x, u)
=============================================================================
