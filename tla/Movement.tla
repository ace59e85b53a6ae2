------------------------------ MODULE Movement ------------------------------
(***************************************************************************)
(* A movement phase: from a position, units are given orders the engine    *)
(* lists as possible, one unit after the other (some may be passed over),  *)
(* and the phase is resolved with the orders so far: a unit without one    *)
(* holds.  The outcome is compared with the rules.                         *)
(*                                                                         *)
(* board is the set of units, orders the orders so far (a function of the  *)
(* ordered units), r the resolution.                                       *)
(***************************************************************************)
EXTENDS Orders, AdjudicationRules, DaideMap

CONSTANTS
    Positions,       \* sets of units
    Offered(_, _)    \* the orders tried for a unit of a position

VARIABLES board, orders, r
vars == <<board, orders, r>>

Listed(S) == FoldSet(LAMBDA x, list : Append(list, x), <<>>, S)
IndexOf(list, x) == CHOOSE i \in DOMAIN list : list[i] = x
Places == {Short[l] : l \in Locs}
ResolveAll(us, given) == Resolve(Listed(us), AddCoasts(given), Listed(Places))

Init == /\ board \in Positions
        /\ orders = <<>>
        /\ r = ResolveAll(board, orders)

Accepted(u) == {o \in OrderForms : ValidOrder(board, u, o)}

\* Game.set_orders for one unit, and Game._resolve_moves.
GiveOrder(u) ==
    /\ \A v \in DOMAIN orders : IndexOf(Listed(board), v) < IndexOf(Listed(board), u)
    /\ \E o \in {WithCoasts(board, u, x) : x \in Offered(board, u) \cap PossibleOrders(board, u)} \cap Accepted(u) :
          orders' = (u :> o) @@ orders
    /\ r' = ResolveAll(board, orders')
    /\ UNCHANGED board

Next == \E u \in board : GiveOrder(u)
Spec == Init /\ [][Next]_vars
----------------------------------------------------------------------------
Full == AddCoasts(orders) @@ [u \in board |-> Hold]
FirstPaths == FoldLeft(ConvoyedMove, Start(r.units, AddCoasts(orders), <<>>), r.units).paths
Outcome == [orders |-> Full, res |-> r.res, paths |-> FirstPaths]

\* The type of a resolution: a lookup never fails, all loops have ended, and
\* a unit is dislodged exactly if it is known where from; no two units get to one
\* place, and what moves can stand where it goes.
TypeOK ==
    /\ DOMAIN orders \subseteq board /\ DOMAIN r.res = board /\ ToSet(r.units) = board
    /\ r.sound
    /\ \A u \in board : "dislodged" \in r.res[u] <=> r.out[u] # None
    /\ Settled(r, board)

\* The moves that succeed and the units that are dislodged are those of the
\* rules: the passes of Game._resolve_moves reach a solution of the equations
\* (does not hold of the positions of HelpFromVictim; see the README).
Adjudicated(x) == \A u \in board : Solves(x, u)

\* The same, but for positions in which an army moves VIA convoy with the help
\* of a unit of the power it attacks.
HelpFromVictim(x) ==
    \E u, s, v \in board : /\ OrdersMove(x, u) /\ x.orders[u].via /\ IsFor(x, s, u)
                           /\ Short[v.loc] = Goal(x, u) /\ v.pow = s.pow
AdjudicatedButForHelp(x) == HelpFromVictim(x) \/ Adjudicated(x)

\* The outcome does not depend on the order in which units and places are
\* visited, that is on the order in which the players wrote their orders.
OrderIndependent ==
    \A other \in {Resolve(Reverse(Listed(board)), AddCoasts(orders), Reverse(Listed(Places)))} :
        other.res = r.res /\ other.out = r.out

\* An army gets to a place it does not border only over fleets that were
\* ordered to convoy it there and stand their ground.
ArmiesDoNotSwim(x) ==
    \A u \in board :
        LET to == x.orders[u].to
            convoys == {f \in board : x.orders[f] = Order("C", "A", u.loc, to, FALSE) /\ x.res[f] = {}}
        IN  Succeeds(x, u) /\ ~Abuts(u.type, u.loc, "-", to) => Linked(u.loc, {f.loc : f \in convoys}, to)

\* The adjudication ends, and in a solution of the rules, convoys included.
ResolvedByTheRules == TypeOK /\ \A x \in {Outcome} : AdjudicatedButForHelp(x) /\ ArmiesDoNotSwim(x)

\* Every order the engine lists as possible is accepted when it is given.
PossibleIsAccepted ==
    orders = <<>> => \A u \in board : \A o \in PossibleOrders(board, u) : ValidOrder(board, u, WithCoasts(board, u, o))
----------------------------------------------------------------------------
(* What a DAIDE program is told of the map and of its orders. *)

\* A program reads from the map definition the moves the game accepts of a
\* unit that no fleet carries, for every unit of the position.
MovesAreTold ==
    orders = <<>> => \A u \in board : ReadMoves(u.type, u.loc) = {d \in Locs : ValidOrder({u}, u, Move(d, FALSE))}

\* What is offered, to players and to programs, and what is accepted agree.
OffersAreAccepted == PossibleIsAccepted /\ MovesAreTold

OrderText(u, o) ==
    <<u.type, u.loc>> \o CASE o.k = "H" -> <<"H">>
                           [] o.k = "-" -> <<"-", o.to>>
                           [] OTHER -> <<o.k, o.type, o.at>> \o (IF o.to = None THEN <<>> ELSE <<"-", o.to>>)

\* An order in an ORD message, sent back by the program, is the order it is
\* the result of: but for a move VIA convoy, whose destination is not told,
\* and for the coast in a support.
ReadsBack ==
    [u \in UNION Positions, o \in OrderForms |->
        LET told == IF o.k = "S" /\ o.to # None THEN [o EXCEPT !.to = Short[@]] ELSE o
            read == ReadOrder(Paren(OrderClause("M", u.pow, OrderText(u, o))))
        IN  o.via \/ (read.ok /\ read.val.pow = u.pow /\ read.val.text = OrderText(u, told))]

\* This is so of every order the game accepted (responses.py:634-667 and
\* clauses.py:396-469, 652-720).
OrdersReadBack == \A u \in DOMAIN orders : ReadsBack[u, AddCoasts(orders)[u]]
=============================================================================
