------------------------------- MODULE Orders -------------------------------
(***************************************************************************)
(* The orders of a game (diplomacy/engine/game.py): which are accepted,    *)
(* which are listed as possible, and how an accepted order is completed.   *)
(* The text of an order is its record [k, type, at, to, via] of module     *)
(* Adjudicator; parsing and normalising the text is left out, what the     *)
(* code does to coasts is not.  board is the set of all units.             *)
(***************************************************************************)
EXTENDS Adjudicator

OrderForms ==
    {Hold} \cup {Move(l, via) : l \in Locs, via \in BOOLEAN}
    \cup {Order(k, t, at, to, FALSE) : k \in {"S", "C"}, t \in Types, at \in Locs, to \in Locs \cup {None}}

\* Game._unit_owner with and without the coast: the units of a type at a location.
UnitsAt(board, type, l) == {u \in board : u.type = type /\ u.loc = l}
UnitsOn(board, type, l) == {u \in board : u.type = type /\ l \in {u.loc, Short[u.loc]}}

Fleets(board) == {u.loc : u \in {v \in board : v.type = "F" /\ Area[v.loc] \in Wet}}
CanBeConvoyed(board, type, start, end, through) ==
    type = "A" /\ \E p \in ConvoyPaths[start][end] : p \subseteq Fleets(board) /\ (through = None \/ through \in p)

ConvoyDestinations(board, start, without) ==
    {d \in Locs : \E p \in ConvoyPaths[start][d] : p \subseteq Fleets(board) \ without}
----------------------------------------------------------------------------
(* What Game._add_order does to the coasts of an order. *)

\* Map.default_coast: the only coast of a province a fleet can reach.
DefaultCoast(l, to) ==
    LET coasts == {e.loc : e \in {x \in ToSet(AbutList(l)) : Short[x.loc] = to}}
    IN  IF to \notin coasts /\ Cardinality(coasts) = 1 THEN CHOOSE c \in coasts : TRUE ELSE to

\* Game._expand_coast and Game._add_unit_types: an army has no coast (but in a
\* VIA order), and a unit that is named is where it is.
WithCoasts(board, u, o) ==
    LET named == {v \in board : o.at \in {v.loc, Short[v.loc]} /\ ValidUnit(o.type, v.loc, FALSE)}
        at == IF named = {} THEN o.at ELSE (CHOOSE v \in named : TRUE).loc
        to == IF o.to = None THEN None
              ELSE IF o.type = "A" THEN Short[o.to]
              ELSE IF u.type = "F" /\ OnCoast(o.to) THEN DefaultCoast(o.at, Short[o.to])
              ELSE o.to
    IN  CASE o.k = "-" /\ u.type = "A" /\ ~o.via -> [o EXCEPT !.to = Short[@]]
          [] o.k = "-" /\ u.type = "F" /\ ~OnCoast(o.to) /\ ~o.via -> [o EXCEPT !.to = DefaultCoast(u.loc, @)]
          [] o.k = "S" -> [o EXCEPT !.at = at, !.to = to]
          [] OTHER -> o

\* Game._add_coasts, when all orders are known: support of a fleet names the
\* coast it goes to.  orders is a function of the ordered units.
AddCoasts(orders) ==
    [u \in DOMAIN orders |->
        LET o == orders[u]
            his == {orders[v] : v \in {w \in DOMAIN orders : w.type = "F" /\ o.at \in {w.loc, Short[w.loc]}}}
            coast == {h.to : h \in {x \in his : x.k = "-" /\ Short[x.to] = o.to}}
        IN  IF o.k = "S" /\ o.type = "F" /\ o.to # None /\ coast # {}
            THEN [o EXCEPT !.to = CHOOSE c \in coast : TRUE] ELSE o]
----------------------------------------------------------------------------
(* Game._valid_order *)

ValidNamed(board, u, o) ==
    /\ ValidUnit(o.type, o.at, TRUE) /\ (o.to # None => ValidUnit(o.type, o.to, TRUE))
    /\ UnitsOn(board, o.type, o.at) # {} /\ u.loc # o.at

ValidSupport(board, u, o) ==
    LET dest == IF o.to = None THEN o.at ELSE Short[o.to]
    IN  /\ ValidNamed(board, u, o)
        /\ o.to # None => \/ Abuts(o.type, o.at, "S", dest)
                          \/ CanBeConvoyed(board, o.type, Short[o.at], dest, None)
        /\ Abuts(u.type, u.loc, "S", dest)

ValidConvoy(board, u, o) ==
    /\ u.type = "F" /\ Area[u.loc] \in Wet /\ o.type = "A" /\ o.to # None
    /\ ValidNamed(board, u, o)
    /\ Area[o.at] \in Coastal /\ Area[Short[o.to]] \in Coastal /\ ValidUnit("A", Short[o.to], FALSE)
    /\ CanBeConvoyed(board, "A", Short[o.at], Short[o.to], u.loc)

ValidMove(board, u, o) ==
    /\ o.via => u.type = "A" \/ Area[u.loc] \in Coastal
    /\ o.to # u.loc
    /\ \/ ~o.via /\ Abuts(u.type, u.loc, "-", o.to)
       \/ /\ Area[o.to] \in Coastal /\ ~(u.type = "A" /\ OnCoast(o.to))
          /\ CanBeConvoyed(board, u.type, u.loc, o.to, None)

ValidOrder(board, u, o) ==
    /\ u \in board /\ (Area[u.loc] = "SHUT" => o.k = "H")
    /\ CASE o.k = "S" -> ValidSupport(board, u, o)
         [] o.k = "C" -> ValidConvoy(board, u, o)
         [] o.k = "-" -> ValidMove(board, u, o)
         [] OTHER -> TRUE
----------------------------------------------------------------------------
(* Game.get_all_possible_orders, for one unit in a movement phase. *)

PossibleMoves(u) == {Move(d, FALSE) : d \in {x \in DestWithCoasts(u.loc) : Abuts(u.type, u.loc, "-", x)}}
PossibleVia(board, u) ==
    {Move(d, TRUE) : d \in IF u.type = "A" THEN ConvoyDestinations(board, u.loc, {}) ELSE {}}

\* A unit that needs this fleet to be convoyed is not supported by it.
PossibleSupports(board, u) ==
    LET dests == {d \in DestWithCoasts(u.loc) : Abuts(u.type, u.loc, "S", d)}
        reaches(v, d) == Abuts(v.type, v.loc, "-", d) \/ (v.type = "A" /\ v.loc \in ConvoyDestinations(board, d, {u.loc}))
    IN  {Order("S", v.type, v.loc, None, FALSE) : v \in {w \in board : w.loc \in dests}}
        \cup UNION {{Order("S", b[1].type, b[1].loc, to, FALSE) : to \in {b[2], Short[b[2]]}} :
                    b \in {q \in board \X dests : Short[q[1].loc] # Short[u.loc] /\ reaches(q[1], q[2])}}

PossibleConvoys(board, u) ==
    {Order("C", "A", s[1], s[2], FALSE) :
        s \in {q \in {v.loc : v \in {w \in board : w.type = "A"}} \X Locs :
                 u.type = "F" /\ CanBeConvoyed(board, "A", q[1], q[2], u.loc)}}

PossibleOrders(board, u) ==
    {Hold} \cup PossibleMoves(u) \cup PossibleVia(board, u) \cup PossibleSupports(board, u) \cup PossibleConvoys(board, u)
=============================================================================
