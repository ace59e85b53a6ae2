------------------------------- MODULE MCClient -------------------------------
(***************************************************************************)
(* Instances of Client for TLC: who plays what, and what is ordered.       *)
(***************************************************************************)
EXTENDS Client, TLC

CONSTANTS a, b, w, A, B, x, y

\* A player and the omniscient observer; a player alone; a player with two
\* connections.
PlayerAndWatcher == a :> A @@ w :> Omniscient
OnePlayer == a :> A
TwoConnections == a :> A @@ b :> A

\* Orders for one unit or for the other; for one unit or for none; for one or
\* for both.
EitherUnit == {{x}, {y}}
OneOrNone == {{}, {x}}
OneOrBoth == {{x}, {x, y}}
=============================================================================
