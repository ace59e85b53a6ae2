---------------------------- MODULE MCGameServer ----------------------------
(***************************************************************************)
(* Instances of GameServer for TLC.                                        *)
(***************************************************************************)
EXTENDS GameServer, TLC

\* Powers are interchangeable, and so are users where none is a master.
SymmetricPowers == Permutations(Powers)
SymmetricPlayers == Permutations(Powers) \cup Permutations(Users)
=============================================================================
