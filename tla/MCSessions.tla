------------------------------ MODULE MCSessions ------------------------------
(* Sessions for TLC: tokens are drawn at random and connections are objects, *)
(* so that either may be exchanged for another.                              *)
EXTENDS Sessions, TLC

Symmetric == Permutations(Tokens) \cup Permutations(Handlers)
=============================================================================
