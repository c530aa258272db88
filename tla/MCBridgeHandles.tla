-------------------------- MODULE MCBridgeHandles --------------------------
(* Bounds for model-checking BridgeHandles: instances get one id more than  *)
(* the map has slots, so that a slot is reused while ids keep growing.      *)
(* Pointers and blocks of one kind differ in nothing but their names.       *)
EXTENDS BridgeHandles, TLC

Ids == [eci |-> 3, dict |-> 2, filter |-> 1]
Symmetry == Permutations(Eci) \cup Permutations(Dict) \cup Permutations(Buf)
=============================================================================
