----------------------------- MODULE MCGattServer -----------------------------
(* A small instance of GattServer.                                         *)
EXTENDS GattServer, TLC

CONSTANTS u, s0, s1, o1, o2, o3, o4, o5
Uuids == {u}
Settings == {s0, s1}
Lengths == {1}
Objects == {o1, o2, o3, o4, o5}
ObjectSymmetry == Permutations(Objects)
=============================================================================
