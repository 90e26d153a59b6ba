---------------------------- MODULE MCWebSession ----------------------------
(* Model-checking instance of WebSession: the devices of the tabs are named  *)
(* here; request slots are interchangeable.                                  *)
EXTENDS WebSession, TLC

CONSTANTS b1, b2, d1, d2

OneDevice == [b \in Tabs |-> d1]
DeviceEach == (b1 :> d1) @@ (b2 :> d2)

SlotSymmetry == Permutations(Slots)
=============================================================================
