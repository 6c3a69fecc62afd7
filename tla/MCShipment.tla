---------------------------- MODULE MCShipment -------------------------------
(* Instances of Shipment for TLC. *)
EXTENDS Shipment, TLC

CONSTANTS category, note, v

(* A request sets one of two keys of the manifest. *)
Details == {[f \in Field |-> IF f = g THEN v ELSE None] : g \in Field}

(* Ids, orders, codes and requests have no identity the code could tell. *)
ShipmentSymmetry == Permutations(Shipment) \cup Permutations(Order)
                        \cup Permutations(Code) \cup Permutations(Handler)
                        \cup Permutations(Field)
==============================================================================
