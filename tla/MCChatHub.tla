------------------------------ MODULE MCChatHub ------------------------------
(* Instances of ChatHub for TLC. *)
EXTENDS ChatHub, TLC

CONSTANTS a1, a2, b1, passenger, driver, order1

(* The passenger connects twice, the driver once, to one order. *)
OneRoomUsers == [c \in {a1, a2, b1} |-> IF c = b1 THEN driver ELSE passenger]
OneRoomOrders == [c \in {a1, a2, b1} |-> order1]

(* The passenger's connections have no identity the code could tell apart. *)
ConnectionSymmetry == Permutations({a1, a2})
==============================================================================
