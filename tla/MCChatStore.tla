----------------------------- MODULE MCChatStore -----------------------------
(* Instance of ChatStore for TLC. *)
EXTENDS ChatStore

CONSTANTS a1, a2, passenger, order1

(* The passenger alone, connecting twice. *)
OneUserUsers == [c \in {a1, a2} |-> passenger]
OneUserOrders == [c \in {a1, a2} |-> order1]
==============================================================================
