-------------------------------- MODULE Orders --------------------------------
(***************************************************************************)
(* order-service.  CreateOrder inserts a row with the id that the request  *)
(* names or, without one, with the next of the table's sequence; the       *)
(* sequence knows nothing of ids that requests named.  No producer is      *)
(* wired, so nothing is published.                                         *)
(***************************************************************************)
EXTENDS Integers

CONSTANTS User, Handler,
          MaxId,  \* bound on the ids
          NoOrder \* no row has this id

VARIABLES orders, \* orders: whose order an id is
          serial, \* the last id the sequence gave
          pc, req, \* what a request does next, and what it carries
          confirmed \* history: the orders that clients were answered

vars == <<orders, serial, pc, req, confirmed>>

Id == 1..MaxId
Request == [user : User, id : Id \cup {0}]
NoRequest == [user |-> NoOrder, id |-> 0]

Init ==
    /\ orders = [i \in Id |-> NoOrder]
    /\ serial = 0
    /\ pc = [h \in Handler |-> "idle"]
    /\ req = [h \in Handler |-> NoRequest]
    /\ confirmed = {}

Finish(h) == /\ pc' = [pc EXCEPT ![h] = "idle"]
             /\ req' = [req EXCEPT ![h] = NoRequest]

(* A request without a user is refused before this. *)
CreateOrder(h, q) ==
    /\ pc[h] = "idle"
    /\ pc' = [pc EXCEPT ![h] = "insert"]
    /\ req' = [req EXCEPT ![h] = q]
    /\ UNCHANGED <<orders, serial, confirmed>>

(* Mutant of Taken: Save instead of Create. *)
NeverTaken(i) == FALSE

Taken(i) == orders[i] # NoOrder

(* INSERT; an id that is taken is an error, and the sequence stays where    *)
(* it has come.                                                            *)
InsertOrder(h) ==
    /\ pc[h] = "insert"
    /\ req[h].id = 0 => serial < MaxId
    /\ LET id == IF req[h].id = 0 THEN serial + 1 ELSE req[h].id
       IN  /\ serial' = IF req[h].id = 0 THEN id ELSE serial
           /\ IF Taken(id)
              THEN Finish(h) /\ UNCHANGED orders
              ELSE /\ orders' = [orders EXCEPT ![id] = req[h].user]
                   /\ pc' = [pc EXCEPT ![h] = "reply"]
                   /\ req' = [req EXCEPT ![h].id = id]
    /\ UNCHANGED confirmed

Reply(h) ==
    /\ pc[h] = "reply"
    /\ confirmed' = confirmed \cup {req[h]}
    /\ Finish(h)
    /\ UNCHANGED <<orders, serial>>

(* The statement fails, the answer is lost or the process dies. *)
GiveUp(h) == pc[h] # "idle" /\ Finish(h) /\ UNCHANGED <<orders, serial, confirmed>>

Next == \E h \in Handler : \/ \E q \in Request : CreateOrder(h, q)
                           \/ InsertOrder(h) \/ Reply(h) \/ GiveUp(h)

Spec == Init /\ [][Next]_vars

(* An order that was confirmed stays the order of its user, whichever ids   *)
(* other requests name and whenever the sequence comes to one of them       *)
(* (order_service.go lines 40-46, repository lines 26-28).                 *)
ConfirmedOrdersStand == \A c \in confirmed : orders[c.id] = c.user
==============================================================================
