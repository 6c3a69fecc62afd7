------------------------------ MODULE MCRecords ------------------------------
(***************************************************************************)
(* Records and Booking for TLC: a behaviour is one of what `which` names,  *)
(* the others stay where they start.                                       *)
(***************************************************************************)
EXTENDS Records, Booking

CONSTANT far

VARIABLE which

(* Around the two km, around a jump of Round500, and a long trip. *)
Distances == {1, 100} \cup (195..220) \cup (395..420) \cup {1000, 12345}
Durations == {-1, 0, 24}
Nudges == {-500, -250, -1, 0, 1, 250, 500}

(* A journey of 5.137 km. *)
Lengths == [j \in {far} |-> 5137]

quoting == <<ask, quote, bid, verdict, recorded>>
locating == <<reported, writing, unwritten, position, overlapped>>
punished == <<violations, standing, disturbed, punishing, sentence>>
rated == <<reviews, reviewing, review, average>>
ordered == <<orders, serial, confirmed, ordering, order>>
booked == vars
allVars == <<which, quoting, locating, punished, rated, ordered, booked>>

AllInit == /\ which \in {"quote", "location", "punishment", "rating", "orders", "booking"}
           /\ Q!Init /\ L!Init /\ P!Init /\ R!Init /\ O!Init /\ Init

AllNext ==
    \/ /\ which = "quote" /\ Q!Next
       /\ UNCHANGED <<which, locating, punished, rated, ordered, booked>>
    \/ /\ which = "location" /\ L!Next
       /\ UNCHANGED <<which, quoting, punished, rated, ordered, booked>>
    \/ /\ which = "punishment" /\ P!Next
       /\ UNCHANGED <<which, quoting, locating, rated, ordered, booked>>
    \/ /\ which = "rating" /\ R!Next
       /\ UNCHANGED <<which, quoting, locating, punished, ordered, booked>>
    \/ /\ which = "orders" /\ O!Next
       /\ UNCHANGED <<which, quoting, locating, punished, rated, booked>>
    \/ /\ which = "booking" /\ Next
       /\ UNCHANGED <<which, quoting, locating, punished, rated, ordered>>

(* The fairness of Booking; the other services promise nothing that needs any. *)
AllSpec == /\ AllInit /\ [][AllNext]_allVars
           /\ \A r \in Replica : WF_vars(which = "booking" /\ Start(r))
           /\ \A c \in Client : WF_vars(which = "booking" /\ Serve(c))
==============================================================================
