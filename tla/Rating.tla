-------------------------------- MODULE Rating --------------------------------
(***************************************************************************)
(* rating-review-service.  SubmitReview inserts a review, at most one per  *)
(* order and reviewer, and then asks for the average of its target.        *)
(***************************************************************************)
EXTENDS Integers, FiniteSetsExt

CONSTANTS Order, Reviewer, Target, Score, \* parts of the requests
          Handler                         \* requests that can be in progress at one time

VARIABLES reviews, \* the table
          pc, req, \* the next statement of a request, and the review it submits
          average  \* the sum and the number of the scores that AVG saw

vars == <<reviews, pc, req, average>>

Review == [order : Order, reviewer : Reviewer, target : Target, score : Score]
NoReview == [order |-> "none"]
NoAverage == [sum |-> 0, count |-> 0]

Init ==
    /\ reviews = {}
    /\ pc = [h \in Handler |-> "idle"]
    /\ req = [h \in Handler |-> NoReview]
    /\ average = [h \in Handler |-> NoAverage]

Goto(h, next) == pc' = [pc EXCEPT ![h] = next]
Finish(h) == /\ Goto(h, "idle")
             /\ req' = [req EXCEPT ![h] = NoReview]
             /\ average' = [average EXCEPT ![h] = NoAverage]

SubmitReview(h, r) ==
    /\ pc[h] = "idle"
    /\ req' = [req EXCEPT ![h] = r]
    /\ Goto(h, "save")
    /\ UNCHANGED <<reviews, average>>

Same(r, s) == r.order = s.order /\ r.reviewer = s.reviewer

(* Mutant of Refused: the index is not unique, only a copy is refused. *)
RefusedCopy(r) == r \in reviews

(* The unique index idx_order_reviewer. *)
Refused(r) == \E s \in reviews : Same(s, r)

SaveReview(h) ==
    /\ pc[h] = "save"
    /\ IF Refused(req[h])
       THEN Finish(h) /\ UNCHANGED reviews
       ELSE /\ reviews' = reviews \cup {req[h]}
            /\ Goto(h, "average")
            /\ UNCHANGED <<req, average>>

ScoreSum(R) == MapThenSumSet(LAMBDA r : r.score, R)

(* AVG over the reviews of the target. *)
GetAverageRating(h) ==
    LET seen == {r \in reviews : r.target = req[h].target}
    IN  /\ pc[h] = "average"
        /\ average' = [average EXCEPT ![h] = [sum |-> ScoreSum(seen), count |-> Cardinality(seen)]]
        /\ Goto(h, "reply")
        /\ UNCHANGED <<reviews, req>>

(* The answer is sent; or a statement fails, and the client may submit the  *)
(* review again although it may be stored.                                 *)
Reply(h) == pc[h] # "idle" /\ Finish(h) /\ UNCHANGED reviews

Next == \E h \in Handler : \/ \E r \in Review : SubmitReview(h, r)
                           \/ SaveReview(h) \/ GetAverageRating(h) \/ Reply(h)

Spec == Init /\ [][Next]_vars

(* The average that is answered counts the review it answers, and every     *)
(* order and reviewer once, however often a review whose answer was an      *)
(* error is submitted again with another score (lines 30-46).    *)
AverageCountsEachOnce ==
    \A h \in Handler : pc[h] = "reply" =>
        \E R \in SUBSET reviews :
            /\ req[h] \in R
            /\ \A r, s \in R : r # s => ~Same(r, s)
            /\ \A r \in R : r.target = req[h].target
            /\ average[h] = [sum |-> ScoreSum(R), count |-> Cardinality(R)]
==============================================================================
