------------------------------- MODULE Records --------------------------------
(***************************************************************************)
(* The services that keep records and call no other service, side by side: *)
(* their constants and variables, and what each promises.                  *)
(***************************************************************************)
EXTENDS Integers

CONSTANTS
    Driver, MaxReports,               \* location-service
    Account, Duration, MaxViolations, \* punishment-service
    Order, Reviewer, Target, Score,   \* rating-review-service
    User, MaxId, NoOrder,             \* order-service
    Distance, Weight, Nudge,          \* pricing-service
    Handler                           \* requests in progress at one time

ASSUME RecordsConstants ==
    /\ MaxId \in Nat
    /\ NoOrder \notin User
    /\ Distance \subseteq Nat /\ Weight \subseteq Nat /\ Nudge \subseteq Int

VARIABLES ask, quote, bid, verdict, recorded,
          reported, writing, unwritten, position, overlapped,
          violations, standing, disturbed, punishing, sentence,
          reviews, reviewing, review, average,
          orders, serial, confirmed, ordering, order

Q == INSTANCE Quote
L == INSTANCE Location
P == INSTANCE Punishment WITH pc <- punishing, req <- sentence
R == INSTANCE Rating WITH pc <- reviewing, req <- review
O == INSTANCE Orders WITH pc <- ordering, req <- order

(* Quote: an estimate is the multiple of 500 nearest to the tariff (pricing_service.go 44-73). *)
EstimateIsNearest == Q!EstimateIsNearest
(* Quote: a longer trip is never cheaper (pricing_service.go 44-73). *)
LongerCostsMore == Q!LongerCostsMore
(* Quote: a bid half a step inside the limits is approved (pricing_service.go 75-103). *)
LimitsMeanWhatTheySay == Q!LimitsMeanWhatTheySay
(* Location: the last report that was written stands (location_service.go 27-42). *)
LastReportStands == L!LastReportStands
(* Punishment: the status is that of the last violation (punishment_service.go 37-47). *)
StandingIsOfLastViolation == P!StandingIsOfLastViolation
(* Rating: the average counts every order and reviewer once (rating_service.go 30-46). *)
AverageCountsEachOnce == R!AverageCountsEachOnce
(* Orders: a confirmed order stays its user's (order_service.go 40-46). *)
ConfirmedOrdersStand == O!ConfirmedOrdersStand
==============================================================================
