-------------------------------- MODULE Quote ---------------------------------
(***************************************************************************)
(* One estimate of pricing-service and one negotiation of it: Tariff over  *)
(* every input of a range.                                                 *)
(***************************************************************************)
EXTENDS Tariff

CONSTANTS Distance, \* distances asked for, in hundredths of a km
          Weight,   \* weights asked for, in hundredths of a kg
          Nudge     \* how far from an advertised limit a client bids

VARIABLES ask,    \* the request of POST /pricing/estimate
          quote,  \* its answer
          bid,    \* the price requested from POST /pricing/negotiate
          verdict, \* its answer
          recorded \* pricing_negotiations: the status in the row, if there is one

vars == <<ask, quote, bid, verdict, recorded>>

Ask == [type : ServiceType, distance : Distance, weight : Weight,
        rush : BOOLEAN, night : BOOLEAN]
NoAsk == [type |-> "none"]
NoQuote == [price |-> 0, min |-> 0, max |-> 0]

Init ==
    /\ ask = NoAsk
    /\ quote = NoQuote
    /\ bid = 0
    /\ verdict = "none" /\ recorded = "none"

CalculateEstimate ==
    /\ ask = NoAsk
    /\ ask' \in Ask
    /\ quote' = Estimate(ask', DefaultRule[ask'.type])
    /\ UNCHANGED <<bid, verdict, recorded>>

(* That the negotiation was not saved is only logged. *)
NegotiatePrice ==
    /\ quote # NoQuote
    /\ verdict = "none"
    /\ \E limit \in {quote.min, quote.max}, n \in Nudge : bid' = limit + n
    /\ verdict' = IF Approved(quote.price, bid') THEN "approved" ELSE "rejected"
    /\ recorded' \in {verdict', "none"}
    /\ UNCHANGED <<ask, quote>>

Next == CalculateEstimate \/ NegotiatePrice

Spec == Init /\ [][Next]_vars

------------------------------------------------------------------------------
(* Properties *)

Distance0(a, b) == IF a < b THEN b - a ELSE a - b

(* The estimate is the multiple of 500 nearest to the tariff, and not below *)
(* the minimum price, which is itself a multiple: rounding cannot undercut  *)
(* it although it comes last (lines 67-73).                                *)
EstimateIsNearest ==
    quote # NoQuote =>
        /\ quote.price % 500 = 0
        /\ 2 * Distance0(quote.price * 100, Exact(ask, DefaultRule[ask.type])) <= 50000
        /\ quote.price >= DefaultRule[ask.type].min

(* A longer trip is never cheaper, whatever is multiplied and rounded, and  *)
(* within the first two km distance does not matter (lines 44-73).          *)
LongerCostsMore ==
    LET PriceAt(d) == Estimate([ask EXCEPT !.distance = d], DefaultRule[ask.type]).price
    IN  quote # NoQuote =>
            /\ PriceAt(ask.distance + 1) >= quote.price
            /\ ask.distance <= 200 => quote.price = PriceAt(0)

(* The advertised limits are rounded to 500, the test of a bid is not: a    *)
(* limit itself may be refused, but every bid half a step inside is         *)
(* approved and every bid half a step outside rejected (lines 76-81,        *)
(* 97-103).  The half step of 250 is what the rounding of lines 80-81      *)
(* costs, and the repository disagrees about it: the test of the service    *)
(* expects limits that are not rounded, for which it could be 0 (10400 and  *)
(* 15600 for 13000, pricing_service_test.go:74-75; the code gives 10500 and *)
(* 15500).                                                                 *)
LimitsMeanWhatTheySay ==
    /\ verdict = "rejected" => ~(quote.min + 250 <= bid /\ bid <= quote.max - 250)
    /\ verdict = "approved" => quote.min - 250 <= bid /\ bid <= quote.max + 250
==============================================================================
