-------------------------------- MODULE Tariff --------------------------------
(***************************************************************************)
(* The arithmetic of pricing-service.  Prices are rupiah, distances and    *)
(* weights hundredths of a km and of a kg, multipliers tenths, so that     *)
(* every float64 of the code is a whole number of hundredths of a rupiah.  *)
(***************************************************************************)
EXTENDS Integers

ServiceType == {"ride", "car", "send"}

(* seedDefaultPricingRules; a key that a rule lacks has the default that    *)
(* getFloat64 is called with.                                              *)
DefaultRule ==
    [ride |-> [base |-> 8000, perKm |-> 2500, rush |-> 15, night |-> 12,
               min |-> 10000, perKg |-> 1000, tolerance |-> 20],
     car  |-> [base |-> 15000, perKm |-> 4000, rush |-> 14, night |-> 12,
               min |-> 18000, perKg |-> 1000, tolerance |-> 20],
     send |-> [base |-> 10000, perKm |-> 3000, rush |-> 13, night |-> 11,
               min |-> 12000, perKg |-> 1000, tolerance |-> 20]]

Larger(a, b) == IF a < b THEN b ELSE a

(* Mutant of Distanced: a shorter trip than 2 km is paid less. *)
DistancedBelow(rule, distance) == rule.base + (distance - 200) * (rule.perKm \div 100)

(* The base price covers the first 2 km. *)
Distanced(rule, distance) ==
    rule.base + (IF distance > 200 THEN (distance - 200) * (rule.perKm \div 100) ELSE 0)

Loaded(ask, rule) ==
    Distanced(rule, ask.distance)
        + (IF ask.type = "send" /\ ask.weight > 0 THEN ask.weight * (rule.perKg \div 100) ELSE 0)

(* The tariff before rounding, in hundredths of a rupiah. *)
Exact(ask, rule) ==
    Larger(Loaded(ask, rule) * (IF ask.rush THEN rule.rush ELSE 10)
                             * (IF ask.night THEN rule.night ELSE 10),
           rule.min * 100)

(* Mutant of Round500: rounded down. *)
RoundDown500(hundredths) == (hundredths \div 50000) * 500

(* math.Round(x / 500) * 500: to the nearest multiple, a half upwards. *)
Round500(hundredths) == ((hundredths + 25000) \div 50000) * 500

(* The limits are rounded like the price: an estimate of 13000 has 10500    *)
(* and 15500, where the test of the service expects the unrounded 10400    *)
(* and 15600 (pricing_service_test.go:74-75).                              *)
Estimate(ask, rule) ==
    LET price == Round500(Exact(ask, rule))
    IN  [price |-> price,
         min   |-> Round500(price * (100 - rule.tolerance)),
         max   |-> Round500(price * (100 + rule.tolerance))]

(* Mutant of Approved: the tolerance is taken from the requested price. *)
ApprovedOfRequested(original, requested) ==
    ~(original * 100 < requested * 80 \/ original * 100 > requested * 120)

(* NegotiatePrice: within 20 % of the original price, not rounded. *)
Approved(original, requested) ==
    ~(requested * 100 < original * 80 \/ requested * 100 > original * 120)
==============================================================================
