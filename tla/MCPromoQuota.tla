---------------------------- MODULE MCPromoQuota -----------------------------
(* Instances of PromoQuota for TLC. *)
EXTENDS PromoQuota

CONSTANTS p1, p2, p3

(* Two units, one unit, and a promo that is not active. *)
Quotas == [p \in {p1, p2, p3} |-> IF p = p2 THEN 1 ELSE 2]
==============================================================================
