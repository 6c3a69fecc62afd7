-------------------------- MODULE MCPaymentWebhook ---------------------------
(* Instances of PaymentWebhook for TLC. *)
EXTENDS PaymentWebhook

CONSTANTS d1, d2, t1, t2, t3

(* Two transactions of one driver with different shares. *)
OneDriver == [t \in {t1, t2} |-> d1]
OneDriverMethod == [t \in {t1, t2} |-> IF t = t1 THEN "qris" ELSE "bank"]
OneDriverEarnings == [t \in {t1, t2} |-> IF t = t1 THEN 1 ELSE 2]

(* Two drivers; d1 is paid twice without cash, d2 in cash. *)
TwoDrivers == [t \in {t1, t2, t3} |-> IF t = t3 THEN d2 ELSE d1]
TwoDriversMethod == [t \in {t1, t2, t3} |-> IF t = t1 THEN "qris" ELSE IF t = t2 THEN "bank" ELSE "cash"]
TwoDriversEarnings == [t \in {t1, t2, t3} |-> IF t = t1 THEN 1 ELSE IF t = t2 THEN 2 ELSE 3]
==============================================================================
