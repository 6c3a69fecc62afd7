--------------------------- MODULE MCPaymentNotify ---------------------------
(* Instance of PaymentNotify for TLC. *)
EXTENDS PaymentNotify

CONSTANTS d1, t1, t2

(* Two transactions of one driver, one of them in cash. *)
OneDriver == [t \in {t1, t2} |-> d1]
CashAndQris == [t \in {t1, t2} |-> IF t = t1 THEN "cash" ELSE "qris"]
OneEach == [t \in {t1, t2} |-> 1]
==============================================================================
