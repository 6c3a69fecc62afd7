---------------------------- MODULE PaymentLedger ----------------------------
(***************************************************************************)
(* What the payment service promises about money, without databases,       *)
(* requests or failures: a transaction is settled once, and the settlement *)
(* of a paid non-cash transaction adds the driver's share to the balance   *)
(* of the driver in the same step.  PaymentWebhook is shown to implement   *)
(* this module when the deliveries for one driver do not overlap.          *)
(***************************************************************************)
EXTENDS Integers

CONSTANTS Trx,      \* payment transactions (rows of table transactions)
          Driver,   \* drivers, each with at most one wallet
          DriverOf, \* the driver a transaction pays
          Method,   \* its metode_pembayaran
          Earnings  \* its driver_earnings, in cents

NonCash == {"qris", "bank"}
Outcome == {"success", "failed"}
Status == {"pending"} \cup Outcome

VARIABLES status,  \* status of each transaction
          balance  \* wallet balance of each driver, 0 before the first credit

vars == <<status, balance>>

(* Only a successful transaction that was not paid in cash moves money. *)
Credits(t, s) == s = "success" /\ Method[t] \in NonCash

Init == /\ status = [t \in Trx |-> "pending"]
        /\ balance = [d \in Driver |-> 0]

Settle(t, s) ==
    /\ status[t] = "pending"
    /\ status' = [status EXCEPT ![t] = s]
    /\ balance' = IF Credits(t, s)
                  THEN [balance EXCEPT ![DriverOf[t]] = @ + Earnings[t]]
                  ELSE balance

Next == \E t \in Trx, s \in Outcome : Settle(t, s)

Spec == Init /\ [][Next]_vars
==============================================================================
