--------------------------- MODULE PaymentWebhook ----------------------------
(***************************************************************************)
(* paymentServiceImpl.ProcessWebhook, one action per database statement    *)
(* another request can see or be blocked by.  Every webhook request runs   *)
(* in a goroutine of its own (a Handler); PostgreSQL runs its transaction  *)
(* at READ COMMITTED: a read returns committed rows, a write is private    *)
(* until Commit, an UPDATE or an INSERT on a unique index waits for the    *)
(* transaction that wrote the row before.                                  *)
(*                                                                         *)
(* GetDriverWalletWithLock asks for FOR UPDATE through the GORM 1 setting  *)
(* "gorm:query_option", which GORM 2 does not read: the wallet is read     *)
(* without a lock.                                                         *)
(***************************************************************************)
EXTENDS Integers, Sequences, FiniteSets

CONSTANTS Trx, Driver, DriverOf, Method, Earnings,
          Handler,   \* requests that can be in progress at one time
          MaxFaults  \* bound on the failures of a behaviour

PaymentMethod == {"cash", "qris", "bank"}
NonCash == {"qris", "bank"}
Outcome == {"success", "failed"}
Status == {"pending"} \cup Outcome

ASSUME WebhookConstants ==
    /\ DriverOf \in [Trx -> Driver]
    /\ Method \in [Trx -> PaymentMethod]
    /\ Earnings \in [Trx -> Nat]
    /\ MaxFaults \in Nat

VARIABLES
    status,     \* committed: transactions.status (paid_at is set iff success)
    wallet,     \* committed: driver_wallets, one row per driver or none
    mutation,   \* committed: wallet_transactions, in commit order
    paymentLog, \* committed: the webhook_received rows of payment_logs
    published,  \* PAYMENT_COMPLETED events on topic payment.completed
    owed,       \* outcomes the payment gateway has not seen acknowledged
    pc,         \* the statement each handler executes next
    req,        \* the transaction and the outcome its webhook names
    wal,        \* the handler's copy of the driver's wallet
    faults      \* failures left

committed == <<status, wallet, mutation, paymentLog>>
local == <<pc, req, wal>>
vars == <<committed, published, owed, local, faults>>

Wallet == [open : BOOLEAN, balance : Nat, earned : Nat]
NoWallet == [open |-> FALSE, balance |-> 0, earned |-> 0]
Mutation == [trx : Trx, amount : Nat, after : Nat]
Request == [trx : Trx, status : Outcome]
NoRequest == [trx |-> "none", status |-> "none"]
InTransaction == {"begun", "wallet", "create", "credit", "save", "commit"}
PC == {"idle", "publish", "respond"} \cup InTransaction

TypeOK ==
    /\ status \in [Trx -> Status]
    /\ wallet \in [Driver -> Wallet]
    /\ mutation \in Seq(Mutation)
    /\ paymentLog \in Seq(Request)
    /\ published \in [Trx -> Nat]
    /\ owed \in [Trx -> SUBSET Outcome]
    /\ pc \in [Handler -> PC]
    /\ req \in [Handler -> Request \cup {NoRequest}]
    /\ \A h \in Handler : pc[h] # "idle" => req[h] \in Request
    /\ wal \in [Handler -> Wallet]
    /\ faults \in 0..MaxFaults

------------------------------------------------------------------------------
(* Helpers *)

TrxOf(h) == req[h].trx
Want(h) == req[h].status
Payee(h) == DriverOf[TrxOf(h)]
(* Mutant of Credits: bank transfers are forgotten. *)
CreditsQrisOnly(t, s) == s = "success" /\ Method[t] = "qris"

Credits(t, s) == s = "success" /\ Method[t] \in NonCash

(* Mutant of Settled: nothing is skipped. *)
NothingSettled(t) == FALSE

(* A transaction whose webhooks are skipped. *)
Settled(t) == status[t] \in Outcome

(* h has written the wallet row of d and not yet committed: it inserted the *)
(* row (none is committed) or it updated it.                                *)
HoldsWallet(h, d) ==
    /\ wal[h].open
    /\ Payee(h) = d
    /\ \/ pc[h] \in {"save", "commit"}
       \/ pc[h] = "credit" /\ ~wallet[d].open

(* h has updated the transaction row of t and not yet committed. *)
HoldsTransaction(h, t) == pc[h] = "commit" /\ TrxOf(h) = t

(* Mutant of Credited: = for += on the balance. *)
CreditedOver(w, earnings) ==
    [open |-> w.open, balance |-> earnings, earned |-> w.earned + earnings]

(* wallet.Balance += earnings, wallet.TotalEarned += earnings. *)
Credited(w, earnings) ==
    [open |-> w.open, balance |-> w.balance + earnings, earned |-> w.earned + earnings]

MutationOf(h, after) == [trx |-> TrxOf(h), amount |-> Earnings[TrxOf(h)], after |-> after]

Goto(h, next) == pc' = [pc EXCEPT ![h] = next]

(* Return from the handler: locals are gone, locks are released. *)
Finish(h) == /\ Goto(h, "idle")
             /\ req' = [req EXCEPT ![h] = NoRequest]
             /\ wal' = [wal EXCEPT ![h] = NoWallet]

------------------------------------------------------------------------------
Init ==
    /\ status = [t \in Trx |-> "pending"]
    /\ wallet = [d \in Driver |-> NoWallet]
    /\ mutation = <<>>
    /\ paymentLog = <<>>
    /\ published = [t \in Trx |-> 0]
    /\ owed \in [Trx -> SUBSET Outcome]
    /\ pc = [h \in Handler |-> "idle"]
    /\ req = [h \in Handler |-> NoRequest]
    /\ wal = [h \in Handler |-> NoWallet]
    /\ faults = MaxFaults

(* The gateway delivers an outcome it still owes; it may do so again while *)
(* an earlier attempt is in progress.  tx := Begin().                      *)
Deliver(h, t, s) ==
    /\ pc[h] = "idle"
    /\ s \in owed[t]
    /\ req' = [req EXCEPT ![h] = [trx |-> t, status |-> s]]
    /\ Goto(h, "begun")
    /\ UNCHANGED <<committed, published, owed, wal, faults>>

(* GetTransactionByTrxID runs outside the transaction and takes no lock. *)
LoadTransaction(h) ==
    /\ pc[h] = "begun"
    /\ Goto(h, IF Settled(TrxOf(h)) THEN "respond"
               ELSE IF Credits(TrxOf(h), Want(h)) THEN "wallet" ELSE "save")
    /\ UNCHANGED <<committed, published, owed, req, wal, faults>>

(* GetDriverWalletWithLock: a plain read. *)
LoadWallet(h) ==
    /\ pc[h] = "wallet"
    /\ wal' = [wal EXCEPT ![h] = wallet[Payee(h)]]
    /\ Goto(h, IF wallet[Payee(h)].open THEN "credit" ELSE "create")
    /\ UNCHANGED <<committed, published, owed, req, faults>>

(* INSERT of an empty wallet: waits for another insert of the same driver, *)
(* and fails on the unique index when that one has been committed.         *)
CreateWallet(h) ==
    /\ pc[h] = "create"
    /\ \A g \in Handler \ {h} : ~HoldsWallet(g, Payee(h))
    /\ IF wallet[Payee(h)].open
       THEN Finish(h)
       ELSE /\ wal' = [wal EXCEPT ![h] = [NoWallet EXCEPT !.open = TRUE]]
            /\ Goto(h, "credit")
            /\ UNCHANGED req
    /\ UNCHANGED <<committed, published, owed, faults>>

(* UPDATE of the wallet row with the sums computed from the handler's copy, *)
(* and INSERT of the wallet_transactions row.                              *)
CreditWallet(h) ==
    /\ pc[h] = "credit"
    /\ \A g \in Handler \ {h} : ~HoldsWallet(g, Payee(h))
    /\ wal' = [wal EXCEPT ![h] = Credited(@, Earnings[TrxOf(h)])]
    /\ Goto(h, "save")
    /\ UNCHANGED <<committed, published, owed, req, faults>>

(* Mutant of SaveTransaction: the event is published before the commit. *)
SaveThenPublish(h) ==
    /\ pc[h] = "save"
    /\ \A g \in Handler \ {h} : ~HoldsTransaction(g, TrxOf(h))
    /\ Goto(h, IF Want(h) = "success" THEN "publish" ELSE "commit")
    /\ UNCHANGED <<committed, published, owed, req, wal, faults>>

(* UPDATE of the transaction row (every column) and INSERT of the audit row. *)
SaveTransaction(h) ==
    /\ pc[h] = "save"
    /\ \A g \in Handler \ {h} : ~HoldsTransaction(g, TrxOf(h))
    /\ Goto(h, "commit")
    /\ UNCHANGED <<committed, published, owed, req, wal, faults>>

(* Mutants of RecordCredit: no mutation row with the first credit of a     *)
(* wallet; a mutation row that shows the balance before it.                *)
RecordOldWallets(h) ==
    IF wal[h].open
    THEN /\ wallet' = [wallet EXCEPT ![Payee(h)] = wal[h]]
         /\ mutation' = IF wallet[Payee(h)].open
                        THEN Append(mutation, MutationOf(h, wal[h].balance)) ELSE mutation
    ELSE UNCHANGED <<wallet, mutation>>

RecordBalanceBefore(h) ==
    IF wal[h].open
    THEN /\ wallet' = [wallet EXCEPT ![Payee(h)] = wal[h]]
         /\ mutation' = Append(mutation, MutationOf(h, wallet[Payee(h)].balance))
    ELSE UNCHANGED <<wallet, mutation>>

RecordCredit(h) ==
    IF wal[h].open
    THEN /\ wallet' = [wallet EXCEPT ![Payee(h)] = wal[h]]
         /\ mutation' = Append(mutation, MutationOf(h, wal[h].balance))
    ELSE UNCHANGED <<wallet, mutation>>

(* Mutant of RecordStatus: a failure is not logged. *)
RecordLogsSuccess(h) ==
    /\ status' = [status EXCEPT ![TrxOf(h)] = Want(h)]
    /\ paymentLog' = IF Want(h) = "success" THEN Append(paymentLog, req[h]) ELSE paymentLog

RecordStatus(h) ==
    /\ status' = [status EXCEPT ![TrxOf(h)] = Want(h)]
    /\ paymentLog' = Append(paymentLog, req[h])

(* What the transaction wrote becomes visible in one step. *)
Apply(h) == RecordStatus(h) /\ RecordCredit(h)

Commit(h) ==
    /\ pc[h] = "commit"
    /\ Apply(h)
    /\ wal' = [wal EXCEPT ![h] = NoWallet]
    /\ Goto(h, IF Want(h) = "success" THEN "publish" ELSE "respond")
    /\ UNCHANGED <<published, owed, req, faults>>

(* Mutant of Publish: only a payment that was credited is announced. *)
PublishCredited(h) ==
    /\ pc[h] = "publish"
    /\ published' = IF Method[TrxOf(h)] \in NonCash
                    THEN [published EXCEPT ![TrxOf(h)] = @ + 1] ELSE published
    /\ Goto(h, "respond")
    /\ UNCHANGED <<committed, owed, req, wal, faults>>

(* PublishPaymentCompleted, after the commit. *)
Publish(h) ==
    /\ pc[h] = "publish"
    /\ published' = [published EXCEPT ![TrxOf(h)] = @ + 1]
    /\ Goto(h, "respond")
    /\ UNCHANGED <<committed, owed, req, wal, faults>>

(* The gateway sees the 200 and stops delivering this outcome. *)
Respond(h) ==
    /\ pc[h] = "respond"
    /\ owed' = [owed EXCEPT ![TrxOf(h)] = @ \ {Want(h)}]
    /\ Finish(h)
    /\ UNCHANGED <<committed, published, faults>>

------------------------------------------------------------------------------
(* Failures *)

(* Mutant of StatementFails: the error is answered with a 200. *)
FailureAcknowledged(h) ==
    /\ pc[h] \in InTransaction
    /\ owed' = [owed EXCEPT ![TrxOf(h)] = @ \ {Want(h)}]
    /\ Finish(h)
    /\ UNCHANGED <<committed, published>>

(* A statement, Begin or Commit returns an error: Rollback, error 500.    *)
(* (The deferred recover of payment_service.go:146-150 is left out: after *)
(* a panic it rolls back and, with no result set, the answer is a 200.    *)
(* Nothing the code does between Begin and Commit is known to panic.)     *)
StatementFails(h) ==
    /\ pc[h] \in InTransaction
    /\ Finish(h)
    /\ UNCHANGED <<committed, published, owed>>

(* The commit is applied but its acknowledgement is lost: errCommit is    *)
(* returned, and the event is not published.                              *)
CommitReplyLost(h) ==
    /\ pc[h] = "commit"
    /\ Apply(h)
    /\ Finish(h)
    /\ UNCHANGED <<published, owed>>

(* The broker does not get the event (the writer asks for no acks): at most *)
(* a line in the log, the request succeeds all the same.                    *)
PublishFails(h) ==
    /\ pc[h] = "publish"
    /\ Goto(h, "respond")
    /\ UNCHANGED <<committed, published, owed, req, wal>>

(* The 200 does not reach the gateway. *)
ResponseLost(h) ==
    /\ pc[h] = "respond"
    /\ Finish(h)
    /\ UNCHANGED <<committed, published, owed>>

(* The process dies: every open transaction is rolled back by the server. *)
Crash ==
    /\ \E h \in Handler : pc[h] # "idle"
    /\ pc' = [h \in Handler |-> "idle"]
    /\ req' = [h \in Handler |-> NoRequest]
    /\ wal' = [h \in Handler |-> NoWallet]
    /\ UNCHANGED <<committed, published, owed>>

Fault(h) == \/ StatementFails(h) \/ CommitReplyLost(h)
            \/ PublishFails(h)   \/ ResponseLost(h)

------------------------------------------------------------------------------
Step(h) == \/ LoadTransaction(h) \/ LoadWallet(h) \/ CreateWallet(h)
           \/ CreditWallet(h) \/ SaveTransaction(h) \/ Commit(h)
           \/ Publish(h) \/ Respond(h)

Break == /\ faults > 0
         /\ faults' = faults - 1
         /\ Crash \/ \E h \in Handler : Fault(h)

Quiet == \A h \in Handler : pc[h] = "idle"

(* Nothing is owed and nothing runs: the service waits for work. *)
Rest == /\ Quiet
        /\ \A t \in Trx : owed[t] = {}
        /\ UNCHANGED vars

Next == \/ \E h \in Handler, t \in Trx, s \in Outcome : Deliver(h, t, s)
        \/ \E h \in Handler : Step(h)
        \/ Break
        \/ Rest

Spec == Init /\ [][Next]_vars

(* The gateway goes on delivering what it is owed, and every goroutine is *)
(* scheduled: a statement that is not blocked is executed.                *)
FairSpec == /\ Spec
            /\ \A h \in Handler : WF_vars(Step(h))
            /\ WF_vars(\E h \in Handler, t \in Trx, s \in Outcome : Deliver(h, t, s))

(* Requests for one driver do not overlap: what FOR UPDATE on a read made *)
(* inside the transaction would have to achieve.                          *)
Serial == \A g, h \in Handler :
              g # h /\ pc[g] # "idle" /\ pc[h] # "idle" => Payee(g) # Payee(h)

SerialSpec == Init /\ [][Next /\ Serial']_vars

------------------------------------------------------------------------------
(* Properties *)

CreditsOf(t) == {i \in DOMAIN mutation : mutation[i].trx = t}
MutationsOf(d) == {i \in DOMAIN mutation : DriverOf[mutation[i].trx] = d}
LogOf(t) == {i \in DOMAIN paymentLog : paymentLog[i].trx = t}

(* What a wallet_transactions row adds to the earnings of d, what the first *)
(* n rows add up to, and all of them.                                      *)
Share(row, d) == IF DriverOf[row.trx] = d THEN row.amount ELSE 0
RunningSum(rows, d) ==
    LET sum[n \in 0..Len(rows)] == IF n = 0 THEN 0 ELSE sum[n - 1] + Share(rows[n], d)
    IN  sum
Earned(d) == RunningSum(mutation, d)[Len(mutation)]

(* The wallet never holds more than its wallet_transactions rows explain:   *)
(* an overlap can lose a credit of the balance but not invent one           *)
(* (lines 175-216).                                                        *)
NoOverpay == \A d \in Driver : wallet[d].balance <= Earned(d)

(* The balance a driver is shown is the balance_after of his last committed *)
(* wallet_transactions row, also when the rows before it were overwritten.  *)
BalanceIsLastMutation ==
    \A d \in Driver :
        \/ MutationsOf(d) = {} /\ wallet[d].balance = 0
        \/ \E i \in MutationsOf(d) : /\ \A j \in MutationsOf(d) : j <= i
                                    /\ wallet[d].balance = mutation[i].after

(* A transaction that stands as paid by a non-cash method has credited its  *)
(* driver: status and mutation are written by one database transaction.     *)
PaidIsCredited ==
    \A t \in Trx : status[t] = "success" /\ Method[t] \in NonCash => CreditsOf(t) # {}

(* The audit trail names the status a transaction has: its last             *)
(* webhook_received row and the row of table transactions agree, although   *)
(* two requests may both believe they are the first (lines 221-236).        *)
StatusIsLastLogged ==
    \A t \in Trx :
        \/ LogOf(t) = {} /\ status[t] = "pending"
        \/ \E i \in LogOf(t) : /\ \A j \in LogOf(t) : j <= i
                              /\ status[t] = paymentLog[i].status

(* PAYMENT_COMPLETED is published only for a payment whose success has been *)
(* committed, never for one that was rolled back (lines 239-252).           *)
AnnouncedWasPaid ==
    \A t \in Trx : published[t] > 0 => \E i \in LogOf(t) : paymentLog[i].status = "success"

(* Everything the gateway owes is settled in the end: no request stays      *)
(* blocked on a row, and a failed request leaves the transaction open for   *)
(* the next delivery.                                                      *)
EventuallySettled == \A t \in Trx : owed[t] # {} ~> status[t] # "pending"

(* "lewati proses untuk memastikan sifat idempoten webhook": a transaction  *)
(* is credited at most once.                                               *)
CreditedOnce ==
    \A i, j \in DOMAIN mutation : mutation[i].trx = mutation[j].trx => i = j

(* With serial deliveries ProcessWebhook implements the ledger.            *)
Ledger == INSTANCE PaymentLedger WITH balance <- [d \in Driver |-> wallet[d].balance]
ImplementsLedger == Ledger!Spec
==============================================================================
