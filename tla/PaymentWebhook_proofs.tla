------------------------ MODULE PaymentWebhook_proofs ------------------------
(***************************************************************************)
(* Theorems about PaymentWebhook, for every assignment of transactions to  *)
(* drivers: first with any number of overlapping requests, then when the   *)
(* requests for one driver do not overlap.                                 *)
(***************************************************************************)
EXTENDS PaymentWebhook, WellFoundedInduction, TLAPS

(* What a handler knows at each statement: it works on a request; it has a *)
(* wallet exactly when the request moves money; and it announces a success *)
(* that has been committed.                                                *)
HasRequest == \A h \in Handler : pc[h] # "idle" => req[h] \in Request

HasWallet ==
    \A h \in Handler :
        /\ pc[h] \in {"idle", "begun"} => ~wal[h].open
        /\ pc[h] \in {"wallet", "create", "credit"} => Credits(TrxOf(h), Want(h))
        /\ pc[h] = "credit" => wal[h].open
        /\ pc[h] \in {"save", "commit"} => (wal[h].open <=> Credits(TrxOf(h), Want(h)))

WasPaid(t) == \E i \in LogOf(t) : paymentLog[i].status = "success"

AnnouncesPaid == \A h \in Handler : pc[h] = "publish" => WasPaid(TrxOf(h))

(* The tables and the topic agree with each other. *)
Tables == /\ BalanceIsLastMutation
          /\ PaidIsCredited
          /\ StatusIsLastLogged
          /\ AnnouncedWasPaid

IInv == TypeOK /\ HasWallet /\ AnnouncesPaid /\ Tables

------------------------------------------------------------------------------
LEMMA WalletTypes == NoWallet \in Wallet /\ [NoWallet EXCEPT !.open = TRUE] \in Wallet
BY DEF NoWallet, Wallet

LEMMA RequestTypes ==
    ASSUME TypeOK, NEW h \in Handler, pc[h] # "idle"
    PROVE  /\ req[h] = [trx |-> TrxOf(h), status |-> Want(h)]
           /\ TrxOf(h) \in Trx /\ Want(h) \in Outcome /\ Payee(h) \in Driver
           /\ Earnings[TrxOf(h)] \in Nat
BY WebhookConstants DEF TypeOK, Request, TrxOf, Want, Payee

LEMMA InitInv == Init => IInv
<1> SUFFICES ASSUME Init PROVE IInv
  OBVIOUS
<1>1. TypeOK
  BY WebhookConstants, WalletTypes DEF Init, TypeOK, Status, PC, Mutation, Request
<1>2. HasWallet /\ AnnouncesPaid
  BY DEF Init, HasWallet, AnnouncesPaid, NoWallet
<1>3. Tables
  BY DEF Init, Tables, BalanceIsLastMutation, PaidIsCredited, StatusIsLastLogged,
     AnnouncedWasPaid, MutationsOf, LogOf, CreditsOf, NoWallet
<1> QED
  BY <1>1, <1>2, <1>3 DEF IInv

LEMMA CreditedTypes ==
    ASSUME NEW w \in Wallet, NEW earnings \in Nat
    PROVE  /\ Credited(w, earnings) \in Wallet
           /\ Credited(w, earnings).open = w.open
           /\ Credited(w, earnings).balance = w.balance + earnings
BY DEF Credited, Wallet

(* The rows of a log before and after one more is appended. *)
LEMMA AppendRow ==
    ASSUME NEW S, NEW q \in Seq(S), NEW e \in S
    PROVE  /\ Append(q, e) \in Seq(S)
           /\ Len(q) \in Nat
           /\ DOMAIN q = 1..Len(q)
           /\ DOMAIN Append(q, e) = 1..Len(q) \cup {Len(q) + 1}
           /\ \A i \in 1..Len(q) : Append(q, e)[i] = q[i]
           /\ Append(q, e)[Len(q) + 1] = e
OBVIOUS

(* The status and its log, when the transaction of h becomes visible. *)
LEMMA RecordStatusTables ==
    ASSUME IInv, NEW h \in Handler, pc[h] = "commit", RecordStatus(h), UNCHANGED published
    PROVE  /\ status' = [status EXCEPT ![TrxOf(h)] = Want(h)]
           /\ status' \in [Trx -> Status]
           /\ paymentLog' \in Seq(Request)
           /\ \A t \in Trx :
                  WasPaid(t) \/ (t = TrxOf(h) /\ Want(h) = "success") => WasPaid(t)'
           /\ StatusIsLastLogged'
           /\ AnnouncedWasPaid'
<1> DEFINE t == TrxOf(h)  s == Want(h)  n == Len(paymentLog)  r == req[h]
<1>1. /\ t \in Trx /\ s \in Outcome /\ r \in Request /\ r.trx = t /\ r.status = s
  BY RequestTypes DEF IInv, TypeOK, TrxOf, Want
<1>2. /\ status' = [status EXCEPT ![t] = s] /\ paymentLog' = Append(paymentLog, r)
      /\ status \in [Trx -> Status] /\ paymentLog \in Seq(Request)
  BY DEF RecordStatus, IInv, TypeOK
<1> HIDE DEF t, s, r
<1>3. /\ paymentLog' \in Seq(Request)
      /\ n \in Nat
      /\ DOMAIN paymentLog = 1..n
      /\ DOMAIN paymentLog' = 1..n \cup {n + 1}
      /\ \A i \in 1..n : paymentLog'[i] = paymentLog[i]
      /\ paymentLog'[n + 1] = r
  BY <1>1, <1>2, AppendRow
<1> HIDE DEF n
<1>4. status' \in [Trx -> Status]
  BY <1>1, <1>2 DEF Status
<1>5. \A u \in Trx : LogOf(u)' = IF u = t THEN LogOf(u) \cup {n + 1} ELSE LogOf(u)
  BY <1>1, <1>3 DEF LogOf
<1>6. \A u \in Trx : LogOf(u) \subseteq 1..n
  BY <1>3 DEF LogOf
<1>7. \A u \in Trx : WasPaid(u) => WasPaid(u)'
  BY <1>3, <1>5, <1>6 DEF WasPaid
<1>8. \A u \in Trx : u = t /\ s = "success" => WasPaid(u)'
  BY <1>1, <1>3, <1>5 DEF WasPaid
<1>9. StatusIsLastLogged'
  <2> SUFFICES ASSUME NEW u \in Trx
               PROVE  \/ LogOf(u)' = {} /\ status'[u] = "pending"
                      \/ \E i \in LogOf(u)' : /\ \A j \in LogOf(u)' : j <= i
                                             /\ status'[u] = paymentLog'[i].status
    BY DEF StatusIsLastLogged
  <2>1. CASE u = t
    <3>1. n + 1 \in LogOf(u)' /\ \A j \in LogOf(u)' : j <= n + 1
      BY <1>3, <1>5, <1>6, <2>1
    <3>2. status'[u] = paymentLog'[n + 1].status
      BY <1>1, <1>2, <1>3, <2>1
    <3> QED
      BY <3>1, <3>2
  <2>2. CASE u # t
    BY <1>1, <1>2, <1>3, <1>5, <1>6, <2>2 DEF IInv, Tables, StatusIsLastLogged
  <2> QED
    BY <2>1, <2>2
<1>10. AnnouncedWasPaid'
  BY <1>7 DEF IInv, Tables, AnnouncedWasPaid, WasPaid
<1> QED
  BY <1>2, <1>3, <1>4, <1>7, <1>8, <1>9, <1>10 DEF t, s

(* The wallet and its mutations. *)
LEMMA RecordCreditTables ==
    ASSUME IInv, NEW h \in Handler, pc[h] = "commit", RecordCredit(h),
           status' = [status EXCEPT ![TrxOf(h)] = Want(h)]
    PROVE  /\ wallet' \in [Driver -> Wallet]
           /\ mutation' \in Seq(Mutation)
           /\ BalanceIsLastMutation'
           /\ PaidIsCredited'
<1> DEFINE t == TrxOf(h)  d == Payee(h)  n == Len(mutation)  m == MutationOf(h, wal[h].balance)
<1>1. /\ t \in Trx /\ d \in Driver /\ d = DriverOf[t] /\ Want(h) \in Outcome
      /\ wal[h] \in Wallet /\ m \in Mutation /\ m.trx = t /\ m.after = wal[h].balance
  BY RequestTypes DEF IInv, TypeOK, Wallet, Mutation, MutationOf, Payee
<1>2. wal[h].open <=> Credits(t, Want(h))
  BY DEF IInv, HasWallet
<1>3. /\ status \in [Trx -> Status] /\ wallet \in [Driver -> Wallet]
      /\ mutation \in Seq(Mutation) /\ BalanceIsLastMutation /\ PaidIsCredited
  BY DEF IInv, TypeOK, Tables
<1>4. status' = [status EXCEPT ![t] = Want(h)]
  OBVIOUS
<1>5. CASE ~wal[h].open
  <2>1. wallet' = wallet /\ mutation' = mutation
    BY <1>5 DEF RecordCredit
  <2>2. PaidIsCredited'
    BY <1>1, <1>2, <1>3, <1>4, <1>5, <2>1 DEF PaidIsCredited, CreditsOf, Credits
  <2> QED
    BY <1>3, <2>1, <2>2 DEF BalanceIsLastMutation, MutationsOf
<1>6. CASE wal[h].open
  <2>1. wallet' = [wallet EXCEPT ![d] = wal[h]] /\ mutation' = Append(mutation, m)
    BY <1>6 DEF RecordCredit
  <2> HIDE DEF t, d, m
  <2>2. /\ mutation' \in Seq(Mutation)
        /\ n \in Nat
        /\ DOMAIN mutation = 1..n
        /\ DOMAIN mutation' = 1..n \cup {n + 1}
        /\ \A i \in 1..n : mutation'[i] = mutation[i]
        /\ mutation'[n + 1] = m
    BY <1>1, <1>3, <2>1, AppendRow
  <2> HIDE DEF n
  <2>3. wallet' \in [Driver -> Wallet]
    BY <1>1, <1>3, <2>1
  <2>4. \A u \in Trx : CreditsOf(u)' = IF u = t THEN CreditsOf(u) \cup {n + 1} ELSE CreditsOf(u)
    BY <1>1, <2>2 DEF CreditsOf
  <2>5. \A e \in Driver :
           /\ MutationsOf(e)' = IF e = d THEN MutationsOf(e) \cup {n + 1} ELSE MutationsOf(e)
           /\ MutationsOf(e) \subseteq 1..n
    BY <1>1, <2>2 DEF MutationsOf
  <2>6. PaidIsCredited'
    BY <1>1, <1>3, <1>4, <2>4 DEF PaidIsCredited
  <2>7. BalanceIsLastMutation'
    <3> SUFFICES ASSUME NEW e \in Driver
                 PROVE  \/ MutationsOf(e)' = {} /\ wallet'[e].balance = 0
                        \/ \E i \in MutationsOf(e)' : /\ \A j \in MutationsOf(e)' : j <= i
                                                     /\ wallet'[e].balance = mutation'[i].after
      BY DEF BalanceIsLastMutation
    <3>1. CASE e = d
      <4>1. n + 1 \in MutationsOf(e)' /\ \A j \in MutationsOf(e)' : j <= n + 1
        BY <2>2, <2>5, <3>1
      <4>2. wallet'[e].balance = mutation'[n + 1].after
        BY <1>1, <1>3, <2>1, <2>2, <3>1
      <4> QED
        BY <4>1, <4>2
    <3>2. CASE e # d
      BY <1>1, <1>3, <2>1, <2>2, <2>5, <3>2 DEF BalanceIsLastMutation
    <3> QED
      BY <3>1, <3>2
  <2> QED
    BY <2>2, <2>3, <2>6, <2>7
<1> QED
  BY <1>5, <1>6

------------------------------------------------------------------------------
(* Every step keeps the invariant. *)

(* Steps that leave the tables alone keep what they say about each other.  *)
LEMMA TablesKept ==
    ASSUME Tables, UNCHANGED <<committed, published>>
    PROVE  Tables'
BY DEF Tables, committed, BalanceIsLastMutation, PaidIsCredited, StatusIsLastLogged,
   AnnouncedWasPaid, MutationsOf, CreditsOf, LogOf

LEMMA WasPaidKept ==
    ASSUME UNCHANGED paymentLog
    PROVE  \A t \in Trx : WasPaid(t) => WasPaid(t)'
BY DEF WasPaid, LogOf

(* A handler that returns keeps the invariant. *)
LEMMA FinishInv ==
    ASSUME IInv, NEW h \in Handler, Finish(h), UNCHANGED <<committed, published>>,
           owed' \in [Trx -> SUBSET Outcome], faults' \in 0..MaxFaults
    PROVE  IInv'
<1>1. TypeOK'
  BY WalletTypes DEF IInv, TypeOK, Finish, Goto, committed, PC
<1>2. HasWallet'
  BY DEF IInv, TypeOK, HasWallet, Finish, Goto, TrxOf, Want, Credits, NoWallet
<1>3. AnnouncesPaid'
  BY DEF IInv, TypeOK, AnnouncesPaid, WasPaid, LogOf, Finish, Goto, TrxOf, committed
<1> QED
  BY <1>1, <1>2, <1>3, TablesKept DEF IInv

LEMMA DeliverInv ==
    ASSUME IInv, NEW h \in Handler, NEW t \in Trx, NEW s \in Outcome, Deliver(h, t, s)
    PROVE  IInv'
<1> USE DEF Deliver, Goto
<1>1. [trx |-> t, status |-> s] \in Request
  BY DEF Request
<1>2. TypeOK'
  BY <1>1 DEF IInv, TypeOK, committed, PC, InTransaction
<1>3. HasWallet'
  BY DEF IInv, TypeOK, HasWallet, TrxOf, Want, Credits
<1>4. AnnouncesPaid'
  BY DEF IInv, TypeOK, AnnouncesPaid, WasPaid, LogOf, TrxOf, committed
<1> QED
  BY <1>2, <1>3, <1>4, TablesKept DEF IInv

(* Steps before the commit change pc and wal only. *)
LEMMA LocalInv ==
    ASSUME IInv, NEW h \in Handler,
           UNCHANGED <<committed, published, owed, req, faults>>,
           NEW next \in PC, Goto(h, next), next \notin {"idle", "begun", "publish"},
           pc[h] # "idle",
           wal' \in [Handler -> Wallet], \A g \in Handler \ {h} : wal'[g] = wal[g],
           next \in {"wallet", "create", "credit"} => Credits(TrxOf(h), Want(h)),
           next = "credit" => wal'[h].open,
           next \in {"save", "commit"} => (wal'[h].open <=> Credits(TrxOf(h), Want(h)))
    PROVE  IInv'
<1>1. TypeOK'
  BY DEF IInv, TypeOK, Goto, committed
<1>2. HasWallet'
  <2> SUFFICES ASSUME NEW g \in Handler
               PROVE  /\ pc'[g] \in {"idle", "begun"} => ~wal'[g].open
                      /\ pc'[g] \in {"wallet", "create", "credit"} => Credits(TrxOf(g), Want(g))
                      /\ pc'[g] = "credit" => wal'[g].open
                      /\ pc'[g] \in {"save", "commit"} =>
                             (wal'[g].open <=> Credits(TrxOf(g), Want(g)))
    BY DEF HasWallet, TrxOf, Want, Credits
  <2>1. CASE g = h
    BY <2>1 DEF IInv, TypeOK, Goto
  <2>2. CASE g # h
    BY <2>2 DEF IInv, TypeOK, HasWallet, Goto
  <2> QED
    BY <2>1, <2>2
<1>3. AnnouncesPaid'
  BY DEF IInv, TypeOK, AnnouncesPaid, WasPaid, LogOf, Goto, TrxOf, committed
<1> QED
  BY <1>1, <1>2, <1>3, TablesKept DEF IInv

LEMMA BeforeCommitInv ==
    ASSUME IInv, NEW h \in Handler,
           \/ LoadTransaction(h) \/ LoadWallet(h) \/ CreateWallet(h)
           \/ CreditWallet(h) \/ SaveTransaction(h)
    PROVE  IInv'
<1> USE DEF Goto
<1>1. CASE LoadTransaction(h)
  <2> DEFINE next == IF Settled(TrxOf(h)) THEN "respond"
                     ELSE IF Credits(TrxOf(h), Want(h)) THEN "wallet" ELSE "save"
  <2>1. next \in PC /\ Goto(h, next) /\ next \in {"wallet", "save", "respond"}
    BY <1>1 DEF LoadTransaction, PC, InTransaction
  <2>2. /\ pc[h] = "begun" /\ ~wal[h].open /\ wal \in [Handler -> Wallet]
        /\ next = "wallet" => Credits(TrxOf(h), Want(h))
        /\ next = "save" => ~Credits(TrxOf(h), Want(h))
    BY <1>1 DEF LoadTransaction, IInv, TypeOK, HasWallet
  <2>3. UNCHANGED <<committed, published, owed, req, wal, faults>>
    BY <1>1 DEF LoadTransaction
  <2> HIDE DEF next
  <2> QED
    BY <2>1, <2>2, <2>3, LocalInv
<1>2. CASE LoadWallet(h)
  <2> DEFINE next == IF wallet[Payee(h)].open THEN "credit" ELSE "create"
  <2>1. next \in PC /\ Goto(h, next) /\ next \in {"credit", "create"}
    BY <1>2 DEF LoadWallet, PC, InTransaction
  <2>2. pc[h] = "wallet" /\ Payee(h) \in Driver /\ Credits(TrxOf(h), Want(h))
    BY <1>2, RequestTypes DEF LoadWallet, IInv, HasWallet
  <2>3. /\ wal' \in [Handler -> Wallet] /\ wal'[h] = wallet[Payee(h)]
        /\ \A g \in Handler \ {h} : wal'[g] = wal[g]
    BY <1>2, <2>2 DEF LoadWallet, IInv, TypeOK
  <2>4. next = "credit" => wal'[h].open
    BY <2>3
  <2>5. UNCHANGED <<committed, published, owed, req, faults>>
    BY <1>2 DEF LoadWallet
  <2> HIDE DEF next
  <2> QED
    BY <2>1, <2>2, <2>3, <2>4, <2>5, LocalInv
<1>3. CASE CreateWallet(h)
  <2>1. CASE wallet[Payee(h)].open
    BY <1>3, <2>1, FinishInv DEF CreateWallet, IInv, TypeOK
  <2>2. CASE ~wallet[Payee(h)].open
    <3>1. pc[h] = "create" /\ Credits(TrxOf(h), Want(h))
      BY <1>3 DEF CreateWallet, IInv, HasWallet
    <3>2. wal' = [wal EXCEPT ![h] = [NoWallet EXCEPT !.open = TRUE]] /\ Goto(h, "credit")
          /\ UNCHANGED <<committed, published, owed, req, faults>>
      BY <1>3, <2>2 DEF CreateWallet
    <3>3. [NoWallet EXCEPT !.open = TRUE].open
      BY DEF NoWallet
    <3>4. wal' \in [Handler -> Wallet] /\ wal'[h].open
          /\ \A g \in Handler \ {h} : wal'[g] = wal[g]
      BY <3>2, <3>3, WalletTypes DEF IInv, TypeOK
    <3> QED
      BY <3>1, <3>2, <3>4, LocalInv DEF PC, InTransaction
  <2> QED
    BY <2>1, <2>2
<1>4. CASE CreditWallet(h)
  <2>1. /\ pc[h] = "credit" /\ wal[h].open /\ Credits(TrxOf(h), Want(h))
        /\ Earnings[TrxOf(h)] \in Nat /\ wal \in [Handler -> Wallet]
    BY <1>4, RequestTypes DEF CreditWallet, IInv, TypeOK, HasWallet
  <2>2. wal' \in [Handler -> Wallet] /\ wal'[h].open
        /\ \A g \in Handler \ {h} : wal'[g] = wal[g]
    BY <1>4, <2>1, CreditedTypes DEF CreditWallet
  <2> QED
    BY <1>4, <2>1, <2>2, LocalInv DEF CreditWallet, PC, InTransaction
<1>5. CASE SaveTransaction(h)
  <2>1. pc[h] = "save" /\ (wal[h].open <=> Credits(TrxOf(h), Want(h)))
        /\ wal \in [Handler -> Wallet]
    BY <1>5 DEF SaveTransaction, IInv, TypeOK, HasWallet
  <2> QED
    BY <1>5, <2>1, LocalInv DEF SaveTransaction, PC, InTransaction
<1> QED
  BY <1>1, <1>2, <1>3, <1>4, <1>5

(* The rest of a request that committed, whether or not it learns of it.   *)
LEMMA ApplyInv ==
    ASSUME IInv, NEW h \in Handler, pc[h] = "commit", Apply(h),
           UNCHANGED <<published, owed>>, faults' \in 0..MaxFaults,
           NEW next \in {"idle", "publish", "respond"}, Goto(h, next),
           next = "publish" => Want(h) = "success",
           wal' = [wal EXCEPT ![h] = NoWallet],
           req' = req \/ (next = "idle" /\ req' = [req EXCEPT ![h] = NoRequest])
    PROVE  IInv'
<1>1. /\ status' = [status EXCEPT ![TrxOf(h)] = Want(h)]
      /\ status' \in [Trx -> Status]
      /\ paymentLog' \in Seq(Request)
      /\ \A t \in Trx : WasPaid(t) \/ (t = TrxOf(h) /\ Want(h) = "success") => WasPaid(t)'
      /\ StatusIsLastLogged'
      /\ AnnouncedWasPaid'
  BY RecordStatusTables DEF Apply
<1>2. /\ wallet' \in [Driver -> Wallet]
      /\ mutation' \in Seq(Mutation)
      /\ BalanceIsLastMutation'
      /\ PaidIsCredited'
  BY <1>1, RecordCreditTables DEF Apply
<1>3. TypeOK'
  BY <1>1, <1>2, WalletTypes DEF IInv, TypeOK, Goto, PC
<1>4. HasWallet'
  BY DEF IInv, TypeOK, HasWallet, Goto, TrxOf, Want, Credits, NoWallet
<1>5. AnnouncesPaid'
  <2> SUFFICES ASSUME NEW g \in Handler, pc'[g] = "publish"
               PROVE  \E t \in Trx : t = req'[g].trx /\ WasPaid(t)'
    BY DEF AnnouncesPaid, TrxOf
  <2>1. CASE g = h
    <3>1. next = "publish" /\ req' = req /\ TrxOf(h) \in Trx
      BY <2>1, RequestTypes DEF Goto, IInv, TypeOK
    <3> QED
      BY <1>1, <2>1, <3>1 DEF TrxOf
  <2>2. CASE g # h
    <3>1. pc[g] = "publish" /\ req'[g] = req[g]
      BY <2>2 DEF Goto, IInv, TypeOK
    <3>2. TrxOf(g) \in Trx /\ WasPaid(TrxOf(g))
      BY <3>1, RequestTypes DEF IInv, AnnouncesPaid
    <3> QED
      BY <1>1, <3>1, <3>2 DEF TrxOf
  <2> QED
    BY <2>1, <2>2
<1> QED
  BY <1>1, <1>2, <1>3, <1>4, <1>5 DEF IInv, Tables

LEMMA CommitInv ==
    ASSUME IInv, NEW h \in Handler, Commit(h) \/ (CommitReplyLost(h) /\ faults' \in 0..MaxFaults)
    PROVE  IInv'
<1>1. CASE Commit(h)
  <2> DEFINE next == IF Want(h) = "success" THEN "publish" ELSE "respond"
  <2>1. /\ next \in {"idle", "publish", "respond"} /\ Goto(h, next)
        /\ next = "publish" => Want(h) = "success"
        /\ UNCHANGED <<published, owed, req, faults>>
        /\ pc[h] = "commit" /\ Apply(h) /\ wal' = [wal EXCEPT ![h] = NoWallet]
    BY <1>1 DEF Commit
  <2> HIDE DEF next
  <2>2. faults' \in 0..MaxFaults
    BY <2>1 DEF IInv, TypeOK
  <2> QED
    BY <2>1, <2>2, ApplyInv
<1>2. CASE CommitReplyLost(h) /\ faults' \in 0..MaxFaults
  BY <1>2, ApplyInv DEF CommitReplyLost, Finish
<1> QED
  BY <1>1, <1>2

LEMMA PublishInv ==
    ASSUME IInv, NEW h \in Handler,
           \/ Publish(h)
           \/ PublishFails(h) /\ faults' \in 0..MaxFaults
    PROVE  IInv'
<1>1. /\ pc[h] = "publish" /\ Goto(h, "respond") /\ UNCHANGED <<committed, owed, req, wal>>
      /\ faults' \in 0..MaxFaults
      /\ published' = published \/ published' = [published EXCEPT ![TrxOf(h)] = @ + 1]
  BY DEF Publish, PublishFails, IInv, TypeOK
<1>2. TrxOf(h) \in Trx /\ WasPaid(TrxOf(h))
  BY <1>1, RequestTypes DEF IInv, AnnouncesPaid
<1>3. TypeOK'
  BY <1>1, <1>2 DEF IInv, TypeOK, Goto, PC, committed
<1>4. HasWallet'
  BY <1>1 DEF IInv, TypeOK, HasWallet, Goto, TrxOf, Want, Credits
<1>5. AnnouncesPaid'
  BY <1>1 DEF IInv, TypeOK, AnnouncesPaid, WasPaid, LogOf, Goto, TrxOf, committed
<1>6. AnnouncedWasPaid'
  BY <1>1, <1>2 DEF IInv, TypeOK, Tables, AnnouncedWasPaid, WasPaid, LogOf, committed
<1>7. BalanceIsLastMutation' /\ PaidIsCredited' /\ StatusIsLastLogged'
  BY <1>1 DEF IInv, Tables, committed, BalanceIsLastMutation, PaidIsCredited,
     StatusIsLastLogged, MutationsOf, CreditsOf, LogOf
<1> QED
  BY <1>3, <1>4, <1>5, <1>6, <1>7 DEF IInv, Tables

LEMMA CrashInv ==
    ASSUME IInv, Crash, faults' \in 0..MaxFaults
    PROVE  IInv'
<1>1. TypeOK'
  BY WalletTypes DEF Crash, IInv, TypeOK, PC, committed
<1>2. HasWallet' /\ AnnouncesPaid'
  BY DEF Crash, HasWallet, AnnouncesPaid, NoWallet
<1> QED
  BY <1>1, <1>2, TablesKept DEF IInv, Crash

LEMMA BreakInv ==
    ASSUME IInv, Break
    PROVE  IInv'
<1>1. faults' \in 0..MaxFaults
  BY WebhookConstants DEF Break, IInv, TypeOK
<1>2. CASE Crash
  BY <1>1, <1>2, CrashInv
<1>3. ASSUME NEW h \in Handler, Fault(h)
      PROVE  IInv'
  <2>1. CASE StatementFails(h) \/ ResponseLost(h)
    BY <1>1, <2>1, FinishInv DEF StatementFails, ResponseLost, IInv, TypeOK
  <2>2. CASE CommitReplyLost(h)
    BY <1>1, <2>2, CommitInv
  <2>3. CASE PublishFails(h)
    BY <1>1, <2>3, PublishInv
  <2> QED
    BY <1>3, <2>1, <2>2, <2>3 DEF Fault
<1> QED
  BY <1>2, <1>3 DEF Break

LEMMA RespondInv ==
    ASSUME IInv, NEW h \in Handler, Respond(h)
    PROVE  IInv'
<1>1. owed' \in [Trx -> SUBSET Outcome]
  BY RequestTypes DEF Respond, IInv, TypeOK
<1> QED
  BY <1>1, FinishInv DEF Respond, IInv, TypeOK

LEMMA NextInv == IInv /\ [Next]_vars => IInv'
<1> SUFFICES ASSUME IInv, [Next]_vars PROVE IInv'
  OBVIOUS
<1>1. ASSUME NEW h \in Handler, NEW t \in Trx, NEW s \in Outcome, Deliver(h, t, s)
      PROVE  IInv'
  BY <1>1, DeliverInv
<1>2. ASSUME NEW h \in Handler, Step(h)
      PROVE  IInv'
  BY <1>2, BeforeCommitInv, CommitInv, PublishInv, RespondInv DEF Step
<1>3. CASE Break
  BY <1>3, BreakInv
<1>4. CASE UNCHANGED vars
  <2>1. TypeOK'
    BY <1>4 DEF IInv, TypeOK, vars, committed, local
  <2>2. HasWallet' /\ AnnouncesPaid'
    BY <1>4 DEF IInv, HasWallet, AnnouncesPaid, WasPaid, LogOf, TrxOf, Want, Credits,
       vars, committed, local
  <2> QED
    BY <1>4, <2>1, <2>2, TablesKept DEF IInv, vars
<1> QED
  BY <1>1, <1>2, <1>3, <1>4 DEF Next, Rest

------------------------------------------------------------------------------
(* Theorems *)

LEMMA Invariance == Spec => []IInv
BY InitInv, NextInv, PTL DEF Spec

(* Type correctness of ProcessWebhook and its failures.                    *)
THEOREM TypeCorrect == Spec => []TypeOK
<1>1. IInv => TypeOK
  BY DEF IInv
<1> QED
  BY <1>1, Invariance, PTL

(* The balance shown to a driver is the balance_after of his last mutation,*)
(* also when overlapping requests have overwritten each other.             *)
THEOREM ShownBalance == Spec => []BalanceIsLastMutation
<1>1. IInv => BalanceIsLastMutation
  BY DEF IInv, Tables
<1> QED
  BY <1>1, Invariance, PTL

(* No transaction stands as paid without the credit of its driver, however *)
(* requests overlap, fail and are repeated.                                *)
THEOREM PaidCredits == Spec => []PaidIsCredited
<1>1. IInv => PaidIsCredited
  BY DEF IInv, Tables
<1> QED
  BY <1>1, Invariance, PTL

(* The audit trail ends with the status the transaction has.               *)
THEOREM AuditTrail == Spec => []StatusIsLastLogged
<1>1. IInv => StatusIsLastLogged
  BY DEF IInv, Tables
<1> QED
  BY <1>1, Invariance, PTL

(* PAYMENT_COMPLETED is never published for a payment that was not         *)
(* committed as successful.                                                *)
THEOREM OnlyPaidAnnounced == Spec => []AnnouncedWasPaid
<1>1. IInv => AnnouncedWasPaid
  BY DEF IInv, Tables
<1> QED
  BY <1>1, Invariance, PTL

------------------------------------------------------------------------------
(* Overlapping requests lose credits, they do not invent any.  The sum of a *)
(* driver's rows is a recursive function: that it exists, what it is worth *)
(* and how a row changes it is proved by induction, in the form that a set *)
(* with 0 and the successors of its members is Nat.                        *)

LEMMA Induction ==
    ASSUME NEW T \in SUBSET Nat, 0 \in T, \A n \in T : n + 1 \in T
    PROVE  T = Nat
<1> DEFINE R == OpToRel(<, Nat)
<1>1. \A x, y \in Nat : <<y, x>> \in R <=> y < x
  BY DEF OpToRel
<1>2. IsWellFoundedOn(R, Nat)
  BY NatLessThanWellFounded
<1> HIDE DEF R
<1> SUFFICES ASSUME Nat \ T # {} PROVE FALSE
  OBVIOUS
<1>3. PICK x \in Nat \ T : \A y \in Nat \ T : ~(<<y, x>> \in R)
  <2> DEFINE S == Nat \ T
  <2>1. S \subseteq Nat /\ S # {}
    OBVIOUS
  <2> HIDE DEF S
  <2>2. \E x \in S : \A y \in S : ~(<<y, x>> \in R)
    BY <1>2, <2>1, WFMin
  <2> QED
    BY <2>2 DEF S
<1>4. x # 0 /\ x - 1 \in Nat /\ x - 1 < x
  BY <1>3
<1>5. x - 1 \in T
  BY <1>1, <1>3, <1>4
<1> QED
  BY <1>3, <1>4, <1>5

(* The recursive function that RunningSum(rows, d) is. *)
IsSum(f, rows, d) ==
    f = [n \in 0..Len(rows) |-> IF n = 0 THEN 0 ELSE f[n - 1] + Share(rows[n], d)]

LEMMA ShareType ==
    ASSUME NEW rows \in Seq(Mutation), NEW d, NEW n \in 1..Len(rows)
    PROVE  Share(rows[n], d) \in Nat
<1>1. rows[n] \in Mutation
  OBVIOUS
<1> QED
  BY <1>1 DEF Share, Mutation

LEMMA SumExists ==
    ASSUME NEW rows \in Seq(Mutation), NEW d
    PROVE  \E f : IsSum(f, rows, d)
<1> DEFINE N == Len(rows)
           UpTo(n) == \E f \in [0..n -> Nat] :
                          /\ f[0] = 0
                          /\ \A i \in 1..n : f[i] = f[i - 1] + Share(rows[i], d)
           T == {n \in Nat : n <= N => UpTo(n)}
<1>1. N \in Nat
  OBVIOUS
<1>2. UpTo(0)
  <2> DEFINE g == [i \in 0..0 |-> 0]
  <2>1. g \in [0..0 -> Nat] /\ g[0] = 0 /\ 1..0 = {}
    OBVIOUS
  <2> HIDE DEF g
  <2> QED
    BY <2>1
<1>3. ASSUME NEW n \in Nat, n + 1 <= N, UpTo(n)
      PROVE  UpTo(n + 1)
  <2>1. PICK f \in [0..n -> Nat] : /\ f[0] = 0
                                   /\ \A i \in 1..n : f[i] = f[i - 1] + Share(rows[i], d)
    BY <1>3
  <2>2. f[n] + Share(rows[n + 1], d) \in Nat
    <3>1. n + 1 \in 1..Len(rows)
      BY <1>1, <1>3
    <3>2. Share(rows[n + 1], d) \in Nat
      BY <3>1, ShareType
    <3> QED
      BY <2>1, <3>2
  <2> DEFINE g == [i \in 0..n + 1 |-> IF i = n + 1 THEN f[n] + Share(rows[n + 1], d) ELSE f[i]]
  <2>3. g \in [0..n + 1 -> Nat]
    BY <2>1, <2>2
  <2>4. g[0] = 0
    BY <2>1
  <2>5. ASSUME NEW i \in 1..n + 1
        PROVE  g[i] = g[i - 1] + Share(rows[i], d)
    BY <2>1
  <2> HIDE DEF g
  <2> QED
    BY <2>3, <2>4, <2>5
<1>4. T = Nat
  <2>1. T \in SUBSET Nat /\ 0 \in T
    BY <1>2
  <2> HIDE DEF UpTo
  <2>2. ASSUME NEW n \in T
        PROVE  n + 1 \in T
    <3>1. CASE n + 1 <= N
      BY <1>1, <1>3, <3>1
    <3>2. CASE ~(n + 1 <= N)
      BY <3>2
    <3> QED
      BY <3>1, <3>2
  <2> HIDE DEF T
  <2> QED
    BY <2>1, <2>2, Induction
<1>5. UpTo(N)
  BY <1>1, <1>4
<1> QED
  BY <1>1, <1>5 DEF IsSum

LEMMA SumIs ==
    ASSUME NEW rows \in Seq(Mutation), NEW d
    PROVE  IsSum(RunningSum(rows, d), rows, d)
<1>1. RunningSum(rows, d) = CHOOSE f : IsSum(f, rows, d)
  BY DEF RunningSum, IsSum
<1> QED
  BY <1>1, SumExists

LEMMA SumTypes ==
    ASSUME NEW rows \in Seq(Mutation), NEW d
    PROVE  \A n \in 0..Len(rows) : RunningSum(rows, d)[n] \in Nat
<1> DEFINE N == Len(rows)
           f == RunningSum(rows, d)
           T == {n \in Nat : n <= N => f[n] \in Nat}
<1>1. N \in Nat /\ IsSum(f, rows, d)
  BY SumIs
<1> HIDE DEF f
<1>2. T \in SUBSET Nat /\ 0 \in T
  BY <1>1 DEF IsSum
<1>3. ASSUME NEW n \in T
      PROVE  n + 1 \in T
  <2> SUFFICES ASSUME n + 1 <= N PROVE f[n + 1] \in Nat
    BY <1>1
  <2>1. n + 1 \in 1..Len(rows) /\ f[n] \in Nat
    BY <1>1
  <2>2. f[n + 1] = f[n] + Share(rows[n + 1], d)
    BY <1>1, <2>1 DEF IsSum
  <2>3. Share(rows[n + 1], d) \in Nat
    BY <2>1, ShareType
  <2> QED
    BY <2>1, <2>2, <2>3
<1>4. T = Nat
  <2> HIDE DEF T
  <2> QED
    BY <1>2, <1>3, Induction
<1> QED
  BY <1>1, <1>4 DEF f

LEMMA SumOfAppend ==
    ASSUME NEW rows \in Seq(Mutation), NEW row \in Mutation, NEW d
    PROVE  RunningSum(Append(rows, row), d)[Len(rows) + 1] =
               RunningSum(rows, d)[Len(rows)] + Share(row, d)
<1> DEFINE N == Len(rows)
           more == Append(rows, row)
           f == RunningSum(rows, d)
           g == RunningSum(more, d)
           T == {n \in Nat : n <= N => g[n] = f[n]}
<1>1. /\ N \in Nat /\ more \in Seq(Mutation) /\ Len(more) = N + 1
      /\ \A n \in 1..N : more[n] = rows[n]
      /\ more[N + 1] = row
  OBVIOUS
<1> HIDE DEF more
<1>2. IsSum(f, rows, d) /\ IsSum(g, more, d)
  BY <1>1, SumIs
<1> HIDE DEF f, g
<1>3. T \in SUBSET Nat /\ 0 \in T
  BY <1>1, <1>2 DEF IsSum
<1>4. ASSUME NEW n \in T
      PROVE  n + 1 \in T
  <2> SUFFICES ASSUME n + 1 <= N PROVE g[n + 1] = f[n + 1]
    BY <1>1
  <2>1. n + 1 \in 1..N /\ g[n] = f[n]
    BY <1>1
  <2>2. f[n + 1] = f[n] + Share(rows[n + 1], d)
    BY <1>1, <1>2, <2>1 DEF IsSum
  <2>3. g[n + 1] = g[n] + Share(more[n + 1], d)
    BY <1>1, <1>2, <2>1 DEF IsSum
  <2> QED
    BY <1>1, <2>1, <2>2, <2>3
<1>5. g[N] = f[N]
  <2>1. T = Nat
    <3> HIDE DEF T
    <3> QED
      BY <1>3, <1>4, Induction
  <2> QED
    BY <1>1, <2>1
<1>6. g[N + 1] = g[N] + Share(more[N + 1], d)
  BY <1>1, <1>2 DEF IsSum
<1> QED
  BY <1>1, <1>5, <1>6 DEF f, g, more

LEMMA EarnedTypes ==
    ASSUME mutation \in Seq(Mutation), NEW d
    PROVE  Earned(d) \in Nat
<1>1. Len(mutation) \in 0..Len(mutation)
  OBVIOUS
<1> QED
  BY <1>1, SumTypes DEF Earned

LEMMA EarnedKept ==
    ASSUME UNCHANGED mutation, NEW d
    PROVE  Earned(d)' = Earned(d)
BY DEF Earned

LEMMA EarnedGrows ==
    ASSUME mutation \in Seq(Mutation), NEW row \in Mutation,
           mutation' = Append(mutation, row), NEW d
    PROVE  Earned(d)' = Earned(d) + Share(row, d)
<1>1. Len(mutation') = Len(mutation) + 1
  OBVIOUS
<1>2. RunningSum(mutation', d)[Len(mutation')] =
          RunningSum(mutation, d)[Len(mutation)] + Share(row, d)
  BY <1>1, SumOfAppend
<1> QED
  BY <1>2 DEF Earned

(* The copy of the wallet a request works on is explained by the committed *)
(* rows, and by its own credit once it has added that.  Without this       *)
(* NoOverpay is not inductive: Commit stores the copy.                     *)
Explained ==
    \A h \in Handler :
        /\ pc[h] = "credit" => wal[h].balance <= Earned(Payee(h))
        /\ pc[h] \in {"save", "commit"} /\ wal[h].open =>
               wal[h].balance <= Earned(Payee(h)) + Earnings[TrxOf(h)]

OverpayInv == IInv /\ NoOverpay /\ Explained

LEMMA InitOverpayInv == Init => OverpayInv
<1> SUFFICES ASSUME Init PROVE OverpayInv
  OBVIOUS
<1>1. IInv
  BY InitInv
<1>2. \A d \in Driver : Earned(d) \in Nat /\ wallet[d].balance = 0
  BY <1>1, EarnedTypes DEF Init, NoWallet, IInv, TypeOK
<1>3. NoOverpay
  BY <1>2 DEF NoOverpay
<1>4. Explained
  BY DEF Init, Explained
<1> QED
  BY <1>1, <1>3, <1>4 DEF OverpayInv

(* A step that leaves the tables alone and gives at most handler h a copy, *)
(* which is explained.                                                     *)
LEMMA OneCopy ==
    ASSUME OverpayInv, UNCHANGED committed, NEW h \in Handler,
           \A g \in Handler \ {h} : UNCHANGED <<pc[g], req[g], wal[g]>>,
           pc'[h] \in {"credit", "save", "commit"} =>
               /\ req'[h] = req[h]
               /\ pc'[h] = "credit" => wal'[h].balance <= Earned(Payee(h))
               /\ pc'[h] \in {"save", "commit"} /\ wal'[h].open =>
                      wal'[h].balance <= Earned(Payee(h)) + Earnings[TrxOf(h)]
    PROVE  NoOverpay' /\ Explained'
<1>1. \A d : Earned(d)' = Earned(d)
  BY EarnedKept DEF committed
<1>2. NoOverpay'
  BY <1>1 DEF OverpayInv, NoOverpay, committed
<1>3. Explained'
  <2> SUFFICES ASSUME NEW g \in Handler, NEW d, d = DriverOf[req'[g].trx]
               PROVE  /\ pc'[g] = "credit" => wal'[g].balance <= Earned(d)'
                      /\ pc'[g] \in {"save", "commit"} /\ wal'[g].open =>
                             wal'[g].balance <= Earned(d)' + Earnings[req'[g].trx]
    BY DEF Explained, Earned, TrxOf, Payee
  <2>1. Earned(d)' = Earned(d)
    BY <1>1
  <2>2. CASE g = h
    BY <2>1, <2>2 DEF TrxOf, Payee
  <2>3. CASE g # h
    BY <2>1, <2>3 DEF OverpayInv, Explained, TrxOf, Payee
  <2> QED
    BY <2>2, <2>3
<1> QED
  BY <1>2, <1>3

(* A commit stores a copy and appends the row that explains it; what the   *)
(* other requests hold stays explained, as the sums only grow.             *)
LEMMA ApplyOverpayInv ==
    ASSUME OverpayInv, NEW h \in Handler, pc[h] = "commit", Apply(h),
           \A g \in Handler \ {h} : UNCHANGED <<pc[g], req[g], wal[g]>>,
           pc'[h] \in {"idle", "publish", "respond"}
    PROVE  NoOverpay' /\ Explained'
<1> DEFINE t == TrxOf(h)  d == Payee(h)  m == MutationOf(h, wal[h].balance)
<1>1. /\ t \in Trx /\ d \in Driver /\ wal[h] \in Wallet /\ m \in Mutation
      /\ \A e : Share(m, e) = IF e = d THEN Earnings[t] ELSE 0
      /\ Earnings[t] \in Nat
  BY RequestTypes DEF OverpayInv, IInv, TypeOK, Wallet, Mutation, MutationOf, Payee, Share
<1>2. /\ wallet \in [Driver -> Wallet] /\ mutation \in Seq(Mutation)
      /\ wal \in [Handler -> Wallet]
      /\ \A e \in Driver : wallet[e].balance \in Nat
      /\ \A g \in Handler : wal[g].balance \in Nat
  BY DEF OverpayInv, IInv, TypeOK, Wallet
<1>3. \A e : Earned(e) \in Nat
  BY <1>2, EarnedTypes
<1>4. \/ /\ wal[h].open
         /\ wallet' = [wallet EXCEPT ![d] = wal[h]]
         /\ \A e : Earned(e)' = Earned(e) + Share(m, e)
      \/ /\ wallet' = wallet
         /\ \A e : Earned(e)' = Earned(e)
  BY <1>1, <1>2, EarnedGrows, EarnedKept DEF Apply, RecordCredit
<1>5. \A e : Earned(e)' \in Nat /\ Earned(e) <= Earned(e)'
  BY <1>1, <1>3, <1>4
<1>6. wal[h].open => wal[h].balance <= Earned(d) + Earnings[t]
  BY DEF OverpayInv, Explained
<1> HIDE DEF t, d, m
<1>7. NoOverpay'
  <2> SUFFICES ASSUME NEW e \in Driver PROVE wallet'[e].balance <= Earned(e)'
    BY DEF NoOverpay
  <2>1. wallet[e].balance <= Earned(e)
    BY DEF OverpayInv, NoOverpay
  <2> QED
    BY <1>1, <1>2, <1>3, <1>4, <1>5, <1>6, <2>1
<1>8. Explained'
  <2> SUFFICES ASSUME NEW g \in Handler, pc'[g] \in {"credit", "save", "commit"},
                      NEW e, e = DriverOf[req'[g].trx]
               PROVE  /\ pc'[g] = "credit" => wal'[g].balance <= Earned(e)'
                      /\ pc'[g] \in {"save", "commit"} /\ wal'[g].open =>
                             wal'[g].balance <= Earned(e)' + Earnings[req'[g].trx]
    BY DEF Explained, Earned, TrxOf, Payee
  <2>1. g # h /\ pc'[g] = pc[g] /\ req'[g] = req[g] /\ wal'[g] = wal[g]
    OBVIOUS
  <2>2. /\ pc[g] = "credit" => wal[g].balance <= Earned(Payee(g))
        /\ pc[g] \in {"save", "commit"} /\ wal[g].open =>
               wal[g].balance <= Earned(Payee(g)) + Earnings[TrxOf(g)]
    BY DEF OverpayInv, Explained
  <2>3. e = Payee(g) /\ req'[g].trx = TrxOf(g) /\ Earnings[TrxOf(g)] \in Nat
    BY <2>1, RequestTypes DEF Payee, TrxOf, OverpayInv, IInv
  <2>4. Earned(e)' \in Nat /\ Earned(e) \in Nat /\ Earned(e) <= Earned(e)'
    BY <1>3, <1>5
  <2> QED
    BY <1>2, <2>1, <2>2, <2>3, <2>4
<1> QED
  BY <1>7, <1>8

LEMMA StepOverpayInv ==
    ASSUME OverpayInv, NEW h \in Handler, Step(h)
    PROVE  NoOverpay' /\ Explained'
<1>1. /\ pc \in [Handler -> PC] /\ wal \in [Handler -> Wallet] /\ wallet \in [Driver -> Wallet]
      /\ req \in [Handler -> Request \cup {NoRequest}]
      /\ \A d : Earned(d) \in Nat
  BY EarnedTypes DEF OverpayInv, IInv, TypeOK
<1> USE DEF Goto
<1>2. CASE LoadTransaction(h)
  <2>1. ~wal[h].open
    BY <1>2 DEF LoadTransaction, OverpayInv, IInv, HasWallet
  <2> QED
    BY <1>1, <1>2, <2>1, OneCopy DEF LoadTransaction
<1>3. CASE LoadWallet(h)
  <2>1. Payee(h) \in Driver /\ wallet[Payee(h)].balance <= Earned(Payee(h))
    BY <1>3, RequestTypes DEF LoadWallet, OverpayInv, NoOverpay, IInv
  <2> QED
    BY <1>1, <1>3, <2>1, OneCopy DEF LoadWallet
<1>4. CASE CreateWallet(h)
  <2>1. [NoWallet EXCEPT !.open = TRUE].balance = 0
    BY DEF NoWallet
  <2>2. 0 <= Earned(Payee(h))
    BY <1>1
  <2> QED
    BY <1>1, <1>4, <2>1, <2>2, OneCopy DEF CreateWallet, Finish
<1>5. CASE CreditWallet(h)
  <2>1. wal[h].balance <= Earned(Payee(h)) /\ Earnings[TrxOf(h)] \in Nat
    BY <1>5, RequestTypes DEF CreditWallet, OverpayInv, Explained, IInv
  <2>2. Credited(wal[h], Earnings[TrxOf(h)]).balance = wal[h].balance + Earnings[TrxOf(h)]
    BY <1>1, <2>1, CreditedTypes
  <2>3. wal[h].balance \in Nat /\ Earned(Payee(h)) \in Nat
    BY <1>1 DEF Wallet
  <2>4. wal[h].balance + Earnings[TrxOf(h)] <= Earned(Payee(h)) + Earnings[TrxOf(h)]
    BY <2>1, <2>3
  <2> QED
    BY <1>1, <1>5, <2>2, <2>4, OneCopy DEF CreditWallet
<1>6. CASE SaveTransaction(h)
  <2>1. wal[h].open => wal[h].balance <= Earned(Payee(h)) + Earnings[TrxOf(h)]
    BY <1>6 DEF SaveTransaction, OverpayInv, Explained
  <2> QED
    BY <1>1, <1>6, <2>1, OneCopy DEF SaveTransaction
<1>7. CASE Commit(h)
  BY <1>1, <1>7, ApplyOverpayInv DEF Commit
<1>8. CASE Publish(h) \/ Respond(h)
  BY <1>1, <1>8, OneCopy DEF Publish, Respond, Finish
<1> QED
  BY <1>2, <1>3, <1>4, <1>5, <1>6, <1>7, <1>8 DEF Step

LEMMA BreakOverpayInv ==
    ASSUME OverpayInv, Break
    PROVE  NoOverpay' /\ Explained'
<1>1. /\ pc \in [Handler -> PC] /\ wal \in [Handler -> Wallet]
      /\ req \in [Handler -> Request \cup {NoRequest}]
  BY DEF OverpayInv, IInv, TypeOK
<1>2. CASE Crash
  <2>1. wallet' = wallet /\ \A d : Earned(d)' = Earned(d)
    BY <1>2, EarnedKept DEF Crash, committed
  <2>2. NoOverpay'
    BY <2>1 DEF OverpayInv, NoOverpay
  <2>3. Explained'
    BY <1>2 DEF Crash, Explained
  <2> QED
    BY <2>2, <2>3
<1>3. ASSUME NEW h \in Handler, Fault(h)
      PROVE  NoOverpay' /\ Explained'
  <2>1. CASE CommitReplyLost(h)
    BY <1>1, <2>1, ApplyOverpayInv DEF CommitReplyLost, Finish, Goto
  <2>2. CASE StatementFails(h) \/ PublishFails(h) \/ ResponseLost(h)
    BY <1>1, <2>2, OneCopy DEF StatementFails, PublishFails, ResponseLost, Finish, Goto
  <2> QED
    BY <1>3, <2>1, <2>2 DEF Fault
<1> QED
  BY <1>2, <1>3 DEF Break

LEMMA NextOverpayInv == OverpayInv /\ [Next]_vars => OverpayInv'
<1> SUFFICES ASSUME OverpayInv, [Next]_vars PROVE OverpayInv'
  OBVIOUS
<1>1. IInv'
  BY NextInv DEF OverpayInv
<1>2. CASE UNCHANGED vars
  <2>1. \A d : Earned(d)' = Earned(d)
    BY <1>2, EarnedKept DEF vars, committed
  <2>2. NoOverpay'
    BY <1>2, <2>1 DEF OverpayInv, NoOverpay, vars, committed
  <2>3. \A h \in Handler : Earned(Payee(h))' = Earned(Payee(h))
    BY <1>2 DEF Earned, Payee, TrxOf, vars, committed, local
  <2>4. Explained'
    BY <1>2, <2>3 DEF OverpayInv, Explained, vars, local, TrxOf
  <2> QED
    BY <1>1, <2>2, <2>4 DEF OverpayInv
<1>3. ASSUME NEW h \in Handler, NEW t \in Trx, NEW s \in Outcome, Deliver(h, t, s)
      PROVE  OverpayInv'
  <2>1. pc \in [Handler -> PC] /\ req \in [Handler -> Request \cup {NoRequest}]
    BY DEF OverpayInv, IInv, TypeOK
  <2>2. NoOverpay' /\ Explained'
    BY <1>3, <2>1, OneCopy DEF Deliver, Goto
  <2> QED
    BY <1>1, <2>2 DEF OverpayInv
<1>4. ASSUME NEW h \in Handler, Step(h)
      PROVE  OverpayInv'
  BY <1>1, <1>4, StepOverpayInv DEF OverpayInv
<1>5. CASE Break
  BY <1>1, <1>5, BreakOverpayInv DEF OverpayInv
<1> QED
  BY <1>2, <1>3, <1>4, <1>5 DEF Next, Rest

(* No wallet ever holds more than its wallet_transactions rows add up to,  *)
(* however requests overlap, fail and are repeated: a lost update costs    *)
(* the driver money and never the platform.                                *)
THEOREM NeverOverpaid == Spec => []NoOverpay
<1>1. OverpayInv => NoOverpay
  BY DEF OverpayInv
<1>2. Spec => []OverpayInv
  BY InitOverpayInv, NextOverpayInv, PTL DEF Spec
<1> QED
  BY <1>1, <1>2, PTL

------------------------------------------------------------------------------
(* When the requests for one driver do not overlap, ProcessWebhook          *)
(* implements PaymentLedger: for any number of requests for different       *)
(* drivers, with every failure of PaymentWebhook.                           *)


(* What a handler read is still there when it commits. *)
StillPending ==
    \A h \in Handler : pc[h] \in {"wallet", "create", "credit", "save", "commit"} =>
        status[TrxOf(h)] = "pending"

FreshWallet ==
    \A h \in Handler :
        /\ pc[h] = "credit" => wal[h].balance = wallet[Payee(h)].balance
        /\ pc[h] \in {"save", "commit"} /\ wal[h].open =>
               wal[h].balance = wallet[Payee(h)].balance + Earnings[TrxOf(h)]

NoRowIsEmpty == \A d \in Driver : ~wallet[d].open => wallet[d].balance = 0

PendingNotCredited == \A t \in Trx : status[t] = "pending" => CreditsOf(t) = {}

SerialInv == /\ IInv
             /\ Serial
             /\ StillPending
             /\ FreshWallet
             /\ NoRowIsEmpty
             /\ PendingNotCredited
             /\ CreditedOnce

------------------------------------------------------------------------------
LEMMA InitSerialInv == Init => SerialInv
<1> SUFFICES ASSUME Init PROVE SerialInv
  OBVIOUS
<1>1. Serial /\ StillPending /\ FreshWallet
  BY DEF Init, Serial, StillPending, FreshWallet
<1>2. NoRowIsEmpty /\ PendingNotCredited /\ CreditedOnce
  BY DEF Init, NoRowIsEmpty, PendingNotCredited, CreditedOnce, CreditsOf, NoWallet
<1> QED
  BY <1>1, <1>2, InitInv DEF SerialInv

(* A step that leaves the tables alone and lets at most handler h learn    *)
(* something, which is true.                                               *)
LEMMA Undisturbed ==
    ASSUME SerialInv, IInv', Serial', UNCHANGED committed, NEW h \in Handler,
           \A g \in Handler \ {h} : UNCHANGED <<pc[g], req[g], wal[g]>>,
           pc'[h] \in {"wallet", "create", "credit", "save", "commit"} =>
               /\ req'[h] = req[h]
               /\ status[TrxOf(h)] = "pending"
               /\ pc'[h] = "credit" => wal'[h].balance = wallet[Payee(h)].balance
               /\ pc'[h] \in {"save", "commit"} /\ wal'[h].open =>
                      wal'[h].balance = wallet[Payee(h)].balance + Earnings[TrxOf(h)]
    PROVE  SerialInv'
<1>1. StillPending'
  <2> SUFFICES ASSUME NEW g \in Handler,
                      pc'[g] \in {"wallet", "create", "credit", "save", "commit"}
               PROVE  status'[req'[g].trx] = "pending"
    BY DEF StillPending, TrxOf
  <2>1. CASE g = h
    BY <2>1 DEF committed, TrxOf
  <2>2. CASE g # h
    BY <2>2 DEF SerialInv, StillPending, committed, TrxOf
  <2> QED
    BY <2>1, <2>2
<1>2. FreshWallet'
  <2> SUFFICES ASSUME NEW g \in Handler
               PROVE  /\ pc'[g] = "credit" => wal'[g].balance = wallet'[DriverOf[req'[g].trx]].balance
                      /\ pc'[g] \in {"save", "commit"} /\ wal'[g].open =>
                             wal'[g].balance = wallet'[DriverOf[req'[g].trx]].balance
                                               + Earnings[req'[g].trx]
    BY DEF FreshWallet, TrxOf, Payee
  <2>1. CASE g = h
    BY <2>1 DEF committed, TrxOf, Payee
  <2>2. CASE g # h
    BY <2>2 DEF SerialInv, FreshWallet, committed, TrxOf, Payee
  <2> QED
    BY <2>1, <2>2
<1>3. NoRowIsEmpty' /\ PendingNotCredited' /\ CreditedOnce'
  BY DEF SerialInv, NoRowIsEmpty, PendingNotCredited, CreditedOnce, CreditsOf, committed
<1> QED
  BY <1>1, <1>2, <1>3 DEF SerialInv

(* The step of the ledger that a commit is. *)
Ledgered(h) ==
    /\ status[TrxOf(h)] = "pending"
    /\ wal[h].open <=> Credits(TrxOf(h), Want(h))
    /\ wal[h].open => wal[h].balance = wallet[Payee(h)].balance + Earnings[TrxOf(h)]

LEMMA CommitIsLedgered ==
    ASSUME SerialInv, NEW h \in Handler, pc[h] = "commit"
    PROVE  Ledgered(h)
BY DEF SerialInv, StillPending, FreshWallet, IInv, HasWallet, Ledgered

LEMMA ApplySettles ==
    ASSUME SerialInv, NEW h \in Handler, pc[h] = "commit", Apply(h)
    PROVE  Ledger!Settle(TrxOf(h), Want(h))
<1> DEFINE t == TrxOf(h)  d == Payee(h)
<1>1. /\ t \in Trx /\ d \in Driver /\ d = DriverOf[t]
      /\ wallet \in [Driver -> Wallet] /\ wal[h] \in Wallet
  BY RequestTypes DEF SerialInv, IInv, TypeOK, Payee
<1>2. Ledgered(h)
  BY CommitIsLedgered
<1>3. Ledger!Credits(t, Want(h)) <=> Credits(t, Want(h))
  BY DEF Ledger!Credits, Credits, NonCash, Ledger!NonCash
<1>4. status[t] = "pending" /\ status' = [status EXCEPT ![t] = Want(h)]
  BY <1>2 DEF Apply, RecordStatus, Ledgered
<1>5. CASE wal[h].open
  <2>1. /\ wallet' = [wallet EXCEPT ![d] = wal[h]]
        /\ wal[h].balance = wallet[d].balance + Earnings[t]
        /\ Ledger!Credits(t, Want(h))
    BY <1>2, <1>3, <1>5 DEF Apply, RecordCredit, Ledgered
  <2> HIDE DEF t, d
  <2>2. [e \in Driver |-> wallet'[e].balance] =
            [[e \in Driver |-> wallet[e].balance] EXCEPT ![d] = @ + Earnings[t]]
    BY <1>1, <2>1
  <2> QED
    BY <1>1, <1>4, <2>1, <2>2 DEF Ledger!Settle, t, d
<1>6. CASE ~wal[h].open
  BY <1>2, <1>3, <1>4, <1>6 DEF Apply, RecordCredit, Ledgered, Ledger!Settle
<1> QED
  BY <1>5, <1>6

(* A commit leaves what the handlers of the other drivers know in place.   *)
LEMMA ApplySerialInv ==
    ASSUME SerialInv, IInv', Serial', NEW h \in Handler, pc[h] = "commit", Apply(h),
           \A g \in Handler \ {h} : UNCHANGED <<pc[g], req[g], wal[g]>>,
           pc'[h] \in {"idle", "publish", "respond"}
    PROVE  SerialInv'
<1> DEFINE t == TrxOf(h)  d == Payee(h)  n == Len(mutation)  m == MutationOf(h, wal[h].balance)
<1>1. /\ t \in Trx /\ d \in Driver /\ d = DriverOf[t] /\ Want(h) \in Outcome
      /\ wal[h] \in Wallet /\ m \in Mutation /\ m.trx = t
  BY RequestTypes DEF SerialInv, IInv, TypeOK, Wallet, Mutation, MutationOf, Payee
<1>2. /\ status \in [Trx -> Status] /\ wallet \in [Driver -> Wallet] /\ mutation \in Seq(Mutation)
  BY DEF SerialInv, IInv, TypeOK
<1>3. status[t] = "pending" /\ status' = [status EXCEPT ![t] = Want(h)]
  BY CommitIsLedgered DEF Apply, RecordStatus, Ledgered
<1>4. \/ /\ wal[h].open
         /\ wallet' = [wallet EXCEPT ![d] = wal[h]]
         /\ mutation' = Append(mutation, m)
      \/ wallet' = wallet /\ mutation' = mutation
  BY DEF Apply, RecordCredit
<1>5. \A g \in Handler \ {h} : pc[g] # "idle" => Payee(g) # d /\ TrxOf(g) # t
  BY DEF SerialInv, Serial, Payee
<1> HIDE DEF t, d, m, n
<1>6. StillPending'
  <2> SUFFICES ASSUME NEW g \in Handler,
                      pc'[g] \in {"wallet", "create", "credit", "save", "commit"}
               PROVE  status'[req'[g].trx] = "pending"
    BY DEF StillPending, TrxOf
  <2>1. g # h /\ req'[g].trx = TrxOf(g) /\ TrxOf(g) # t /\ status[TrxOf(g)] = "pending"
    BY <1>5 DEF SerialInv, StillPending, TrxOf
  <2>2. TrxOf(g) \in Trx
    BY <2>1, RequestTypes DEF SerialInv, IInv
  <2> QED
    BY <1>1, <1>2, <1>3, <2>1, <2>2
<1>7. FreshWallet'
  <2> SUFFICES ASSUME NEW g \in Handler, pc'[g] \in {"credit", "save", "commit"}
               PROVE  /\ pc'[g] = "credit" => wal'[g].balance = wallet'[DriverOf[req'[g].trx]].balance
                      /\ pc'[g] \in {"save", "commit"} /\ wal'[g].open =>
                             wal'[g].balance = wallet'[DriverOf[req'[g].trx]].balance
                                               + Earnings[req'[g].trx]
    BY DEF FreshWallet, TrxOf, Payee
  <2>1. g # h /\ pc'[g] = pc[g] /\ req'[g] = req[g] /\ wal'[g] = wal[g] /\ Payee(g) # d
    BY <1>5
  <2>2. Payee(g) \in Driver
    BY <2>1, RequestTypes DEF SerialInv, IInv
  <2>3. wallet'[Payee(g)] = wallet[Payee(g)]
    BY <1>1, <1>2, <1>4, <2>1, <2>2
  <2> QED
    BY <2>1, <2>3 DEF SerialInv, FreshWallet, TrxOf, Payee
<1>8. NoRowIsEmpty'
  BY <1>1, <1>2, <1>4 DEF SerialInv, NoRowIsEmpty
<1>9. CreditsOf(t) = {}
  BY <1>1, <1>3 DEF SerialInv, PendingNotCredited
<1>10. CASE mutation' = mutation
  BY <1>1, <1>2, <1>3, <1>6, <1>7, <1>8, <1>10
     DEF SerialInv, PendingNotCredited, CreditedOnce, CreditsOf, Outcome
<1>11. CASE mutation' = Append(mutation, m)
  <2>1. /\ n \in Nat
        /\ DOMAIN mutation = 1..n
        /\ DOMAIN mutation' = 1..n \cup {n + 1}
        /\ \A i \in 1..n : mutation'[i] = mutation[i]
        /\ mutation'[n + 1] = m
    BY <1>1, <1>2, <1>11, AppendRow DEF n
  <2>2. CreditedOnce'
    BY <1>1, <1>9, <2>1 DEF SerialInv, CreditedOnce, CreditsOf
  <2>3. PendingNotCredited'
    BY <1>1, <1>2, <1>3, <2>1 DEF SerialInv, PendingNotCredited, CreditsOf, Outcome
  <2> QED
    BY <1>6, <1>7, <1>8, <2>2, <2>3 DEF SerialInv
<1> QED
  BY <1>4, <1>10, <1>11

------------------------------------------------------------------------------
(* What each step of a handler before its commit learns is true.           *)
LEMMA StepSerialInv ==
    ASSUME SerialInv, IInv', Serial', NEW h \in Handler, Step(h)
    PROVE  SerialInv'
<1>1. /\ pc \in [Handler -> PC] /\ wal \in [Handler -> Wallet] /\ wallet \in [Driver -> Wallet]
      /\ req \in [Handler -> Request \cup {NoRequest}] /\ status \in [Trx -> Status]
  BY DEF SerialInv, IInv, TypeOK
<1> USE DEF Goto
<1>2. CASE LoadTransaction(h)
  <2>1. TrxOf(h) \in Trx /\ ~wal[h].open
    BY <1>2, RequestTypes DEF LoadTransaction, SerialInv, IInv, HasWallet
  <2>2. ~Settled(TrxOf(h)) => status[TrxOf(h)] = "pending"
    BY <1>1, <2>1 DEF Settled, Status
  <2> QED
    BY <1>1, <1>2, <2>1, <2>2, Undisturbed DEF LoadTransaction
<1>3. CASE LoadWallet(h)
  <2>1. status[TrxOf(h)] = "pending"
    BY <1>3 DEF LoadWallet, SerialInv, StillPending
  <2> QED
    BY <1>1, <1>3, <2>1, Undisturbed DEF LoadWallet
<1>4. CASE CreateWallet(h)
  <2>1. status[TrxOf(h)] = "pending" /\ Payee(h) \in Driver
    BY <1>4, RequestTypes DEF CreateWallet, SerialInv, StillPending, IInv
  <2>2. ~wallet[Payee(h)].open => wallet[Payee(h)].balance = 0
    BY <2>1 DEF SerialInv, NoRowIsEmpty
  <2>3. [NoWallet EXCEPT !.open = TRUE].balance = 0
    BY DEF NoWallet
  <2> QED
    BY <1>1, <1>4, <2>1, <2>2, <2>3, Undisturbed DEF CreateWallet, Finish
<1>5. CASE CreditWallet(h)
  <2>1. /\ status[TrxOf(h)] = "pending" /\ Earnings[TrxOf(h)] \in Nat
        /\ wal[h].balance = wallet[Payee(h)].balance
    BY <1>5, RequestTypes DEF CreditWallet, SerialInv, StillPending, FreshWallet, IInv
  <2>2. Credited(wal[h], Earnings[TrxOf(h)]).balance = wal[h].balance + Earnings[TrxOf(h)]
    BY <1>1, <2>1, CreditedTypes
  <2> QED
    BY <1>1, <1>5, <2>1, <2>2, Undisturbed DEF CreditWallet
<1>6. CASE SaveTransaction(h)
  <2>1. /\ status[TrxOf(h)] = "pending"
        /\ wal[h].open => wal[h].balance = wallet[Payee(h)].balance + Earnings[TrxOf(h)]
    BY <1>6 DEF SaveTransaction, SerialInv, StillPending, FreshWallet
  <2> QED
    BY <1>1, <1>6, <2>1, Undisturbed DEF SaveTransaction
<1>7. CASE Commit(h)
  BY <1>1, <1>7, ApplySerialInv DEF Commit
<1>8. CASE Publish(h) \/ Respond(h)
  BY <1>1, <1>8, Undisturbed DEF Publish, Respond, Finish
<1> QED
  BY <1>2, <1>3, <1>4, <1>5, <1>6, <1>7, <1>8 DEF Step

LEMMA BreakSerialInv ==
    ASSUME SerialInv, IInv', Serial', Break
    PROVE  SerialInv'
<1>1. /\ pc \in [Handler -> PC] /\ wal \in [Handler -> Wallet]
      /\ req \in [Handler -> Request \cup {NoRequest}]
  BY DEF SerialInv, IInv, TypeOK
<1>2. CASE Crash
  BY <1>2 DEF Crash, SerialInv, StillPending, FreshWallet, NoRowIsEmpty, PendingNotCredited,
     CreditedOnce, CreditsOf, committed
<1>3. ASSUME NEW h \in Handler, Fault(h)
      PROVE  SerialInv'
  <2>1. CASE CommitReplyLost(h)
    BY <1>1, <2>1, ApplySerialInv DEF CommitReplyLost, Finish, Goto
  <2>2. CASE StatementFails(h) \/ PublishFails(h) \/ ResponseLost(h)
    BY <1>1, <2>2, Undisturbed DEF StatementFails, PublishFails, ResponseLost, Finish, Goto
  <2> QED
    BY <1>3, <2>1, <2>2 DEF Fault
<1> QED
  BY <1>2, <1>3 DEF Break

LEMMA NextSerialInv == SerialInv /\ [Next /\ Serial']_vars => SerialInv'
<1> SUFFICES ASSUME SerialInv, [Next /\ Serial']_vars PROVE SerialInv'
  OBVIOUS
<1>1. IInv'
  BY NextInv DEF SerialInv
<1>2. Serial'
  BY DEF SerialInv, Serial, vars, local, Payee, TrxOf
<1>3. CASE UNCHANGED vars
  BY <1>1, <1>2, <1>3 DEF SerialInv, StillPending, FreshWallet, NoRowIsEmpty,
     PendingNotCredited, CreditedOnce, CreditsOf, vars, committed, local, Payee, TrxOf
<1>4. ASSUME NEW h \in Handler, NEW t \in Trx, NEW s \in Outcome, Deliver(h, t, s)
      PROVE  SerialInv'
  <2>1. pc \in [Handler -> PC] /\ req \in [Handler -> Request \cup {NoRequest}]
    BY DEF SerialInv, IInv, TypeOK
  <2> QED
    BY <1>1, <1>2, <1>4, <2>1, Undisturbed DEF Deliver, Goto
<1> QED
  BY <1>1, <1>2, <1>3, <1>4, StepSerialInv, BreakSerialInv DEF Next, Rest

LEMMA SerialInvariance == SerialSpec => []SerialInv
BY InitSerialInv, NextSerialInv, PTL DEF SerialSpec

------------------------------------------------------------------------------
(* Theorems *)

(* Without overlap a transaction is credited at most once, however often   *)
(* its webhook is repeated after failures (ProcessWebhook, lines 153-217). *)
THEOREM CreditedAtMostOnce == SerialSpec => []CreditedOnce
<1>1. SerialInv => CreditedOnce
  BY DEF SerialInv
<1> QED
  BY <1>1, SerialInvariance, PTL

(* Every commit without overlap settles a pending transaction and credits  *)
(* its driver once, in the same step; every other step moves no money.     *)
LEMMA StepSettles ==
    ASSUME SerialInv, [Next /\ Serial']_vars
    PROVE  [Ledger!Next]_(Ledger!vars)
<1>1. ASSUME UNCHANGED <<status, wallet>>
      PROVE  UNCHANGED Ledger!vars
  BY <1>1 DEF Ledger!vars
<1>2. ASSUME NEW h \in Handler, pc[h] = "commit", Apply(h)
      PROVE  Ledger!Next
  <2>1. TrxOf(h) \in Trx /\ Want(h) \in Ledger!Outcome
    BY <1>2, RequestTypes DEF SerialInv, IInv, Outcome, Ledger!Outcome
  <2> QED
    BY <1>2, <2>1, ApplySettles DEF Ledger!Next, Ledger!Settle
<1>3. \/ UNCHANGED <<status, wallet>>
      \/ \E h \in Handler : pc[h] = "commit" /\ Apply(h)
  BY DEF Next, Deliver, Step, LoadTransaction, LoadWallet, CreateWallet, CreditWallet,
     SaveTransaction, Commit, Publish, Respond, Break, Crash, Fault, StatementFails,
     CommitReplyLost, PublishFails, ResponseLost, Rest, vars, committed
<1> QED
  BY <1>1, <1>2, <1>3

(* Without overlap ProcessWebhook implements the ledger: repeated and failed *)
(* deliveries settle a transaction once and move its money once.           *)
THEOREM SerialImplementsLedger == SerialSpec => ImplementsLedger
<1>1. Init => Ledger!Init
  BY DEF Init, Ledger!Init, NoWallet
<1> QED
  BY <1>1, StepSettles, SerialInvariance, PTL DEF SerialSpec, ImplementsLedger, Ledger!Spec
==============================================================================
