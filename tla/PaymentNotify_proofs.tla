------------------------- MODULE PaymentNotify_proofs -------------------------
(***************************************************************************)
(* Theorems about PaymentNotify: what the consumer of payment.completed    *)
(* may say of the payments, for any number of transactions, overlapping    *)
(* requests and failures of either service.                                *)
(***************************************************************************)
EXTENDS PaymentNotify, PaymentWebhook_proofs, FiniteSetTheorems

(* The requests that have committed a success and not yet announced it. *)
Publishing(t) == {h \in Handler : pc[h] = "publish" /\ TrxOf(h) = t}

(* The events of a transaction among the first n of the topic. *)
Events(t, n) == {i \in 1..n : topic[i] = t}

InHand(t) == IF inHand = t THEN 1 ELSE 0

(* Every event on the topic, and every one that is about to be published,   *)
(* stands for a success of its own.                                        *)
EventsArePaid ==
    \A t \in Trx : /\ IsFiniteSet(Publishing(t))
                   /\ Cardinality(Events(t, Len(topic))) + Cardinality(Publishing(t))
                          <= Cardinality(Successes(t))

(* What was handed out was committed before: nothing behind the committed   *)
(* offset has been notified or is in hand.                                 *)
CommittedFirst ==
    /\ offset <= position
    /\ \A t \in Trx : notified[t] + InHand(t) <= Cardinality(Events(t, offset))

NotifyIInv == /\ IInv
              /\ NotifyTypeOK
              /\ EventsArePaid
              /\ CommittedFirst

------------------------------------------------------------------------------
(* Counting events and successes. *)

LEMMA EventsFinite ==
    ASSUME NEW t, NEW n \in Nat
    PROVE  IsFiniteSet(Events(t, n)) /\ Cardinality(Events(t, n)) \in Nat
<1>1. IsFiniteSet(1..n)
  BY FS_Interval
<1> QED
  BY <1>1, FS_Subset, FS_CardinalityType DEF Events

LEMMA MoreEvents ==
    ASSUME NEW t, NEW n \in Nat, NEW m \in Nat, n <= m
    PROVE  Cardinality(Events(t, n)) <= Cardinality(Events(t, m))
<1>1. Events(t, n) \subseteq Events(t, m)
  BY DEF Events
<1> QED
  BY <1>1, EventsFinite, FS_Subset

LEMMA NextEvent ==
    ASSUME NEW t, NEW n \in Nat
    PROVE  Cardinality(Events(t, n + 1))
               = Cardinality(Events(t, n)) + (IF topic[n + 1] = t THEN 1 ELSE 0)
<1>1. Events(t, n + 1) = IF topic[n + 1] = t THEN Events(t, n) \cup {n + 1} ELSE Events(t, n)
  BY DEF Events
<1>2. n + 1 \notin Events(t, n)
  BY DEF Events
<1> QED
  BY <1>1, <1>2, EventsFinite, FS_AddElement

LEMMA SuccessesFinite ==
    ASSUME paymentLog \in Seq(Request), NEW t
    PROVE  IsFiniteSet(Successes(t)) /\ Cardinality(Successes(t)) \in Nat
<1>1. Successes(t) \subseteq 1..Len(paymentLog) /\ IsFiniteSet(1..Len(paymentLog))
  BY FS_Interval DEF Successes, LogOf
<1> QED
  BY <1>1, FS_Subset, FS_CardinalityType

(* A commit adds one success to the audit trail, or none. *)
LEMMA SuccessRecorded ==
    ASSUME paymentLog \in Seq(Request), NEW r \in Request,
           paymentLog' = Append(paymentLog, r), NEW t
    PROVE  Cardinality(Successes(t)') = Cardinality(Successes(t))
               + (IF r.trx = t /\ r.status = "success" THEN 1 ELSE 0)
<1> DEFINE n == Len(paymentLog)
<1>1. /\ n \in Nat /\ DOMAIN paymentLog = 1..n /\ DOMAIN paymentLog' = 1..n \cup {n + 1}
      /\ \A i \in 1..n : paymentLog'[i] = paymentLog[i]
      /\ paymentLog'[n + 1] = r
  BY AppendRow
<1> HIDE DEF n
<1>2. Successes(t)' = IF r.trx = t /\ r.status = "success"
                      THEN Successes(t) \cup {n + 1} ELSE Successes(t)
  BY <1>1 DEF Successes, LogOf
<1>3. n + 1 \notin Successes(t)
  BY <1>1 DEF Successes, LogOf
<1>4. IsFiniteSet(Successes(t)) /\ Cardinality(Successes(t)) \in Nat
  BY SuccessesFinite
<1>5. Cardinality(Successes(t) \cup {n + 1}) = Cardinality(Successes(t)) + 1
  BY <1>3, <1>4, FS_AddElement
<1> QED
  BY <1>2, <1>4, <1>5

------------------------------------------------------------------------------
LEMMA NotifyInitInv == NotifyInit => NotifyIInv
<1> SUFFICES ASSUME NotifyInit PROVE NotifyIInv
  OBVIOUS
<1> USE DEF NotifyInit
<1>1. IInv
  BY InitInv
<1>2. NotifyTypeOK
  BY <1>1 DEF IInv, NotifyTypeOK
<1>3. \A t \in Trx : Events(t, 0) = {} /\ Publishing(t) = {} /\ Successes(t) = {} /\ InHand(t) = 0
  BY NotifyConstants DEF Init, Events, Publishing, Successes, LogOf, InHand
<1>4. Len(topic) = 0 /\ IsFiniteSet({}) /\ Cardinality({}) = 0
  BY FS_EmptySet
<1>5. EventsArePaid
  <2> SUFFICES ASSUME NEW t \in Trx
               PROVE  /\ IsFiniteSet(Publishing(t))
                      /\ Cardinality(Events(t, 0)) + Cardinality(Publishing(t))
                             <= Cardinality(Successes(t))
    BY <1>4 DEF EventsArePaid
  <2>1. Events(t, 0) = {} /\ Publishing(t) = {} /\ Successes(t) = {}
    BY <1>3
  <2>2. /\ IsFiniteSet(Publishing(t)) /\ Cardinality(Events(t, 0)) = 0
        /\ Cardinality(Publishing(t)) = 0 /\ Cardinality(Successes(t)) = 0
    BY <1>4, <2>1, Zenon
  <2> QED
    BY <2>2
<1>6. CommittedFirst
  <2> SUFFICES ASSUME NEW t \in Trx
               PROVE  notified[t] + InHand(t) <= Cardinality(Events(t, 0))
    BY DEF CommittedFirst
  <2>1. Events(t, 0) = {} /\ InHand(t) = 0 /\ notified[t] = 0
    BY <1>3
  <2>2. Cardinality(Events(t, 0)) = 0
    BY <1>4, <2>1, Zenon
  <2> QED
    BY <2>1, <2>2
<1> QED
  BY <1>1, <1>2, <1>5, <1>6 DEF NotifyIInv

(* Steps of the webhook that publish nothing: a success is recorded before  *)
(* a request goes on to publish it.                                        *)
LEMMA WebhookPublishing ==
    ASSUME IInv, Next, UNCHANGED published
    PROVE  \/ UNCHANGED paymentLog /\ \A t \in Trx : Publishing(t)' \subseteq Publishing(t)
           \/ \E h \in Handler :
                  /\ paymentLog' = Append(paymentLog, req[h]) /\ req[h] \in Request
                  /\ \A t \in Trx : Publishing(t)' \subseteq
                         IF req[h].trx = t /\ req[h].status = "success"
                         THEN Publishing(t) \cup {h} ELSE Publishing(t)
<1> USE DEF Goto, committed, IInv, TypeOK, Publishing, TrxOf
<1>1. ASSUME NEW h \in Handler, NEW t \in Trx, NEW s \in Outcome, Deliver(h, t, s)
      PROVE  UNCHANGED paymentLog /\ \A u \in Trx : Publishing(u)' \subseteq Publishing(u)
  BY <1>1 DEF Deliver
<1>2. ASSUME NEW h \in Handler, LoadTransaction(h) \/ LoadWallet(h) \/ CreateWallet(h)
                                \/ CreditWallet(h) \/ SaveTransaction(h) \/ Respond(h)
      PROVE  UNCHANGED paymentLog /\ \A u \in Trx : Publishing(u)' \subseteq Publishing(u)
  BY <1>2 DEF LoadTransaction, LoadWallet, CreateWallet, CreditWallet, SaveTransaction,
              Respond, Finish
<1>3. ASSUME NEW h \in Handler, Commit(h) \/ CommitReplyLost(h)
      PROVE  /\ paymentLog' = Append(paymentLog, req[h]) /\ req[h] \in Request
             /\ \A t \in Trx : Publishing(t)' \subseteq
                    IF req[h].trx = t /\ req[h].status = "success"
                    THEN Publishing(t) \cup {h} ELSE Publishing(t)
  BY <1>3 DEF Commit, CommitReplyLost, Apply, RecordStatus, Finish, Want
<1>4. ASSUME NEW h \in Handler, Publish(h)
      PROVE  FALSE
  <2>1. pc[h] = "publish" /\ published' = [published EXCEPT ![TrxOf(h)] = @ + 1]
    BY <1>4 DEF Publish
  <2>2. TrxOf(h) \in Trx /\ published \in [Trx -> Nat]
    BY <2>1, RequestTypes
  <2> HIDE DEF TrxOf
  <2>3. published'[TrxOf(h)] = published[TrxOf(h)] + 1 /\ published[TrxOf(h)] \in Nat
    BY <2>1, <2>2
  <2> QED
    BY <2>3
<1>5. ASSUME NEW h \in Handler, StatementFails(h) \/ PublishFails(h) \/ ResponseLost(h)
      PROVE  UNCHANGED paymentLog /\ \A u \in Trx : Publishing(u)' \subseteq Publishing(u)
  BY <1>5 DEF StatementFails, PublishFails, ResponseLost, Finish
<1>6. ASSUME Crash
      PROVE  UNCHANGED paymentLog /\ \A u \in Trx : Publishing(u)' \subseteq Publishing(u)
  BY <1>6 DEF Crash
<1>7. CASE Rest
  BY <1>7 DEF Rest, vars, local
<1> QED
  BY <1>1, <1>2, <1>3, <1>4, <1>5, <1>6, <1>7 DEF Next, Step, Break, Fault

LEMMA WebhookStepInv ==
    ASSUME NotifyIInv, Next, UNCHANGED <<published, topic, consumer>>
    PROVE  NotifyIInv'
<1> USE DEF consumer
<1>1. IInv'
  BY NextInv DEF NotifyIInv
<1>2. NotifyTypeOK'
  BY <1>1 DEF NotifyIInv, NotifyTypeOK, IInv
<1>3. CommittedFirst'
  BY DEF NotifyIInv, CommittedFirst, Events, InHand
<1>4. EventsArePaid'
  <2> SUFFICES ASSUME NEW t \in Trx
               PROVE  /\ IsFiniteSet(Publishing(t)')
                      /\ Cardinality(Events(t, Len(topic))) + Cardinality(Publishing(t)')
                             <= Cardinality(Successes(t)')
    BY DEF EventsArePaid, Events
  <2>1. /\ paymentLog \in Seq(Request) /\ Len(topic) \in Nat
        /\ IsFiniteSet(Publishing(t))
        /\ Cardinality(Events(t, Len(topic))) + Cardinality(Publishing(t)) <= Cardinality(Successes(t))
    BY DEF NotifyIInv, IInv, TypeOK, NotifyTypeOK, EventsArePaid
  <2>2. /\ Cardinality(Successes(t)) \in Nat /\ Cardinality(Events(t, Len(topic))) \in Nat
        /\ Cardinality(Publishing(t)) \in Nat
    BY <2>1, SuccessesFinite, EventsFinite, FS_CardinalityType
  <2>3. CASE UNCHANGED paymentLog /\ Publishing(t)' \subseteq Publishing(t)
    <3>1. Successes(t)' = Successes(t)
      BY <2>3 DEF Successes, LogOf
    <3>2. IsFiniteSet(Publishing(t)') /\ Cardinality(Publishing(t)') <= Cardinality(Publishing(t))
          /\ Cardinality(Publishing(t)') \in Nat
      BY <2>1, <2>3, FS_Subset, FS_CardinalityType
    <3> QED
      BY <2>1, <2>2, <3>1, <3>2
  <2>4. ASSUME NEW h \in Handler, paymentLog' = Append(paymentLog, req[h]), req[h] \in Request,
               Publishing(t)' \subseteq IF req[h].trx = t /\ req[h].status = "success"
                                        THEN Publishing(t) \cup {h} ELSE Publishing(t)
        PROVE  /\ IsFiniteSet(Publishing(t)')
               /\ Cardinality(Events(t, Len(topic))) + Cardinality(Publishing(t)')
                      <= Cardinality(Successes(t)')
    <3> DEFINE paid == req[h].trx = t /\ req[h].status = "success"
               P == IF paid THEN Publishing(t) \cup {h} ELSE Publishing(t)
    <3>1. IsFiniteSet(P) /\ Cardinality(P) <= Cardinality(Publishing(t)) + (IF paid THEN 1 ELSE 0)
      <4>1. /\ IsFiniteSet(Publishing(t) \cup {h})
            /\ Cardinality(Publishing(t) \cup {h}) \in {Cardinality(Publishing(t)), Cardinality(Publishing(t)) + 1}
        BY <2>1, FS_AddElement
      <4> QED
        BY <2>1, <2>2, <4>1
    <3>2. Cardinality(Successes(t)') = Cardinality(Successes(t)) + (IF paid THEN 1 ELSE 0)
      BY <2>1, <2>4, SuccessRecorded
    <3>3. Publishing(t)' \subseteq P
      BY <2>4
    <3> HIDE DEF P
    <3>4. IsFiniteSet(Publishing(t)') /\ Cardinality(Publishing(t)') <= Cardinality(P)
          /\ Cardinality(Publishing(t)') \in Nat /\ Cardinality(P) \in Nat
      BY <3>1, <3>3, FS_Subset, FS_CardinalityType
    <3> HIDE DEF paid
    <3> QED
      BY <2>1, <2>2, <3>1, <3>2, <3>4
  <2> QED
    BY <2>3, <2>4, WebhookPublishing DEF NotifyIInv
<1> QED
  BY <1>1, <1>2, <1>3, <1>4 DEF NotifyIInv

LEMMA PublishPaymentCompletedInv ==
    ASSUME NotifyIInv, NEW h \in Handler, PublishPaymentCompleted(h)
    PROVE  NotifyIInv'
<1> DEFINE p == TrxOf(h)  n == Len(topic)
<1> USE DEF consumer
<1>1. /\ Publish(h) /\ pc[h] = "publish" /\ UNCHANGED consumer /\ p \in Trx
      /\ published' = [published EXCEPT ![p] = @ + 1] /\ published \in [Trx -> Nat]
      /\ UNCHANGED paymentLog /\ topic \in Seq(Trx) /\ n \in Nat
      /\ h \in Publishing(p)
  BY RequestTypes DEF PublishPaymentCompleted, Publish, NotifyIInv, IInv, TypeOK, NotifyTypeOK,
                      committed, Publishing
<1>2. \A t \in Trx : Publishing(t)' \subseteq IF t = p THEN Publishing(t) \ {h} ELSE Publishing(t)
  BY DEF PublishPaymentCompleted, Publish, Publishing, Goto, NotifyIInv, IInv, TypeOK, TrxOf
<1> HIDE DEF p
<1>3. published'[p] # published[p]
  BY <1>1
<1>4. topic' = Append(topic, p)
  BY <1>3 DEF PublishPaymentCompleted, p
<1>5. /\ topic' \in Seq(Trx) /\ Len(topic') = n + 1 /\ topic'[n + 1] = p
      /\ \A i \in 1..n : topic'[i] = topic[i]
  BY <1>1, <1>4
<1> HIDE DEF n
<1>6. IInv'
  <2>1. Next
    BY <1>1 DEF Next, Step
  <2> QED
    BY <2>1, NextInv DEF NotifyIInv
<1>7. NotifyTypeOK'
  <2>1. position \in 0..n /\ offset \in 0..n
    BY DEF NotifyIInv, NotifyTypeOK, n
  <2>2. position' \in 0..Len(topic') /\ offset' \in 0..Len(topic')
    BY <1>1, <1>5, <2>1
  <2> QED
    BY <1>1, <1>5, <1>6, <2>2 DEF NotifyIInv, NotifyTypeOK, IInv
<1>8. EventsArePaid'
  <2> SUFFICES ASSUME NEW t \in Trx
               PROVE  /\ IsFiniteSet(Publishing(t)')
                      /\ Cardinality(Events(t, Len(topic))') + Cardinality(Publishing(t)')
                             <= Cardinality(Successes(t))
    BY <1>1 DEF EventsArePaid, Successes, LogOf
  <2>1. /\ IsFiniteSet(Publishing(t))
        /\ Cardinality(Events(t, n)) + Cardinality(Publishing(t)) <= Cardinality(Successes(t))
    BY DEF NotifyIInv, EventsArePaid, n
  <2>2. /\ Cardinality(Successes(t)) \in Nat /\ Cardinality(Events(t, n)) \in Nat
        /\ Cardinality(Publishing(t)) \in Nat
    <3>1. paymentLog \in Seq(Request)
      BY DEF NotifyIInv, IInv, TypeOK
    <3> QED
      BY <1>1, <2>1, <3>1, SuccessesFinite, EventsFinite, FS_CardinalityType
  <2>3. Events(t, Len(topic))' = IF t = p THEN Events(t, n) \cup {n + 1} ELSE Events(t, n)
    BY <1>1, <1>5 DEF Events
  <2>4. IsFiniteSet(Events(t, n)) /\ n + 1 \notin Events(t, n)
    <3>1. n + 1 \notin Events(t, n)
      BY <1>1 DEF Events
    <3> QED
      BY <1>1, <3>1, EventsFinite
  <2>5. CASE t = p
    <3>1. Cardinality(Events(t, n) \cup {n + 1}) = Cardinality(Events(t, n)) + 1
      BY <2>2, <2>4, FS_AddElement
    <3>2. IsFiniteSet(Publishing(t) \ {h}) /\ Cardinality(Publishing(t) \ {h}) = Cardinality(Publishing(t)) - 1
      BY <1>1, <2>1, <2>5, FS_RemoveElement
    <3>3. IsFiniteSet(Publishing(t)') /\ Cardinality(Publishing(t)') <= Cardinality(Publishing(t) \ {h})
          /\ Cardinality(Publishing(t)') \in Nat
      BY <1>2, <2>5, <3>2, FS_Subset, FS_CardinalityType
    <3>4. Events(t, Len(topic))' = Events(t, n) \cup {n + 1}
      BY <2>3, <2>5
    <3> QED
      BY <2>1, <2>2, <3>1, <3>2, <3>3, <3>4
  <2>6. CASE t # p
    <3>1. Events(t, Len(topic))' = Events(t, n)
      BY <2>3, <2>6
    <3>2. Publishing(t)' \subseteq Publishing(t)
      BY <1>2, <2>6
    <3>3. IsFiniteSet(Publishing(t)') /\ Cardinality(Publishing(t)') <= Cardinality(Publishing(t))
          /\ Cardinality(Publishing(t)') \in Nat
      BY <2>1, <3>2, FS_Subset, FS_CardinalityType
    <3> QED
      BY <2>1, <2>2, <3>1, <3>3
  <2> QED
    BY <2>5, <2>6
<1>9. CommittedFirst'
  <2>1. offset \in 0..n /\ offset' = offset
    BY <1>1 DEF NotifyIInv, NotifyTypeOK, n
  <2>2. \A t \in Trx : Events(t, offset)' = Events(t, offset)
    <3>1. \A i \in 1..offset : topic'[i] = topic[i]
      <4>1. \A i \in 1..offset : i \in 1..n
        BY <1>1, <2>1
      <4> QED
        BY <1>5, <4>1
    <3>2. offset' = offset
      BY <2>1
    <3> QED
      BY <3>1, <3>2 DEF Events
  <2> QED
    BY <1>1, <2>2 DEF NotifyIInv, CommittedFirst, InHand
<1> QED
  BY <1>6, <1>7, <1>8, <1>9 DEF NotifyIInv

------------------------------------------------------------------------------
(* The consumer. *)

(* Steps of the consumer leave the webhook alone, but for a failure.        *)
LEMMA ConsumerKeepsWebhook ==
    ASSUME NotifyIInv, UNCHANGED <<committed, published, owed, local, topic>>,
           faults' \in 0..MaxFaults
    PROVE  IInv' /\ EventsArePaid'
<1> USE DEF committed, local
<1>1. TypeOK'
  BY DEF NotifyIInv, IInv, TypeOK
<1>2. HasWallet' /\ AnnouncesPaid'
  BY DEF NotifyIInv, IInv, HasWallet, AnnouncesPaid, WasPaid, LogOf, TrxOf, Want, Credits
<1>3. IInv'
  BY <1>1, <1>2, TablesKept DEF NotifyIInv, IInv
<1>4. EventsArePaid'
  BY DEF NotifyIInv, EventsArePaid, Events, Publishing, TrxOf, Successes, LogOf
<1> QED
  BY <1>3, <1>4

LEMMA ReadMessageInv ==
    ASSUME NotifyIInv, ReadMessage
    PROVE  NotifyIInv'
<1> DEFINE t == topic[position + 1]
<1>1. /\ inHand = NoEvent /\ position < Len(topic) /\ offset' = position + 1
      /\ position' = position + 1 /\ inHand' = t /\ UNCHANGED <<vars, topic, notified>>
      /\ position \in Nat /\ offset \in Nat /\ offset <= position
      /\ Len(topic) \in Nat /\ t \in Trx
  BY DEF ReadMessage, Pending, NotifyIInv, NotifyTypeOK, CommittedFirst
<1>2. IInv' /\ EventsArePaid'
  BY <1>1, ConsumerKeepsWebhook DEF vars, NotifyIInv, IInv, TypeOK
<1>3. NotifyTypeOK'
  BY <1>1, <1>2 DEF NotifyIInv, NotifyTypeOK, IInv
<1>4. CommittedFirst'
  <2> SUFFICES ASSUME NEW u \in Trx
               PROVE  notified[u] + InHand(u)' <= Cardinality(Events(u, position + 1))
    BY <1>1 DEF CommittedFirst, Events
  <2>1. InHand(u) = 0 /\ notified[u] \in Nat /\ notified[u] + InHand(u) <= Cardinality(Events(u, offset))
    BY <1>1, NotifyConstants DEF NotifyIInv, NotifyTypeOK, CommittedFirst, InHand
  <2>2. /\ Cardinality(Events(u, offset)) <= Cardinality(Events(u, position))
        /\ Cardinality(Events(u, offset)) \in Nat /\ Cardinality(Events(u, position)) \in Nat
    BY <1>1, MoreEvents, EventsFinite
  <2>3. Cardinality(Events(u, position + 1))
            = Cardinality(Events(u, position)) + (IF t = u THEN 1 ELSE 0)
    BY <1>1, NextEvent
  <2>4. InHand(u)' = IF t = u THEN 1 ELSE 0
    BY <1>1 DEF InHand
  <2> HIDE DEF t
  <2> QED
    BY <2>1, <2>2, <2>3, <2>4
<1> QED
  BY <1>2, <1>3, <1>4 DEF NotifyIInv

LEMMA SendNotificationInv ==
    ASSUME NotifyIInv, SendNotification
    PROVE  NotifyIInv'
<1>1. /\ inHand \in Trx /\ notified' = [notified EXCEPT ![inHand] = @ + 1] /\ inHand' = NoEvent
      /\ notified \in [Trx -> Nat] /\ UNCHANGED <<vars, topic, position, offset>>
  BY DEF SendNotification, NotifyIInv, NotifyTypeOK
<1>2. IInv' /\ EventsArePaid'
  BY <1>1, ConsumerKeepsWebhook DEF vars, NotifyIInv, IInv, TypeOK
<1>3. NotifyTypeOK'
  BY <1>1, <1>2 DEF NotifyIInv, NotifyTypeOK, IInv
<1>4. CommittedFirst'
  <2> SUFFICES ASSUME NEW u \in Trx
               PROVE  notified'[u] + InHand(u)' <= Cardinality(Events(u, offset))
    BY <1>1 DEF NotifyIInv, CommittedFirst, Events
  <2>1. notified'[u] + InHand(u)' = notified[u] + InHand(u)
    BY <1>1, NotifyConstants DEF InHand
  <2> QED
    BY <2>1 DEF NotifyIInv, CommittedFirst
<1> QED
  BY <1>2, <1>3, <1>4 DEF NotifyIInv

LEMMA ConsumerBreakInv ==
    ASSUME NotifyIInv, ConsumerBreak
    PROVE  NotifyIInv'
<1>1. /\ UNCHANGED <<committed, published, owed, local, topic, notified>>
      /\ faults' \in 0..MaxFaults
      /\ position \in 0..Len(topic) /\ offset \in 0..Len(topic) /\ offset <= position
      /\ Len(topic) \in Nat
  BY WebhookConstants DEF ConsumerBreak, CommitFails, SaveLogFails, ConsumerCrash,
                          NotifyIInv, IInv, TypeOK, NotifyTypeOK, CommittedFirst
<1>2. IInv' /\ EventsArePaid'
  BY <1>1, ConsumerKeepsWebhook
<1>3. /\ position' \in 0..Len(topic) /\ offset' \in 0..Len(topic) /\ offset' <= position'
      /\ offset <= offset' /\ inHand' \in {inHand, NoEvent}
  BY <1>1 DEF ConsumerBreak, CommitFails, SaveLogFails, ConsumerCrash, Pending
<1>4. NotifyTypeOK'
  BY <1>1, <1>2, <1>3 DEF NotifyIInv, NotifyTypeOK, IInv
<1>5. CommittedFirst'
  <2> SUFFICES ASSUME NEW u \in Trx
               PROVE  notified[u] + InHand(u)' <= Cardinality(Events(u, offset'))
    BY <1>1, <1>3 DEF CommittedFirst, Events
  <2>1. InHand(u)' \in Nat /\ InHand(u) \in Nat /\ InHand(u)' <= InHand(u) /\ notified[u] \in Nat
    BY <1>3, NotifyConstants DEF InHand, NotifyIInv, NotifyTypeOK
  <2>2. /\ Cardinality(Events(u, offset)) <= Cardinality(Events(u, offset'))
        /\ Cardinality(Events(u, offset)) \in Nat /\ Cardinality(Events(u, offset')) \in Nat
    BY <1>1, <1>3, MoreEvents, EventsFinite
  <2>3. notified[u] + InHand(u) <= Cardinality(Events(u, offset))
    BY DEF NotifyIInv, CommittedFirst
  <2> QED
    BY <2>1, <2>2, <2>3
<1> QED
  BY <1>2, <1>4, <1>5 DEF NotifyIInv

LEMMA NotifyNextInv == NotifyIInv /\ [NotifyNext]_notifyVars => NotifyIInv'
<1> SUFFICES ASSUME NotifyIInv, [NotifyNext]_notifyVars PROVE NotifyIInv'
  OBVIOUS
<1>1. ASSUME NEW h \in Handler, PublishPaymentCompleted(h) PROVE NotifyIInv'
  BY <1>1, PublishPaymentCompletedInv
<1>2. CASE Next /\ UNCHANGED <<published, topic, consumer>>
  BY <1>2, WebhookStepInv
<1>3. CASE ReadMessage
  BY <1>3, ReadMessageInv
<1>4. CASE SendNotification
  BY <1>4, SendNotificationInv
<1>5. CASE ConsumerBreak
  BY <1>5, ConsumerBreakInv
<1>6. CASE UNCHANGED notifyVars
  <2>1. UNCHANGED <<vars, topic, consumer>>
    BY <1>6 DEF notifyVars
  <2>2. IInv' /\ EventsArePaid'
    BY <2>1, ConsumerKeepsWebhook DEF vars, NotifyIInv, IInv, TypeOK
  <2>3. NotifyTypeOK' /\ CommittedFirst'
    BY <2>1, <2>2 DEF consumer, NotifyIInv, NotifyTypeOK, IInv, CommittedFirst, Events, InHand
  <2> QED
    BY <2>2, <2>3 DEF NotifyIInv
<1> QED
  BY <1>1, <1>2, <1>3, <1>4, <1>5, <1>6 DEF NotifyNext

LEMMA NotifyInvariance == NotifySpec => []NotifyIInv
BY NotifyInitInv, NotifyNextInv, PTL DEF NotifySpec

------------------------------------------------------------------------------
(* Theorems *)

(* Type correctness of the topic and the consumer: the committed offset     *)
(* stays within the topic.                                                 *)
THEOREM NotifyTypeCorrect == NotifySpec => []NotifyTypeOK
<1>1. NotifyIInv => NotifyTypeOK
  BY DEF NotifyIInv
<1> QED
  BY <1>1, NotifyInvariance, PTL

(* No payment is notified more often than it succeeded, whatever fails on   *)
(* the way (payment_service.go lines 238-252, consumer.go lines 56-85).     *)
THEOREM NeverOverNotified == NotifySpec => []NotifiedAsPaid
<1>1. NotifyIInv => NotifiedAsPaid
  <2> SUFFICES ASSUME NotifyIInv, NEW t \in Trx
               PROVE  notified[t] <= Cardinality(Successes(t))
    BY DEF NotifiedAsPaid
  <2>1. /\ offset \in Nat /\ Len(topic) \in Nat /\ offset <= Len(topic) /\ notified[t] \in Nat
        /\ InHand(t) \in Nat /\ notified[t] + InHand(t) <= Cardinality(Events(t, offset))
        /\ IsFiniteSet(Publishing(t)) /\ paymentLog \in Seq(Request)
        /\ Cardinality(Events(t, Len(topic))) + Cardinality(Publishing(t)) <= Cardinality(Successes(t))
    BY DEF NotifyIInv, NotifyTypeOK, CommittedFirst, EventsArePaid, InHand, IInv, TypeOK
  <2>2. /\ Cardinality(Events(t, offset)) <= Cardinality(Events(t, Len(topic)))
        /\ Cardinality(Events(t, offset)) \in Nat /\ Cardinality(Events(t, Len(topic))) \in Nat
        /\ Cardinality(Publishing(t)) \in Nat /\ Cardinality(Successes(t)) \in Nat
    BY <2>1, MoreEvents, EventsFinite, SuccessesFinite, FS_CardinalityType
  <2> QED
    BY <2>1, <2>2
<1> QED
  BY <1>1, NotifyInvariance, PTL
==============================================================================
