---------------------------- MODULE PaymentNotify ----------------------------
(***************************************************************************)
(* From a paid webhook to the notification of the passenger: the events of *)
(* PaymentWebhook on the topic payment.completed (one partition) and the   *)
(* consumer of notification-service.  ReadMessage of kafka-go commits the  *)
(* offset before it returns the message, and returns the error of a failed *)
(* commit instead of the message.                                          *)
(***************************************************************************)
EXTENDS PaymentWebhook

CONSTANT NoEvent \* the consumer has no message in hand

ASSUME NotifyConstants == NoEvent \notin Trx

VARIABLES
    topic,    \* the transactions of the events, in the order of the offsets
    position, \* how far the running reader has come
    offset,   \* what notification-group has committed
    inHand,   \* the event that is being processed
    notified  \* notification_logs: how often each payment was notified

consumer == <<position, offset, inHand, notified>>
notifyVars == <<vars, topic, consumer>>

NotifyTypeOK ==
    /\ TypeOK
    /\ topic \in Seq(Trx)
    /\ position \in 0..Len(topic)
    /\ offset \in 0..Len(topic)
    /\ inHand \in Trx \cup {NoEvent}
    /\ notified \in [Trx -> Nat]

------------------------------------------------------------------------------
NotifyInit ==
    /\ Init
    /\ topic = <<>>
    /\ position = 0 /\ offset = 0
    /\ inHand = NoEvent
    /\ notified = [t \in Trx |-> 0]

(* WriteMessages puts the event at the end of the topic. *)
PublishPaymentCompleted(h) ==
    /\ Publish(h)
    /\ topic' = IF published' = published THEN topic ELSE Append(topic, TrxOf(h))
    /\ UNCHANGED consumer

Pending == inHand = NoEvent /\ position < Len(topic)

(* Mutant of ReadMessage: the offset is committed with the next message. *)
FetchMessage ==
    /\ Pending
    /\ offset' = position
    /\ position' = position + 1
    /\ inHand' = topic[position + 1]
    /\ UNCHANGED <<vars, topic, notified>>

ReadMessage ==
    /\ Pending
    /\ offset' = position + 1
    /\ position' = position + 1
    /\ inHand' = topic[position + 1]
    /\ UNCHANGED <<vars, topic, notified>>

(* SendNotification: a row of notification_logs is all it does. *)
SendNotification ==
    /\ inHand # NoEvent
    /\ notified' = [notified EXCEPT ![inHand] = @ + 1]
    /\ inHand' = NoEvent
    /\ UNCHANGED <<vars, topic, position, offset>>

(* The commit fails, or its answer is lost: the loop goes on with the next  *)
(* message.                                                                *)
CommitFails ==
    /\ Pending
    /\ offset' \in {offset, position + 1}
    /\ position' = position + 1
    /\ UNCHANGED <<inHand, notified>>

(* SaveLog fails, or SIGTERM has cancelled its context: nothing is returned. *)
SaveLogFails ==
    /\ inHand # NoEvent
    /\ inHand' = NoEvent
    /\ UNCHANGED <<position, offset, notified>>

(* The service dies and is started again. *)
ConsumerCrash ==
    /\ position' = offset
    /\ inHand' = NoEvent
    /\ UNCHANGED <<offset, notified>>

ConsumerBreak ==
    /\ faults > 0
    /\ faults' = faults - 1
    /\ CommitFails \/ SaveLogFails \/ ConsumerCrash
    /\ UNCHANGED <<committed, published, owed, local, topic>>

------------------------------------------------------------------------------
NotifyNext ==
    \/ \E h \in Handler : PublishPaymentCompleted(h)
    \/ Next /\ UNCHANGED <<published, topic, consumer>> \* its other steps
    \/ ReadMessage
    \/ SendNotification
    \/ ConsumerBreak

NotifySpec == NotifyInit /\ [][NotifyNext]_notifyVars

(* As FairSpec, and the consumer's loop runs. *)
FairNotifySpec ==
    /\ NotifySpec
    /\ \A h \in Handler : WF_vars(Step(h))
    /\ WF_vars(\E h \in Handler, t \in Trx, s \in Outcome : Deliver(h, t, s))
    /\ WF_notifyVars(ReadMessage \/ SendNotification)

------------------------------------------------------------------------------
(* Properties *)

Successes(t) == {i \in LogOf(t) : paymentLog[i].status = "success"}

(* The passenger is never told of a payment more often than it was paid:    *)
(* no event is published for a success that was rolled back, and none is    *)
(* notified twice, whatever commit fails and whenever either service dies   *)
(* (payment_service.go lines 238-252, consumer.go lines 56-85).            *)
NotifiedAsPaid == \A t \in Trx : notified[t] <= Cardinality(Successes(t))

(* Every payment that succeeds, in cash too, is notified in the end, as     *)
(* long as nothing has failed: no event waits for ever behind another, and  *)
(* each passes the filter of the consumer (consumer.go lines 49-87).       *)
PaidIsNotified ==
    \A t \in Trx :
        status[t] = "success" ~> (notified[t] > 0 \/ faults < MaxFaults)
==============================================================================
