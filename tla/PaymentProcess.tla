--------------------------- MODULE PaymentProcess ----------------------------
(***************************************************************************)
(* paymentServiceImpl.Process: a payment request becomes one pending       *)
(* transaction, and the requests that carry the same idempotency key share *)
(* it.  One action per database statement; an uncommitted INSERT on a      *)
(* unique index (transactions.transaction_id, idempotency_keys.key) makes  *)
(* the next INSERT of the same value wait, a committed one makes it fail.  *)
(***************************************************************************)
EXTENDS Integers, FiniteSets

CONSTANTS Key,       \* idempotency keys clients use
          NoKey,     \* a request without a key (the empty string)
          TrxId,     \* transaction ids the generator can return
          Free,      \* mark of a transaction id no row has
          NoTrx,     \* mark of a key no row has
          Handler,   \* requests that can be in progress at one time
          MaxFaults  \* bound on the failures of a behaviour

ASSUME ProcessConstants ==
    /\ NoKey \notin Key
    /\ Free \notin Key \cup {NoKey}
    /\ NoTrx \notin TrxId
    /\ MaxFaults \in Nat

Request == Key \cup {NoKey}

VARIABLES
    row,     \* committed: the request each transaction was created for
             \* (the payload of its "created" row in payment_logs)
    idem,    \* committed: the transaction the cached response of a key names
    waiting, \* requests whose client has not seen a 201
    answers, \* the responses clients have seen
    pc,      \* the statement each handler executes next
    key,     \* the request of each handler
    id,      \* the transaction id it generated or read from the cache
    faults   \* failures left

committed == <<row, idem>>
clients == <<waiting, answers>>
vars == <<committed, clients, pc, key, id, faults>>

InTransaction == {"insert", "key", "commit"}
PC == {"idle", "check", "generate", "respond"} \cup InTransaction
Answer == [key : Request, id : TrxId]

TypeOK ==
    /\ row \in [TrxId -> Request \cup {Free}]
    /\ idem \in [Key -> TrxId \cup {NoTrx}]
    /\ waiting \subseteq Request
    /\ answers \subseteq Answer
    /\ pc \in [Handler -> PC]
    /\ key \in [Handler -> Request]
    /\ id \in [Handler -> TrxId \cup {NoTrx}]
    /\ faults \in 0..MaxFaults

------------------------------------------------------------------------------
(* h has inserted the transaction row of i, or the row of key k, and has   *)
(* not committed yet.                                                      *)
HoldsId(h, i) == pc[h] \in {"key", "commit"} /\ id[h] = i
HoldsKey(h, k) == pc[h] = "commit" /\ key[h] = k

Goto(h, next) == pc' = [pc EXCEPT ![h] = next]

(* Return from the handler; what it inserted and did not commit is gone. *)
Finish(h) == /\ Goto(h, "idle")
             /\ id' = [id EXCEPT ![h] = NoTrx]
             /\ key' = [key EXCEPT ![h] = NoKey]

Init ==
    /\ row = [i \in TrxId |-> Free]
    /\ idem = [k \in Key |-> NoTrx]
    /\ waiting = Request
    /\ answers = {}
    /\ pc = [h \in Handler |-> "idle"]
    /\ key = [h \in Handler |-> NoKey]
    /\ id = [h \in Handler |-> NoTrx]
    /\ faults = MaxFaults

(* A client sends its request, and sends it again (also while an earlier   *)
(* attempt is in progress) until it sees a 201.                            *)
Start(h, k) ==
    /\ pc[h] = "idle"
    /\ k \in waiting
    /\ key' = [key EXCEPT ![h] = k]
    /\ Goto(h, IF k \in Key THEN "check" ELSE "generate")
    /\ UNCHANGED <<committed, clients, id, faults>>

(* Mutant of CheckKey: a hit is refused. *)
CheckRefusesHit(h) ==
    /\ pc[h] = "check"
    /\ IF idem[key[h]] # NoTrx
       THEN Finish(h)
       ELSE /\ Goto(h, "generate")
            /\ UNCHANGED <<key, id>>
    /\ UNCHANGED <<committed, clients, faults>>

(* GetIdempotencyKey, outside the transaction: a hit is the answer. *)
CheckKey(h) ==
    /\ pc[h] = "check"
    /\ id' = [id EXCEPT ![h] = idem[key[h]]]
    /\ Goto(h, IF idem[key[h]] = NoTrx THEN "generate" ELSE "respond")
    /\ UNCHANGED <<committed, clients, key, faults>>

(* rand.Intn(90000) + 10000: five digits, taken or not.  Begin(). *)
GenerateId(h, i) ==
    /\ pc[h] = "generate"
    /\ id' = [id EXCEPT ![h] = i]
    /\ Goto(h, "insert")
    /\ UNCHANGED <<committed, clients, key, faults>>

(* CreateTransaction and CreatePaymentLog. *)
InsertTransaction(h) ==
    /\ pc[h] = "insert"
    /\ \A g \in Handler \ {h} : ~HoldsId(g, id[h])
    /\ IF row[id[h]] # Free
       THEN Finish(h)
       ELSE /\ Goto(h, IF key[h] \in Key THEN "key" ELSE "commit")
            /\ UNCHANGED <<key, id>>
    /\ UNCHANGED <<committed, clients, faults>>

(* Mutant of InsertKey: an existing key is replaced (upsert). *)
UpsertKey(h) ==
    /\ pc[h] = "key"
    /\ \A g \in Handler \ {h} : ~HoldsKey(g, key[h])
    /\ Goto(h, "commit")
    /\ UNCHANGED <<committed, clients, key, id, faults>>

(* CreateIdempotencyKey, with the response that names the transaction. *)
InsertKey(h) ==
    /\ pc[h] = "key"
    /\ \A g \in Handler \ {h} : ~HoldsKey(g, key[h])
    /\ IF idem[key[h]] # NoTrx
       THEN Finish(h)
       ELSE /\ Goto(h, "commit")
            /\ UNCHANGED <<key, id>>
    /\ UNCHANGED <<committed, clients, faults>>

(* Mutant of Apply: the key is stored outside the transaction, and lost. *)
ApplyRowOnly(h) ==
    /\ row' = [row EXCEPT ![id[h]] = key[h]]
    /\ UNCHANGED idem

Apply(h) ==
    /\ row' = [row EXCEPT ![id[h]] = key[h]]
    /\ idem' = IF key[h] \in Key THEN [idem EXCEPT ![key[h]] = id[h]] ELSE idem

Commit(h) ==
    /\ pc[h] = "commit"
    /\ Apply(h)
    /\ Goto(h, "respond")
    /\ UNCHANGED <<clients, key, id, faults>>

(* The client sees the 201 and sends this request no more. *)
Respond(h) ==
    /\ pc[h] = "respond"
    /\ answers' = answers \cup {[key |-> key[h], id |-> id[h]]}
    /\ waiting' = waiting \ {key[h]}
    /\ Finish(h)
    /\ UNCHANGED <<committed, faults>>

------------------------------------------------------------------------------
(* Failures *)

(* The read of the key fails, or the cached response does not unmarshal:   *)
(* the error is dropped and the request goes on as if the key were new.    *)
CheckFails(h) ==
    /\ pc[h] = "check"
    /\ Goto(h, "generate")
    /\ UNCHANGED <<committed, clients, key, id>>

(* Mutant of StatementFails: the failed request falls through to the 201. *)
FailureAnswered(h) ==
    /\ pc[h] \in InTransaction
    /\ Goto(h, "respond")
    /\ UNCHANGED <<committed, clients, key, id>>

(* Begin, a statement or Commit returns an error: Rollback, error 500. *)
StatementFails(h) ==
    /\ pc[h] \in InTransaction
    /\ Finish(h)
    /\ UNCHANGED <<committed, clients>>

(* Commit is applied but returns an error. *)
CommitReplyLost(h) ==
    /\ pc[h] = "commit"
    /\ Apply(h)
    /\ Finish(h)
    /\ UNCHANGED clients

(* The 201 does not reach the client. *)
ResponseLost(h) ==
    /\ pc[h] = "respond"
    /\ Finish(h)
    /\ UNCHANGED <<committed, clients>>

(* The process dies: the server rolls every open transaction back. *)
Crash ==
    /\ \E h \in Handler : pc[h] # "idle"
    /\ pc' = [h \in Handler |-> "idle"]
    /\ key' = [h \in Handler |-> NoKey]
    /\ id' = [h \in Handler |-> NoTrx]
    /\ UNCHANGED <<committed, clients>>

Fault(h) == \/ CheckFails(h) \/ StatementFails(h)
            \/ CommitReplyLost(h) \/ ResponseLost(h)

Break == /\ faults > 0
         /\ faults' = faults - 1
         /\ Crash \/ \E h \in Handler : Fault(h)

------------------------------------------------------------------------------
Step(h) == \/ CheckKey(h) \/ \E i \in TrxId : GenerateId(h, i)
           \/ InsertTransaction(h) \/ InsertKey(h) \/ Commit(h) \/ Respond(h)

(* Every client has its answer and nothing runs: the service waits. *)
Rest == /\ waiting = {}
        /\ \A h \in Handler : pc[h] = "idle"
        /\ UNCHANGED vars

Next == \/ \E h \in Handler, k \in Request : Start(h, k)
        \/ \E h \in Handler : Step(h)
        \/ Break
        \/ Rest

Spec == Init /\ [][Next]_vars

(* Goroutines are scheduled and clients go on asking.  The generator does  *)
(* not return taken ids for ever: asked again and again, it returns one    *)
(* that no row has.                                                        *)
FairSpec ==
    /\ Spec
    /\ \A h \in Handler : WF_vars(Step(h))
    /\ \A k \in Request : WF_vars(\E h \in Handler : Start(h, k))
    /\ \A h \in Handler : SF_vars(\E i \in TrxId : row[i] = Free /\ GenerateId(h, i))

------------------------------------------------------------------------------
(* Properties *)

(* However the requests of a key overlap, fail and are repeated, and also   *)
(* when the look-up of the key fails, one transaction at most is created   *)
(* for it (lines 46-55 read outside the transaction, line 124 decides).    *)
OneTransactionPerKey ==
    \A i, j \in TrxId : row[i] \in Key /\ row[i] = row[j] => i = j

(* A transaction and the cached response that names it exist together or   *)
(* not at all (lines 82-133), so a repeated request never falls between.   *)
KeyAndTransactionTogether ==
    /\ \A k \in Key : idem[k] # NoTrx => row[idem[k]] = k
    /\ \A i \in TrxId : row[i] \in Key => idem[row[i]] = i

(* A client that saw a 201 holds the id of a committed transaction created *)
(* for its own request, and every 201 for a key names the same one.        *)
AnswersAreTrue ==
    /\ \A a \in answers : row[a.id] = a.key
    /\ \A a, b \in answers : a.key \in Key /\ a.key = b.key => a.id = b.id

(* A transaction once created is never given to another request: a reused  *)
(* id is refused (the unique index on transaction_id, line 94).            *)
IdsAreNotReused ==
    [][\A i \in TrxId : row[i] # Free => row'[i] = row[i]]_vars

(* Every client is answered in the end: no two requests wait for each      *)
(* other's keys, and a lost or failed attempt can be repeated.             *)
EventuallyAnswered == \A k \in Request : k \in waiting ~> k \notin waiting
==============================================================================
