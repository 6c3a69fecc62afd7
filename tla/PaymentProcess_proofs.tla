------------------------ MODULE PaymentProcess_proofs ------------------------
(***************************************************************************)
(* Theorems about PaymentProcess, for any number of keys, ids, requests in *)
(* progress and failures.  The invariants are not inductive as they stand: *)
(* they rest on what a handler inside its transaction knows.               *)
(***************************************************************************)
EXTENDS PaymentProcess, TLAPS

(* What a handler knows.  From its INSERT to its commit it is the only one *)
(* to hold its transaction id, which is free; from its second INSERT on it *)
(* is the only one to hold its key, which has no row; and it answers with  *)
(* a transaction that was created for its request.                         *)
HoldsFreeId ==
    \A h \in Handler : pc[h] \in {"key", "commit"} =>
        /\ id[h] \in TrxId
        /\ row[id[h]] = Free
        /\ \A g \in Handler \ {h} : ~HoldsId(g, id[h])

HoldsNewKey ==
    \A h \in Handler :
        /\ pc[h] = "key" => key[h] \in Key
        /\ pc[h] = "commit" /\ key[h] \in Key =>
               /\ idem[key[h]] = NoTrx
               /\ \A g \in Handler \ {h} : ~HoldsKey(g, key[h])

KnowsItsAnswer ==
    \A h \in Handler :
        /\ pc[h] = "check" => key[h] \in Key
        /\ pc[h] = "insert" => id[h] \in TrxId
        /\ pc[h] = "respond" => id[h] \in TrxId /\ row[id[h]] = key[h]

AnsweredRows == \A a \in answers : row[a.id] = a.key

IInv == /\ TypeOK
        /\ KeyAndTransactionTogether
        /\ HoldsFreeId
        /\ HoldsNewKey
        /\ KnowsItsAnswer
        /\ AnsweredRows

------------------------------------------------------------------------------
(* The invariant implies the properties. *)
LEMMA InvImplies == IInv => OneTransactionPerKey /\ AnswersAreTrue
<1> SUFFICES ASSUME IInv PROVE OneTransactionPerKey /\ AnswersAreTrue
  OBVIOUS
<1> USE DEF IInv
<1>1. OneTransactionPerKey
  BY DEF KeyAndTransactionTogether, OneTransactionPerKey
<1>2. AnswersAreTrue
  BY DEF KeyAndTransactionTogether, AnsweredRows, AnswersAreTrue, TypeOK, Answer
<1> QED
  BY <1>1, <1>2

LEMMA InitInv == Init => IInv
BY ProcessConstants DEF Init, IInv, TypeOK, KeyAndTransactionTogether, HoldsFreeId,
   HoldsNewKey, KnowsItsAnswer, AnsweredRows, Request, PC, InTransaction, Answer

(* A handler that returns keeps the invariant: it only forgets. *)
LEMMA FinishInv ==
    ASSUME IInv, NEW h \in Handler, Finish(h), UNCHANGED committed,
           waiting' \subseteq waiting, answers' \in SUBSET Answer,
           \A a \in answers' : row[a.id] = a.key, faults' \in 0..MaxFaults
    PROVE  IInv'
<1>1. TypeOK'
  BY DEF IInv, TypeOK, Finish, Goto, committed, Request, PC, InTransaction
<1>2. KeyAndTransactionTogether'
  BY DEF IInv, KeyAndTransactionTogether, committed
<1>3. HoldsFreeId'
  BY DEF IInv, HoldsFreeId, HoldsId, Finish, Goto, committed, TypeOK
<1>4. HoldsNewKey'
  BY DEF IInv, HoldsNewKey, HoldsKey, Finish, Goto, committed, TypeOK
<1>5. KnowsItsAnswer'
  BY DEF IInv, KnowsItsAnswer, Finish, Goto, committed, TypeOK
<1>6. AnsweredRows'
  BY DEF AnsweredRows, committed
<1> QED
  BY <1>1, <1>2, <1>3, <1>4, <1>5, <1>6 DEF IInv

(* The commit of a handler keeps the tables and the answers consistent. *)
LEMMA ApplyTables ==
    ASSUME IInv, NEW h \in Handler, pc[h] = "commit", Apply(h), UNCHANGED answers
    PROVE  /\ row' \in [TrxId -> Request \cup {Free}]
           /\ idem' \in [Key -> TrxId \cup {NoTrx}]
           /\ KeyAndTransactionTogether'
           /\ AnsweredRows'
<1> USE ProcessConstants
<1>1. id[h] \in TrxId /\ row[id[h]] = Free /\ key[h] \in Request
  BY DEF IInv, HoldsFreeId, TypeOK
<1>2. row' \in [TrxId -> Request \cup {Free}] /\ idem' \in [Key -> TrxId \cup {NoTrx}]
  BY <1>1 DEF Apply, IInv, TypeOK
<1>3. KeyAndTransactionTogether'
  <2>1. CASE key[h] \in Key
    <3>1. idem[key[h]] = NoTrx
      BY <2>1 DEF IInv, HoldsNewKey
    <3>2. \A i \in TrxId : row[i] # key[h]
      BY <3>1, <2>1 DEF IInv, KeyAndTransactionTogether, TypeOK
    <3> QED
      BY <1>1, <2>1, <3>1, <3>2 DEF Apply, IInv, TypeOK, KeyAndTransactionTogether
  <2>2. CASE key[h] \notin Key
    BY <1>1, <2>2 DEF Apply, IInv, TypeOK, KeyAndTransactionTogether
  <2> QED
    BY <2>1, <2>2
<1>4. AnsweredRows'
  BY <1>1 DEF Apply, IInv, TypeOK, AnsweredRows, Answer, Request
<1> QED
  BY <1>2, <1>3, <1>4

(* After the commit of h the others still know what they knew. *)
LEMMA ApplyOthers ==
    ASSUME IInv, NEW h \in Handler, pc[h] = "commit", Apply(h),
           NEW g \in Handler \ {h}
    PROVE  /\ pc[g] \in {"key", "commit"} => row'[id[g]] = Free
           /\ pc[g] = "commit" /\ key[g] \in Key => idem'[key[g]] = NoTrx
           /\ pc[g] = "respond" => row'[id[g]] = key[g]
<1> USE ProcessConstants
<1>1. id[h] \in TrxId /\ row[id[h]] = Free /\ ~HoldsId(g, id[h])
  BY DEF IInv, HoldsFreeId
<1>2. key[h] \in Key => ~HoldsKey(g, key[h])
  BY DEF IInv, HoldsNewKey
<1>3. pc[g] \in {"key", "commit"} => row'[id[g]] = Free
  BY <1>1 DEF Apply, IInv, TypeOK, HoldsFreeId, HoldsId
<1>4. pc[g] = "commit" /\ key[g] \in Key => idem'[key[g]] = NoTrx
  BY <1>2 DEF Apply, IInv, TypeOK, HoldsNewKey, HoldsKey
<1>5. pc[g] = "respond" => row'[id[g]] = key[g]
  BY <1>1 DEF Apply, IInv, TypeOK, KnowsItsAnswer, Request
<1> QED
  BY <1>3, <1>4, <1>5

------------------------------------------------------------------------------
(* Every step keeps the invariant. *)
LEMMA StartInv ==
    ASSUME IInv, NEW h \in Handler, NEW k \in Request, Start(h, k)
    PROVE  IInv'
<1> USE DEF Start, Goto, committed, clients
<1>1. TypeOK'
  BY DEF IInv, TypeOK, PC, InTransaction, Request
<1>2. KeyAndTransactionTogether' /\ AnsweredRows'
  BY DEF IInv, KeyAndTransactionTogether, AnsweredRows
<1>3. HoldsFreeId'
  BY DEF IInv, HoldsFreeId, HoldsId, TypeOK
<1>4. HoldsNewKey'
  BY DEF IInv, HoldsNewKey, HoldsKey, TypeOK
<1>5. KnowsItsAnswer'
  BY DEF IInv, KnowsItsAnswer, TypeOK
<1> QED
  BY <1>1, <1>2, <1>3, <1>4, <1>5 DEF IInv

LEMMA CheckKeyInv ==
    ASSUME IInv, NEW h \in Handler, CheckKey(h)
    PROVE  IInv'
<1> USE DEF CheckKey, Goto, committed, clients
<1>1. key[h] \in Key /\ idem[key[h]] \in TrxId \cup {NoTrx}
  BY DEF IInv, KnowsItsAnswer, TypeOK
<1>2. TypeOK'
  BY <1>1 DEF IInv, TypeOK, PC, InTransaction
<1>3. KeyAndTransactionTogether' /\ AnsweredRows'
  BY DEF IInv, KeyAndTransactionTogether, AnsweredRows
<1>4. HoldsFreeId'
  BY DEF IInv, HoldsFreeId, HoldsId, TypeOK
<1>5. HoldsNewKey'
  BY DEF IInv, HoldsNewKey, HoldsKey, TypeOK
<1>6. KnowsItsAnswer'
  BY <1>1 DEF IInv, KnowsItsAnswer, KeyAndTransactionTogether, TypeOK
<1> QED
  BY <1>2, <1>3, <1>4, <1>5, <1>6 DEF IInv

LEMMA GenerateIdInv ==
    ASSUME IInv, NEW h \in Handler, NEW i \in TrxId, GenerateId(h, i)
    PROVE  IInv'
<1> USE DEF GenerateId, Goto, committed, clients
<1>1. TypeOK'
  BY DEF IInv, TypeOK, PC, InTransaction
<1>2. KeyAndTransactionTogether' /\ AnsweredRows'
  BY DEF IInv, KeyAndTransactionTogether, AnsweredRows
<1>3. HoldsFreeId'
  BY DEF IInv, HoldsFreeId, HoldsId, TypeOK
<1>4. HoldsNewKey'
  BY DEF IInv, HoldsNewKey, HoldsKey, TypeOK
<1>5. KnowsItsAnswer'
  BY DEF IInv, KnowsItsAnswer, TypeOK
<1> QED
  BY <1>1, <1>2, <1>3, <1>4, <1>5 DEF IInv

LEMMA InsertTransactionInv ==
    ASSUME IInv, NEW h \in Handler, InsertTransaction(h)
    PROVE  IInv'
<1>1. CASE row[id[h]] # Free
  <2>1. Finish(h) /\ UNCHANGED <<committed, clients, faults>>
    BY <1>1 DEF InsertTransaction
  <2> QED
    BY <2>1, FinishInv DEF IInv, TypeOK, AnsweredRows, clients
<1>2. CASE row[id[h]] = Free
  <2> USE <1>2 DEF InsertTransaction, Goto, committed, clients
  <2>1. TypeOK'
    BY DEF IInv, TypeOK, PC, InTransaction
  <2>2. KeyAndTransactionTogether' /\ AnsweredRows'
    BY DEF IInv, KeyAndTransactionTogether, AnsweredRows
  <2>3. HoldsFreeId'
    BY DEF IInv, HoldsFreeId, HoldsId, KnowsItsAnswer, TypeOK
  <2>4. HoldsNewKey'
    BY DEF IInv, HoldsNewKey, HoldsKey, TypeOK
  <2>5. KnowsItsAnswer'
    BY DEF IInv, KnowsItsAnswer, TypeOK
  <2> QED
    BY <2>1, <2>2, <2>3, <2>4, <2>5 DEF IInv
<1> QED
  BY <1>1, <1>2

LEMMA InsertKeyInv ==
    ASSUME IInv, NEW h \in Handler, InsertKey(h)
    PROVE  IInv'
<1>1. CASE idem[key[h]] # NoTrx
  <2>1. Finish(h) /\ UNCHANGED <<committed, clients, faults>>
    BY <1>1 DEF InsertKey
  <2> QED
    BY <2>1, FinishInv DEF IInv, TypeOK, AnsweredRows, clients
<1>2. CASE idem[key[h]] = NoTrx
  <2> USE <1>2 DEF InsertKey, Goto, committed, clients
  <2>1. TypeOK'
    BY DEF IInv, TypeOK, PC, InTransaction
  <2>2. KeyAndTransactionTogether' /\ AnsweredRows'
    BY DEF IInv, KeyAndTransactionTogether, AnsweredRows
  <2>3. HoldsFreeId'
    BY DEF IInv, HoldsFreeId, HoldsId, TypeOK
  <2>4. HoldsNewKey'
    BY DEF IInv, HoldsNewKey, HoldsKey, TypeOK
  <2>5. KnowsItsAnswer'
    BY DEF IInv, KnowsItsAnswer, TypeOK
  <2> QED
    BY <2>1, <2>2, <2>3, <2>4, <2>5 DEF IInv
<1> QED
  BY <1>1, <1>2

LEMMA CommitInv ==
    ASSUME IInv, NEW h \in Handler, Commit(h)
    PROVE  IInv'
<1> USE DEF Commit, Goto, clients
<1>1. id[h] \in TrxId /\ row'[id[h]] = key[h]
  BY DEF Apply, IInv, HoldsFreeId, TypeOK
<1>2. /\ row' \in [TrxId -> Request \cup {Free}] /\ idem' \in [Key -> TrxId \cup {NoTrx}]
      /\ KeyAndTransactionTogether' /\ AnsweredRows'
  BY ApplyTables
<1>3. \A g \in Handler \ {h} :
         /\ pc[g] \in {"key", "commit"} => row'[id[g]] = Free
         /\ pc[g] = "commit" /\ key[g] \in Key => idem'[key[g]] = NoTrx
         /\ pc[g] = "respond" => row'[id[g]] = key[g]
  BY ApplyOthers
<1>4. TypeOK'
  BY <1>2 DEF IInv, TypeOK, PC, InTransaction
<1>5. HoldsFreeId'
  BY <1>3 DEF IInv, HoldsFreeId, HoldsId, TypeOK
<1>6. HoldsNewKey'
  BY <1>3 DEF IInv, HoldsNewKey, HoldsKey, TypeOK
<1>7. KnowsItsAnswer'
  BY <1>1, <1>3 DEF IInv, KnowsItsAnswer, TypeOK
<1> QED
  BY <1>2, <1>4, <1>5, <1>6, <1>7 DEF IInv

LEMMA RespondInv ==
    ASSUME IInv, NEW h \in Handler, Respond(h)
    PROVE  IInv'
<1>1. id[h] \in TrxId /\ key[h] \in Request /\ row[id[h]] = key[h]
  BY DEF Respond, IInv, KnowsItsAnswer, TypeOK
<1>2. answers' \in SUBSET Answer /\ \A a \in answers' : row[a.id] = a.key
  BY <1>1 DEF Respond, IInv, TypeOK, Answer, AnsweredRows
<1> QED
  BY <1>2, FinishInv DEF Respond, IInv, TypeOK

(* Failures only forget, except a commit whose acknowledgement is lost. *)
LEMMA CommitReplyLostInv ==
    ASSUME IInv, NEW h \in Handler, CommitReplyLost(h), faults' \in 0..MaxFaults
    PROVE  IInv'
<1> USE DEF CommitReplyLost, Finish, Goto, clients
<1>1. /\ row' \in [TrxId -> Request \cup {Free}] /\ idem' \in [Key -> TrxId \cup {NoTrx}]
      /\ KeyAndTransactionTogether' /\ AnsweredRows'
  BY ApplyTables
<1>2. \A g \in Handler \ {h} :
         /\ pc[g] \in {"key", "commit"} => row'[id[g]] = Free
         /\ pc[g] = "commit" /\ key[g] \in Key => idem'[key[g]] = NoTrx
         /\ pc[g] = "respond" => row'[id[g]] = key[g]
  BY ApplyOthers
<1>3. TypeOK'
  BY <1>1 DEF IInv, TypeOK, PC, InTransaction, Request
<1>4. HoldsFreeId'
  BY <1>2 DEF IInv, HoldsFreeId, HoldsId, TypeOK
<1>5. HoldsNewKey'
  BY <1>2 DEF IInv, HoldsNewKey, HoldsKey, TypeOK
<1>6. KnowsItsAnswer'
  BY <1>2 DEF IInv, KnowsItsAnswer, TypeOK
<1> QED
  BY <1>1, <1>3, <1>4, <1>5, <1>6 DEF IInv

LEMMA CheckFailsInv ==
    ASSUME IInv, NEW h \in Handler, CheckFails(h), faults' \in 0..MaxFaults
    PROVE  IInv'
<1> USE DEF CheckFails, Goto, committed, clients
<1>1. TypeOK'
  BY DEF IInv, TypeOK, PC, InTransaction
<1>2. KeyAndTransactionTogether' /\ AnsweredRows'
  BY DEF IInv, KeyAndTransactionTogether, AnsweredRows
<1>3. HoldsFreeId'
  BY DEF IInv, HoldsFreeId, HoldsId, TypeOK
<1>4. HoldsNewKey'
  BY DEF IInv, HoldsNewKey, HoldsKey, TypeOK
<1>5. KnowsItsAnswer'
  BY DEF IInv, KnowsItsAnswer, TypeOK
<1> QED
  BY <1>1, <1>2, <1>3, <1>4, <1>5 DEF IInv

LEMMA CrashInv ==
    ASSUME IInv, Crash, faults' \in 0..MaxFaults
    PROVE  IInv'
BY DEF Crash, IInv, TypeOK, KeyAndTransactionTogether, AnsweredRows, HoldsFreeId,
   HoldsNewKey, KnowsItsAnswer, PC, InTransaction, Request, committed, clients

LEMMA BreakInv ==
    ASSUME IInv, Break
    PROVE  IInv'
<1>1. faults' \in 0..MaxFaults
  BY ProcessConstants DEF Break, IInv, TypeOK
<1>2. CASE Crash
  BY <1>1, <1>2, CrashInv
<1>3. ASSUME NEW h \in Handler, Fault(h)
      PROVE  IInv'
  <2>1. CASE CheckFails(h)
    BY <1>1, <2>1, CheckFailsInv
  <2>2. CASE StatementFails(h) \/ ResponseLost(h)
    BY <1>1, <2>2, FinishInv
       DEF StatementFails, ResponseLost, IInv, TypeOK, AnsweredRows, clients
  <2>3. CASE CommitReplyLost(h)
    BY <1>1, <2>3, CommitReplyLostInv
  <2> QED
    BY <1>3, <2>1, <2>2, <2>3 DEF Fault
<1> QED
  BY <1>2, <1>3 DEF Break

LEMMA NextInv == IInv /\ [Next]_vars => IInv'
<1> SUFFICES ASSUME IInv, [Next]_vars PROVE IInv'
  OBVIOUS
<1>1. ASSUME NEW h \in Handler, NEW k \in Request, Start(h, k)
      PROVE  IInv'
  BY <1>1, StartInv
<1>2. ASSUME NEW h \in Handler, Step(h)
      PROVE  IInv'
  BY <1>2, CheckKeyInv, GenerateIdInv, InsertTransactionInv, InsertKeyInv,
     CommitInv, RespondInv DEF Step
<1>3. CASE Break
  BY <1>3, BreakInv
<1>4. CASE UNCHANGED vars
  BY <1>4 DEF vars, committed, clients, IInv, TypeOK, KeyAndTransactionTogether,
     AnsweredRows, HoldsFreeId, HoldsId, HoldsNewKey, HoldsKey, KnowsItsAnswer
<1> QED
  BY <1>1, <1>2, <1>3, <1>4 DEF Next, Rest

------------------------------------------------------------------------------
(* Theorems *)

LEMMA Invariance == Spec => []IInv
BY InitInv, NextInv, PTL DEF Spec

(* Type correctness of Process and its failures. *)
THEOREM TypeCorrect == Spec => []TypeOK
<1>1. IInv => TypeOK
  BY DEF IInv
<1> QED
  BY <1>1, Invariance, PTL

(* Whatever overlaps, fails and is repeated, an idempotency key never gets *)
(* two transactions (Process, lines 44-133).                               *)
THEOREM AtMostOneTransaction == Spec => []OneTransactionPerKey
BY InvImplies, Invariance, PTL

(* A transaction created with a key and the cached response of the key     *)
(* exist together or not at all (lines 82-133).                            *)
THEOREM Together == Spec => []KeyAndTransactionTogether
<1>1. IInv => KeyAndTransactionTogether
  BY DEF IInv
<1> QED
  BY <1>1, Invariance, PTL

(* Every 201 a client saw names a committed transaction of its own request,*)
(* the same one for every request with the key (lines 46-55, 111-135).     *)
THEOREM TruthfulAnswers == Spec => []AnswersAreTrue
BY InvImplies, Invariance, PTL

(* A committed transaction is never overwritten by another request.        *)
THEOREM RowsAreKept == Spec => IdsAreNotReused
<1>1. IInv /\ [Next]_vars => [\A i \in TrxId : row[i] # Free => row'[i] = row[i]]_vars
  <2> SUFFICES ASSUME IInv, [Next]_vars, NEW i \in TrxId, row[i] # Free
               PROVE  row'[i] = row[i]
    OBVIOUS
  <2>1. ASSUME NEW h \in Handler, pc[h] = "commit", Apply(h)
        PROVE  row'[i] = row[i]
    BY <2>1 DEF Apply, IInv, TypeOK, HoldsFreeId
  <2>2. CASE UNCHANGED row
    BY <2>2
  <2> QED
    BY <2>1, <2>2 DEF Next, Start, Step, CheckKey, GenerateId, InsertTransaction,
       InsertKey, Commit, Respond, Break, Crash, Fault, CheckFails, StatementFails,
       CommitReplyLost, ResponseLost, Rest, vars, committed
<1> QED
  BY <1>1, Invariance, PTL DEF Spec, IdsAreNotReused
==============================================================================
