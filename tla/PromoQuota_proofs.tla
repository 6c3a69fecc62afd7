-------------------------- MODULE PromoQuota_proofs --------------------------
(***************************************************************************)
(* Theorems about PromoQuota, for any number of promos, quotas, requests   *)
(* in progress and failures.                                               *)
(***************************************************************************)
EXTENDS PromoQuota, FiniteSetTheorems, TLAPS

(* The lock: one request at most is between its read of a row and its      *)
(* commit, and so what it read is what the row holds.                      *)
OneHolder ==
    \A g, h \in Handler : pc[g] \in Locked /\ pc[h] \in Locked /\ code[g] = code[h] => g = h

FreshCopy ==
    \A h \in Handler :
        /\ pc[h] = "check" => copy[h] = quota[code[h]]
        /\ pc[h] = "save" => copy[h] = quota[code[h]] /\ quota[code[h]] > 0
        /\ pc[h] = "commit" => copy[h] + 1 = quota[code[h]]

(* Requests that committed and have not answered yet. *)
Granting(p) == {h \in Handler : pc[h] = "valid" /\ code[h] = p}

GrantsAreSpent == \A p \in Promo : granted[p] + Cardinality(Granting(p)) <= spent[p]

IInv == /\ TypeOK
        /\ OneHolder
        /\ FreshCopy
        /\ QuotaIsConserved
        /\ GrantsAreSpent

------------------------------------------------------------------------------
LEMMA OneMore ==
    ASSUME NEW S, NEW x, IsFiniteSet(S)
    PROVE  /\ IsFiniteSet(S \cup {x})
           /\ Cardinality(S \cup {x}) \in Nat
           /\ Cardinality(S \cup {x}) <= Cardinality(S) + 1
<1> DEFINE T == S \cup {x}
<1>1. /\ IsFiniteSet(T)
      /\ Cardinality(T) = IF x \in S THEN Cardinality(S) ELSE Cardinality(S) + 1
  BY FS_AddElement
<1>2. Cardinality(S) \in Nat
  BY FS_CardinalityType
<1> HIDE DEF T
<1>3. Cardinality(T) \in Nat /\ Cardinality(T) <= Cardinality(S) + 1
  BY <1>1, <1>2
<1> QED
  BY <1>1, <1>3 DEF T

LEMMA GrantingFinite ==
    \A p \in Promo : /\ IsFiniteSet(Granting(p))
                     /\ Cardinality(Granting(p)) \in Nat
<1> TAKE p \in Promo
<1>1. Granting(p) \subseteq Handler
  BY DEF Granting
<1>2. IsFiniteSet(Granting(p))
  BY <1>1, FS_Subset, PromoConstants
<1> QED
  BY <1>2, FS_CardinalityType

LEMMA InvImplies == IInv => NoOverGrant
BY PromoConstants, GrantingFinite DEF IInv, TypeOK, QuotaIsConserved, GrantsAreSpent, NoOverGrant

LEMMA InitInv == Init => IInv
<1> SUFFICES ASSUME Init PROVE IInv
  OBVIOUS
<1>1. TypeOK /\ OneHolder /\ FreshCopy /\ QuotaIsConserved
  BY PromoConstants DEF Init, TypeOK, PC, Locked, OneHolder, FreshCopy, QuotaIsConserved
<1>2. \A p \in Promo : Granting(p) = {}
  BY DEF Init, Granting
<1>3. GrantsAreSpent
  BY <1>2, FS_EmptySet DEF Init, GrantsAreSpent
<1> QED
  BY <1>1, <1>3 DEF IInv

(* A step after which no more requests are about to grant. *)
LEMMA FewerGranting ==
    ASSUME IInv, UNCHANGED <<granted, spent>>,
           \A p \in Promo : Granting(p)' \subseteq Granting(p)
    PROVE  GrantsAreSpent'
<1> SUFFICES ASSUME NEW p \in Promo
             PROVE  granted'[p] + Cardinality(Granting(p)') <= spent'[p]
  BY DEF GrantsAreSpent
<1>1. Cardinality(Granting(p)') <= Cardinality(Granting(p)) /\ Cardinality(Granting(p)') \in Nat
  BY GrantingFinite, FS_Subset, FS_CardinalityType
<1> QED
  BY <1>1, GrantingFinite DEF IInv, TypeOK, GrantsAreSpent

(* Steps that leave the tables alone and take no lock. *)
LEMMA QuietInv ==
    ASSUME IInv, NEW h \in Handler, NEW next \in PC \ {"check", "valid"}, Goto(h, next),
           UNCHANGED <<quota, spent, granted>>, faults' \in 0..MaxFaults,
           code' \in [Handler -> Promo], copy' \in [Handler -> Nat],
           \A g \in Handler \ {h} : UNCHANGED <<code[g], copy[g]>>,
           next \in Locked => pc[h] \in Locked /\ code'[h] = code[h],
           next = "save" => copy'[h] = quota[code[h]] /\ quota[code[h]] > 0,
           next = "commit" => copy'[h] + 1 = quota[code[h]]
    PROVE  IInv'
<1> USE DEF Goto
<1>1. pc' = [pc EXCEPT ![h] = next] /\ pc \in [Handler -> PC]
  BY DEF IInv, TypeOK
<1>2. TypeOK'
  BY <1>1 DEF IInv, TypeOK
<1>3. OneHolder'
  BY <1>1 DEF IInv, OneHolder
<1>4. FreshCopy'
  <2> SUFFICES ASSUME NEW g \in Handler
               PROVE  /\ pc'[g] = "check" => copy'[g] = quota'[code'[g]]
                      /\ pc'[g] = "save" => copy'[g] = quota'[code'[g]] /\ quota'[code'[g]] > 0
                      /\ pc'[g] = "commit" => copy'[g] + 1 = quota'[code'[g]]
    BY DEF FreshCopy
  <2>1. CASE g = h
    BY <1>1, <2>1 DEF Locked
  <2>2. CASE g # h
    BY <1>1, <2>2 DEF IInv, FreshCopy
  <2> QED
    BY <2>1, <2>2
<1>5. QuotaIsConserved'
  BY DEF IInv, QuotaIsConserved
<1>6. GrantsAreSpent'
  <2>1. \A p \in Promo : Granting(p)' \subseteq Granting(p)
    BY <1>1 DEF Granting
  <2> QED
    BY <2>1, FewerGranting
<1> QED
  BY <1>2, <1>3, <1>4, <1>5, <1>6 DEF IInv

LEMMA AskInv ==
    ASSUME IInv, NEW h \in Handler, NEW p \in Promo, Ask(h, p)
    PROVE  IInv'
<1>1. code' \in [Handler -> Promo] /\ \A g \in Handler \ {h} : code'[g] = code[g]
  BY DEF Ask, IInv, TypeOK
<1>2. UNCHANGED <<quota, spent, granted, copy, faults>> /\ Goto(h, "select")
  BY DEF Ask
<1> QED
  BY <1>1, <1>2, QuietInv DEF IInv, TypeOK, PC, Locked

LEMMA SelectForUpdateInv ==
    ASSUME IInv, NEW h \in Handler, SelectForUpdate(h)
    PROVE  IInv'
<1>1. CASE code[h] \notin Active
  BY <1>1, QuietInv DEF SelectForUpdate, IInv, TypeOK, PC, Locked
<1>2. CASE code[h] \in Active
  <2>1. /\ copy' = [copy EXCEPT ![h] = quota[code[h]]] /\ pc' = [pc EXCEPT ![h] = "check"]
        /\ \A g \in Handler : ~HoldsRow(g, code[h])
        /\ UNCHANGED <<quota, spent, granted, code, faults>>
    BY <1>2 DEF SelectForUpdate, Goto
  <2>2. TypeOK'
    BY <2>1 DEF IInv, TypeOK, PC, Locked
  <2>3. OneHolder'
    BY <2>1 DEF IInv, TypeOK, OneHolder, HoldsRow, Locked
  <2>4. FreshCopy'
    BY <2>1 DEF IInv, TypeOK, FreshCopy
  <2>5. QuotaIsConserved'
    BY <2>1 DEF IInv, QuotaIsConserved
  <2>6. GrantsAreSpent'
    <3>1. \A p \in Promo : Granting(p)' \subseteq Granting(p)
      BY <2>1 DEF Granting, IInv, TypeOK
    <3> QED
      BY <2>1, <3>1, FewerGranting
  <2> QED
    BY <2>2, <2>3, <2>4, <2>5, <2>6 DEF IInv
<1> QED
  BY <1>1, <1>2

LEMMA CheckQuotaInv ==
    ASSUME IInv, NEW h \in Handler, CheckQuota(h)
    PROVE  IInv'
<1> DEFINE next == IF copy[h] <= 0 THEN "invalid" ELSE "save"
<1>1. /\ pc[h] = "check" /\ Goto(h, next)
      /\ UNCHANGED <<quota, spent, granted, code, copy, faults>>
  BY DEF CheckQuota
<1>2. copy[h] = quota[code[h]] /\ copy[h] \in Nat
  BY <1>1 DEF IInv, TypeOK, FreshCopy
<1>3. /\ next \in {"invalid", "save"}
      /\ next = "save" => copy[h] = quota[code[h]] /\ quota[code[h]] > 0
  BY <1>2
<1> HIDE DEF next
<1> QED
  BY <1>1, <1>3, QuietInv DEF IInv, TypeOK, PC, Locked

LEMMA SavePromoInv ==
    ASSUME IInv, NEW h \in Handler, SavePromo(h)
    PROVE  IInv'
<1>1. /\ pc[h] = "save" /\ Goto(h, "commit") /\ copy' = [copy EXCEPT ![h] = @ - 1]
      /\ UNCHANGED <<quota, spent, granted, code, faults>>
  BY DEF SavePromo
<1>2. copy[h] = quota[code[h]] /\ quota[code[h]] > 0 /\ copy \in [Handler -> Nat]
  BY <1>1 DEF IInv, TypeOK, FreshCopy
<1>3. /\ copy' \in [Handler -> Nat] /\ copy'[h] + 1 = quota[code[h]]
      /\ \A g \in Handler \ {h} : copy'[g] = copy[g]
  BY <1>1, <1>2
<1> QED
  BY <1>1, <1>3, QuietInv DEF IInv, TypeOK, PC, Locked

(* The commit takes one unit of the quota the handler holds.               *)
LEMMA ApplyInv ==
    ASSUME IInv, NEW h \in Handler, pc[h] = "commit", Apply(h),
           NEW next \in {"valid", "invalid"}, Goto(h, next),
           UNCHANGED <<granted, code, copy>>, faults' \in 0..MaxFaults
    PROVE  IInv'
<1> DEFINE p == code[h]
<1>1. /\ p \in Promo /\ copy[h] \in Nat /\ copy[h] + 1 = quota[p]
      /\ quota \in [Promo -> Nat] /\ spent \in [Promo -> Nat] /\ granted \in [Promo -> Nat]
      /\ pc \in [Handler -> PC]
  BY DEF IInv, TypeOK, FreshCopy
<1>2. /\ quota' = [quota EXCEPT ![p] = copy[h]] /\ spent' = [spent EXCEPT ![p] = @ + 1]
      /\ pc' = [pc EXCEPT ![h] = next]
  BY DEF Apply, Goto
<1>3. \A g \in Handler \ {h} : pc[g] \in Locked => code[g] # p
  BY DEF IInv, OneHolder, Locked
<1> HIDE DEF p
<1>4. TypeOK'
  BY <1>1, <1>2 DEF IInv, TypeOK, PC, Locked
<1>5. OneHolder'
  BY <1>1, <1>2 DEF IInv, OneHolder, Locked
<1>6. FreshCopy'
  BY <1>1, <1>2, <1>3 DEF IInv, TypeOK, FreshCopy, Locked
<1>7. QuotaIsConserved'
  <2> SUFFICES ASSUME NEW q \in Promo PROVE quota'[q] + spent'[q] = InitQuota[q]
    BY DEF QuotaIsConserved
  <2>1. quota[q] + spent[q] = InitQuota[q]
    BY DEF IInv, QuotaIsConserved
  <2>2. CASE q = p
    <3>1. quota'[q] = copy[h] /\ spent'[q] = spent[q] + 1 /\ quota[q] = copy[h] + 1
          /\ copy[h] \in Nat /\ spent[q] \in Nat
      BY <1>1, <1>2, <2>2
    <3> QED
      BY <2>1, <3>1
  <2>3. CASE q # p
    BY <1>1, <1>2, <2>1, <2>3
  <2> QED
    BY <2>2, <2>3
<1>8. GrantsAreSpent'
  <2> SUFFICES ASSUME NEW q \in Promo
               PROVE  granted'[q] + Cardinality(Granting(q)') <= spent'[q]
    BY DEF GrantsAreSpent
  <2>1. granted[q] + Cardinality(Granting(q)) <= spent[q]
    BY DEF IInv, GrantsAreSpent
  <2>2. IsFiniteSet(Granting(q)) /\ Cardinality(Granting(q)) \in Nat
    BY GrantingFinite
  <2>3. CASE q = p
    <3>1. Granting(q)' \subseteq Granting(q) \cup {h}
      BY <1>1, <1>2, <2>3 DEF Granting
    <3>2. Cardinality(Granting(q) \cup {h}) <= Cardinality(Granting(q)) + 1
          /\ IsFiniteSet(Granting(q) \cup {h}) /\ Cardinality(Granting(q) \cup {h}) \in Nat
      BY <2>2, OneMore
    <3>3. Cardinality(Granting(q)') <= Cardinality(Granting(q)) + 1 /\ Cardinality(Granting(q)') \in Nat
      BY <2>2, <3>1, <3>2, FS_Subset, FS_CardinalityType
    <3> QED
      BY <1>1, <1>2, <2>1, <2>2, <2>3, <3>3
  <2>4. CASE q # p
    <3>1. Granting(q)' = Granting(q)
      BY <1>1, <1>2, <2>4 DEF Granting, p
    <3> QED
      BY <1>1, <1>2, <2>1, <2>4, <3>1
  <2> QED
    BY <2>3, <2>4
<1> QED
  BY <1>4, <1>5, <1>6, <1>7, <1>8 DEF IInv

(* A request that committed is counted as granted when it answers.         *)
LEMMA AnswerValidInv ==
    ASSUME IInv, NEW h \in Handler, AnswerValid(h)
    PROVE  IInv'
<1>1. /\ pc[h] = "valid" /\ granted' = [granted EXCEPT ![code[h]] = @ + 1]
      /\ pc' = [pc EXCEPT ![h] = "idle"] /\ UNCHANGED <<quota, spent, code, copy, faults>>
  BY DEF AnswerValid, Goto
<1>2. /\ pc \in [Handler -> PC] /\ granted \in [Promo -> Nat] /\ code[h] \in Promo
      /\ spent \in [Promo -> Nat]
  BY DEF IInv, TypeOK
<1>3. TypeOK'
  BY <1>1, <1>2 DEF IInv, TypeOK, PC
<1>4. OneHolder' /\ FreshCopy' /\ QuotaIsConserved'
  BY <1>1, <1>2 DEF IInv, OneHolder, FreshCopy, QuotaIsConserved, Locked
<1>5. GrantsAreSpent'
  <2> SUFFICES ASSUME NEW q \in Promo
               PROVE  granted'[q] + Cardinality(Granting(q)') <= spent'[q]
    BY DEF GrantsAreSpent
  <2>1. granted[q] + Cardinality(Granting(q)) <= spent[q]
    BY DEF IInv, GrantsAreSpent
  <2>2. IsFiniteSet(Granting(q)) /\ Cardinality(Granting(q)) \in Nat
    BY GrantingFinite
  <2>3. CASE q = code[h]
    <3>1. h \in Granting(q) /\ Granting(q)' = Granting(q) \ {h}
      BY <1>1, <1>2, <2>3 DEF Granting
    <3>2. Cardinality(Granting(q)') = Cardinality(Granting(q)) - 1
      BY <2>2, <3>1, FS_RemoveElement
    <3> QED
      BY <1>1, <1>2, <2>1, <2>2, <2>3, <3>2
  <2>4. CASE q # code[h]
    <3>1. Granting(q)' = Granting(q)
      BY <1>1, <1>2, <2>4 DEF Granting
    <3> QED
      BY <1>1, <1>2, <2>1, <2>4, <3>1
  <2> QED
    BY <2>3, <2>4
<1> QED
  BY <1>3, <1>4, <1>5 DEF IInv

LEMMA StepInv ==
    ASSUME IInv, NEW h \in Handler, Step(h)
    PROVE  IInv'
<1>1. CASE Commit(h)
  BY <1>1, ApplyInv DEF Commit, IInv, TypeOK
<1>2. CASE AnswerInvalid(h)
  BY <1>2, QuietInv DEF AnswerInvalid, IInv, TypeOK, PC, Locked
<1> QED
  BY <1>1, <1>2, SelectForUpdateInv, CheckQuotaInv, SavePromoInv, AnswerValidInv DEF Step

LEMMA BreakInv ==
    ASSUME IInv, Break
    PROVE  IInv'
<1>1. faults' \in 0..MaxFaults
  BY PromoConstants DEF Break, IInv, TypeOK
<1>2. CASE Crash
  <2>1. TypeOK'
    BY <1>1, <1>2 DEF Crash, IInv, TypeOK, PC
  <2>2. OneHolder' /\ FreshCopy' /\ QuotaIsConserved'
    BY <1>2 DEF Crash, IInv, OneHolder, FreshCopy, QuotaIsConserved, Locked
  <2>3. \A p \in Promo : Granting(p)' \subseteq Granting(p)
    BY <1>2 DEF Crash, Granting
  <2> QED
    BY <1>2, <2>1, <2>2, <2>3, FewerGranting DEF Crash, IInv
<1>3. ASSUME NEW h \in Handler, StatementFails(h) \/ AnswerLost(h)
      PROVE  IInv'
  BY <1>1, <1>3, QuietInv DEF StatementFails, AnswerLost, IInv, TypeOK, PC, Locked
<1>4. ASSUME NEW h \in Handler, CommitReplyLost(h)
      PROVE  IInv'
  BY <1>1, <1>4, ApplyInv DEF CommitReplyLost
<1> QED
  BY <1>2, <1>3, <1>4 DEF Break

LEMMA NextInv == IInv /\ [Next]_vars => IInv'
<1> SUFFICES ASSUME IInv, [Next]_vars PROVE IInv'
  OBVIOUS
<1>1. CASE UNCHANGED vars
  BY <1>1 DEF vars, IInv, TypeOK, OneHolder, FreshCopy, QuotaIsConserved, GrantsAreSpent, Granting
<1> QED
  BY <1>1, AskInv, StepInv, BreakInv DEF Next

LEMMA Invariance == Spec => []IInv
BY InitInv, NextInv, PTL DEF Spec

------------------------------------------------------------------------------
(* Theorems *)

(* Type correctness of CheckPromo: a quota never becomes negative.         *)
THEOREM TypeCorrect == Spec => []TypeOK
<1>1. IInv => TypeOK
  BY DEF IInv
<1> QED
  BY <1>1, Invariance, PTL

(* No decrement of a quota is lost or made twice (CheckPromo, lines 43-68).*)
THEOREM Conserved == Spec => []QuotaIsConserved
<1>1. IInv => QuotaIsConserved
  BY DEF IInv
<1> QED
  BY <1>1, Invariance, PTL

(* A promo is granted at most as often as its quota says, whatever fails.  *)
THEOREM NeverOverGranted == Spec => []NoOverGrant
BY InvImplies, Invariance, PTL

(* The quota read under the lock is the quota at the commit.               *)
THEOREM TakesOne == Spec => TakesOneOfWhatIsLeft
<1>1. IInv /\ [Next]_vars =>
          [\A p \in Promo : quota'[p] # quota[p] => quota[p] > 0 /\ quota'[p] = quota[p] - 1]_vars
  <2> SUFFICES ASSUME IInv, [Next]_vars, NEW p \in Promo, quota'[p] # quota[p]
               PROVE  quota[p] > 0 /\ quota'[p] = quota[p] - 1
    OBVIOUS
  <2>1. PICK h \in Handler : pc[h] = "commit" /\ Apply(h)
    BY DEF Next, Ask, Step, SelectForUpdate, CheckQuota, SavePromo, Commit, AnswerValid,
       AnswerInvalid, Break, Crash, StatementFails, CommitReplyLost, AnswerLost, vars
  <2> QED
    BY <2>1 DEF Apply, IInv, TypeOK, FreshCopy
<1> QED
  BY <1>1, Invariance, PTL DEF Spec, TakesOneOfWhatIsLeft
==============================================================================
