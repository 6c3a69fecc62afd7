----------------------------- MODULE PromoQuota ------------------------------
(***************************************************************************)
(* promo-service: ApplyPromo and CheckPromo.  A code is spent by reading   *)
(* its row FOR UPDATE, testing the quota and saving the whole row with one *)
(* unit less, in one transaction; the row is locked from the read to the   *)
(* commit.  Every error is answered with IsValid = false.                  *)
(***************************************************************************)
EXTENDS Integers, FiniteSets

CONSTANTS Promo,     \* rows of table promos
          InitQuota, \* their quota when the service starts
          Active,    \* the promos with active = true
          Handler,   \* requests that can be in progress at one time
          MaxFaults  \* bound on the failures of a behaviour

ASSUME PromoConstants ==
    /\ InitQuota \in [Promo -> Nat]
    /\ Active \subseteq Promo
    /\ IsFiniteSet(Handler)
    /\ MaxFaults \in Nat

VARIABLES
    quota,   \* committed: promos.quota
    spent,   \* history: decrements committed for each promo
    granted, \* history: IsValid = true answers clients have seen
    pc,      \* what each handler does next
    code,    \* the promo it was asked for (no meaning when idle)
    copy,    \* the quota it read
    faults   \* failures left

vars == <<quota, spent, granted, pc, code, copy, faults>>

Locked == {"check", "save", "commit"}
PC == {"idle", "select", "valid", "invalid"} \cup Locked

TypeOK ==
    /\ quota \in [Promo -> Nat]
    /\ spent \in [Promo -> Nat]
    /\ granted \in [Promo -> Nat]
    /\ pc \in [Handler -> PC]
    /\ code \in [Handler -> Promo]
    /\ copy \in [Handler -> Nat]
    /\ faults \in 0..MaxFaults

Goto(h, next) == pc' = [pc EXCEPT ![h] = next]

(* Mutant of HoldsRow: the read takes no lock, the UPDATE does. *)
HoldsRowFromSave(h, p) == pc[h] = "commit" /\ code[h] = p

HoldsRow(h, p) == pc[h] \in Locked /\ code[h] = p

------------------------------------------------------------------------------
Init ==
    /\ quota = InitQuota
    /\ spent = [p \in Promo |-> 0]
    /\ granted = [p \in Promo |-> 0]
    /\ pc = [h \in Handler |-> "idle"]
    /\ code \in [Handler -> Promo]
    /\ copy = [h \in Handler |-> 0]
    /\ faults = MaxFaults

Ask(h, p) ==
    /\ pc[h] = "idle"
    /\ code' = [code EXCEPT ![h] = p]
    /\ Goto(h, "select")
    /\ UNCHANGED <<quota, spent, granted, copy, faults>>

(* SELECT ... FOR UPDATE waits for the row and then reads its last         *)
(* committed version; an inactive promo is not found and not locked.       *)
SelectForUpdate(h) ==
    /\ pc[h] = "select"
    /\ IF code[h] \in Active
       THEN /\ \A g \in Handler : ~HoldsRow(g, code[h])
            /\ copy' = [copy EXCEPT ![h] = quota[code[h]]]
            /\ Goto(h, "check")
       ELSE /\ Goto(h, "invalid")
            /\ UNCHANGED copy
    /\ UNCHANGED <<quota, spent, granted, code, faults>>

(* Mutant of CheckQuota: an exhausted promo is read again and again, its    *)
(* row locked.                                                             *)
CheckKeepsRow(h) ==
    /\ pc[h] = "check"
    /\ Goto(h, IF copy[h] <= 0 THEN "check" ELSE "save")
    /\ UNCHANGED <<quota, spent, granted, code, copy, faults>>

(* An exhausted quota returns an error: rollback. *)
CheckQuota(h) ==
    /\ pc[h] = "check"
    /\ Goto(h, IF copy[h] <= 0 THEN "invalid" ELSE "save")
    /\ UNCHANGED <<quota, spent, granted, code, copy, faults>>

(* promo.Quota--; Save writes every column of the copy. *)
SavePromo(h) ==
    /\ pc[h] = "save"
    /\ copy' = [copy EXCEPT ![h] = @ - 1]
    /\ Goto(h, "commit")
    /\ UNCHANGED <<quota, spent, granted, code, faults>>

Apply(h) == /\ quota' = [quota EXCEPT ![code[h]] = copy[h]]
            /\ spent' = [spent EXCEPT ![code[h]] = @ + 1]

Commit(h) ==
    /\ pc[h] = "commit"
    /\ Apply(h)
    /\ Goto(h, "valid")
    /\ UNCHANGED <<granted, code, copy, faults>>

AnswerValid(h) ==
    /\ pc[h] = "valid"
    /\ granted' = [granted EXCEPT ![code[h]] = @ + 1]
    /\ Goto(h, "idle")
    /\ UNCHANGED <<quota, spent, code, copy, faults>>

AnswerInvalid(h) ==
    /\ pc[h] = "invalid"
    /\ Goto(h, "idle")
    /\ UNCHANGED <<quota, spent, granted, code, copy, faults>>

------------------------------------------------------------------------------
(* Failures *)

(* Mutant of StatementFails: the discount is granted without a commit. *)
FailureGranted(h) ==
    /\ pc[h] \in {"select"} \cup Locked
    /\ Goto(h, "valid")
    /\ UNCHANGED <<quota, spent, granted, code, copy>>

(* Begin, a statement or Commit fails: rollback, IsValid = false. *)
StatementFails(h) ==
    /\ pc[h] \in {"select"} \cup Locked
    /\ Goto(h, "invalid")
    /\ UNCHANGED <<quota, spent, granted, code, copy>>

(* The commit is applied and its acknowledgement lost: the unit is spent   *)
(* and the client is told that the promo is not valid.                     *)
CommitReplyLost(h) ==
    /\ pc[h] = "commit"
    /\ Apply(h)
    /\ Goto(h, "invalid")
    /\ UNCHANGED <<granted, code, copy>>

(* The answer does not reach the client. *)
AnswerLost(h) ==
    /\ pc[h] \in {"valid", "invalid"}
    /\ Goto(h, "idle")
    /\ UNCHANGED <<quota, spent, granted, code, copy>>

(* The process dies; the server rolls back and releases the rows. *)
Crash ==
    /\ \E h \in Handler : pc[h] # "idle"
    /\ pc' = [h \in Handler |-> "idle"]
    /\ UNCHANGED <<quota, spent, granted, code, copy>>

Break == /\ faults > 0
         /\ faults' = faults - 1
         /\ \/ Crash
            \/ \E h \in Handler :
                   StatementFails(h) \/ CommitReplyLost(h) \/ AnswerLost(h)

------------------------------------------------------------------------------
Step(h) == \/ SelectForUpdate(h) \/ CheckQuota(h) \/ SavePromo(h)
           \/ Commit(h) \/ AnswerValid(h) \/ AnswerInvalid(h)

Next == \/ \E h \in Handler, p \in Promo : Ask(h, p)
        \/ \E h \in Handler : Step(h)
        \/ Break

Spec == Init /\ [][Next]_vars

(* Goroutines are scheduled, and PostgreSQL queues the transactions that   *)
(* wait for a row lock: none is overtaken for ever.                        *)
FairSpec == Spec /\ \A h \in Handler : SF_vars(Step(h))

------------------------------------------------------------------------------
(* Properties *)

(* Every committed decrement takes exactly one unit, whichever requests    *)
(* overlap: no update is lost ("mengunci baris agar kuota promo tidak      *)
(* jebol akibat race condition"; lines 43-68).                             *)
QuotaIsConserved == \A p \in Promo : quota[p] + spent[p] = InitQuota[p]

(* No client is told that a promo is valid beyond its quota.               *)
NoOverGrant == \A p \in Promo : granted[p] <= InitQuota[p]

(* A unit is taken only from a promo that has one left: the quota read     *)
(* under the lock is still the quota when the new one is committed.        *)
TakesOneOfWhatIsLeft ==
    [][\A p \in Promo : quota'[p] # quota[p] => quota[p] > 0 /\ quota'[p] = quota[p] - 1]_vars

(* Every request is answered: a request that waits for the row of a popular *)
(* promo gets it.                                                          *)
EveryRequestEnds == \A h \in Handler : pc[h] # "idle" ~> pc[h] = "idle"
==============================================================================
