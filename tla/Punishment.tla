------------------------------ MODULE Punishment ------------------------------
(***************************************************************************)
(* punishment-service.  ApplyPunishment stores a violation and then the    *)
(* status of the account, without a transaction around the two.            *)
(***************************************************************************)
EXTENDS Integers, Sequences

CONSTANTS Account,
          Duration,     \* hours of the requests; -1 bans
          Handler,      \* requests that can be in progress at one time
          MaxViolations \* bound on the violations stored

VARIABLES violations, \* violation_logs of an account, in the order they were stored
          standing,   \* account_statuses: "none" without a row
          disturbed,  \* history: accounts whose last requests overlapped, or
                      \* one of which was given up between its two writes
          pc, req     \* the next statement of a request, and what it asks for

vars == <<violations, standing, disturbed, pc, req>>

Request == [account : Account, duration : Duration]
NoRequest == [account |-> "none", duration |-> 0]

Init ==
    /\ violations = [a \in Account |-> <<>>]
    /\ standing = [a \in Account |-> "none"]
    /\ disturbed = {}
    /\ pc = [h \in Handler |-> "idle"]
    /\ req = [h \in Handler |-> NoRequest]

NewStatus(duration) == CASE duration = -1 -> "Banned"
                         [] duration > 0 -> "Suspended"
                         [] OTHER -> "Warning"

Halfway(a) == {h \in Handler : pc[h] = "status" /\ req[h].account = a}

ApplyPunishment(h, q) ==
    /\ pc[h] = "idle"
    /\ pc' = [pc EXCEPT ![h] = "violation"]
    /\ req' = [req EXCEPT ![h] = q]
    /\ UNCHANGED <<violations, standing, disturbed>>

Total == LET Lengths[A \in SUBSET Account] ==
                 IF A = {} THEN 0
                 ELSE LET a == CHOOSE a \in A : TRUE
                      IN  Len(violations[a]) + Lengths[A \ {a}]
         IN  Lengths[Account]

StoreViolation(h) ==
    LET a == req[h].account
    IN  /\ pc[h] = "violation"
        /\ Total < MaxViolations
        /\ violations' = [violations EXCEPT ![a] = Append(@, req[h].duration)]
        /\ disturbed' = IF Halfway(a) = {} THEN disturbed \ {a} ELSE disturbed \cup {a}
        /\ pc' = [pc EXCEPT ![h] = "status"]
        /\ UNCHANGED <<standing, req>>

Finish(h) == /\ pc' = [pc EXCEPT ![h] = "idle"]
             /\ req' = [req EXCEPT ![h] = NoRequest]

(* Mutant of UpdateAccountStatus: an account that has a row keeps it. *)
CreateAccountStatus(h) ==
    LET a == req[h].account
    IN  /\ pc[h] = "status"
        /\ standing' = [standing EXCEPT ![a] = IF @ = "none" THEN NewStatus(req[h].duration) ELSE @]
        /\ Finish(h)
        /\ UNCHANGED <<violations, disturbed>>

(* Save of GORM: the row is updated, or inserted if there is none. *)
UpdateAccountStatus(h) ==
    /\ pc[h] = "status"
    /\ standing' = [standing EXCEPT ![req[h].account] = NewStatus(req[h].duration)]
    /\ Finish(h)
    /\ UNCHANGED <<violations, disturbed>>

(* A statement fails, or the process dies: a violation that was stored      *)
(* stays without its status.                                               *)
GiveUp(h) ==
    /\ pc[h] # "idle"
    /\ Finish(h)
    /\ disturbed' = IF pc[h] = "status" THEN disturbed \cup {req[h].account} ELSE disturbed
    /\ UNCHANGED <<violations, standing>>

Next == \E h \in Handler : \/ \E q \in Request : ApplyPunishment(h, q)
                           \/ StoreViolation(h)
                           \/ UpdateAccountStatus(h)
                           \/ GiveUp(h)

Spec == Init /\ [][Next]_vars

(* The status of an account is the one of its last violation, however often *)
(* a request was given up or met another one before: a request that runs    *)
(* alone puts the two tables in agreement again (lines 37-47).  This is     *)
(* what the code does, and it is not what the repository means by a ban:    *)
(* see BanStands.                                                          *)
StandingIsOfLastViolation ==
    \A a \in Account \ disturbed :
        \/ Halfway(a) # {}
        \/ violations[a] = <<>> /\ standing[a] = "none"
        \/ /\ violations[a] # <<>>
           /\ standing[a] = NewStatus(violations[a][Len(violations[a])])

(* A ban is for ever ("Banned permanen", punishment_service_test.go:56; it  *)
(* has no end, prd.md:466-468): an account that got one, and whose last     *)
(* requests neither overlapped nor were given up, is banned.  Violated:     *)
(* lines 27-44 compute the status from the request alone and store it over  *)
(* the ban.                                                                *)
BanStands ==
    \A a \in Account \ disturbed :
        Halfway(a) = {} /\ (\E i \in DOMAIN violations[a] : violations[a][i] = -1)
            => standing[a] = "Banned"
==============================================================================
