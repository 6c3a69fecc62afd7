--------------------------- MODULE Services_proofs ---------------------------
(***************************************************************************)
(* Theorems about the services that keep records of their own: Booking,    *)
(* and what Location, Punishment, Orders, Rating and Quote promise, for    *)
(* any number of accounts, drivers, orders, reviewers and requests.        *)
(***************************************************************************)
EXTENDS Booking, Records, TLAPS

------------------------------------------------------------------------------
(* Booking *)

(* What decimal(10,2) keeps of a length that was cut to two decimals.      *)
LEMMA ColumnKeepsGenerated ==
    ASSUME NEW j \in Journey
    PROVE  Generated(j) \in Nat /\ Column(Generated(j)) = Generated(j)
<1>1. LengthOf[j] \in Nat
  BY BookingConstants
<1> QED
  BY <1>1 DEF Generated, Column

PriceOf(type, metres) ==
    Estimate([type |-> type, distance |-> metres \div 10,
              weight |-> 0, rush |-> FALSE, night |-> FALSE], DefaultRule[type]).price

LEMMA PriceOfNat ==
    ASSUME NEW type \in ServiceType, NEW metres \in Nat
    PROVE  PriceOf(type, metres) \in Nat
<1> DEFINE d == metres \div 10
<1>1. d \in Nat
  OBVIOUS
<1> HIDE DEF d
<1> DEFINE trip == [type |-> type, distance |-> d, weight |-> 0, rush |-> FALSE, night |-> FALSE]
           rule == DefaultRule[type]
<1>2. /\ rule.base \in Nat /\ rule.perKm \div 100 \in Nat /\ rule.min \in Nat
  BY DEF ServiceType, DefaultRule
<1>3. Distanced(rule, d) \in Nat
  <2>1. d > 200 => (d - 200) * (rule.perKm \div 100) \in Nat
    BY <1>1 DEF ServiceType, DefaultRule
  <2> QED
    BY <1>2, <2>1 DEF Distanced
<1>4. Loaded(trip, rule) = Distanced(rule, d)
  BY <1>3 DEF Loaded
<1>5. Exact(trip, rule) \in Nat
  BY <1>2, <1>3, <1>4 DEF Exact, Larger
<1>6. Round500(Exact(trip, rule)) \in Nat
  BY <1>5 DEF Round500
<1> QED
  BY <1>6 DEF PriceOf, Estimate, d

(* A route, stored or answered, is as long as the generator made it, and a *)
(* price that was told is the one of that length.                          *)
RoutesAsGenerated == \A j \in Journey : routes[j] \subseteq {Generated(j)}

ClientsAsGenerated ==
    \A c \in Client :
        /\ pc[c] # "idle" => wish[c] \in Wish
        /\ pc[c] \in {"save", "estimate"} => length[c] = Generated(wish[c].journey)

ToldAsGenerated ==
    \A t \in told : /\ t.length = Generated(t.journey)
                    /\ t.price = PriceOf(t.type, t.length)

(* Without a failure an instance that is seeding has seeded the rules it   *)
(* has passed, nobody serves before there are rules, and once there is one *)
(* the others are there or on their way.                                   *)
SeedingOnly ==
    \A r \in Replica : /\ seeded[r] \in 0..2
                       /\ boot[r] # "seed" => seeded[r] = 0

SeedsKept ==
    faults = MaxFaults =>
        /\ \A r \in Replica : /\ boot[r] = "seed" => \A i \in 1..seeded[r] : Seeds[i] \in rules
                              /\ boot[r] = "serve" => rules # {}
        /\ rules # {} => rules = ServiceType \/ \E r \in Replica : boot[r] = "seed"

Served == RoutesAsGenerated /\ ClientsAsGenerated /\ ToldAsGenerated
Seeded == SeedingOnly /\ SeedsKept
IInv == TypeOK /\ Served /\ Seeded

LEMMA InitInv == Init => IInv
<1> SUFFICES ASSUME Init PROVE IInv
  OBVIOUS
<1>1. TypeOK
  BY BookingConstants DEF Init, TypeOK, Seeds
<1>2. Served
  BY DEF Init, Served, RoutesAsGenerated, ClientsAsGenerated, ToldAsGenerated
<1>3. Seeded
  BY DEF Init, Seeded, SeedingOnly, SeedsKept
<1> QED
  BY <1>1, <1>2, <1>3 DEF IInv

------------------------------------------------------------------------------
(* Steps of the instances of pricing-service *)

LEMMA PricingKeepsServed ==
    ASSUME Served, UNCHANGED <<routes, client, told>>
    PROVE  Served'
BY DEF Served, RoutesAsGenerated, ClientsAsGenerated, ToldAsGenerated, client, Generated, PriceOf

LEMMA ConnectKeeps ==
    ASSUME IInv, NEW r \in Replica, ConnectDatabase(r)
    PROVE  IInv'
<1>1. TypeOK'
  BY DEF IInv, TypeOK, ConnectDatabase, client
<1>2. Served'
  BY PricingKeepsServed DEF IInv, ConnectDatabase
<1>3. Seeded'
  BY DEF IInv, Seeded, SeedingOnly, SeedsKept, ConnectDatabase, TypeOK
<1> QED
  BY <1>1, <1>2, <1>3 DEF IInv

LEMMA CountKeeps ==
    ASSUME IInv, NEW r \in Replica, CountRules(r)
    PROVE  IInv'
<1>1. TypeOK'
  BY DEF IInv, TypeOK, CountRules, client
<1>2. Served'
  BY PricingKeepsServed DEF IInv, CountRules
<1>3. Seeded'
  <2>1. CASE rules = {}
    <3>1. /\ boot' = [boot EXCEPT ![r] = "seed"] /\ boot[r] = "count"
          /\ UNCHANGED <<rules, seeded, faults>> /\ rules' = {}
      BY <2>1 DEF CountRules
    <3>2. SeedingOnly' /\ seeded'[r] = 0
      BY <3>1 DEF IInv, Seeded, SeedingOnly, TypeOK
    <3>3. faults = MaxFaults => \A q \in Replica : boot[q] # "serve"
      BY <2>1 DEF IInv, Seeded, SeedsKept
    <3>4. SeedsKept'
      BY <3>1, <3>2, <3>3 DEF IInv, Seeded, SeedsKept, TypeOK
    <3> QED
      BY <3>2, <3>4 DEF Seeded
  <2>2. CASE rules # {}
    <3>1. boot' = [boot EXCEPT ![r] = "serve"] /\ boot[r] = "count" /\ UNCHANGED <<rules, seeded, faults>>
      BY <2>2 DEF CountRules
    <3> QED
      BY <2>2, <3>1 DEF IInv, Seeded, SeedingOnly, SeedsKept, TypeOK
  <2> QED
    BY <2>1, <2>2
<1> QED
  BY <1>1, <1>2, <1>3 DEF IInv

(* The loop over the default rules goes on.                                *)
LEMMA Advances ==
    ASSUME TypeOK, SeedingOnly, NEW r \in Replica, boot[r] = "seed", Advance(r)
    PROVE  /\ boot' \in [Replica -> {"connect", "count", "seed", "serve"}]
           /\ seeded' \in [Replica -> 0..Len(Seeds)]
           /\ SeedingOnly'
           /\ \/ seeded[r] < 2 /\ boot' = boot /\ seeded'[r] = seeded[r] + 1
              \/ seeded[r] = 2 /\ boot'[r] = "serve"
           /\ \A q \in Replica \ {r} : boot'[q] = boot[q] /\ seeded'[q] = seeded[q]
<1>1. Len(Seeds) = 3 /\ seeded[r] \in 0..2
  <2>1. Len(Seeds) = 3
    BY DEF Seeds
  <2>2. seeded[r] \in 0..2
    BY DEF SeedingOnly
  <2> QED
    BY <2>1, <2>2
<1>2. /\ seeded' = [seeded EXCEPT ![r] = (seeded[r] + 1) % 3]
      /\ boot' = [boot EXCEPT ![r] = IF seeded[r] + 1 = 3 THEN "serve" ELSE boot[r]]
      /\ (seeded[r] + 1) % 3 \in 0..2
  BY <1>1 DEF Advance
<1>3. boot' \in [Replica -> {"connect", "count", "seed", "serve"}] /\ seeded' \in [Replica -> 0..3]
  BY <1>1, <1>2 DEF TypeOK
<1>4. \A q \in Replica \ {r} : boot'[q] = boot[q] /\ seeded'[q] = seeded[q]
  BY <1>1, <1>2 DEF TypeOK
<1>5. \/ seeded[r] < 2 /\ boot' = boot /\ seeded'[r] = seeded[r] + 1
      \/ seeded[r] = 2 /\ boot'[r] = "serve" /\ seeded'[r] = 0
  BY <1>1, <1>2 DEF TypeOK
<1>6. SeedingOnly'
  BY <1>1, <1>4, <1>5 DEF SeedingOnly
<1> QED
  BY <1>1, <1>3, <1>4, <1>5, <1>6

LEMMA SeedKeeps ==
    ASSUME IInv, NEW r \in Replica, SeedRule(r)
    PROVE  IInv'
<1>1. TypeOK /\ SeedingOnly /\ SeedsKept /\ seeded[r] \in 0..2
  <2>1. TypeOK /\ SeedingOnly /\ SeedsKept
    BY DEF IInv, Seeded
  <2> QED
    BY <2>1 DEF SeedingOnly
<1>2. /\ boot[r] = "seed" /\ Advance(r) /\ faults' = faults
      /\ rules' = rules \cup {Seeds[seeded[r] + 1]}
  BY DEF SeedRule
<1>3. TypeOK'
  <2>1. Seeds[seeded[r] + 1] \in ServiceType
    BY <1>1 DEF Seeds, ServiceType
  <2> QED
    BY <1>1, <1>2, <2>1, Advances DEF SeedRule, TypeOK, client
<1>4. Served'
  BY PricingKeepsServed DEF IInv, SeedRule
<1>5. SeedingOnly'
  BY <1>1, <1>2, Advances
<1>6. SeedsKept'
  <2> SUFFICES ASSUME faults = MaxFaults PROVE SeedsKept'
    BY <1>2 DEF SeedsKept
  <2>1. \A i \in 1..seeded[r] + 1 : Seeds[i] \in rules'
    BY <1>1, <1>2 DEF SeedsKept
  <2>2. \A q \in Replica : boot'[q] = "seed" => \A i \in 1..seeded'[q] : Seeds[i] \in rules'
    BY <1>1, <1>2, <2>1, Advances DEF SeedsKept
  <2>3. rules' = ServiceType \/ boot'[r] = "seed"
    <3>1. CASE seeded[r] < 2
      BY <1>1, <1>2, <3>1, Advances
    <3>2. CASE seeded[r] = 2
      <4>1. Seeds[1] \in rules' /\ Seeds[2] \in rules' /\ Seeds[3] \in rules'
        BY <2>1, <3>2
      <4>2. rules' \subseteq ServiceType
        BY <1>3 DEF TypeOK
      <4>3. ServiceType \subseteq rules'
        BY <4>1 DEF Seeds, ServiceType
      <4> QED
        BY <4>2, <4>3
    <3> QED
      BY <1>1, <3>1, <3>2
  <2> QED
    BY <1>2, <2>2, <2>3 DEF SeedsKept
<1> QED
  BY <1>3, <1>4, <1>5, <1>6 DEF IInv, Seeded

------------------------------------------------------------------------------
(* Steps of a client *)

LEMMA ClientKeepsSeeded ==
    ASSUME Seeded, UNCHANGED <<pricing, faults>>
    PROVE  Seeded'
BY DEF Seeded, SeedingOnly, SeedsKept, pricing

LEMMA AskKeeps ==
    ASSUME IInv, NEW c \in Client, NEW w \in Wish, Ask(c, w)
    PROVE  IInv'
<1>1. TypeOK'
  BY DEF IInv, TypeOK, Ask, pricing
<1>2. Served'
  BY DEF IInv, TypeOK, Ask, Served, RoutesAsGenerated, ClientsAsGenerated, ToldAsGenerated,
     Generated, PriceOf
<1>3. Seeded'
  BY ClientKeepsSeeded DEF IInv, Ask
<1> QED
  BY <1>1, <1>2, <1>3 DEF IInv

(* A client gets a route that is as long as the generator makes it.        *)
LEMMA GetsKeeps ==
    ASSUME TypeOK, Served, NEW c \in Client, NEW next \in {"save", "estimate"},
           wish[c] \in Wish, Gets(c, Generated(wish[c].journey), next),
           UNCHANGED <<routes, pricing, wish, told>>, faults' \in 0..MaxFaults
    PROVE  TypeOK' /\ Served'
<1>1. wish[c].journey \in Journey
  BY DEF Wish
<1>2. Generated(wish[c].journey) \in Nat
  BY <1>1, ColumnKeepsGenerated
<1>3. TypeOK'
  BY <1>2 DEF TypeOK, Gets, pricing
<1>4. ClientsAsGenerated'
  BY DEF TypeOK, Served, ClientsAsGenerated, Gets, Generated
<1> QED
  BY <1>3, <1>4 DEF Served, RoutesAsGenerated, ToldAsGenerated, Generated, PriceOf

LEMMA LookUpKeeps ==
    ASSUME IInv, NEW c \in Client, LookUp(c)
    PROVE  IInv'
<1>1. TypeOK /\ Served /\ wish[c] \in Wish /\ faults' \in 0..MaxFaults
  BY DEF IInv, Served, ClientsAsGenerated, LookUp, TypeOK
<1>2. \E next \in {"save", "estimate"} : Gets(c, Generated(wish[c].journey), next)
  <2>1. ASSUME NEW metres \in routes[wish[c].journey]
        PROVE  metres = Generated(wish[c].journey)
    BY <1>1 DEF Served, RoutesAsGenerated, Wish
  <2> QED
    BY <2>1 DEF LookUp, Misses
<1>3. TypeOK' /\ Served'
  BY <1>1, <1>2, GetsKeeps DEF LookUp
<1> QED
  BY <1>3, ClientKeepsSeeded DEF IInv, LookUp

LEMMA SaveRouteKeeps ==
    ASSUME IInv, NEW c \in Client, SaveRoute(c)
    PROVE  IInv'
<1> DEFINE j == wish[c].journey
<1>1. j \in Journey /\ Column(length[c]) = Generated(j) /\ Generated(j) \in Nat
  BY ColumnKeepsGenerated DEF IInv, Served, ClientsAsGenerated, SaveRoute, Wish
<1>2. routes' = [routes EXCEPT ![j] = @ \cup {Generated(j)}]
  BY <1>1 DEF SaveRoute
<1>3. TypeOK'
  BY <1>1, <1>2 DEF IInv, TypeOK, SaveRoute, pricing
<1>4. RoutesAsGenerated'
  BY <1>1, <1>2 DEF IInv, TypeOK, Served, RoutesAsGenerated, Generated
<1>5. ClientsAsGenerated' /\ ToldAsGenerated'
  BY DEF IInv, TypeOK, Served, ClientsAsGenerated, ToldAsGenerated, SaveRoute, Generated, PriceOf
<1> QED
  BY <1>3, <1>4, <1>5, ClientKeepsSeeded DEF IInv, Served, SaveRoute

LEMMA PriceKeeps ==
    ASSUME IInv, NEW c \in Client, Price(c)
    PROVE  IInv'
<1> DEFINE answer == [journey |-> wish[c].journey, type |-> wish[c].type, length |-> length[c],
                      price |-> PriceOf(wish[c].type, length[c])]
<1>1. /\ wish[c].journey \in Journey /\ wish[c].type \in ServiceType
      /\ length[c] = Generated(wish[c].journey) /\ length[c] \in Nat
  BY ColumnKeepsGenerated DEF IInv, Served, ClientsAsGenerated, Price, Wish
<1>2. told' = told \cup {answer}
  BY DEF Price, PriceOf, AskOf
<1>3. PriceOf(wish[c].type, length[c]) \in Nat
  BY <1>1, PriceOfNat
<1>4. TypeOK'
  BY <1>1, <1>2, <1>3 DEF IInv, TypeOK, Price, pricing
<1>5. ToldAsGenerated'
  <2> SUFFICES ASSUME NEW t \in told'
               PROVE  t.length = Generated(t.journey) /\ t.price = PriceOf(t.type, t.length)
    BY DEF ToldAsGenerated, Generated, PriceOf
  <2>1. CASE t \in told
    BY <2>1 DEF IInv, Served, ToldAsGenerated
  <2>2. CASE t = answer
    BY <1>1, <2>2
  <2> QED
    BY <1>2, <2>1, <2>2
<1>6. RoutesAsGenerated' /\ ClientsAsGenerated'
  BY DEF IInv, TypeOK, Served, RoutesAsGenerated, ClientsAsGenerated, Price, Generated
<1> QED
  BY <1>4, <1>5, <1>6, ClientKeepsSeeded DEF IInv, Served, Price

------------------------------------------------------------------------------
(* Failures *)

(* After a failure nothing is promised of the rules any more.              *)
LEMMA BreakCounts ==
    ASSUME TypeOK, Break
    PROVE  faults' \in 0..MaxFaults /\ SeedsKept'
<1>1. faults' \in 0..MaxFaults /\ faults' # MaxFaults
  BY BookingConstants DEF TypeOK, Break
<1> QED
  BY <1>1 DEF SeedsKept

LEMMA ClientFailureKeeps ==
    ASSUME IInv, Break, NEW c \in Client, LookUpFails(c) \/ SaveRouteFails(c)
    PROVE  IInv'
<1>1. TypeOK /\ Served /\ faults' \in 0..MaxFaults /\ SeedsKept'
  BY BreakCounts DEF IInv
<1>2. SeedingOnly'
  BY DEF IInv, Seeded, SeedingOnly, LookUpFails, SaveRouteFails, pricing
<1>3. CASE LookUpFails(c)
  <2>1. wish[c] \in Wish
    BY <1>1, <1>3 DEF Served, ClientsAsGenerated, LookUpFails
  <2> QED
    BY <1>1, <1>2, <1>3, <2>1, GetsKeeps DEF LookUpFails, Misses, IInv, Seeded
<1>4. CASE SaveRouteFails(c)
  <2>1. TypeOK'
    BY <1>1, <1>4 DEF TypeOK, SaveRouteFails, pricing
  <2>2. Served'
    BY <1>1, <1>4 DEF TypeOK, Served, RoutesAsGenerated, ClientsAsGenerated, ToldAsGenerated,
       SaveRouteFails, Generated, PriceOf
  <2> QED
    BY <1>1, <1>2, <2>1, <2>2 DEF IInv, Seeded
<1> QED
  BY <1>3, <1>4

LEMMA ReplicaFailureKeeps ==
    ASSUME IInv, Break, NEW r \in Replica, CountFails(r) \/ SeedRuleFails(r) \/ ReplicaCrash(r)
    PROVE  IInv'
<1>1. TypeOK /\ SeedingOnly /\ faults' \in 0..MaxFaults /\ SeedsKept'
  BY BreakCounts DEF IInv, Seeded
<1>2. Served'
  BY PricingKeepsServed DEF IInv, CountFails, SeedRuleFails, ReplicaCrash
<1>3. TypeOK' /\ SeedingOnly'
  <2>1. CASE CountFails(r)
    BY <1>1, <2>1 DEF TypeOK, SeedingOnly, CountFails, client
  <2>2. CASE SeedRuleFails(r)
    <3>1. boot[r] = "seed" /\ Advance(r)
      BY <2>2 DEF SeedRuleFails
    <3> QED
      BY <1>1, <2>2, <3>1, Advances DEF TypeOK, SeedRuleFails, client
  <2>3. CASE ReplicaCrash(r)
    BY <1>1, <2>3 DEF TypeOK, SeedingOnly, ReplicaCrash, client, Seeds
  <2> QED
    BY <2>1, <2>2, <2>3
<1> QED
  BY <1>1, <1>2, <1>3 DEF IInv, Seeded

LEMMA Invariance == Spec => []IInv
<1>1. IInv /\ [Next]_vars => IInv'
  <2> SUFFICES ASSUME IInv, [Next]_vars PROVE IInv'
    OBVIOUS
  <2>1. CASE UNCHANGED vars
    <3>1. Served'
      BY <2>1, PricingKeepsServed DEF IInv, vars
    <3>2. Seeded'
      BY <2>1, ClientKeepsSeeded DEF IInv, vars
    <3> QED
      BY <2>1, <3>1, <3>2 DEF IInv, TypeOK, vars, pricing, client
  <2>2. ASSUME NEW c \in Client, Refused(c) PROVE IInv'
    BY <2>1, <2>2 DEF Refused
  <2>3. CASE Break
    BY <2>3, ClientFailureKeeps, ReplicaFailureKeeps DEF Break
  <2> QED
    BY <2>1, <2>2, <2>3, AskKeeps, LookUpKeeps, SaveRouteKeeps, PriceKeeps,
       ConnectKeeps, CountKeeps, SeedKeeps DEF Next, Serve, Start
<1> QED
  BY <1>1, InitInv, PTL DEF Spec

(* The states of Booking are of its types.                                 *)
THEOREM TypeCorrect == Spec => []TypeOK
<1>1. IInv => TypeOK
  BY DEF IInv
<1> QED
  BY <1>1, Invariance, PTL

(* A journey has one length and one price per service, for every length the *)
(* generator may draw and however many clients ask at once.                *)
THEOREM OneQuotePerJourney == Spec => []SameJourneySameQuote
<1>1. ASSUME IInv PROVE SameJourneySameQuote
  <2> SUFFICES ASSUME NEW a \in told, NEW b \in told, a.journey = b.journey, a.type = b.type
               PROVE  a = b
    BY DEF SameJourneySameQuote
  <2>1. a.length = b.length /\ a.price = b.price
    BY <1>1 DEF IInv, Served, ToldAsGenerated
  <2> QED
    BY <1>1, <2>1 DEF IInv, TypeOK
<1> QED
  BY <1>1, Invariance, PTL

(* However many instances of pricing-service start together, unless         *)
(* something failed one that serves misses a rule only while one is seeding. *)
THEOREM SeedingTogether == Spec => []OnlyFailuresLoseRules
<1>1. IInv => OnlyFailuresLoseRules
  BY DEF IInv, Seeded, SeedsKept, OnlyFailuresLoseRules
<1> QED
  BY <1>1, Invariance, PTL

------------------------------------------------------------------------------
(* Location *)

LEMMA GreatestIsMax ==
    ASSUME NEW S \in SUBSET Int, NEW m \in S, \A y \in S : m >= y
    PROVE  L!Max(S) = m
<1>1. L!Max(S) \in S /\ \A y \in S : L!Max(S) >= y
  BY Zenon DEF L!Max
<1> DEFINE max == L!Max(S)
<1> HIDE DEF max
<1>2. max \in Int /\ m \in Int /\ m >= max /\ max >= m
  BY <1>1 DEF max
<1>3. max = m
  BY <1>2
<1> QED
  BY <1>3 DEF max

(* The reports of a driver that reached the table. *)
Written(d) == {0} \cup {n \in 1..reported[d] : <<d, n>> \notin writing \cup unwritten}

LocationTypes ==
    /\ reported \in [Driver -> Nat]
    /\ position \in [Driver -> Nat]
    /\ writing \subseteq Driver \X Nat
    /\ \A d \in Driver, n \in Nat : <<d, n>> \in writing \cup unwritten => n \in 1..reported[d]
    /\ writing \cap unwritten = {}

(* A driver whose reports never met waits for his last one at most. *)
LastPending == \A d \in Driver \ overlapped, n \in Nat : <<d, n>> \in writing => n = reported[d]

GreatestWritten ==
    \A d \in Driver \ overlapped : /\ position[d] \in Written(d)
                                   /\ \A n \in Written(d) : position[d] >= n

LocationInv == LocationTypes /\ LastPending /\ GreatestWritten

LEMMA ReportKeeps ==
    ASSUME LocationInv, NEW d \in Driver, L!UpdateLocation(d)
    PROVE  LocationInv'
<1>1. /\ reported[d] \in Nat
      /\ reported' = [reported EXCEPT ![d] = reported[d] + 1]
      /\ writing' = writing \cup {<<d, reported[d] + 1>>}
      /\ UNCHANGED <<unwritten, position>>
      /\ overlapped \subseteq overlapped'
      /\ (\E r \in writing : r[1] = d) => d \in overlapped'
  BY DEF L!UpdateLocation, LocationInv, LocationTypes
<1>2. LocationTypes'
  BY <1>1 DEF LocationInv, LocationTypes
<1>3. LastPending'
  BY <1>1 DEF LocationInv, LocationTypes, LastPending
<1>4. GreatestWritten'
  BY <1>1 DEF LocationInv, LocationTypes, GreatestWritten, Written
<1> QED
  BY <1>2, <1>3, <1>4 DEF LocationInv

LEMMA UpsertKeeps ==
    ASSUME LocationInv, NEW r \in Driver \X Nat, L!UpsertLocation(r)
    PROVE  LocationInv'
<1>1. PICK d \in Driver, n \in Nat : r = <<d, n>>
  OBVIOUS
<1>2. /\ <<d, n>> \in writing /\ writing' = writing \ {<<d, n>>}
      /\ position' = [position EXCEPT ![d] = n]
      /\ UNCHANGED <<reported, unwritten, overlapped>>
  BY <1>1 DEF L!UpsertLocation
<1>3. LocationTypes' /\ LastPending'
  BY <1>2 DEF LocationInv, LocationTypes, LastPending
<1>4. GreatestWritten'
  BY <1>2 DEF LocationInv, LocationTypes, LastPending, GreatestWritten, Written
<1> QED
  BY <1>3, <1>4 DEF LocationInv

(* Reports that are lost change nothing of what was written.               *)
LEMMA LossKeeps ==
    ASSUME LocationInv, NEW Lost \in SUBSET writing,
           writing' = writing \ Lost, unwritten' = unwritten \cup Lost,
           UNCHANGED <<reported, position, overlapped>>
    PROVE  LocationInv'
<1>1. \A d \in Driver : Written(d)' = Written(d)
  BY DEF Written
<1> QED
  BY <1>1 DEF LocationInv, LocationTypes, LastPending, GreatestWritten

(* A driver whose reports never met in location-service is found where the *)
(* last of them that was written has him, for any number of drivers and of *)
(* reports, failed upserts and crashes.                                    *)
THEOREM LastReportWins == L!Spec => []LastReportStands
<1>1. L!Init => LocationInv
  <2> SUFFICES ASSUME L!Init PROVE LocationInv
    OBVIOUS
  <2>1. LocationTypes /\ LastPending
    BY DEF L!Init, LocationTypes, LastPending
  <2>2. GreatestWritten
    BY DEF L!Init, GreatestWritten, Written
  <2> QED
    BY <2>1, <2>2 DEF LocationInv
<1>2. LocationInv /\ [L!Next]_(L!vars) => LocationInv'
  <2> SUFFICES ASSUME LocationInv, [L!Next]_(L!vars) PROVE LocationInv'
    OBVIOUS
  <2>1. ASSUME NEW r \in L!Report, L!UpsertLocation(r) PROVE LocationInv'
    <3>1. r \in Driver \X Nat
      BY DEF L!Report
    <3> QED
      BY <2>1, <3>1, UpsertKeeps
  <2>2. ASSUME NEW r \in L!Report, L!UpsertFails(r) PROVE LocationInv'
    <3>1. {r} \in SUBSET writing
      BY <2>2 DEF L!UpsertFails
    <3> QED
      BY <2>2, <3>1, LossKeeps DEF L!UpsertFails
  <2>3. CASE L!Crash
    <3>1. writing' = writing \ writing /\ writing \in SUBSET writing
      BY <2>3 DEF L!Crash
    <3> QED
      BY <2>3, <3>1, LossKeeps DEF L!Crash
  <2>4. CASE UNCHANGED L!vars
    BY <2>4 DEF L!vars, LocationInv, LocationTypes, LastPending, GreatestWritten, Written
  <2> QED
    BY <2>1, <2>2, <2>3, <2>4, ReportKeeps DEF L!Next
<1>3. ASSUME LocationInv PROVE LastReportStands
  <2> SUFFICES ASSUME NEW d \in Driver \ overlapped PROVE position[d] = L!Max(Written(d))
    BY DEF LastReportStands, L!LastReportStands, Written
  <2>1. Written(d) \in SUBSET Int
    BY <1>3 DEF LocationInv, LocationTypes, Written
  <2> QED
    BY <1>3, <2>1, GreatestIsMax DEF LocationInv, GreatestWritten
<1> QED
  BY <1>1, <1>2, <1>3, PTL DEF L!Spec

------------------------------------------------------------------------------
(* Punishment *)

(* Request h has stored its violation of account a, not yet the status.    *)
Half(h, a) == punishing[h] = "status" /\ sentence[h].account = a

PunishmentTypes ==
    /\ violations \in [Account -> Seq(Duration)]
    /\ standing \in [Account -> {"none", "Banned", "Suspended", "Warning"}]
    /\ punishing \in [Handler -> {"idle", "violation", "status"}]
    /\ sentence \in [Handler -> P!Request \cup {P!NoRequest}]
    /\ \A h \in Handler : punishing[h] # "idle" => sentence[h] \in P!Request

(* An undisturbed account has one request halfway at most, which stored    *)
(* its last violation; without one its status is that of the last.         *)
OneHalfway ==
    \A a \in Account \ disturbed, g, h \in Handler : Half(g, a) /\ Half(h, a) => g = h

Latest(a, duration) == violations[a] # <<>> /\ violations[a][Len(violations[a])] = duration

HalfwayIsLatest ==
    \A a \in Account \ disturbed, h \in Handler : Half(h, a) => Latest(a, sentence[h].duration)

Agree(a) == \/ violations[a] = <<>> /\ standing[a] = "none"
            \/ \E duration \in Duration : Latest(a, duration) /\ standing[a] = P!NewStatus(duration)

OthersAgree == \A a \in Account \ disturbed : (\E h \in Handler : Half(h, a)) \/ Agree(a)

PunishmentInv == PunishmentTypes /\ OneHalfway /\ HalfwayIsLatest /\ OthersAgree

LEMMA NewStatusType ==
    ASSUME NEW duration
    PROVE  P!NewStatus(duration) \in {"Banned", "Suspended", "Warning"}
BY DEF P!NewStatus

LEMMA ApplyPunishmentKeeps ==
    ASSUME PunishmentInv, NEW h \in Handler, NEW q \in P!Request, P!ApplyPunishment(h, q)
    PROVE  PunishmentInv'
<1>1. PunishmentTypes'
  BY DEF PunishmentInv, PunishmentTypes, P!ApplyPunishment
<1>2. \A g \in Handler, a \in Account : Half(g, a)' = Half(g, a)
  BY DEF PunishmentInv, PunishmentTypes, P!ApplyPunishment, Half
<1>3. \A g \in Handler, a \in Account : Half(g, a) => sentence'[g] = sentence[g]
  BY DEF PunishmentInv, PunishmentTypes, P!ApplyPunishment, Half
<1>4. UNCHANGED <<violations, standing, disturbed>>
  BY DEF P!ApplyPunishment
<1>5. OneHalfway' /\ OthersAgree'
  BY <1>2, <1>4 DEF PunishmentInv, OneHalfway, OthersAgree, Agree, Latest
<1>6. HalfwayIsLatest'
  BY <1>2, <1>3, <1>4 DEF PunishmentInv, HalfwayIsLatest, Latest
<1> QED
  BY <1>1, <1>5, <1>6 DEF PunishmentInv

LEMMA StoreViolationKeeps ==
    ASSUME PunishmentInv, NEW h \in Handler, P!StoreViolation(h)
    PROVE  PunishmentInv'
<1> DEFINE a == sentence[h].account
           d == sentence[h].duration
<1>1. /\ a \in Account /\ d \in Duration
      /\ punishing[h] = "violation"
      /\ punishing' = [punishing EXCEPT ![h] = "status"]
      /\ violations' = [violations EXCEPT ![a] = Append(@, d)]
      /\ UNCHANGED <<standing, sentence>>
  BY DEF PunishmentInv, PunishmentTypes, P!StoreViolation, P!Request
<1>2. disturbed' = IF \A g \in Handler : ~Half(g, a) THEN disturbed \ {a} ELSE disturbed \cup {a}
  BY DEF P!StoreViolation, P!Halfway, Half
<1>3. PunishmentTypes'
  BY <1>1 DEF PunishmentInv, PunishmentTypes
<1>4. \A b \in Account, g \in Handler : Half(g, b)' <=> Half(g, b) \/ (g = h /\ b = a)
  BY <1>1 DEF PunishmentInv, PunishmentTypes, Half
<1>5. \A b \in Account \ {a} : violations'[b] = violations[b]
  BY <1>1 DEF PunishmentInv, PunishmentTypes
<1>6. violations'[a] # <<>> /\ violations'[a][Len(violations'[a])] = d
  <2>1. violations[a] \in Seq(Duration) /\ violations'[a] = Append(violations[a], d)
    BY <1>1 DEF PunishmentInv, PunishmentTypes
  <2> HIDE DEF d
  <2> QED
    BY <1>1, <2>1
<1>7. \A b \in Account \ disturbed' : b # a => b \notin disturbed
  BY <1>2
<1>8. a \notin disturbed' => \A g \in Handler : ~Half(g, a)
  BY <1>2
<1>9. OneHalfway'
  BY <1>4, <1>7, <1>8 DEF PunishmentInv, OneHalfway
<1>10. HalfwayIsLatest'
  <2> SUFFICES ASSUME NEW b \in Account \ disturbed', NEW g \in Handler, Half(g, b)'
               PROVE  Latest(b, sentence[g].duration)'
    BY <1>1 DEF HalfwayIsLatest, Latest
  <2>1. CASE b = a
    BY <1>1, <1>4, <1>6, <1>8, <2>1 DEF Latest
  <2>2. CASE b # a
    BY <1>1, <1>4, <1>5, <1>7, <2>2 DEF PunishmentInv, HalfwayIsLatest, Latest
  <2> QED
    BY <2>1, <2>2
<1>11. OthersAgree'
  <2> SUFFICES ASSUME NEW b \in Account \ disturbed'
               PROVE  (\E g \in Handler : Half(g, b)') \/ Agree(b)'
    BY DEF OthersAgree
  <2>1. CASE b = a
    BY <1>4, <2>1
  <2>2. CASE b # a
    BY <1>1, <1>4, <1>5, <1>7, <2>2 DEF PunishmentInv, OthersAgree, Agree, Latest
  <2> QED
    BY <2>1, <2>2
<1> QED
  BY <1>3, <1>9, <1>10, <1>11 DEF PunishmentInv

(* A request ends: the others stay halfway, and its own account is either   *)
(* disturbed or brought in agreement if the request was halfway with it.   *)
LEMMA EndKeeps ==
    ASSUME PunishmentInv, NEW h \in Handler, punishing[h] # "idle", P!Finish(h),
           UNCHANGED violations,
           standing' \in [Account -> {"none", "Banned", "Suspended", "Warning"}],
           disturbed \subseteq disturbed',
           \A a \in Account : ~Half(h, a) => standing'[a] = standing[a],
           \A a \in Account \ disturbed' : Half(h, a) =>
               standing'[a] = P!NewStatus(sentence[h].duration)
    PROVE  PunishmentInv'
<1>1. /\ punishing' = [punishing EXCEPT ![h] = "idle"]
      /\ sentence' = [sentence EXCEPT ![h] = P!NoRequest]
  BY DEF P!Finish
<1>2. PunishmentTypes'
  BY <1>1 DEF PunishmentInv, PunishmentTypes
<1>3. \A a \in Account, g \in Handler : Half(g, a)' <=> g # h /\ Half(g, a)
  BY <1>1 DEF PunishmentInv, PunishmentTypes, Half
<1>4. \A g \in Handler \ {h} : sentence'[g] = sentence[g]
  BY <1>1 DEF PunishmentInv, PunishmentTypes
<1>5. OneHalfway' /\ HalfwayIsLatest'
  BY <1>3, <1>4 DEF PunishmentInv, OneHalfway, HalfwayIsLatest, Latest
<1>6. OthersAgree'
  <2> SUFFICES ASSUME NEW a \in Account \ disturbed', \A g \in Handler : ~Half(g, a)'
               PROVE  Agree(a)'
    BY DEF OthersAgree
  <2>1. CASE Half(h, a)
    <3>1. Latest(a, sentence[h].duration) /\ sentence[h].duration \in Duration
      BY <2>1 DEF PunishmentInv, PunishmentTypes, HalfwayIsLatest, P!Request
    <3>2. standing'[a] = P!NewStatus(sentence[h].duration)
      BY <2>1
    <3> QED
      BY <3>1, <3>2 DEF Agree, Latest
  <2>2. CASE ~Half(h, a)
    <3>1. Agree(a) /\ standing'[a] = standing[a]
      BY <1>3, <2>2 DEF PunishmentInv, OthersAgree
    <3> QED
      BY <3>1 DEF Agree, Latest
  <2> QED
    BY <2>1, <2>2
<1> QED
  BY <1>2, <1>5, <1>6 DEF PunishmentInv

LEMMA UpdateStatusKeeps ==
    ASSUME PunishmentInv, NEW h \in Handler, P!UpdateAccountStatus(h)
    PROVE  PunishmentInv'
<1> DEFINE status == P!NewStatus(sentence[h].duration)
<1> HIDE DEF status
<1>1. /\ punishing[h] = "status" /\ P!Finish(h) /\ UNCHANGED <<violations, disturbed>>
      /\ standing' = [standing EXCEPT ![sentence[h].account] = status]
  BY DEF P!UpdateAccountStatus, status
<1>2. status \in {"none", "Banned", "Suspended", "Warning"}
  BY NewStatusType DEF status
<1>3. standing' \in [Account -> {"none", "Banned", "Suspended", "Warning"}]
  BY <1>1, <1>2 DEF PunishmentInv, PunishmentTypes
<1>4. \A a \in Account : IF Half(h, a) THEN standing'[a] = status ELSE standing'[a] = standing[a]
  BY <1>1 DEF PunishmentInv, PunishmentTypes, Half
<1> QED
  BY <1>1, <1>3, <1>4, EndKeeps DEF status

LEMMA GiveUpKeeps ==
    ASSUME PunishmentInv, NEW h \in Handler, P!GiveUp(h)
    PROVE  PunishmentInv'
<1>1. /\ punishing[h] # "idle" /\ P!Finish(h) /\ UNCHANGED <<violations, standing>>
      /\ disturbed \subseteq disturbed'
      /\ punishing[h] = "status" => sentence[h].account \in disturbed'
  BY DEF P!GiveUp
<1>2. \A a \in Account \ disturbed' : ~Half(h, a)
  BY <1>1 DEF Half
<1>3. standing' \in [Account -> {"none", "Banned", "Suspended", "Warning"}]
  BY <1>1 DEF PunishmentInv, PunishmentTypes
<1> QED
  BY <1>1, <1>2, <1>3, EndKeeps

(* The status of an account is the one of its last violation unless its     *)
(* last requests overlapped or were given up, for any number of them.       *)
THEOREM StandingFollows == P!Spec => []StandingIsOfLastViolation
<1>1. P!Init => PunishmentInv
  BY DEF P!Init, PunishmentInv, PunishmentTypes, OneHalfway, HalfwayIsLatest, OthersAgree,
     Agree, Half
<1>2. PunishmentInv /\ [P!Next]_(P!vars) => PunishmentInv'
  <2> SUFFICES ASSUME PunishmentInv, [P!Next]_(P!vars) PROVE PunishmentInv'
    OBVIOUS
  <2>1. CASE UNCHANGED P!vars
    BY <2>1 DEF P!vars, PunishmentInv, PunishmentTypes, OneHalfway, HalfwayIsLatest, OthersAgree,
       Agree, Latest, Half
  <2> QED
    BY <2>1, ApplyPunishmentKeeps, StoreViolationKeeps, UpdateStatusKeeps, GiveUpKeeps DEF P!Next
<1>3. ASSUME PunishmentInv PROVE StandingIsOfLastViolation
  <2> SUFFICES ASSUME NEW a \in Account \ disturbed, P!Halfway(a) = {}
               PROVE  \/ violations[a] = <<>> /\ standing[a] = "none"
                      \/ /\ violations[a] # <<>>
                         /\ standing[a] = P!NewStatus(violations[a][Len(violations[a])])
    BY DEF StandingIsOfLastViolation, P!StandingIsOfLastViolation
  <2>1. \A h \in Handler : ~Half(h, a)
    BY DEF P!Halfway, Half
  <2>2. Agree(a)
    BY <1>3, <2>1 DEF PunishmentInv, OthersAgree
  <2> QED
    BY <2>2 DEF Agree, Latest
<1> QED
  BY <1>1, <1>2, <1>3, PTL DEF P!Spec

------------------------------------------------------------------------------
(* Orders *)

OrdersTypes ==
    /\ orders \in [O!Id -> User \cup {NoOrder}]
    /\ serial \in 0..MaxId
    /\ ordering \in [Handler -> {"idle", "insert", "reply"}]
    /\ order \in [Handler -> O!Request \cup {O!NoRequest}]
    /\ \A h \in Handler : ordering[h] # "idle" => order[h] \in O!Request
    /\ confirmed \subseteq O!Request

(* A client is answered, and will be, the id of a row of its user.         *)
Stored(q) == q.id \in O!Id /\ orders[q.id] = q.user

RepliesStored == \A h \in Handler : ordering[h] = "reply" => Stored(order[h])

OrdersInv == OrdersTypes /\ RepliesStored /\ (\A q \in confirmed : Stored(q))

(* A row that there is has a user and is not given to another one.         *)
LEMMA RowsStand ==
    ASSUME OrdersTypes, NEW h \in Handler, O!InsertOrder(h), NEW q \in O!Request, Stored(q)
    PROVE  Stored(q)'
<1> DEFINE id == IF order[h].id = 0 THEN serial + 1 ELSE order[h].id
<1>1. q.user \in User /\ q.id \in O!Id /\ orders[q.id] # NoOrder
  BY RecordsConstants DEF Stored, O!Request
<1>2. orders' = orders \/ (orders[id] = NoOrder /\ orders' = [orders EXCEPT ![id] = order[h].user])
  BY DEF O!InsertOrder, O!Taken
<1>3. orders'[q.id] = orders[q.id]
  <2> HIDE DEF id
  <2> QED
    BY <1>1, <1>2 DEF OrdersTypes
<1> QED
  BY <1>1, <1>3 DEF Stored

LEMMA InsertOrderKeeps ==
    ASSUME OrdersInv, NEW h \in Handler, O!InsertOrder(h)
    PROVE  OrdersInv'
<1> DEFINE id == IF order[h].id = 0 THEN serial + 1 ELSE order[h].id
<1>1. /\ ordering[h] = "insert" /\ order[h] \in O!Request
      /\ order[h].id = 0 => serial < MaxId
      /\ serial' = IF order[h].id = 0 THEN id ELSE serial
      /\ UNCHANGED confirmed
      /\ \/ O!Finish(h) /\ UNCHANGED orders
         \/ /\ orders' = [orders EXCEPT ![id] = order[h].user]
            /\ ordering' = [ordering EXCEPT ![h] = "reply"]
            /\ order' = [order EXCEPT ![h].id = id]
  BY DEF OrdersInv, OrdersTypes, O!InsertOrder
<1>2. id \in O!Id /\ serial' \in 0..MaxId /\ order[h].user \in User
  BY <1>1, RecordsConstants DEF OrdersInv, OrdersTypes, O!Request, O!Id
<1> HIDE DEF id
<1>3. \A q \in confirmed' : Stored(q)'
  BY <1>1, RowsStand DEF OrdersInv, OrdersTypes
<1>4. \A g \in Handler \ {h} : UNCHANGED <<ordering[g], order[g]>>
  BY <1>1 DEF OrdersInv, OrdersTypes, O!Finish
<1>5. ASSUME NEW g \in Handler \ {h}, ordering[g] = "reply"
      PROVE  Stored(order[g])'
  <2>1. Stored(order[g]) /\ order[g] \in O!Request
    BY <1>5 DEF OrdersInv, OrdersTypes, RepliesStored
  <2>2. \A q \in O!Request : Stored(q) => Stored(q)'
    BY RowsStand DEF OrdersInv
  <2>3. order'[g] = order[g]
    BY <1>4
  <2> QED
    BY <2>1, <2>2, <2>3 DEF Stored
<1>6. CASE O!Finish(h) /\ UNCHANGED orders
  <2>1. /\ ordering' = [ordering EXCEPT ![h] = "idle"]
        /\ order' = [order EXCEPT ![h] = O!NoRequest]
    BY <1>6 DEF O!Finish
  <2>2. OrdersTypes'
    BY <1>1, <1>2, <1>6, <2>1 DEF OrdersInv, OrdersTypes
  <2>3. RepliesStored'
    BY <1>4, <1>5, <2>1 DEF RepliesStored, OrdersInv, OrdersTypes
  <2> QED
    BY <1>3, <2>2, <2>3 DEF OrdersInv
<1>7. CASE /\ orders' = [orders EXCEPT ![id] = order[h].user]
           /\ ordering' = [ordering EXCEPT ![h] = "reply"]
           /\ order' = [order EXCEPT ![h].id = id]
  <2>1. order'[h] = [order[h] EXCEPT !.id = id] /\ order'[h] \in O!Request
    BY <1>1, <1>2, <1>7 DEF OrdersInv, OrdersTypes, O!Request
  <2>2. order' \in [Handler -> O!Request \cup {O!NoRequest}]
    BY <1>7, <2>1 DEF OrdersInv, OrdersTypes
  <2>3. OrdersTypes'
    BY <1>1, <1>2, <1>4, <1>7, <2>1, <2>2 DEF OrdersInv, OrdersTypes
  <2>4. Stored(order[h])'
    BY <1>1, <1>2, <1>7, <2>1 DEF OrdersInv, OrdersTypes, Stored, O!Request
  <2>5. RepliesStored'
    BY <1>4, <1>5, <2>4 DEF RepliesStored
  <2> QED
    BY <1>3, <2>3, <2>5 DEF OrdersInv
<1> QED
  BY <1>1, <1>6, <1>7

(* An order that was confirmed stays its user's, for any number of ids that *)
(* requests name and the sequence comes to.                                *)
THEOREM ConfirmedStand == O!Spec => []ConfirmedOrdersStand
<1>1. O!Init => OrdersInv
  BY RecordsConstants DEF O!Init, OrdersInv, OrdersTypes, RepliesStored
<1>2. OrdersInv /\ [O!Next]_(O!vars) => OrdersInv'
  <2> SUFFICES ASSUME OrdersInv, [O!Next]_(O!vars) PROVE OrdersInv'
    OBVIOUS
  <2>1. ASSUME NEW h \in Handler, NEW q \in O!Request, O!CreateOrder(h, q) PROVE OrdersInv'
    BY <2>1 DEF O!CreateOrder, OrdersInv, OrdersTypes, RepliesStored, Stored
  <2>2. ASSUME NEW h \in Handler, O!Reply(h) PROVE OrdersInv'
    BY <2>2 DEF O!Reply, O!Finish, OrdersInv, OrdersTypes, RepliesStored, Stored
  <2>3. ASSUME NEW h \in Handler, O!GiveUp(h) PROVE OrdersInv'
    BY <2>3 DEF O!GiveUp, O!Finish, OrdersInv, OrdersTypes, RepliesStored, Stored
  <2>4. CASE UNCHANGED O!vars
    BY <2>4 DEF O!vars, OrdersInv, OrdersTypes, RepliesStored, Stored
  <2> QED
    BY <2>1, <2>2, <2>3, <2>4, InsertOrderKeeps DEF O!Next
<1>3. OrdersInv => ConfirmedOrdersStand
  BY DEF OrdersInv, Stored, ConfirmedOrdersStand, O!ConfirmedOrdersStand
<1> QED
  BY <1>1, <1>2, <1>3, PTL DEF O!Spec

------------------------------------------------------------------------------
(* Rating *)

RatingTypes ==
    /\ reviewing \in [Handler -> {"idle", "save", "average", "reply"}]
    /\ review \in [Handler -> R!Review \cup {R!NoReview}]
    /\ \A h \in Handler : reviewing[h] # "idle" => review[h] \in R!Review
    /\ DOMAIN average = Handler
    /\ reviews \subseteq R!Review

EachOnce == \A r, s \in reviews : r # s => ~R!Same(r, s)

(* From its INSERT on the review of a request is in the table.             *)
ReviewStored ==
    \A h \in Handler : reviewing[h] \in {"average", "reply"} => review[h] \in reviews

(* The rows that the average of request h was taken of.                    *)
Averaged(h, seen) ==
    /\ review[h] \in seen
    /\ \A r \in seen : r.target = review[h].target
    /\ average[h] = [sum |-> R!ScoreSum(seen), count |-> R!Cardinality(seen)]

AveragesTrue ==
    \A h \in Handler : reviewing[h] = "reply" => \E seen \in SUBSET reviews : Averaged(h, seen)

RatingInv == RatingTypes /\ EachOnce /\ ReviewStored /\ AveragesTrue

(* A step that at most adds rows, and at most changes what request h does.  *)
LEMMA OthersAveraged ==
    ASSUME RatingInv, reviews \subseteq reviews', NEW h \in Handler,
           NEW g \in Handler \ {h}, UNCHANGED <<reviewing[g], review[g], average[g]>>
    PROVE  /\ reviewing'[g] \in {"average", "reply"} => review'[g] \in reviews'
           /\ reviewing'[g] = "reply" => \E seen \in SUBSET reviews' : Averaged(g, seen)'
<1>1. ASSUME reviewing[g] = "reply"
      PROVE  \E seen \in SUBSET reviews' : Averaged(g, seen)'
  <2>1. PICK seen \in SUBSET reviews : Averaged(g, seen)
    BY <1>1 DEF RatingInv, AveragesTrue
  <2>2. seen \in SUBSET reviews' /\ Averaged(g, seen)'
    BY <2>1 DEF Averaged
  <2> QED
    BY <2>2
<1> QED
  BY <1>1 DEF RatingInv, ReviewStored

LEMMA EndReviewKeeps ==
    ASSUME RatingInv, NEW h \in Handler, R!Finish(h), UNCHANGED reviews
    PROVE  RatingInv'
<1>1. /\ reviewing' = [reviewing EXCEPT ![h] = "idle"]
      /\ review' = [review EXCEPT ![h] = R!NoReview]
      /\ average' = [average EXCEPT ![h] = R!NoAverage]
  BY DEF R!Finish, R!Goto
<1>2. RatingTypes' /\ EachOnce'
  BY <1>1 DEF RatingInv, RatingTypes, EachOnce, R!Same
<1>3. \A g \in Handler \ {h} : UNCHANGED <<reviewing[g], review[g], average[g]>>
  BY <1>1 DEF RatingInv, RatingTypes
<1>4. reviewing'[h] = "idle"
  BY <1>1 DEF RatingInv, RatingTypes
<1> QED
  BY <1>2, <1>3, <1>4, OthersAveraged DEF RatingInv, ReviewStored, AveragesTrue

LEMMA SubmitKeeps ==
    ASSUME RatingInv, NEW h \in Handler, NEW q \in R!Review, R!SubmitReview(h, q)
    PROVE  RatingInv'
<1>1. /\ reviewing' = [reviewing EXCEPT ![h] = "save"]
      /\ review' = [review EXCEPT ![h] = q]
      /\ UNCHANGED <<reviews, average>>
  BY DEF R!SubmitReview, R!Goto
<1>2. RatingTypes' /\ EachOnce'
  BY <1>1 DEF RatingInv, RatingTypes, EachOnce, R!Same
<1>3. \A g \in Handler \ {h} : UNCHANGED <<reviewing[g], review[g], average[g]>>
  BY <1>1 DEF RatingInv, RatingTypes
<1>4. reviewing'[h] = "save"
  BY <1>1 DEF RatingInv, RatingTypes
<1> QED
  BY <1>1, <1>2, <1>3, <1>4, OthersAveraged DEF RatingInv, ReviewStored, AveragesTrue

LEMMA SaveReviewKeeps ==
    ASSUME RatingInv, NEW h \in Handler, R!SaveReview(h)
    PROVE  RatingInv'
<1>1. CASE R!Refused(review[h])
  BY <1>1, EndReviewKeeps DEF R!SaveReview
<1>2. CASE ~R!Refused(review[h])
  <2>1. /\ reviewing[h] = "save"
        /\ reviews' = reviews \cup {review[h]}
        /\ reviewing' = [reviewing EXCEPT ![h] = "average"]
        /\ UNCHANGED <<review, average>>
    BY <1>2 DEF R!SaveReview, R!Goto
  <2>2. RatingTypes'
    BY <2>1 DEF RatingInv, RatingTypes
  <2>3. EachOnce'
    BY <1>2, <2>1 DEF RatingInv, EachOnce, R!Refused, R!Same
  <2>4. \A g \in Handler \ {h} : UNCHANGED <<reviewing[g], review[g], average[g]>>
    BY <2>1 DEF RatingInv, RatingTypes
  <2>5. reviewing'[h] = "average" /\ review'[h] \in reviews'
    BY <2>1 DEF RatingInv, RatingTypes
  <2> QED
    BY <2>1, <2>2, <2>3, <2>4, <2>5, OthersAveraged DEF RatingInv, ReviewStored, AveragesTrue
<1> QED
  BY <1>1, <1>2

LEMMA AverageKeeps ==
    ASSUME RatingInv, NEW h \in Handler, R!GetAverageRating(h)
    PROVE  RatingInv'
<1> DEFINE rows == {r \in reviews : r.target = review[h].target}
<1>1. /\ reviewing[h] = "average"
      /\ average' = [average EXCEPT ![h] = [sum |-> R!ScoreSum(rows), count |-> R!Cardinality(rows)]]
      /\ reviewing' = [reviewing EXCEPT ![h] = "reply"]
      /\ UNCHANGED <<reviews, review>>
  BY DEF R!GetAverageRating, R!Goto
<1>2. RatingTypes' /\ EachOnce'
  BY <1>1 DEF RatingInv, RatingTypes, EachOnce, R!Same
<1>3. \A g \in Handler \ {h} : UNCHANGED <<reviewing[g], review[g], average[g]>>
  BY <1>1 DEF RatingInv, RatingTypes
<1>4. review'[h] \in reviews'
  BY <1>1 DEF RatingInv, ReviewStored
<1>5. \E seen \in SUBSET reviews' : Averaged(h, seen)'
  <2>1. PICK seen : seen = rows
    OBVIOUS
  <2>2. /\ seen \in SUBSET reviews' /\ review'[h] \in seen
        /\ \A r \in seen : r.target = review'[h].target
    BY <1>1, <1>4, <2>1
  <2>3. average'[h] = [sum |-> R!ScoreSum(seen), count |-> R!Cardinality(seen)]
    BY <1>1, <2>1 DEF RatingInv, RatingTypes
  <2> QED
    BY <2>2, <2>3 DEF Averaged
<1> QED
  BY <1>2, <1>3, <1>4, <1>5, <1>1, OthersAveraged DEF RatingInv, ReviewStored, AveragesTrue

(* An average that is answered counts the review it answers and each order  *)
(* and reviewer once, for any number of reviews submitted again.           *)
THEOREM AverageIsOfEachOnce == R!Spec => []AverageCountsEachOnce
<1>1. R!Init => RatingInv
  BY DEF R!Init, RatingInv, RatingTypes, EachOnce, ReviewStored, AveragesTrue
<1>2. RatingInv /\ [R!Next]_(R!vars) => RatingInv'
  <2> SUFFICES ASSUME RatingInv, [R!Next]_(R!vars) PROVE RatingInv'
    OBVIOUS
  <2>1. ASSUME NEW h \in Handler, R!Reply(h) PROVE RatingInv'
    BY <2>1, EndReviewKeeps DEF R!Reply
  <2>2. CASE UNCHANGED R!vars
    BY <2>2 DEF R!vars, RatingInv, RatingTypes, EachOnce, ReviewStored, AveragesTrue, Averaged, R!Same
  <2> QED
    BY <2>1, <2>2, SubmitKeeps, SaveReviewKeeps, AverageKeeps DEF R!Next
<1>3. ASSUME RatingInv PROVE AverageCountsEachOnce
  <2> SUFFICES ASSUME NEW h \in Handler, reviewing[h] = "reply"
               PROVE  \E S \in SUBSET reviews :
                          /\ review[h] \in S
                          /\ \A r, s \in S : r # s => ~R!Same(r, s)
                          /\ \A r \in S : r.target = review[h].target
                          /\ average[h] = [sum |-> R!ScoreSum(S), count |-> R!Cardinality(S)]
    BY DEF AverageCountsEachOnce, R!AverageCountsEachOnce
  <2>1. PICK seen \in SUBSET reviews : Averaged(h, seen)
    BY <1>3 DEF RatingInv, AveragesTrue
  <2>2. \A r, s \in seen : r # s => ~R!Same(r, s)
    BY <1>3 DEF RatingInv, EachOnce
  <2> QED
    BY <2>1, <2>2 DEF Averaged
<1> QED
  BY <1>1, <1>2, <1>3, PTL DEF R!Spec

------------------------------------------------------------------------------
(* Quote *)

LEMMA RuleFacts ==
    ASSUME NEW type \in Q!ServiceType
    PROVE  LET rule == Q!DefaultRule[type]
           IN  /\ rule.base \in Nat /\ rule.perKm \div 100 \in Nat /\ rule.perKg \div 100 \in Nat
               /\ rule.rush \in Nat /\ rule.night \in Nat
               /\ rule.min \in Nat /\ rule.min % 500 = 0
               /\ rule.tolerance = 20
BY DEF Q!ServiceType, Q!DefaultRule

(* Rounding to the nearest multiple of 500 rupiah: it moves by 250 at most, *)
(* keeps the order, and does not undercut a multiple.                      *)
LEMMA Rounds ==
    ASSUME NEW e \in Nat
    PROVE  /\ Q!Round500(e) \in Nat
           /\ Q!Round500(e) % 500 = 0
           /\ 2 * (Q!Round500(e) * 100 - e) <= 50000
           /\ 2 * (e - Q!Round500(e) * 100) <= 50000
<1> DEFINE k == (e + 25000) \div 50000
<1>1. k \in Nat /\ 50000 * k <= e + 25000 /\ e + 25000 < 50000 * k + 50000
  OBVIOUS
<1>2. Q!Round500(e) = k * 500
  BY DEF Q!Round500
<1> HIDE DEF k
<1>3. (k * 500) % 500 = 0
  BY <1>1
<1> QED
  BY <1>1, <1>2, <1>3

LEMMA RoundsInOrder ==
    ASSUME NEW e \in Nat, NEW f \in Nat, e <= f
    PROVE  Q!Round500(e) <= Q!Round500(f)
BY DEF Q!Round500

LEMMA RoundsAbove ==
    ASSUME NEW m \in Nat, m % 500 = 0, NEW e \in Nat, m * 100 <= e
    PROVE  m <= Q!Round500(e)
BY DEF Q!Round500

LEMMA Products ==
    ASSUME NEW x \in Nat, NEW y \in Nat, x <= y, NEW a \in Nat
    PROVE  x * a \in Nat /\ x * a <= y * a
OBVIOUS

(* The tariff of a request grows with its distance beyond 2 km and is never *)
(* below the minimum price.                                                *)
LEMMA LoadedGrows ==
    ASSUME NEW q \in Q!Ask, NEW d \in Nat, q.distance <= d
    PROVE  LET rule == Q!DefaultRule[q.type]
               far  == [q EXCEPT !.distance = d]
           IN  /\ Q!Loaded(q, rule) \in Nat /\ Q!Loaded(far, rule) \in Nat
               /\ Q!Loaded(q, rule) <= Q!Loaded(far, rule)
               /\ d <= 200 => Q!Loaded(q, rule) = Q!Loaded(far, rule)
<1> DEFINE rule == Q!DefaultRule[q.type]
           far == [q EXCEPT !.distance = d]
           extra == IF q.type = "send" /\ q.weight > 0 THEN q.weight * (rule.perKg \div 100) ELSE 0
<1>1. /\ rule.base \in Nat /\ rule.perKm \div 100 \in Nat /\ rule.perKg \div 100 \in Nat
      /\ q.distance \in Nat /\ q.weight \in Nat
  BY RuleFacts, RecordsConstants DEF Q!Ask
<1>2. far.distance = d /\ far.type = q.type /\ far.weight = q.weight
  BY DEF Q!Ask
<1>3. extra \in Nat
  BY <1>1, Products
<1>4. /\ Q!Loaded(q, rule) = Q!Distanced(rule, q.distance) + extra
      /\ Q!Loaded(far, rule) = Q!Distanced(rule, d) + extra
  BY <1>2 DEF Q!Loaded
<1> HIDE DEF extra, far, rule
<1> DEFINE km == rule.perKm \div 100
           near(x) == IF x > 200 THEN x - 200 ELSE 0
<1>5. km \in Nat /\ near(q.distance) \in Nat /\ near(d) \in Nat /\ near(q.distance) <= near(d)
  BY <1>1
<1>6. \A x \in Nat : Q!Distanced(rule, x) = rule.base + near(x) * km
  BY <1>5 DEF Q!Distanced
<1>7. /\ near(q.distance) * km \in Nat /\ near(d) * km \in Nat
      /\ near(q.distance) * km <= near(d) * km
  <2> HIDE DEF near, km
  <2> QED
    BY <1>5, Products
<1>8. d <= 200 => near(q.distance) = near(d)
  BY <1>1
<1>9. /\ Q!Distanced(rule, q.distance) = rule.base + near(q.distance) * km
      /\ Q!Distanced(rule, d) = rule.base + near(d) * km
  BY <1>1, <1>6
<1>10. d <= 200 => near(q.distance) * km = near(d) * km
  BY <1>8
<1> HIDE DEF near, km
<1> QED
  BY <1>1, <1>3, <1>4, <1>7, <1>9, <1>10 DEF far, rule

LEMMA ExactGrows ==
    ASSUME NEW q \in Q!Ask, NEW d \in Nat, q.distance <= d
    PROVE  LET rule == Q!DefaultRule[q.type]
               far  == [q EXCEPT !.distance = d]
           IN  /\ Q!Exact(q, rule) \in Nat /\ Q!Exact(far, rule) \in Nat
               /\ Q!Exact(q, rule) <= Q!Exact(far, rule)
               /\ rule.min * 100 <= Q!Exact(q, rule)
               /\ d <= 200 => Q!Exact(q, rule) = Q!Exact(far, rule)
<1> DEFINE rule == Q!DefaultRule[q.type]
           far == [q EXCEPT !.distance = d]
           a == IF q.rush THEN rule.rush ELSE 10
           b == IF q.night THEN rule.night ELSE 10
           x == Q!Loaded(q, rule)
           y == Q!Loaded(far, rule)
<1>1. a \in Nat /\ b \in Nat /\ rule.min \in Nat
  BY RuleFacts DEF Q!Ask
<1>2. x \in Nat /\ y \in Nat /\ x <= y /\ (d <= 200 => x = y)
  BY LoadedGrows
<1>3. far.rush = q.rush /\ far.night = q.night
  BY DEF Q!Ask
<1>4. /\ Q!Exact(q, rule) = Q!Larger(x * a * b, rule.min * 100)
      /\ Q!Exact(far, rule) = Q!Larger(y * a * b, rule.min * 100)
  BY <1>3 DEF Q!Exact
<1> HIDE DEF a, b, x, y, far, rule
<1>5. x * a \in Nat /\ y * a \in Nat /\ x * a <= y * a
  BY <1>1, <1>2, Products
<1>6. x * a * b \in Nat /\ y * a * b \in Nat /\ x * a * b <= y * a * b
  BY <1>1, <1>5, Products
<1>7. d <= 200 => x * a * b = y * a * b
  BY <1>2
<1> QED
  BY <1>1, <1>4, <1>6, <1>7 DEF Q!Larger, far, rule

LEMMA EstimateIs ==
    ASSUME NEW q \in Q!Ask
    PROVE  LET rule  == Q!DefaultRule[q.type]
               price == Q!Round500(Q!Exact(q, rule))
           IN  /\ Q!Exact(q, rule) \in Nat /\ rule.min * 100 <= Q!Exact(q, rule)
               /\ price \in Nat
               /\ Q!Estimate(q, rule) = [price |-> price, min |-> Q!Round500(price * 80),
                                         max |-> Q!Round500(price * 120)]
<1> DEFINE rule == Q!DefaultRule[q.type]
           price == Q!Round500(Q!Exact(q, rule))
<1>1. q.distance \in Nat /\ q.type \in Q!ServiceType
  BY RecordsConstants DEF Q!Ask
<1>2. Q!Exact(q, rule) \in Nat /\ rule.min * 100 <= Q!Exact(q, rule)
  <2>1. \A d \in Nat : q.distance <= d =>
            Q!Exact(q, rule) \in Nat /\ rule.min * 100 <= Q!Exact(q, rule)
    BY ExactGrows
  <2>2. q.distance <= q.distance
    BY <1>1
  <2> QED
    BY <1>1, <2>1, <2>2
<1>3. price \in Nat
  BY <1>2, Rounds
<1>4. rule.tolerance = 20
  BY <1>1, RuleFacts
<1> HIDE DEF rule, price
<1>5. 100 - rule.tolerance = 80 /\ 100 + rule.tolerance = 120
  BY <1>4
<1> QED
  BY <1>2, <1>3, <1>5 DEF Q!Estimate, rule, price

(* What was quoted is the estimate of what was asked, and what was answered *)
(* to a bid is whether it is within the exact limits.                      *)
QuoteInv ==
    /\ quote # Q!NoQuote =>
           ask \in Q!Ask /\ quote = Q!Estimate(ask, Q!DefaultRule[ask.type])
    /\ verdict # "none" =>
           /\ quote # Q!NoQuote
           /\ bid \in Int
           /\ verdict = IF Q!Approved(quote.price, bid) THEN "approved" ELSE "rejected"

LEMMA QuoteInvariance == Q!Spec => []QuoteInv
<1>1. Q!Init => QuoteInv
  BY DEF Q!Init, QuoteInv
<1>2. ASSUME QuoteInv, [Q!Next]_(Q!vars)
      PROVE  QuoteInv'
  <2>1. CASE Q!CalculateEstimate
    <3>1. quote = Q!NoQuote
      BY <1>2, <2>1 DEF QuoteInv, Q!CalculateEstimate, Q!Ask, Q!NoAsk, Q!ServiceType
    <3>2. verdict' = "none"
      BY <1>2, <2>1, <3>1 DEF QuoteInv, Q!CalculateEstimate
    <3> QED
      BY <2>1, <3>2 DEF QuoteInv, Q!CalculateEstimate
  <2>2. CASE Q!NegotiatePrice
    <3>1. quote # Q!NoQuote /\ ask \in Q!Ask /\ quote = Q!Estimate(ask, Q!DefaultRule[ask.type])
      BY <1>2, <2>2 DEF QuoteInv, Q!NegotiatePrice
    <3>2. quote.min \in Int /\ quote.max \in Int
      <4> DEFINE price == Q!Round500(Q!Exact(ask, Q!DefaultRule[ask.type]))
      <4>1. /\ price \in Nat
            /\ quote = [price |-> price, min |-> Q!Round500(price * 80),
                        max |-> Q!Round500(price * 120)]
        BY <3>1, EstimateIs
      <4> HIDE DEF price
      <4>2. price * 80 \in Nat /\ price * 120 \in Nat
        BY <4>1
      <4> QED
        BY <4>1, <4>2, Rounds
    <3>3. bid' \in Int
      BY <2>2, <3>2, RecordsConstants DEF Q!NegotiatePrice
    <3> QED
      BY <2>2, <3>1, <3>3 DEF QuoteInv, Q!NegotiatePrice
  <2>3. CASE UNCHANGED Q!vars
    BY <1>2, <2>3 DEF QuoteInv, Q!vars
  <2> QED
    BY <1>2, <2>1, <2>2, <2>3 DEF Q!Next
<1> QED
  BY <1>1, <1>2, PTL DEF Q!Spec

(* An estimate is the multiple of 500 nearest to the tariff and not below    *)
(* the minimum price, for every distance and weight.                       *)
THEOREM EstimatesAreNearest == Q!Spec => []EstimateIsNearest
<1>1. ASSUME QuoteInv PROVE EstimateIsNearest
  <2> SUFFICES ASSUME quote # Q!NoQuote
               PROVE  /\ quote.price % 500 = 0
                      /\ 2 * Q!Distance0(quote.price * 100, Q!Exact(ask, Q!DefaultRule[ask.type])) <= 50000
                      /\ quote.price >= Q!DefaultRule[ask.type].min
    BY DEF EstimateIsNearest, Q!EstimateIsNearest
  <2> DEFINE rule == Q!DefaultRule[ask.type]
             exact == Q!Exact(ask, rule)
  <2>1. ask \in Q!Ask /\ quote = Q!Estimate(ask, rule)
    BY <1>1 DEF QuoteInv
  <2>2. exact \in Nat /\ rule.min * 100 <= exact /\ quote.price = Q!Round500(exact)
    <3> DEFINE price == Q!Round500(exact)
    <3>1. /\ exact \in Nat /\ rule.min * 100 <= exact
          /\ quote = [price |-> price, min |-> Q!Round500(price * 80),
                      max |-> Q!Round500(price * 120)]
      BY <2>1, EstimateIs
    <3> HIDE DEF exact, price
    <3> QED
      BY <3>1 DEF price
  <2>3. rule.min \in Nat /\ rule.min % 500 = 0
    BY <2>1, RuleFacts DEF Q!Ask
  <2> HIDE DEF exact, rule
  <2>4. rule.min <= Q!Round500(exact)
    BY <2>2, <2>3, RoundsAbove
  <2>5. /\ quote.price \in Nat /\ quote.price % 500 = 0
        /\ 2 * (quote.price * 100 - exact) <= 50000 /\ 2 * (exact - quote.price * 100) <= 50000
    BY <2>2, Rounds
  <2>6. 2 * Q!Distance0(quote.price * 100, exact) <= 50000
    BY <2>2, <2>5 DEF Q!Distance0
  <2> QED
    BY <2>2, <2>3, <2>4, <2>5, <2>6 DEF exact, rule
<1> QED
  BY <1>1, QuoteInvariance, PTL

(* A longer trip is never cheaper, and the first two km cost the same.      *)
THEOREM LongerTripsCostMore == Q!Spec => []LongerCostsMore
<1>1. ASSUME QuoteInv PROVE LongerCostsMore
  <2> DEFINE rule == Q!DefaultRule[ask.type]
             At(d) == [ask EXCEPT !.distance = d]
             PriceAt(d) == Q!Estimate(At(d), Q!DefaultRule[ask.type]).price
  <2> SUFFICES ASSUME quote # Q!NoQuote
               PROVE  /\ PriceAt(ask.distance + 1) >= quote.price
                      /\ ask.distance <= 200 => quote.price = PriceAt(0)
    BY DEF LongerCostsMore, Q!LongerCostsMore
  <2>1. ask \in Q!Ask /\ ask.distance \in Nat /\ quote = Q!Estimate(ask, rule)
    BY <1>1, RecordsConstants DEF QuoteInv, Q!Ask
  <2>2. /\ \A d : PriceAt(d) = Q!Round500(Q!Exact(At(d), rule))
        /\ quote.price = Q!Round500(Q!Exact(ask, rule))
    BY <2>1 DEF Q!Estimate
  <2>3. /\ Q!Exact(ask, rule) \in Nat /\ Q!Exact(At(ask.distance + 1), rule) \in Nat
        /\ Q!Exact(ask, rule) <= Q!Exact(At(ask.distance + 1), rule)
    BY <2>1, ExactGrows
  <2>4. quote.price \in Nat /\ PriceAt(ask.distance + 1) >= quote.price
    <3> DEFINE near == Q!Exact(ask, rule)
               far == Q!Exact(At(ask.distance + 1), rule)
    <3>1. near \in Nat /\ far \in Nat /\ near <= far
      BY <2>3
    <3>2. quote.price = Q!Round500(near) /\ PriceAt(ask.distance + 1) = Q!Round500(far)
      BY <2>2
    <3> HIDE DEF near, far, PriceAt
    <3>3. Q!Round500(near) \in Nat /\ Q!Round500(far) \in Nat /\ Q!Round500(near) <= Q!Round500(far)
      BY <3>1, Rounds, RoundsInOrder
    <3> QED
      BY <3>2, <3>3
  <2>5. ASSUME ask.distance <= 200 PROVE Q!Exact(ask, rule) = Q!Exact(At(0), rule)
    <3>1. Q!Loaded(ask, rule) = Q!Loaded(At(0), rule)
      BY <2>1, <2>5 DEF Q!Loaded, Q!Distanced, Q!Ask
    <3> QED
      BY <2>1, <3>1 DEF Q!Exact, Q!Ask
  <2> QED
    BY <2>2, <2>4, <2>5
<1> QED
  BY <1>1, QuoteInvariance, PTL

(* A bid half a step inside the advertised limits is approved and one half  *)
(* a step outside rejected, for every estimate and every bid.              *)
THEOREM LimitsHold == Q!Spec => []LimitsMeanWhatTheySay
<1>1. ASSUME QuoteInv PROVE LimitsMeanWhatTheySay
  <2>1. CASE verdict = "none"
    BY <2>1 DEF LimitsMeanWhatTheySay, Q!LimitsMeanWhatTheySay
  <2>2. CASE verdict # "none"
    <3> DEFINE price == Q!Round500(Q!Exact(ask, Q!DefaultRule[ask.type]))
    <3>1. /\ price \in Nat
          /\ quote = [price |-> price, min |-> Q!Round500(price * 80),
                      max |-> Q!Round500(price * 120)]
      BY <1>1, <2>2, EstimateIs DEF QuoteInv
    <3>2. /\ bid \in Int
          /\ verdict = IF Q!Approved(quote.price, bid) THEN "approved" ELSE "rejected"
      BY <1>1, <2>2 DEF QuoteInv
    <3> HIDE DEF price
    <3>3. quote.price = price /\ quote.min = Q!Round500(price * 80) /\ quote.max = Q!Round500(price * 120)
      BY <3>1
    <3>4. /\ quote.min \in Nat /\ quote.max \in Nat
          /\ 2 * (quote.min * 100 - price * 80) <= 50000 /\ 2 * (price * 80 - quote.min * 100) <= 50000
          /\ 2 * (quote.max * 100 - price * 120) <= 50000 /\ 2 * (price * 120 - quote.max * 100) <= 50000
      BY <3>1, <3>3, Rounds
    <3> QED
      BY <3>1, <3>2, <3>3, <3>4 DEF LimitsMeanWhatTheySay, Q!LimitsMeanWhatTheySay, Q!Approved
  <2> QED
    BY <2>1, <2>2
<1> QED
  BY <1>1, QuoteInvariance, PTL
==============================================================================
