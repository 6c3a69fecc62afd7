------------------------------- MODULE Booking --------------------------------
(***************************************************************************)
(* From a journey to its price: map-route-service, which keeps the routes  *)
(* it made up in a table, and the instances of pricing-service, which seed *)
(* the table of rules when they start and serve requests after that.       *)
(***************************************************************************)
EXTENDS Tariff, Sequences

CONSTANTS Client,   \* who asks for a route and then for its price
          Journey,  \* pairs of origin and destination
          LengthOf, \* the length the seeded generator draws for a journey, in metres
          Replica,  \* instances of pricing-service
          Unknown,  \* no length is known
          MaxFaults

ASSUME BookingConstants ==
    /\ LengthOf \in [Journey -> Nat]
    /\ Unknown \notin Nat
    /\ MaxFaults \in Nat

VARIABLES
    routes, \* map_routes: the lengths stored for a journey, by decimal(10,2) km
    rules,  \* pricing_rules: the service types that have one
    boot,   \* how far an instance of pricing-service has started
    seeded, \* and how many rules it has tried to insert
    pc,     \* what a client's request does next
    wish,   \* the journey and the service it asks for
    length, \* the length in the route it gets, in metres
    told,   \* history: the prices clients were told
    faults  \* failures left

pricing == <<rules, boot, seeded>>
client == <<pc, wish, length>>
vars == <<routes, pricing, client, told, faults>>

Wish == [journey : Journey, type : ServiceType]
NoWish == [type |-> "none"]
Seeds == <<"ride", "car", "send">>

TypeOK ==
    /\ routes \in [Journey -> SUBSET Nat]
    /\ rules \subseteq ServiceType
    /\ boot \in [Replica -> {"connect", "count", "seed", "serve"}]
    /\ seeded \in [Replica -> 0..Len(Seeds)]
    /\ pc \in [Client -> {"idle", "lookup", "save", "estimate"}]
    /\ wish \in [Client -> Wish \cup {NoWish}]
    /\ length \in [Client -> Nat \cup {Unknown}]
    /\ told \subseteq [journey : Journey, type : ServiceType, length : Nat, price : Nat]
    /\ faults \in 0..MaxFaults

------------------------------------------------------------------------------
Init ==
    /\ routes = [j \in Journey |-> {}]
    /\ rules = {}
    /\ boot = [r \in Replica |-> "connect"]
    /\ seeded = [r \in Replica |-> 0]
    /\ pc = [c \in Client |-> "idle"]
    /\ wish = [c \in Client |-> NoWish]
    /\ length = [c \in Client |-> Unknown]
    /\ told = {}
    /\ faults = MaxFaults

(* Mutant of Generated: the length is not cut to two decimals. *)
GeneratedExact(j) == LengthOf[j]

(* The generator is seeded with the journey; int(distance*100)/100. *)
Generated(j) == (LengthOf[j] \div 10) * 10

(* decimal(10,2): rounded to two decimals. *)
Column(metres) == ((metres + 5) \div 10) * 10

------------------------------------------------------------------------------
(* pricing-service starts *)

(* The database is reached and migrated; when that fails the process ends   *)
(* and is started again.                                                   *)
ConnectDatabase(r) ==
    /\ boot[r] = "connect"
    /\ boot' = [boot EXCEPT ![r] = "count"]
    /\ UNCHANGED <<routes, rules, seeded, client, told, faults>>

CountRules(r) ==
    /\ boot[r] = "count"
    /\ boot' = [boot EXCEPT ![r] = IF rules = {} THEN "seed" ELSE "serve"]
    /\ UNCHANGED <<routes, rules, seeded, client, told, faults>>

(* The next default rule was inserted, or refused: the loop goes on. *)
Advance(r) ==
    /\ seeded' = [seeded EXCEPT ![r] = (@ + 1) % Len(Seeds)]
    /\ boot' = [boot EXCEPT ![r] = IF seeded[r] + 1 = Len(Seeds) THEN "serve" ELSE @]

(* Mutant of SeedRule: the rules are counted before each of them. *)
SeedFirstRule(r) ==
    /\ boot[r] = "seed"
    /\ IF rules = {}
       THEN Advance(r) /\ rules' = rules \cup {Seeds[seeded[r] + 1]}
       ELSE boot' = [boot EXCEPT ![r] = "serve"] /\ UNCHANGED <<rules, seeded>>
    /\ UNCHANGED <<routes, client, told, faults>>

(* That another instance inserted the rule first violates the unique index  *)
(* and is only logged.                                                     *)
SeedRule(r) ==
    /\ boot[r] = "seed"
    /\ rules' = rules \cup {Seeds[seeded[r] + 1]}
    /\ Advance(r)
    /\ UNCHANGED <<routes, client, told, faults>>

------------------------------------------------------------------------------
(* A client *)

Ask(c, w) ==
    /\ pc[c] = "idle"
    /\ wish' = [wish EXCEPT ![c] = w]
    /\ pc' = [pc EXCEPT ![c] = "lookup"]
    /\ UNCHANGED <<routes, pricing, length, told, faults>>

Gets(c, metres, next) == /\ length' = [length EXCEPT ![c] = metres]
                         /\ pc' = [pc EXCEPT ![c] = next]

Misses(c) == Gets(c, Generated(wish[c].journey), "save")

(* GetRoute: the first row of the journey, if there is one. *)
LookUp(c) ==
    /\ pc[c] = "lookup"
    /\ \/ \E metres \in routes[wish[c].journey] : Gets(c, metres, "estimate")
       \/ routes[wish[c].journey] = {} /\ Misses(c)
    /\ UNCHANGED <<routes, pricing, wish, told, faults>>

(* SaveRoute: there is no unique index, another row may exist by now.  The  *)
(* client is answered the length that was generated.                       *)
SaveRoute(c) ==
    /\ pc[c] = "save"
    /\ routes' = [routes EXCEPT ![wish[c].journey] = @ \cup {Column(length[c])}]
    /\ pc' = [pc EXCEPT ![c] = "estimate"]
    /\ UNCHANGED <<pricing, wish, length, told, faults>>

AskOf(c) == [type |-> wish[c].type, distance |-> length[c] \div 10,
             weight |-> 0, rush |-> FALSE, night |-> FALSE]

(* CalculateEstimate by an instance that serves. *)
Price(c) ==
    /\ pc[c] = "estimate"
    /\ wish[c].type \in rules
    /\ \E r \in Replica : boot[r] = "serve"
    /\ told' = told \cup {[journey |-> wish[c].journey, type |-> wish[c].type,
                           length |-> length[c],
                           price |-> Estimate(AskOf(c), DefaultRule[wish[c].type]).price]}
    /\ pc' = [pc EXCEPT ![c] = "idle"]
    /\ wish' = [wish EXCEPT ![c] = NoWish]
    /\ length' = [length EXCEPT ![c] = Unknown]
    /\ UNCHANGED <<routes, pricing, faults>>

(* Without an active rule the answer is an error 500, and the client asks   *)
(* for the estimate again.                                                 *)
Refused(c) ==
    /\ pc[c] = "estimate"
    /\ wish[c].type \notin rules
    /\ \E r \in Replica : boot[r] = "serve"
    /\ UNCHANGED vars

------------------------------------------------------------------------------
(* Failures *)

(* Any error of the look-up counts as a miss. *)
LookUpFails(c) ==
    /\ pc[c] = "lookup"
    /\ Misses(c)
    /\ UNCHANGED <<routes, pricing, wish, told>>

(* That the route was not saved is only logged. *)
SaveRouteFails(c) ==
    /\ pc[c] = "save"
    /\ pc' = [pc EXCEPT ![c] = "estimate"]
    /\ UNCHANGED <<routes, pricing, wish, length, told>>

(* The error of Count is dropped: no rules were counted. *)
CountFails(r) ==
    /\ boot[r] = "count"
    /\ boot' = [boot EXCEPT ![r] = "seed"]
    /\ UNCHANGED <<routes, rules, seeded, client, told>>

SeedRuleFails(r) ==
    /\ boot[r] = "seed"
    /\ Advance(r)
    /\ UNCHANGED <<routes, rules, client, told>>

ReplicaCrash(r) ==
    /\ boot' = [boot EXCEPT ![r] = "connect"]
    /\ seeded' = [seeded EXCEPT ![r] = 0]
    /\ UNCHANGED <<routes, rules, client, told>>

Break ==
    /\ faults > 0
    /\ faults' = faults - 1
    /\ \/ \E c \in Client : LookUpFails(c) \/ SaveRouteFails(c)
       \/ \E r \in Replica : CountFails(r) \/ SeedRuleFails(r) \/ ReplicaCrash(r)

------------------------------------------------------------------------------
Start(r) == ConnectDatabase(r) \/ CountRules(r) \/ SeedRule(r)
Serve(c) == LookUp(c) \/ SaveRoute(c) \/ Price(c)

Next ==
    \/ \E c \in Client, w \in Wish : Ask(c, w)
    \/ \E c \in Client : Serve(c) \/ Refused(c)
    \/ \E r \in Replica : Start(r)
    \/ Break

Spec == Init /\ [][Next]_vars

(* Clients wait for their answers, instances that were stopped are started. *)
FairSpec == /\ Spec
            /\ \A r \in Replica : WF_vars(Start(r))
            /\ \A c \in Client : WF_vars(Serve(c))

------------------------------------------------------------------------------
(* Properties *)

(* A journey has one length and one price per service, whether its route    *)
(* was found, made up, stored twice or not at all, and whichever instance   *)
(* seeded the rule (map_service.go lines 31-85: what is answered is what    *)
(* decimal(10,2) keeps).                                                   *)
SameJourneySameQuote ==
    \A a, b \in told : a.journey = b.journey /\ a.type = b.type => a = b

(* Two instances that start together refuse each other's rules and still    *)
(* leave them all: unless something failed, an instance that serves misses  *)
(* a rule only while one is still seeding (main.go lines 127-179).         *)
OnlyFailuresLoseRules ==
    faults = MaxFaults /\ (\E r \in Replica : boot[r] = "serve")
        => rules = ServiceType \/ \E r \in Replica : boot[r] = "seed"

(* Everybody who asks for a journey gets a price, also one who meets an     *)
(* instance that serves before another has seeded the rule: refused for a   *)
(* time, but not for ever, as long as nothing has failed (lines 31-34).    *)
EveryJourneyPriced ==
    \A c \in Client : pc[c] = "lookup" ~> (pc[c] = "idle" \/ faults < MaxFaults)
==============================================================================
