---------------------------- MODULE Registration -----------------------------
(***************************************************************************)
(* Registration of a passenger across two services.  auth-service stores   *)
(* the credential and publishes the account on topic user.created;         *)
(* user-service reads the topic in one goroutine and creates the user with *)
(* its profile and rating; the passenger edits the profile meanwhile.      *)
(* Nothing but the topic ties the two databases together.                  *)
(***************************************************************************)
EXTENDS Integers, Sequences

CONSTANTS Call,     \* calls of Register; each generates an account id, so it names the account
          Edit,     \* calls of UpdateProfile
          Email,
          Phone,
          None,     \* neither an event nor a row
          MaxFaults \* bound on the failures of a behaviour

Role == {"user", "driver", "admin"}

(* A name, phone number or photo is "long" when it has more characters than *)
(* its column of users admits.  auth-service asks for nothing but that name *)
(* and number are there.  (A long e-mail is not told apart: the column of   *)
(* auth_credentials is as short as that of users, and refuses it first.)    *)
Submitted == {"registered", "long"}

(* An event carries the account id, the e-mail, the name and the number. *)
Event == [id : Call, email : Email, phone : Phone, text : Submitted]

VARIABLES
    pc,          \* what each call of Register does next
    request,     \* what it was called with
    credentials, \* auth-service's table auth_credentials
    topic,       \* user.created, one partition
    committed,   \* events the consumer group has committed
    position,    \* events the running reader has passed
    held,        \* the event ReadMessage returned last, until it is processed
    users,       \* user-service's tables users, user_profiles, user_ratings
    rejected,    \* accounts whose creation was refused by users and logged
    epc,         \* what each call of UpdateProfile does next
    copy,        \* the row it read, with its fields changed
    faults       \* failures left

auth  == <<pc, request, credentials>>
kafka == <<topic, committed, position, held>>
user  == <<users, rejected>>
edits == <<epc, copy>>
vars  == <<auth, kafka, user, edits, faults>>

Request == [email : Email, phone : Phone, text : Submitted, role : Role]
Credential == [id : Call, email : Email, role : Role]
(* text stands for the name, address and photo: as registered, or as an    *)
(* edit wrote them, or too long (with the number) for their columns.       *)
User == [id : Call, email : Email, phone : Phone, text : Edit \cup Submitted]

ASSUME RegistrationConstants ==
    /\ None \notin Event
    /\ None \notin User
    /\ Edit \cap Submitted = {}
    /\ MaxFaults \in Nat

CallPC == {"idle", "store", "publish", "done", "refused", "dead"}
EditPC == {"idle", "save", "ok", "error"}

TypeOK ==
    /\ pc \in [Call -> CallPC]
    /\ request \in [Call -> Request]
    /\ credentials \subseteq Credential
    /\ topic \in Seq(Event)
    /\ committed \in 0..Len(topic)
    /\ position \in 0..Len(topic)
    /\ committed <= position
    /\ held \in Event \cup {None}
    /\ users \subseteq User
    /\ rejected \subseteq Call
    /\ epc \in [Edit -> EditPC]
    /\ copy \in [Edit -> User \cup {None}]
    /\ \A e \in Edit : epc[e] = "save" => copy[e] # None
    /\ faults \in 0..MaxFaults

Fault == faults > 0 /\ faults' = faults - 1
Goto(c, next) == pc' = [pc EXCEPT ![c] = next]
EditGoto(e, next) == epc' = [epc EXCEPT ![e] = next]

------------------------------------------------------------------------------
Init ==
    /\ pc = [c \in Call |-> "idle"]
    /\ request \in [Call -> Request]
    /\ credentials = {}
    /\ topic = <<>>
    /\ committed = 0
    /\ position = 0
    /\ held = None
    /\ users = {}
    /\ rejected = {}
    /\ epc = [e \in Edit |-> "idle"]
    /\ copy = [e \in Edit |-> None]
    /\ faults = MaxFaults

------------------------------------------------------------------------------
(* auth-service *)

GetCredentialByEmail(email) == {r \in credentials : r.email = email}

(* A read that fails finds no credential: its error is dropped. *)
Register(c) ==
    /\ pc[c] = "idle"
    /\ \/ /\ GetCredentialByEmail(request[c].email) # {}
          /\ Goto(c, "refused")
          /\ UNCHANGED faults
       \/ /\ GetCredentialByEmail(request[c].email) = {}
          /\ Goto(c, "store")
          /\ UNCHANGED faults
       \/ /\ Fault
          /\ Goto(c, "store")
    /\ UNCHANGED <<request, credentials, kafka, user, edits>>

(* Mutant of Insertable: auth_credentials without its unique index. *)
InsertableAlways(email) == TRUE

(* The unique index on email; the account id is fresh. *)
Insertable(email) == \A r \in credentials : r.email # email

(* Mutant of CreateCredential: the error of the insertion is dropped, like *)
(* the one of the publication.                                             *)
CreateCredentialUnchecked(c) ==
    LET r == request[c] IN
    /\ pc[c] = "store"
    /\ IF Insertable(r.email)
       THEN credentials' = credentials \cup {[id |-> c, email |-> r.email, role |-> r.role]}
       ELSE UNCHANGED credentials
    /\ Goto(c, "publish")
    /\ UNCHANGED <<request, kafka, user, edits, faults>>

CreateCredential(c) ==
    LET r == request[c] IN
    /\ pc[c] = "store"
    /\ \/ /\ Insertable(r.email)
          /\ credentials' = credentials \cup {[id |-> c, email |-> r.email, role |-> r.role]}
          /\ Goto(c, "publish")
          /\ UNCHANGED faults
       \/ /\ ~Insertable(r.email)
          /\ Goto(c, "refused")
          /\ UNCHANGED <<credentials, faults>>
       \/ /\ Fault
          /\ Goto(c, "refused")
          /\ UNCHANGED credentials
    /\ UNCHANGED <<request, kafka, user, edits>>

UserCreated(c) == [id |-> c, email |-> request[c].email, phone |-> request[c].phone,
                   text |-> request[c].text]

(* WriteMessages: the event is written, or, in a failure, not at all, or   *)
(* twice, when the writer repeats a request whose answer was lost.         *)
WriteMessages(event) ==
    \/ topic' = Append(topic, event) /\ UNCHANGED faults
    \/ topic' = Append(Append(topic, event), event) /\ Fault
    \/ UNCHANGED topic /\ Fault

(* Only a passenger is published on user.created; what the publication     *)
(* returns is dropped, and the client gets its token in any case.          *)
Publish(c) ==
    /\ pc[c] = "publish"
    /\ IF request[c].role = "user" THEN WriteMessages(UserCreated(c))
                                   ELSE UNCHANGED <<topic, faults>>
    /\ Goto(c, "done")
    /\ UNCHANGED <<request, credentials, committed, position, held, user, edits>>

(* auth-service dies with the calls in progress. *)
AuthCrash ==
    /\ \E c \in Call : pc[c] \in {"store", "publish"}
    /\ pc' = [c \in Call |-> IF pc[c] \in {"store", "publish"} THEN "dead" ELSE pc[c]]
    /\ Fault
    /\ UNCHANGED <<request, credentials, kafka, user, edits>>

------------------------------------------------------------------------------
(* user-service: the consumer *)

(* Mutant of ReadMessage: the reader passes the event without taking it. *)
ReadMessageSkips ==
    /\ held = None
    /\ position < Len(topic)
    /\ position' = position + 1
    /\ committed' = position'
    /\ held' \in {None, topic[position']}
    /\ UNCHANGED <<auth, topic, user, edits, faults>>

(* ReadMessage commits before it returns the event.  When the commit fails *)
(* (or only its answer is lost) it returns the error instead of the event, *)
(* the loop goes on with the next one and a later commit covers this one.  *)
ReadMessage ==
    /\ held = None
    /\ position < Len(topic)
    /\ position' = position + 1
    /\ \/ /\ committed' = position'
          /\ held' = topic[position']
          /\ UNCHANGED faults
       \/ /\ committed' \in {committed, position'}
          /\ Fault
          /\ UNCHANGED held
    /\ UNCHANGED <<auth, topic, user, edits>>

(* The unique indexes of users; u replaces the row of the same id. *)
PhoneFree(u) == \A v \in users : v.phone = u.phone => v.id = u.id
EmailFree(u) == \A v \in users : v.email = u.email => v.id = u.id

(* The widths of the columns. *)
Fits(u) == u.text # "long"

Admitted(u) == Fits(u) /\ PhoneFree(u) /\ EmailFree(u)

(* The event becomes the row. *)
NewUser(event) ==
    [id |-> event.id, email |-> event.email, phone |-> event.phone, text |-> event.text]

(* One transaction inserts user, profile and rating.  Its error is logged  *)
(* and the event is not repeated.                                          *)
InsertUser(u) ==
    \/ /\ Admitted(u)
       /\ users' = users \cup {u}
       /\ UNCHANGED <<rejected, faults>>
    \/ /\ ~Admitted(u)
       /\ rejected' = rejected \cup {u.id}
       /\ UNCHANGED <<users, faults>>
    \/ /\ Fault
       /\ UNCHANGED <<users, rejected>>

(* Mutant of CreateUser: an upsert in place of the test. *)
CreateUserUpserts ==
    /\ held # None
    /\ users' = {u \in users : u.id # held.id} \cup {NewUser(held)}
    /\ held' = None
    /\ UNCHANGED <<auth, topic, committed, position, rejected, edits, faults>>

(* A failed read counts as no user found; the insertion then meets the     *)
(* primary key and changes nothing, like the return of the first branch.   *)
CreateUser ==
    /\ held # None
    /\ IF \E u \in users : u.id = held.id
       THEN UNCHANGED <<users, rejected, faults>>
       ELSE InsertUser(NewUser(held))
    /\ held' = None
    /\ UNCHANGED <<auth, topic, committed, position, edits>>

------------------------------------------------------------------------------
(* user-service: the profile *)

GetUserByID(e, id, phone) ==
    /\ epc[e] = "idle"
    /\ \E u \in users :
           /\ u.id = id
           /\ \E text \in {e, "long"} :
                  copy' = [copy EXCEPT ![e] = [u EXCEPT !.phone = phone, !.text = text]]
    /\ EditGoto(e, "save")
    /\ UNCHANGED <<auth, kafka, user, faults>>

(* Mutant of SaveUser: users without its unique index on nomor_hp. *)
SaveUserAnyPhone(e) ==
    /\ epc[e] = "save"
    /\ Fits(copy[e])
    /\ users' = {u \in users : u.id # copy[e].id} \cup {copy[e]}
    /\ EditGoto(e, "ok")
    /\ UNCHANGED <<auth, kafka, rejected, copy, faults>>

(* Save writes every column of the copy, unless a unique index, the width   *)
(* of a column or a failure refuses it.                                    *)
SaveUser(e) ==
    /\ epc[e] = "save"
    /\ \/ /\ Admitted(copy[e])
          /\ users' = {u \in users : u.id # copy[e].id} \cup {copy[e]}
          /\ EditGoto(e, "ok")
          /\ UNCHANGED faults
       \/ /\ ~Admitted(copy[e])
          /\ EditGoto(e, "error")
          /\ UNCHANGED <<users, faults>>
       \/ /\ Fault
          /\ EditGoto(e, "error")
          /\ UNCHANGED users
    /\ UNCHANGED <<auth, kafka, rejected, copy>>

(* user-service dies: the event in progress and the edits are lost, and    *)
(* the new reader starts at the committed offset.                          *)
UserCrash ==
    /\ Fault
    /\ position' = committed
    /\ held' = None
    /\ epc' = [e \in Edit |-> IF epc[e] = "save" THEN "error" ELSE epc[e]]
    /\ UNCHANGED <<auth, topic, committed, user, copy>>

------------------------------------------------------------------------------
AuthStep(c) == Register(c) \/ CreateCredential(c) \/ Publish(c)
Consume == ReadMessage \/ CreateUser

Next ==
    \/ \E c \in Call : AuthStep(c)
    \/ Consume
    \/ \E e \in Edit, id \in Call, phone \in Phone : GetUserByID(e, id, phone)
    \/ \E e \in Edit : SaveUser(e)
    \/ AuthCrash
    \/ UserCrash

Spec == Init /\ [][Next]_vars

(* The consumer loops for ever, and a call that was started is run. *)
FairSpec ==
    /\ Spec
    /\ WF_vars(Consume)
    /\ \A c \in Call : WF_vars(CreateCredential(c) \/ Publish(c))

------------------------------------------------------------------------------
(* Properties *)

(* Registrations of one e-mail that overlap all find it free and at most   *)
(* one is stored (auth_service.go:43 tests, :68 stores).                   *)
OneCredentialPerEmail ==
    \A r, s \in credentials : r.email = s.email => r = s

(* Every user of user-service has the credential of a passenger with its   *)
(* e-mail in auth-service, whatever was lost, repeated or restarted: the   *)
(* event is published after the credential is stored.                      *)
UserHasCredential ==
    \A u \in users : [id |-> u.id, email |-> u.email, role |-> "user"] \in credentials

(* An account has one user and a phone number belongs to one user, though  *)
(* registrations and edits change the numbers concurrently.                *)
OneUserPerAccountAndPhone ==
    \A u, v \in users : u.id = v.id \/ u.phone = v.phone => u = v

(* No row changes or disappears except when an edit of that row is saved:  *)
(* an event delivered again does not undo an edit ("idempotent",           *)
(* user_service.go:63).                                                    *)
OnlyEditsChangeUsers ==
    [][\A u \in users \ users' :
           \E e \in Edit : /\ epc[e] = "save" /\ epc'[e] = "ok"
                          /\ copy[e].id = u.id /\ copy[e] \in users']_vars

(* users refuses the insertion of a user for a phone number that another   *)
(* user has, or for a name or number longer than its column (nama and      *)
(* nomor_hp, domain/models.go:37,39), and for nothing else: e-mails never  *)
(* collide here, because auth-service admitted each of them once.          *)
RefusedWithCause ==
    [][rejected' # rejected =>
           \/ ~Fits(held)
           \/ \E u \in users : u.phone = held.phone /\ u.id # held.id]_vars

Registered(c) == \E u \in users : u.id = c

(* Without a failure a passenger's registration is refused by auth-service *)
(* or leads to a user, or to a refusal by users that is logged and whose   *)
(* causes RefusedWithCause names: the client has its token then all the    *)
(* same (auth_service.go:73-94).                                           *)
RegistrationCompletes ==
    \A c \in Call :
        pc[c] = "store" /\ request[c].role = "user"
            ~> pc[c] = "refused" \/ Registered(c) \/ c \in rejected \/ faults < MaxFaults
==============================================================================
