------------------------- MODULE Registration_proofs -------------------------
(***************************************************************************)
(* Theorems about Registration, for any number of registrations, edits,    *)
(* e-mails, phone numbers and failures.                                    *)
(***************************************************************************)
EXTENDS Registration, TLAPS

(* The credential a passenger's event stands for. *)
Backed(event) == [id |-> event.id, email |-> event.email, role |-> "user"] \in credentials

CredentialOf(c) == [id |-> c, email |-> request[c].email, role |-> request[c].role]

(* The order of auth_service.go:68 and :76: stored before published. *)
StoredBeforePublished ==
    \A c \in Call : pc[c] = "publish" => CredentialOf(c) \in credentials

EventsBacked ==
    /\ \A i \in 1..Len(topic) : Backed(topic[i])
    /\ held # None => Backed(held)

(* A row that is being edited stays; an edit never changes id and e-mail. *)
EditsOfUsers ==
    \A e \in Edit : epc[e] = "save" =>
        \E u \in users : u.id = copy[e].id /\ u.email = copy[e].email

IInv == /\ TypeOK
        /\ OneCredentialPerEmail
        /\ StoredBeforePublished
        /\ EventsBacked
        /\ UserHasCredential
        /\ OneUserPerAccountAndPhone
        /\ EditsOfUsers

------------------------------------------------------------------------------
LEMMA InitInv == Init => IInv
BY RegistrationConstants
   DEF Init, IInv, TypeOK, OneCredentialPerEmail, StoredBeforePublished, EventsBacked,
       UserHasCredential, OneUserPerAccountAndPhone, EditsOfUsers, CallPC, EditPC

(* What a step that leaves user-service and the topic alone must keep. *)
LEMMA Fewer == ASSUME TypeOK, Fault PROVE faults' \in 0..MaxFaults
BY RegistrationConstants DEF TypeOK, Fault

LEMMA RegisterInv == ASSUME IInv, NEW c \in Call, Register(c) PROVE IInv'
<1> USE DEF IInv
<1>1. UNCHANGED <<request, credentials, topic, committed, position, held, users, rejected, epc, copy>>
  BY DEF Register, kafka, user, edits
<1>2. /\ pc' \in [Call -> CallPC]
      /\ pc'[c] # "publish"
      /\ \A d \in Call \ {c} : pc'[d] = pc[d]
  BY DEF Register, TypeOK, CallPC, Goto
<1>3. faults' \in 0..MaxFaults
  BY Fewer DEF Register, TypeOK
<1>4. TypeOK'
  BY <1>1, <1>2, <1>3 DEF TypeOK
<1>5. StoredBeforePublished'
  BY <1>1, <1>2 DEF StoredBeforePublished, CredentialOf
<1> QED
  BY <1>1, <1>4, <1>5 DEF OneCredentialPerEmail, EventsBacked, Backed, UserHasCredential,
                          OneUserPerAccountAndPhone, EditsOfUsers

LEMMA CreateCredentialInv == ASSUME IInv, NEW c \in Call, CreateCredential(c) PROVE IInv'
<1> USE DEF IInv
<1>1. UNCHANGED <<request, topic, committed, position, held, users, rejected, epc, copy>>
  BY DEF CreateCredential, kafka, user, edits
<1>2. /\ pc' \in [Call -> CallPC]
      /\ \A d \in Call \ {c} : pc'[d] = pc[d]
  BY DEF CreateCredential, TypeOK, CallPC, Goto
<1>3. faults' \in 0..MaxFaults
  BY Fewer DEF CreateCredential, TypeOK
<1>4. \/ /\ Insertable(request[c].email)
         /\ credentials' = credentials \cup {CredentialOf(c)}
      \/ credentials' = credentials /\ pc'[c] = "refused"
  BY DEF CreateCredential, Goto, CredentialOf, TypeOK
<1>5. CredentialOf(c) \in Credential
  BY DEF CredentialOf, Credential, TypeOK, Request
<1>6. TypeOK'
  BY <1>1, <1>2, <1>3, <1>4, <1>5 DEF TypeOK
<1>7. OneCredentialPerEmail'
  BY <1>4 DEF OneCredentialPerEmail, Insertable, CredentialOf
<1>8. credentials \subseteq credentials'
  BY <1>4
<1>9. StoredBeforePublished'
  BY <1>1, <1>2, <1>4, <1>8 DEF StoredBeforePublished, CredentialOf
<1>10. EventsBacked' /\ UserHasCredential'
  BY <1>1, <1>8 DEF EventsBacked, Backed, UserHasCredential
<1> QED
  BY <1>1, <1>6, <1>7, <1>9, <1>10 DEF OneUserPerAccountAndPhone, EditsOfUsers

LEMMA PublishInv == ASSUME IInv, NEW c \in Call, Publish(c) PROVE IInv'
<1> USE DEF IInv
<1> DEFINE ev == UserCreated(c)
<1>1. UNCHANGED <<request, credentials, committed, position, held, users, rejected, epc, copy>>
  BY DEF Publish, user, edits
<1>2. /\ pc' \in [Call -> CallPC]
      /\ pc'[c] = "done"
      /\ \A d \in Call \ {c} : pc'[d] = pc[d]
  BY DEF Publish, TypeOK, CallPC, Goto
<1>3. faults' \in 0..MaxFaults
  BY Fewer DEF Publish, WriteMessages, TypeOK
<1>4. \/ UNCHANGED topic
      \/ request[c].role = "user" /\ topic' = Append(topic, ev)
      \/ request[c].role = "user" /\ topic' = Append(Append(topic, ev), ev)
  BY DEF Publish, WriteMessages
<1>5. ev \in Event
  BY DEF UserCreated, Event, TypeOK, Request
<1>6. request[c].role = "user" => Backed(ev)
  BY DEF Publish, StoredBeforePublished, CredentialOf, Backed, UserCreated
<1>7. topic \in Seq(Event)
  BY DEF TypeOK
<1> HIDE DEF ev
<1>8. /\ topic' \in Seq(Event)
      /\ Len(topic') \in Nat /\ Len(topic') >= Len(topic)
      /\ \A i \in 1..Len(topic') : Backed(topic'[i])
  <2>1. CASE UNCHANGED topic
    BY <1>7, <2>1 DEF EventsBacked
  <2>2. CASE request[c].role = "user" /\ topic' = Append(topic, ev)
    BY <1>5, <1>6, <1>7, <2>2 DEF EventsBacked
  <2>3. CASE request[c].role = "user" /\ topic' = Append(Append(topic, ev), ev)
    <3>1. /\ Append(topic, ev) \in Seq(Event)
          /\ Len(Append(topic, ev)) = Len(topic) + 1
          /\ \A i \in 1..(Len(topic) + 1) : Backed(Append(topic, ev)[i])
      BY <1>5, <1>6, <1>7, <2>3 DEF EventsBacked
    <3> QED
      BY <1>5, <1>6, <1>7, <2>3, <3>1
  <2> QED
    BY <1>4, <2>1, <2>2, <2>3
<1>9. TypeOK'
  BY <1>1, <1>2, <1>3, <1>8 DEF TypeOK
<1>10. StoredBeforePublished'
  BY <1>1, <1>2 DEF StoredBeforePublished, CredentialOf
<1>11. EventsBacked'
  BY <1>1, <1>8 DEF EventsBacked, Backed
<1> QED
  BY <1>1, <1>9, <1>10, <1>11 DEF OneCredentialPerEmail, UserHasCredential,
                                  OneUserPerAccountAndPhone, EditsOfUsers

LEMMA AuthCrashInv == ASSUME IInv, AuthCrash PROVE IInv'
<1> USE DEF IInv
<1>1. UNCHANGED <<request, credentials, topic, committed, position, held, users, rejected, epc, copy>>
  BY DEF AuthCrash, kafka, user, edits
<1>2. pc' \in [Call -> CallPC] /\ \A c \in Call : pc'[c] # "publish"
  BY DEF AuthCrash, TypeOK, CallPC
<1>3. faults' \in 0..MaxFaults
  BY Fewer DEF AuthCrash
<1>4. TypeOK'
  BY <1>1, <1>2, <1>3 DEF TypeOK
<1> QED
  BY <1>1, <1>2, <1>4 DEF OneCredentialPerEmail, StoredBeforePublished, EventsBacked, Backed,
                          UserHasCredential, OneUserPerAccountAndPhone, EditsOfUsers

LEMMA ReadMessageInv == ASSUME IInv, ReadMessage PROVE IInv'
<1> USE DEF IInv
<1>1. UNCHANGED <<pc, request, credentials, topic, users, rejected, epc, copy>>
  BY DEF ReadMessage, auth, user, edits
<1>2. position \in 0..Len(topic) /\ position' = position + 1 /\ position < Len(topic)
  BY DEF ReadMessage, TypeOK
<1>3. /\ committed' \in {committed, position'}
      /\ held' \in {held, topic[position']}
  BY DEF ReadMessage
<1>4. position' \in 1..Len(topic)
  BY <1>2 DEF TypeOK
<1>5. topic[position'] \in Event
  BY <1>4 DEF TypeOK
<1>6. faults' \in 0..MaxFaults
  BY Fewer DEF ReadMessage, TypeOK
<1>7. TypeOK'
  BY <1>1, <1>2, <1>3, <1>4, <1>5, <1>6 DEF TypeOK
<1>8. EventsBacked'
  BY <1>1, <1>3, <1>4 DEF EventsBacked, Backed
<1> QED
  BY <1>1, <1>7, <1>8 DEF OneCredentialPerEmail, StoredBeforePublished, CredentialOf,
                          UserHasCredential, OneUserPerAccountAndPhone, EditsOfUsers

(* The three outcomes of CreateUser. *)
LEMMA CreateUserCases ==
    ASSUME IInv, CreateUser
    PROVE  LET u == NewUser(held) IN
           /\ held \in Event
           /\ held' = None
           /\ faults' \in 0..MaxFaults
           /\ UNCHANGED <<pc, request, credentials, topic, committed, position, epc, copy>>
           /\ \/ /\ \A v \in users : v.id # held.id
                 /\ Admitted(u)
                 /\ users' = users \cup {u}
                 /\ UNCHANGED rejected
              \/ /\ \A v \in users : v.id # held.id
                 /\ ~Admitted(u)
                 /\ users' = users
                 /\ rejected' = rejected \cup {u.id}
              \/ UNCHANGED <<users, rejected>>
<1>1. held \in Event /\ held' = None
  BY DEF IInv, TypeOK, CreateUser
<1>2. faults' \in 0..MaxFaults
  BY Fewer DEF IInv, TypeOK, CreateUser, InsertUser
<1>3. UNCHANGED <<pc, request, credentials, topic, committed, position, epc, copy>>
  BY DEF CreateUser, auth, edits
<1>4. CASE \E v \in users : v.id = held.id
  BY <1>1, <1>2, <1>3, <1>4 DEF CreateUser
<1>5. CASE \A v \in users : v.id # held.id
  <2>1. InsertUser(NewUser(held))
    BY <1>5 DEF CreateUser
  <2> QED
    BY <1>1, <1>2, <1>3, <1>5, <2>1 DEF InsertUser
<1> QED
  BY <1>4, <1>5

LEMMA CreateUserInv == ASSUME IInv, CreateUser PROVE IInv'
<1> DEFINE u == NewUser(held)
<1>1. /\ held \in Event
      /\ held' = None
      /\ faults' \in 0..MaxFaults
      /\ UNCHANGED <<pc, request, credentials, topic, committed, position, epc, copy>>
  BY CreateUserCases
<1>2. u \in User /\ u.id = held.id /\ u.email = held.email
  BY <1>1 DEF NewUser, Event, User, Submitted
<1>3. \/ /\ \A v \in users : v.id # held.id
         /\ PhoneFree(u)
         /\ users' = users \cup {u}
         /\ UNCHANGED rejected
      \/ users' = users /\ rejected' \in {rejected, rejected \cup {u.id}}
  BY CreateUserCases DEF Admitted
<1>4. u.id \in Call
  BY <1>2 DEF User
<1>5. Backed(held)
  BY <1>1 DEF IInv, EventsBacked, CreateUser
<1> HIDE DEF u
<1>6. TypeOK'
  BY <1>1, <1>2, <1>3, <1>4 DEF IInv, TypeOK
<1>7. OneCredentialPerEmail' /\ StoredBeforePublished'
  BY <1>1 DEF IInv, OneCredentialPerEmail, StoredBeforePublished, CredentialOf
<1>8. EventsBacked'
  BY <1>1 DEF IInv, EventsBacked, Backed
<1>9. UserHasCredential'
  BY <1>1, <1>2, <1>3, <1>5 DEF IInv, UserHasCredential, Backed
<1>10. OneUserPerAccountAndPhone'
  BY <1>2, <1>3 DEF IInv, OneUserPerAccountAndPhone, PhoneFree
<1>11. EditsOfUsers'
  BY <1>1, <1>3 DEF IInv, EditsOfUsers
<1> QED
  BY <1>6, <1>7, <1>8, <1>9, <1>10, <1>11 DEF IInv

LEMMA GetUserByIDInv ==
    ASSUME IInv, NEW e \in Edit, NEW id \in Call, NEW phone \in Phone, GetUserByID(e, id, phone)
    PROVE  IInv'
<1> USE DEF IInv
<1>1. UNCHANGED <<pc, request, credentials, topic, committed, position, held, users, rejected, faults>>
  BY DEF GetUserByID, auth, kafka, user
<1>2. PICK u \in users, text \in {e, "long"} :
           copy' = [copy EXCEPT ![e] = [u EXCEPT !.phone = phone, !.text = text]]
  BY DEF GetUserByID
<1> DEFINE row == [u EXCEPT !.phone = phone, !.text = text]
<1>3. u \in User
  BY DEF TypeOK
<1>4. row \in User /\ row.id = u.id /\ row.email = u.email
  BY <1>3 DEF User, Submitted
<1>5. copy' = [copy EXCEPT ![e] = row]
  BY <1>2
<1> HIDE DEF row
<1>6. /\ copy' \in [Edit -> User \cup {None}]
      /\ copy'[e] = row
      /\ \A f \in Edit \ {e} : copy'[f] = copy[f]
  BY <1>4, <1>5 DEF TypeOK
<1>7. /\ epc' \in [Edit -> EditPC]
      /\ \A f \in Edit \ {e} : epc'[f] = epc[f]
  BY DEF GetUserByID, EditGoto, TypeOK, EditPC
<1>8. TypeOK'
  BY <1>1, <1>4, <1>6, <1>7, RegistrationConstants DEF TypeOK
<1>9. EditsOfUsers'
  BY <1>1, <1>4, <1>6, <1>7 DEF EditsOfUsers
<1> QED
  BY <1>1, <1>8, <1>9 DEF OneCredentialPerEmail, StoredBeforePublished, CredentialOf,
                          EventsBacked, Backed, UserHasCredential, OneUserPerAccountAndPhone

(* What an edit that is saved does to the rows. *)
LEMMA SaveUserCases ==
    ASSUME IInv, NEW e \in Edit, SaveUser(e)
    PROVE  /\ copy[e] \in User
           /\ \E u \in users : u.id = copy[e].id /\ u.email = copy[e].email
           /\ UNCHANGED <<pc, request, credentials, topic, committed, position, held, rejected, copy>>
           /\ faults' \in 0..MaxFaults
           /\ epc' \in [Edit -> EditPC]
           /\ epc[e] = "save" /\ epc'[e] # "save"
           /\ \A f \in Edit \ {e} : epc'[f] = epc[f]
           /\ \/ /\ PhoneFree(copy[e])
                 /\ users' = {u \in users : u.id # copy[e].id} \cup {copy[e]}
                 /\ epc'[e] = "ok"
              \/ UNCHANGED users
<1>1. copy[e] \in User /\ epc[e] = "save"
  BY DEF IInv, TypeOK, SaveUser
<1>2. \E u \in users : u.id = copy[e].id /\ u.email = copy[e].email
  BY <1>1 DEF IInv, EditsOfUsers
<1>3. UNCHANGED <<pc, request, credentials, topic, committed, position, held, rejected, copy>>
  BY DEF SaveUser, auth, kafka
<1>4. faults' \in 0..MaxFaults
  BY Fewer DEF SaveUser, IInv, TypeOK
<1>5. /\ epc' \in [Edit -> EditPC]
      /\ epc'[e] # "save"
      /\ \A f \in Edit \ {e} : epc'[f] = epc[f]
  BY DEF SaveUser, EditGoto, IInv, TypeOK, EditPC
<1>6. \/ /\ PhoneFree(copy[e])
         /\ users' = {u \in users : u.id # copy[e].id} \cup {copy[e]}
         /\ epc'[e] = "ok"
      \/ UNCHANGED users
  BY DEF SaveUser, EditGoto, Admitted, IInv, TypeOK
<1> QED
  BY <1>1, <1>2, <1>3, <1>4, <1>5, <1>6

LEMMA SaveUserInv == ASSUME IInv, NEW e \in Edit, SaveUser(e) PROVE IInv'
<1>1. /\ copy[e] \in User
      /\ UNCHANGED <<pc, request, credentials, topic, committed, position, held, rejected, copy>>
      /\ faults' \in 0..MaxFaults
      /\ epc' \in [Edit -> EditPC]
      /\ epc'[e] # "save"
      /\ \A f \in Edit \ {e} : epc'[f] = epc[f]
      /\ \/ /\ PhoneFree(copy[e])
            /\ users' = {u \in users : u.id # copy[e].id} \cup {copy[e]}
         \/ UNCHANGED users
  BY SaveUserCases
<1>2. PICK u \in users : u.id = copy[e].id /\ u.email = copy[e].email
  BY SaveUserCases
<1>3. TypeOK'
  BY <1>1 DEF IInv, TypeOK
<1>4. OneCredentialPerEmail' /\ StoredBeforePublished' /\ EventsBacked'
  BY <1>1 DEF IInv, OneCredentialPerEmail, StoredBeforePublished, CredentialOf, EventsBacked, Backed
<1>5. UserHasCredential'
  BY <1>1, <1>2 DEF IInv, UserHasCredential
<1>6. OneUserPerAccountAndPhone'
  BY <1>1 DEF IInv, OneUserPerAccountAndPhone, PhoneFree
<1>7. EditsOfUsers'
  <2> SUFFICES ASSUME NEW f \in Edit, epc'[f] = "save"
               PROVE  \E v \in users' : v.id = copy[f].id /\ v.email = copy[f].email
    BY <1>1 DEF EditsOfUsers
  <2>1. PICK v \in users : v.id = copy[f].id /\ v.email = copy[f].email
    BY <1>1 DEF IInv, EditsOfUsers
  <2>2. CASE v \in users'
    BY <2>1, <2>2
  <2>3. CASE v \notin users'
    <3>1. copy[e] \in users' /\ v.id = u.id
      BY <1>1, <1>2, <2>1, <2>3
    <3>2. v = u
      BY <2>1, <3>1 DEF IInv, OneUserPerAccountAndPhone
    <3> QED
      BY <1>2, <2>1, <3>1, <3>2
  <2> QED
    BY <2>2, <2>3
<1> QED
  BY <1>3, <1>4, <1>5, <1>6, <1>7 DEF IInv

LEMMA UserCrashInv == ASSUME IInv, UserCrash PROVE IInv'
<1> USE DEF IInv
<1>1. /\ UNCHANGED <<pc, request, credentials, topic, committed, users, rejected, copy>>
      /\ position' = committed
      /\ held' = None
  BY DEF UserCrash, auth, user
<1>2. epc' \in [Edit -> EditPC] /\ \A e \in Edit : epc'[e] # "save"
  BY DEF UserCrash, TypeOK, EditPC
<1>3. faults' \in 0..MaxFaults
  BY Fewer DEF UserCrash
<1>4. TypeOK'
  BY <1>1, <1>2, <1>3 DEF TypeOK
<1> QED
  BY <1>1, <1>2, <1>4 DEF OneCredentialPerEmail, StoredBeforePublished, CredentialOf, EventsBacked,
                          Backed, UserHasCredential, OneUserPerAccountAndPhone, EditsOfUsers

------------------------------------------------------------------------------
LEMMA StepInv == IInv /\ [Next]_vars => IInv'
<1> SUFFICES ASSUME IInv, [Next]_vars PROVE IInv'
  OBVIOUS
<1>1. CASE UNCHANGED vars
  BY <1>1 DEF vars, auth, kafka, user, edits, IInv, TypeOK, OneCredentialPerEmail,
              StoredBeforePublished, CredentialOf, EventsBacked, Backed, UserHasCredential,
              OneUserPerAccountAndPhone, EditsOfUsers
<1>2. CASE Next
  BY <1>2, RegisterInv, CreateCredentialInv, PublishInv, AuthCrashInv, ReadMessageInv,
     CreateUserInv, GetUserByIDInv, SaveUserInv, UserCrashInv DEF Next, AuthStep, Consume
<1> QED
  BY <1>1, <1>2

LEMMA Invariant == Spec => []IInv
BY InitInv, StepInv, PTL DEF Spec

(* Every variable of the registration pipeline keeps its type; the         *)
(* committed offset never passes the reader, nor the reader the topic.     *)
THEOREM TypeCorrect == Spec => []TypeOK
<1>1. IInv => TypeOK
  BY DEF IInv
<1> QED
  BY Invariant, <1>1, PTL

(* However many registrations overlap, an e-mail is stored once. *)
THEOREM EmailStoredOnce == Spec => []OneCredentialPerEmail
<1>1. IInv => OneCredentialPerEmail
  BY DEF IInv
<1> QED
  BY Invariant, <1>1, PTL

(* No user without a passenger's credential, whatever fails or is repeated. *)
THEOREM UsersAreBacked == Spec => []UserHasCredential
<1>1. IInv => UserHasCredential
  BY DEF IInv
<1> QED
  BY Invariant, <1>1, PTL

(* One user of an account, one user of a phone number. *)
THEOREM UsersAreUnique == Spec => []OneUserPerAccountAndPhone
<1>1. IInv => OneUserPerAccountAndPhone
  BY DEF IInv
<1> QED
  BY Invariant, <1>1, PTL

LEMMA ChangedByEdit ==
    ASSUME IInv, [Next]_vars, NEW u \in users, u \notin users'
    PROVE  \E e \in Edit : /\ epc[e] = "save" /\ epc'[e] = "ok"
                           /\ copy[e].id = u.id /\ copy[e] \in users'
<1>1. PICK e \in Edit : SaveUser(e)
  <2>1. ~CreateUser
    BY CreateUserCases
  <2> QED
    BY <2>1 DEF vars, Next, AuthStep, Consume, Register, CreateCredential, Publish, AuthCrash,
                ReadMessage, GetUserByID, UserCrash, user
<1>2. /\ epc[e] = "save" /\ epc'[e] = "ok"
      /\ users' = {v \in users : v.id # copy[e].id} \cup {copy[e]}
  BY <1>1, SaveUserCases
<1> QED
  BY <1>2

(* Only the edit of a row changes it: no event, repeated or not, does. *)
THEOREM EditsSurvive == Spec => OnlyEditsChangeUsers
<1>1. IInv /\ [Next]_vars =>
        [\A u \in users \ users' :
           \E e \in Edit : /\ epc[e] = "save" /\ epc'[e] = "ok"
                          /\ copy[e].id = u.id /\ copy[e] \in users']_vars
  BY ChangedByEdit
<1> QED
  BY Invariant, <1>1, PTL DEF Spec, OnlyEditsChangeUsers

LEMMA CauseOfRefusal ==
    ASSUME IInv, [Next]_vars, rejected' # rejected
    PROVE  \/ ~Fits(held)
           \/ \E u \in users : u.phone = held.phone /\ u.id # held.id
<1>1. CreateUser
  <2>1. \A e \in Edit : ~SaveUser(e)
    BY DEF SaveUser
  <2> QED
    BY <2>1 DEF vars, Next, AuthStep, Consume, Register, CreateCredential, Publish, AuthCrash,
                ReadMessage, GetUserByID, UserCrash, user
<1> DEFINE n == NewUser(held)
<1>2. /\ held \in Event
      /\ \A v \in users : v.id # held.id
      /\ ~Admitted(n)
  BY <1>1, CreateUserCases
<1>3. /\ n.id = held.id /\ n.email = held.email
      /\ n.phone = held.phone /\ n.text = held.text
  BY DEF NewUser
<1>4. Backed(held)
  BY <1>1 DEF IInv, EventsBacked, CreateUser
<1> HIDE DEF n
<1>5. EmailFree(n)
  <2> SUFFICES ASSUME NEW v \in users, v.email = held.email PROVE FALSE
    BY <1>3 DEF EmailFree
  <2> DEFINE r == [id |-> v.id, email |-> v.email, role |-> "user"]
             s == [id |-> held.id, email |-> held.email, role |-> "user"]
  <2>1. r \in credentials /\ s \in credentials
    BY <1>4 DEF IInv, UserHasCredential, Backed
  <2>2. r.email = s.email
    OBVIOUS
  <2>3. r = s
    BY <2>1, <2>2 DEF IInv, OneCredentialPerEmail
  <2>4. r.id = v.id /\ s.id = held.id
    OBVIOUS
  <2> QED
    BY <1>2, <2>3, <2>4
<1> QED
  BY <1>2, <1>3, <1>5 DEF Admitted, Fits, PhoneFree

(* A user is refused for a phone number that another user has or a value   *)
(* longer than its column, and for nothing else: the e-mails of all events *)
(* were admitted once by auth-service.                                     *)
THEOREM RefusalsHaveCause == Spec => RefusedWithCause
<1>1. IInv /\ [Next]_vars =>
        [rejected' # rejected =>
           \/ ~Fits(held)
           \/ \E u \in users : u.phone = held.phone /\ u.id # held.id]_vars
  BY CauseOfRefusal
<1> QED
  BY Invariant, <1>1, PTL DEF Spec, RefusedWithCause
==============================================================================
