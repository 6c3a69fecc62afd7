------------------------------- MODULE Shipment -------------------------------
(***************************************************************************)
(* shipment-service.  UpdateShipment and UploadProof read a row, change    *)
(* their copy and Save it, without a transaction around the two.  Save of  *)
(* GORM writes every column; when its UPDATE meets no row it goes on with  *)
(* INSERT ... ON CONFLICT (id) DO UPDATE, so a shipment that was deleted   *)
(* after it was read comes back.  Two instances of the service share the   *)
(* table; a Handler is a request in progress in either.                    *)
(***************************************************************************)
EXTENDS FiniteSets

CONSTANTS Shipment, \* ids that BeforeCreate generates, each at most once
          Order,    \* order_id of the requests
          Code,     \* tracking codes; they are drawn, so one may be drawn again
          Field,    \* keys of a manifest
          Value,    \* and their values
          Detail,   \* the manifests that requests carry
          Photo,    \* URLs of photos
          None,     \* a key, or a photo, that is not there
          NoRow,    \* no row has this id
          Contended, \* see book
          Handler   \* requests that can be in progress at one time

Manifest == [Field -> Value \cup {None}]
Row == [order : Order, code : Code, status : {"pending", "delivered"},
        manifest : Manifest, proof : Photo \cup {None}]

ASSUME ShipmentConstants ==
    /\ IsFiniteSet(Shipment) /\ IsFiniteSet(Handler)
    /\ Detail \subseteq Manifest
    /\ None \notin Photo
    /\ NoRow \notin Row
    /\ Contended \notin Row \cup {NoRow}

VARIABLES
    row,     \* committed: table shipments
    born,    \* history: the ids that were inserted
    label,   \* history: the shipments whose creation a client was told of
    book,    \* history: the row of each shipment if its requests had come one
             \* after the other, or Contended once two of them overlapped
    pc,      \* the statement each handler executes next
    req,     \* its request
    copy,    \* the row it read
    answer   \* what it will answer

table == <<row, born, label, book>>
local == <<pc, req, copy, answer>>
vars == <<table, local>>

Request ==
    [op : {"create"}, id : Shipment, order : Order, detail : Detail]
    \cup [op : {"update"}, id : Shipment, detail : Detail]
    \cup [op : {"proof"}, id : Shipment, photo : Photo]
    \cup [op : {"delete", "get"}, id : Shipment]
    \cup [op : {"track"}, id : Shipment, code : Code]
NoRequest == [op |-> "none"]
Label == [id : Shipment, order : Order, code : Code]
Statement == {"insert", "read", "update", "upsert", "delete", "get", "track"}

TypeOK ==
    /\ row \in [Shipment -> Row \cup {NoRow}]
    /\ born \subseteq Shipment
    /\ label \subseteq Label
    /\ book \in [Shipment -> Row \cup {NoRow, Contended}]
    /\ pc \in [Handler -> {"idle", "reply"} \cup Statement]
    /\ req \in [Handler -> Request \cup {NoRequest}]
    /\ copy \in [Handler -> Row \cup {NoRow}]
    /\ answer \in [Handler -> {"none", "ok", "notfound", "error"}]

------------------------------------------------------------------------------
(* Helpers *)

Ids == {s \in Shipment : row[s] # NoRow}

(* The keys of the request are laid over those that are stored. *)
Merge(old, new) == [f \in Field |-> IF new[f] # None THEN new[f] ELSE old[f]]

NewRow(o, c, d) == [order |-> o, code |-> c, status |-> "pending",
                    manifest |-> Merge([f \in Field |-> None], d), proof |-> None]

(* Mutant of Edited: the photo is stored, the status is left for later. *)
EditedPhotoOnly(r, q) ==
    IF q.op = "proof" THEN [r EXCEPT !.proof = q.photo]
    ELSE [r EXCEPT !.manifest = Merge(@, q.detail)]

(* What UploadProof or UpdateShipment makes of its copy. *)
Edited(r, q) ==
    IF q.op = "proof" THEN [r EXCEPT !.proof = q.photo, !.status = "delivered"]
    ELSE [r EXCEPT !.manifest = Merge(@, q.detail)]

(* The unique indexes on order_id and tracking_code. *)
Insertable(s, o, c) == \A t \in Ids \ {s} : row[t].order # o /\ row[t].code # c

Writes(h, s) == /\ pc[h] \in {"read", "update", "upsert", "delete"}
                /\ req[h].id = s

Goto(h, next) == pc' = [pc EXCEPT ![h] = next]
Answer(h, a) == /\ Goto(h, "reply")
                /\ answer' = [answer EXCEPT ![h] = a]

------------------------------------------------------------------------------
Init ==
    /\ row = [s \in Shipment |-> NoRow]
    /\ born = {} /\ label = {}
    /\ book = [s \in Shipment |-> NoRow]
    /\ pc = [h \in Handler |-> "idle"]
    /\ req = [h \in Handler |-> NoRequest]
    /\ copy = [h \in Handler |-> NoRow]
    /\ answer = [h \in Handler |-> "none"]

FirstStatement(op) == CASE op = "create" -> "insert"
                        [] op \in {"update", "proof"} -> "read"
                        [] op = "delete" -> "delete"
                        [] op = "get" -> "get"
                        [] op = "track" -> "track"

(* A creation names the id it will be given, which no other has had;        *)
(* clients ask for shipments the list shows or showed, and track the codes  *)
(* they were told.                                                         *)
Askable(q) ==
    CASE q.op = "create" -> /\ q.id \notin born
                            /\ \A g \in Handler : pc[g] = "insert" => req[g].id # q.id
      [] q.op = "track" -> \E l \in label : l.id = q.id /\ l.code = q.code
      [] OTHER -> q.id \in born

Ask(h, q) ==
    /\ pc[h] = "idle"
    /\ Askable(q)
    /\ req' = [req EXCEPT ![h] = q]
    /\ Goto(h, FirstStatement(q.op))
    /\ book' = IF q.op \in {"update", "proof", "delete"}
                  /\ \E g \in Handler : Writes(g, q.id)
               THEN [book EXCEPT ![q.id] = Contended] ELSE book
    /\ UNCHANGED <<row, born, label, copy, answer>>

Created(h, new) == /\ book' = [book EXCEPT ![req[h].id] = new]
                   /\ born' = born \cup {req[h].id}
                   /\ copy' = [copy EXCEPT ![h] = new]
                   /\ Answer(h, "ok")

(* A tracking code is drawn and the row inserted, if the indexes allow it. *)
CreateShipment(h) ==
    /\ pc[h] = "insert"
    /\ \E c \in Code :
           LET new == NewRow(req[h].order, c, req[h].detail)
           IN  IF Insertable(req[h].id, new.order, c)
               THEN row' = [row EXCEPT ![req[h].id] = new] /\ Created(h, new)
               ELSE Answer(h, "error") /\ UNCHANGED <<row, book, born, copy>>
    /\ UNCHANGED <<label, req>>

(* The read of UpdateShipment and UploadProof. *)
ReadShipment(h) ==
    /\ pc[h] = "read"
    /\ IF req[h].id \in Ids
       THEN /\ copy' = [copy EXCEPT ![h] = row[req[h].id]]
            /\ Goto(h, "update")
            /\ UNCHANGED answer
       ELSE /\ Answer(h, "notfound")
            /\ UNCHANGED copy
    /\ UNCHANGED <<table, req>>

(* Mutant of SaveUpdates: a new manifest is set after the copy was saved. *)
SaveBeforeEdit(h) ==
    LET s == req[h].id
    IN  /\ pc[h] = "update"
        /\ IF s \in Ids
           THEN /\ row' = [row EXCEPT ![s] = IF req[h].op = "proof" THEN Edited(copy[h], req[h])
                                            ELSE copy[h]]
                /\ book' = [book EXCEPT ![s] = IF @ = Contended THEN @ ELSE Edited(@, req[h])]
                /\ Answer(h, "ok")
           ELSE /\ Goto(h, "upsert")
                /\ UNCHANGED <<row, book, answer>>
        /\ UNCHANGED <<born, label, req, copy>>

(* Save: UPDATE of every column. *)
SaveUpdates(h) ==
    LET s == req[h].id
    IN  /\ pc[h] = "update"
        /\ IF s \in Ids
           THEN /\ row' = [row EXCEPT ![s] = Edited(copy[h], req[h])]
                /\ book' = [book EXCEPT ![s] = IF @ = Contended THEN @ ELSE Edited(@, req[h])]
                /\ Answer(h, "ok")
           ELSE /\ Goto(h, "upsert")
                /\ UNCHANGED <<row, book, answer>>
        /\ UNCHANGED <<born, label, req, copy>>

(* Mutant of SaveInserts: the row gets a new tracking code. *)
SaveInsertsRecoded(h) ==
    LET s == req[h].id
    IN  /\ pc[h] = "upsert"
        /\ \E c \in Code :
               IF Insertable(s, copy[h].order, c)
               THEN /\ row' = [row EXCEPT ![s] = [Edited(copy[h], req[h]) EXCEPT !.code = c]]
                    /\ Answer(h, "ok")
               ELSE Answer(h, "error") /\ UNCHANGED row
        /\ UNCHANGED <<born, label, book, req, copy>>

(* Save: no row was updated, INSERT ... ON CONFLICT (id) DO UPDATE; the     *)
(* other unique indexes can refuse it.                                     *)
SaveInserts(h) ==
    LET s == req[h].id
    IN  /\ pc[h] = "upsert"
        /\ IF Insertable(s, copy[h].order, copy[h].code)
           THEN /\ row' = [row EXCEPT ![s] = Edited(copy[h], req[h])]
                /\ Answer(h, "ok")
           ELSE Answer(h, "error") /\ UNCHANGED row
        /\ UNCHANGED <<born, label, book, req, copy>>

(* DELETE; that there was no row is no error. *)
DeleteShipment(h) ==
    LET s == req[h].id
    IN  /\ pc[h] = "delete"
        /\ row' = [row EXCEPT ![s] = NoRow]
        /\ book' = [book EXCEPT ![s] = IF @ = Contended THEN @ ELSE NoRow]
        /\ Answer(h, "ok")
        /\ UNCHANGED <<born, label, req, copy>>

GetShipmentByID(h) ==
    /\ pc[h] = "get"
    /\ Answer(h, IF req[h].id \in Ids THEN "ok" ELSE "notfound")
    /\ UNCHANGED <<table, req, copy>>

GetShipmentByTrackingCode(h) ==
    /\ pc[h] = "track"
    /\ Answer(h, IF \E s \in Ids : row[s].code = req[h].code THEN "ok" ELSE "notfound")
    /\ UNCHANGED <<table, req, copy>>

(* A statement fails: error 500. *)
StatementFails(h) ==
    /\ pc[h] \in Statement
    /\ Answer(h, "error")
    /\ UNCHANGED <<table, req, copy>>

Finish(h) == /\ Goto(h, "idle")
             /\ req' = [req EXCEPT ![h] = NoRequest]
             /\ copy' = [copy EXCEPT ![h] = NoRow]
             /\ answer' = [answer EXCEPT ![h] = "none"]

(* The answer reaches the client; that of a creation carries the label. *)
Reply(h) ==
    /\ pc[h] = "reply"
    /\ label' = IF req[h].op = "create" /\ answer[h] = "ok"
                THEN label \cup {[id |-> req[h].id, order |-> copy[h].order,
                                  code |-> copy[h].code]}
                ELSE label
    /\ Finish(h)
    /\ UNCHANGED <<row, born, book>>

(* Or the connection is lost, or the instance dies, before it does. *)
Crash(h) ==
    /\ pc[h] # "idle"
    /\ Finish(h)
    /\ UNCHANGED table

------------------------------------------------------------------------------
Step(h) == \/ CreateShipment(h) \/ ReadShipment(h) \/ SaveUpdates(h)
           \/ SaveInserts(h) \/ DeleteShipment(h)
           \/ GetShipmentByID(h) \/ GetShipmentByTrackingCode(h)
           \/ Reply(h)

Next == \E h \in Handler : \/ \E q \in Request : Ask(h, q)
                          \/ Step(h)
                          \/ StatementFails(h)
                          \/ Crash(h)

Spec == Init /\ [][Next]_vars

------------------------------------------------------------------------------
(* Properties *)

(* However updates and proofs overwrite each other, a shipment stands as    *)
(* delivered exactly when it has its photo: every writer saves the two      *)
(* columns as a pair it read or wrote itself (lines 138-141, 163-167;       *)
(* "pengiriman ditandai selesai (delivered)").                             *)
DeliveredWithProof ==
    \A s \in Ids : row[s].status = "delivered" <=> row[s].proof # None

(* A shipment whose updates, proofs and deletions never overlapped is what  *)
(* they make one after the other: no edit is undone, no delivery reverted   *)
(* and no deleted row returns (lines 97-168).                              *)
CalmIsSequential ==
    \A s \in Shipment : book[s] # Contended => row[s] = book[s]

(* The label a client was given keeps naming its order's shipment: as long  *)
(* as the shipment exists, or exists again, it has that code (lines 82-86). *)
LabelNamesShipment ==
    \A l \in label : l.id \in Ids => row[l.id].code = l.code /\ row[l.id].order = l.order

==============================================================================
