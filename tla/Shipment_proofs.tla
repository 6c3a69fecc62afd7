---------------------------- MODULE Shipment_proofs ----------------------------
(***************************************************************************)
(* Theorems about Shipment, for any number of shipments, orders, tracking  *)
(* codes, manifests and requests in progress.                              *)
(***************************************************************************)
EXTENDS Shipment, TLAPS

Creation == [op : {"create"}, id : Shipment, order : Order, detail : Detail]
EditRequest == [op : {"update"}, id : Shipment, detail : Detail]
                   \cup [op : {"proof"}, id : Shipment, photo : Photo]

(* A request executes the statements of its operation. *)
RequestsFit ==
    \A h \in Handler :
        /\ pc[h] = "insert" => req[h] \in Creation
        /\ pc[h] \in {"read", "update", "upsert"} => req[h] \in EditRequest
        /\ pc[h] # "idle" => req[h] \in Request
        /\ pc[h] \in Statement \ {"insert"} => req[h].op # "create"
        /\ pc[h] \in {"update", "upsert"} => copy[h] # NoRow
        /\ copy[h] # NoRow => pc[h] \in {"update", "upsert", "reply"}
        /\ pc[h] = "reply" /\ req[h].op = "create" /\ answer[h] = "ok" => copy[h] # NoRow

(* Only ids that were inserted are written, and only once inserted. *)
BornOnce ==
    /\ \A s \in Shipment : s \notin born => row[s] = NoRow /\ book[s] = NoRow
    /\ \A l \in label : l.id \in born
    /\ \A h \in Handler : /\ \A s \in Shipment : Writes(h, s) => s \in born
                          /\ copy[h] # NoRow => req[h].id \in born
                          /\ pc[h] = "insert" => req[h].id \notin born
    /\ \A g, h \in Handler : pc[g] = "insert" /\ pc[h] = "insert" /\ req[g].id = req[h].id => g = h

(* A shipment that was never contended has one writer at most, and what     *)
(* that one read is what the row holds.                                    *)
CalmHasOneWriter ==
    /\ \A s \in Shipment : \A g, h \in Handler :
           Writes(g, s) /\ Writes(h, s) /\ g # h => book[s] = Contended
    /\ \A h \in Handler :
           /\ pc[h] = "update" /\ book[req[h].id] # Contended => copy[h] = row[req[h].id]
           /\ pc[h] = "upsert" => book[req[h].id] = Contended

ProofPair(r) == r.status = "delivered" <=> r.proof # None

(* Every row that is read or stored has its photo exactly when delivered. *)
PairsKept ==
    /\ \A s \in Ids : ProofPair(row[s])
    /\ \A h \in Handler : copy[h] # NoRow => ProofPair(copy[h])

SameLabel(r, q) == r.order = q.order /\ r.code = q.code

(* A row, every copy of it and its label agree on the order and the code. *)
LabelsKept ==
    /\ \A h \in Handler : copy[h] # NoRow /\ req[h].id \in Ids => SameLabel(copy[h], row[req[h].id])
    /\ \A g, h \in Handler : copy[g] # NoRow /\ copy[h] # NoRow /\ req[g].id = req[h].id
                                 => SameLabel(copy[g], copy[h])
    /\ \A l \in label, h \in Handler : copy[h] # NoRow /\ req[h].id = l.id => SameLabel(l, copy[h])
    /\ LabelNamesShipment

IInv == /\ TypeOK
        /\ RequestsFit
        /\ BornOnce
        /\ CalmHasOneWriter
        /\ CalmIsSequential
        /\ PairsKept
        /\ LabelsKept

------------------------------------------------------------------------------
(* What a request and a row are. *)

LEMMA RequestKinds ==
    ASSUME NEW q \in Request
    PROVE  /\ q.id \in Shipment
           /\ q.op \in {"create", "update", "proof", "delete", "get", "track"}
           /\ q.op = "create" => q \in Creation
           /\ q.op \in {"update", "proof"} => q \in EditRequest
BY DEF Request, Creation, EditRequest

LEMMA EditOp ==
    ASSUME NEW q \in EditRequest
    PROVE  q.op # "create"
BY DEF EditRequest

LEMMA Merged ==
    ASSUME NEW old \in Manifest, NEW new \in Detail
    PROVE  Merge(old, new) \in Manifest
BY ShipmentConstants DEF Merge, Manifest

LEMMA EditedIsRow ==
    ASSUME NEW r \in Row, NEW q \in EditRequest
    PROVE  /\ Edited(r, q) \in Row
           /\ SameLabel(Edited(r, q), r)
           /\ ProofPair(r) => ProofPair(Edited(r, q))
<1>1. CASE q \in [op : {"proof"}, id : Shipment, photo : Photo]
  BY <1>1, ShipmentConstants DEF Edited, Row, SameLabel, ProofPair
<1>2. CASE q \in [op : {"update"}, id : Shipment, detail : Detail]
  <2>1. Merge(r.manifest, q.detail) \in Manifest
    BY <1>2, Merged DEF Row
  <2>2. Edited(r, q) = [r EXCEPT !.manifest = Merge(r.manifest, q.detail)]
    BY <1>2 DEF Edited
  <2> QED
    BY <2>1, <2>2 DEF Row, SameLabel, ProofPair
<1> QED
  BY <1>1, <1>2 DEF EditRequest

LEMMA NewRowIsRow ==
    ASSUME NEW o \in Order, NEW c \in Code, NEW d \in Detail
    PROVE  /\ NewRow(o, c, d) \in Row
           /\ ProofPair(NewRow(o, c, d))
<1>1. [f \in Field |-> None] \in Manifest
  BY DEF Manifest
<1>2. Merge([f \in Field |-> None], d) \in Manifest
  BY <1>1, Merged
<1> QED
  BY <1>2 DEF NewRow, Row, ProofPair

LEMMA InitInv == Init => IInv
<1> SUFFICES ASSUME Init PROVE IInv
  OBVIOUS
<1> USE DEF Init
<1>1. TypeOK
  BY DEF TypeOK
<1>2. RequestsFit /\ CalmHasOneWriter /\ CalmIsSequential
  BY DEF RequestsFit, Statement, CalmHasOneWriter, Writes, CalmIsSequential
<1>3. BornOnce
  BY DEF BornOnce, Writes
<1>4. PairsKept /\ LabelsKept
  BY DEF PairsKept, LabelsKept, LabelNamesShipment, Ids
<1> QED
  BY <1>1, <1>2, <1>3, <1>4 DEF IInv

(* What a step of h leaves of the other requests. *)
OthersKept(h) == \A g \in Handler \ {h} : UNCHANGED <<pc[g], req[g], copy[g], answer[g]>>

(* Steps that end a request, or its statements, without writing. *)
LEMMA EndInv ==
    ASSUME IInv, TypeOK', NEW h \in Handler, OthersKept(h), UNCHANGED table,
           \/ pc'[h] = "idle" /\ copy'[h] = NoRow
           \/ /\ pc'[h] = "reply" /\ pc[h] \in Statement
              /\ UNCHANGED <<req[h], copy[h]>>
              /\ answer'[h] = "ok" => pc[h] # "insert"
    PROVE  IInv'
<1> USE DEF OthersKept, table
<1>1. RequestsFit'
  <2> SUFFICES ASSUME NEW g \in Handler
               PROVE  (/\ pc[g] = "insert" => req[g] \in Creation
                       /\ pc[g] \in {"read", "update", "upsert"} => req[g] \in EditRequest
                       /\ pc[g] # "idle" => req[g] \in Request
                       /\ pc[g] \in Statement \ {"insert"} => req[g].op # "create"
                       /\ pc[g] \in {"update", "upsert"} => copy[g] # NoRow
                       /\ copy[g] # NoRow => pc[g] \in {"update", "upsert", "reply"}
                       /\ pc[g] = "reply" /\ req[g].op = "create" /\ answer[g] = "ok"
                              => copy[g] # NoRow)'
    BY DEF RequestsFit
  <2>1. CASE g # h
    BY <2>1 DEF IInv, RequestsFit
  <2>2. CASE g = h
    BY <2>2 DEF IInv, RequestsFit, Statement
  <2> QED
    BY <2>1, <2>2
<1>2. BornOnce'
  BY DEF IInv, BornOnce, Writes
<1>3. CalmHasOneWriter' /\ CalmIsSequential'
  BY DEF IInv, CalmHasOneWriter, CalmIsSequential, Writes
<1>4. PairsKept'
  BY DEF IInv, PairsKept, Ids
<1>5. LabelsKept'
  BY DEF IInv, LabelsKept, LabelNamesShipment, Ids
<1> QED
  BY <1>1, <1>2, <1>3, <1>4, <1>5 DEF IInv

LEMMA AskInv ==
    ASSUME IInv, NEW h \in Handler, NEW q \in Request, Ask(h, q)
    PROVE  IInv'
<1>1. /\ pc[h] = "idle" /\ copy[h] = NoRow /\ Askable(q)
      /\ pc'[h] = FirstStatement(q.op) /\ req'[h] = q /\ copy' = copy /\ answer' = answer
      /\ UNCHANGED <<row, born, label>>
      /\ \A g \in Handler \ {h} : UNCHANGED <<pc[g], req[g]>>
  BY DEF Ask, Goto, IInv, TypeOK, RequestsFit
<1>2. /\ q.id \in Shipment
      /\ q.op \in {"create", "update", "proof", "delete", "get", "track"}
      /\ q.op = "create" => q \in Creation
      /\ q.op \in {"update", "proof"} => q \in EditRequest
  BY RequestKinds
<1>3. /\ pc'[h] \in Statement \ {"update", "upsert"}
      /\ pc'[h] = "insert" <=> q.op = "create"
      /\ pc'[h] = "read" <=> q.op \in {"update", "proof"}
      /\ pc'[h] = "delete" <=> q.op = "delete"
  BY <1>1, <1>2 DEF FirstStatement, Statement
<1>4. /\ q.op = "create" => q.id \notin born /\ \A g \in Handler : pc[g] = "insert" => req[g].id # q.id
      /\ q.op # "create" => q.id \in born
  BY <1>1, <1>2 DEF Askable, IInv, BornOnce
<1>5. /\ \A s \in Shipment : book'[s] \in {book[s], Contended}
      /\ q.id \in Shipment
      /\ q.op \in {"update", "proof", "delete"} /\ (\E g \in Handler : Writes(g, q.id))
             => book'[q.id] = Contended
      /\ \A s \in Shipment : s # q.id => book'[s] = book[s]
      /\ q.id \notin born => book'[q.id] = book[q.id]
  BY <1>2, <1>4 DEF Ask, IInv, TypeOK, BornOnce
<1>6. TypeOK'
  <2>1. pc' \in [Handler -> {"idle", "reply"} \cup Statement] /\ req' \in [Handler -> Request \cup {NoRequest}]
    BY <1>3 DEF Ask, Goto, IInv, TypeOK
  <2>2. book' \in [Shipment -> Row \cup {NoRow, Contended}]
    BY DEF Ask, IInv, TypeOK
  <2> QED
    BY <1>1, <2>1, <2>2 DEF IInv, TypeOK
<1>7. RequestsFit'
  BY <1>1, <1>2, <1>3 DEF IInv, RequestsFit, Statement
<1>8. BornOnce'
  <2>1. \A s \in Shipment : s \notin born => row[s] = NoRow /\ book'[s] = NoRow
    BY <1>5 DEF IInv, BornOnce
  <2>2. \A g \in Handler, s \in Shipment : Writes(g, s)' => s \in born
    BY <1>1, <1>3, <1>4 DEF IInv, BornOnce, Writes
  <2>3. \A g \in Handler : /\ copy[g] # NoRow => req'[g].id \in born
                           /\ pc'[g] = "insert" => req'[g].id \notin born
    BY <1>1, <1>3, <1>4 DEF IInv, BornOnce
  <2>4. \A f, g \in Handler : pc'[f] = "insert" /\ pc'[g] = "insert" /\ req'[f].id = req'[g].id => f = g
    BY <1>1, <1>3, <1>4 DEF IInv, BornOnce
  <2> QED
    BY <1>1, <2>1, <2>2, <2>3, <2>4 DEF IInv, BornOnce
<1>9. CalmHasOneWriter' /\ CalmIsSequential'
  <2>1. \A g \in Handler, s \in Shipment : Writes(g, s)' /\ g # h => Writes(g, s)
    BY <1>1 DEF Writes
  <2>2. \A s \in Shipment : Writes(h, s)' => s = q.id /\ q.op \in {"update", "proof", "delete"}
    BY <1>1, <1>3 DEF Writes
  <2>3. \A s \in Shipment : \A f, g \in Handler :
            Writes(f, s)' /\ Writes(g, s)' /\ f # g => book'[s] = Contended
    BY <1>5, <2>1, <2>2 DEF IInv, CalmHasOneWriter
  <2>4. \A g \in Handler : /\ pc'[g] = "update" /\ book'[req'[g].id] # Contended
                                  => copy[g] = row[req'[g].id]
                           /\ pc'[g] = "upsert" => book'[req'[g].id] = Contended
    <3>1. ASSUME NEW g \in Handler, pc'[g] \in {"update", "upsert"}
          PROVE  g # h /\ pc[g] = pc'[g] /\ req'[g] = req[g] /\ req[g].id \in Shipment
      BY <1>1, <1>3, <3>1, RequestKinds DEF IInv, RequestsFit
    <3> QED
      BY <3>1, <1>5 DEF IInv, CalmHasOneWriter
  <2>5. CalmIsSequential'
    BY <1>1, <1>5 DEF IInv, CalmIsSequential
  <2> QED
    BY <1>1, <2>3, <2>4, <2>5 DEF CalmHasOneWriter
<1>10. PairsKept'
  BY <1>1 DEF IInv, PairsKept, Ids
<1>11. LabelsKept'
  BY <1>1 DEF IInv, LabelsKept, LabelNamesShipment, Ids
<1> QED
  BY <1>6, <1>7, <1>8, <1>9, <1>10, <1>11 DEF IInv

LEMMA ReadShipmentInv ==
    ASSUME IInv, NEW h \in Handler, ReadShipment(h)
    PROVE  IInv'
<1> DEFINE s == req[h].id
<1>1. pc[h] = "read" /\ UNCHANGED <<table, req>> /\ s \in Shipment /\ Writes(h, s)
  BY RequestKinds DEF ReadShipment, IInv, RequestsFit, Writes
<1>2. CASE s \notin Ids
  <2>1. TypeOK'
    BY <1>1, <1>2 DEF ReadShipment, Answer, Goto, IInv, TypeOK, Statement, table
  <2> QED
    BY <1>1, <1>2, <2>1, EndInv DEF ReadShipment, Answer, Goto, IInv, TypeOK, OthersKept, Statement
<1>3. CASE s \in Ids
  <2>1. /\ copy'[h] = row[s] /\ pc'[h] = "update" /\ row[s] \in Row /\ row[s] # NoRow
        /\ answer' = answer /\ UNCHANGED <<row, born, label, book, req>>
        /\ \A g \in Handler \ {h} : UNCHANGED <<pc[g], copy[g]>>
    BY <1>1, <1>3 DEF ReadShipment, Goto, IInv, TypeOK, Ids, table
  <2>2. TypeOK'
    <3>1. copy' \in [Handler -> Row \cup {NoRow}] /\ pc' \in [Handler -> {"idle", "reply"} \cup Statement]
      BY <1>1, <1>3, <2>1 DEF ReadShipment, Goto, IInv, TypeOK, Statement
    <3> QED
      BY <2>1, <3>1 DEF IInv, TypeOK
  <2>3. RequestsFit'
    BY <1>1, <2>1 DEF IInv, RequestsFit, Statement
  <2>4. BornOnce'
    <3>1. \A g \in Handler, t \in Shipment : Writes(g, t)' => Writes(g, t)
      BY <1>1, <2>1 DEF Writes
    <3> QED
      BY <1>1, <2>1, <3>1 DEF IInv, BornOnce
  <2>5. CalmHasOneWriter' /\ CalmIsSequential'
    BY <1>1, <2>1 DEF IInv, CalmHasOneWriter, CalmIsSequential, Writes
  <2>6. PairsKept'
    BY <1>3, <2>1 DEF IInv, PairsKept, Ids
  <2>7. LabelsKept'
    <3>1. Ids' = Ids
      BY <2>1 DEF Ids
    <3>2. \A g \in Handler : copy'[g] # NoRow /\ req[g].id \in Ids => SameLabel(copy'[g], row[req[g].id])
      BY <2>1 DEF IInv, LabelsKept, SameLabel
    <3>3. \A f, g \in Handler : copy'[f] # NoRow /\ copy'[g] # NoRow /\ req[f].id = req[g].id
              => SameLabel(copy'[f], copy'[g])
      BY <1>3, <2>1 DEF IInv, LabelsKept, SameLabel
    <3>4. \A l \in label, g \in Handler : copy'[g] # NoRow /\ req[g].id = l.id => SameLabel(l, copy'[g])
      BY <1>3, <2>1 DEF IInv, LabelsKept, LabelNamesShipment, SameLabel
    <3> QED
      BY <2>1, <3>1, <3>2, <3>3, <3>4 DEF IInv, LabelsKept, LabelNamesShipment, SameLabel
  <2> QED
    BY <2>2, <2>3, <2>4, <2>5, <2>6, <2>7 DEF IInv
<1> QED
  BY <1>2, <1>3

LEMMA CreateShipmentInv ==
    ASSUME IInv, NEW h \in Handler, CreateShipment(h)
    PROVE  IInv'
<1> DEFINE s == req[h].id
<1>1. /\ pc[h] = "insert" /\ UNCHANGED <<label, req>> /\ req[h] \in Creation
      /\ s \in Shipment \ born /\ row[s] = NoRow /\ copy[h] = NoRow
  BY RequestKinds DEF CreateShipment, IInv, RequestsFit, BornOnce, TypeOK
<1>2. PICK c \in Code :
          LET new == NewRow(req[h].order, c, req[h].detail)
          IN  IF Insertable(s, new.order, c)
              THEN row' = [row EXCEPT ![s] = new] /\ Created(h, new)
              ELSE Answer(h, "error") /\ UNCHANGED <<row, book, born, copy>>
  BY DEF CreateShipment
<1> DEFINE new == NewRow(req[h].order, c, req[h].detail)
<1>3. CASE ~Insertable(s, new.order, c)
  <2>1. Answer(h, "error") /\ UNCHANGED <<table, copy>>
    BY <1>1, <1>2, <1>3 DEF table
  <2>2. TypeOK'
    BY <1>1, <2>1 DEF Answer, Goto, IInv, TypeOK, Statement, table
  <2> QED
    BY <1>1, <2>1, <2>2, EndInv DEF Answer, Goto, IInv, TypeOK, OthersKept, Statement
<1>4. CASE Insertable(s, new.order, c)
  <2>1. new \in Row /\ ProofPair(new) /\ new # NoRow /\ new # Contended
    BY <1>1, NewRowIsRow, ShipmentConstants DEF Creation
  <2> HIDE DEF new
  <2>2. /\ row' = [row EXCEPT ![s] = new] /\ book' = [book EXCEPT ![s] = new]
        /\ born' = born \cup {s} /\ copy' = [copy EXCEPT ![h] = new]
        /\ pc' = [pc EXCEPT ![h] = "reply"] /\ answer' = [answer EXCEPT ![h] = "ok"]
    BY <1>2, <1>4 DEF Created, Answer, Goto, new
  <2>3. TypeOK'
    BY <1>1, <2>1, <2>2 DEF IInv, TypeOK, Statement
  <2>4. /\ row'[s] = new /\ book'[s] = new /\ copy'[h] = new /\ pc'[h] = "reply"
        /\ \A t \in Shipment \ {s} : UNCHANGED <<row[t], book[t]>>
        /\ \A g \in Handler \ {h} : UNCHANGED <<pc[g], copy[g], answer[g]>>
        /\ req' = req
    BY <1>1, <2>2 DEF IInv, TypeOK
  <2>5. RequestsFit'
    BY <1>1, <2>1, <2>4 DEF IInv, RequestsFit, Statement
  <2>6. BornOnce'
    <3>1. \A g \in Handler, t \in Shipment : Writes(g, t)' => Writes(g, t)
      BY <2>4 DEF Writes
    <3>2. \A g \in Handler : pc'[g] = "insert" => req[g].id \notin born \cup {s}
      BY <1>1, <2>4 DEF IInv, BornOnce
    <3> QED
      BY <1>1, <2>2, <2>4, <3>1, <3>2 DEF IInv, BornOnce
  <2>7. \A g \in Handler \ {h} : /\ ~Writes(g, s)
                                 /\ copy[g] # NoRow => req[g].id # s
    BY <1>1 DEF IInv, BornOnce
  <2>8. CalmHasOneWriter' /\ CalmIsSequential'
    <3>1. \A g \in Handler, t \in Shipment : Writes(g, t)' => g # h /\ t # s /\ Writes(g, t)
      BY <2>4, <2>7 DEF Writes
    <3>2. \A g \in Handler : pc'[g] \in {"update", "upsert"} => g # h /\ req[g].id \in Shipment \ {s}
      BY <1>1, <2>4, <2>7, RequestKinds DEF IInv, RequestsFit
    <3> QED
      BY <2>4, <3>1, <3>2 DEF IInv, CalmHasOneWriter, CalmIsSequential
  <2>9. PairsKept'
    BY <2>1, <2>4 DEF IInv, PairsKept, Ids
  <2>10. LabelsKept'
    <3>1. Ids' = Ids \cup {s}
      BY <1>1, <2>1, <2>4 DEF Ids
    <3>2. \A l \in label : l.id # s /\ l.id \in Shipment
      BY <1>1 DEF IInv, BornOnce, TypeOK
    <3>3. \A g \in Handler : copy'[g] # NoRow /\ req[g].id \in Ids' => SameLabel(copy'[g], row'[req[g].id])
      BY <2>4, <2>7, <3>1 DEF IInv, LabelsKept, SameLabel, Ids
    <3>4. \A f, g \in Handler : copy'[f] # NoRow /\ copy'[g] # NoRow /\ req[f].id = req[g].id
              => SameLabel(copy'[f], copy'[g])
      BY <2>4, <2>7 DEF IInv, LabelsKept, SameLabel
    <3>5. \A l \in label, g \in Handler : copy'[g] # NoRow /\ req[g].id = l.id => SameLabel(l, copy'[g])
      BY <2>4, <3>2 DEF IInv, LabelsKept
    <3>6. LabelNamesShipment'
      BY <1>1, <2>4, <3>1, <3>2 DEF IInv, LabelsKept, LabelNamesShipment
    <3> QED
      BY <1>1, <3>3, <3>4, <3>5, <3>6 DEF LabelsKept
  <2> QED
    BY <2>3, <2>5, <2>6, <2>8, <2>9, <2>10 DEF IInv
<1> QED
  BY <1>3, <1>4

(* What a saved copy is. *)
LEMMA SavedCopy ==
    ASSUME IInv, NEW h \in Handler, pc[h] \in {"update", "upsert"}
    PROVE  /\ req[h].id \in Shipment \cap born
           /\ copy[h] \in Row /\ copy[h] # NoRow /\ Writes(h, req[h].id)
           /\ Edited(copy[h], req[h]) \in Row
           /\ Edited(copy[h], req[h]) \notin {NoRow, Contended}
           /\ SameLabel(Edited(copy[h], req[h]), copy[h])
           /\ ProofPair(Edited(copy[h], req[h]))
<1>1. req[h] \in EditRequest /\ copy[h] \in Row /\ copy[h] # NoRow /\ ProofPair(copy[h])
  BY DEF IInv, TypeOK, RequestsFit, PairsKept
<1>2. req[h].id \in Shipment /\ Writes(h, req[h].id)
  BY RequestKinds DEF IInv, RequestsFit, Writes
<1>3. req[h].id \in born
  BY <1>2 DEF IInv, BornOnce
<1>4. Edited(copy[h], req[h]) \in Row
  BY <1>1, EditedIsRow
<1> QED
  BY <1>1, <1>2, <1>3, <1>4, EditedIsRow, ShipmentConstants

(* The steps that store an edited copy. *)
LEMMA StoreInv ==
    ASSUME IInv, NEW h \in Handler, pc[h] \in {"update", "upsert"},
           NEW s \in Shipment, s = req[h].id, NEW new, new = Edited(copy[h], req[h]),
           row' = [row EXCEPT ![s] = new], Answer(h, "ok"),
           UNCHANGED <<born, label, req, copy>>,
           book' = [book EXCEPT ![s] = IF @ = Contended THEN @ ELSE new]
    PROVE  IInv'
<1>1. /\ s \in born /\ copy[h] \in Row /\ copy[h] # NoRow /\ Writes(h, s)
      /\ new \in Row /\ new # NoRow /\ new # Contended /\ SameLabel(new, copy[h]) /\ ProofPair(new)
  BY SavedCopy
<1>2. /\ row'[s] = new /\ pc'[h] = "reply"
      /\ book'[s] = (IF book[s] = Contended THEN Contended ELSE new)
      /\ \A t \in Shipment \ {s} : UNCHANGED <<row[t], book[t]>>
      /\ \A g \in Handler \ {h} : UNCHANGED <<pc[g], answer[g]>>
  BY DEF Answer, Goto, IInv, TypeOK
<1>3. TypeOK'
  BY <1>1 DEF Answer, Goto, IInv, TypeOK
<1>4. RequestsFit'
  BY <1>2 DEF IInv, RequestsFit, Statement
<1>5. BornOnce'
  <2>1. \A g \in Handler, t \in Shipment : Writes(g, t)' => Writes(g, t)
    BY <1>2 DEF Writes
  <2> QED
    BY <1>1, <1>2, <2>1 DEF IInv, BornOnce
<1>6. CalmHasOneWriter' /\ CalmIsSequential'
  <2>1. \A g \in Handler, t \in Shipment : Writes(g, t)' => g # h /\ Writes(g, t)
    BY <1>2 DEF Writes
  <2>2. \A t \in Shipment : book'[t] = Contended <=> book[t] = Contended
    BY <1>1, <1>2
  <2>3. \A g \in Handler : pc'[g] \in {"update", "upsert"} =>
            /\ g # h /\ req[g].id \in Shipment
            /\ Writes(g, req[g].id) /\ (req[g].id = s => book[s] = Contended)
    BY <1>1, <1>2, RequestKinds DEF IInv, RequestsFit, CalmHasOneWriter, Writes
  <2> QED
    BY <1>2, <2>1, <2>2, <2>3 DEF IInv, CalmHasOneWriter, CalmIsSequential
<1>7. PairsKept'
  BY <1>1, <1>2 DEF IInv, PairsKept, Ids
<1>8. LabelsKept'
  <2>1. Ids' = Ids \cup {s}
    BY <1>1, <1>2 DEF Ids
  <2>2. \A g \in Handler : copy[g] # NoRow /\ req[g].id \in Ids' => SameLabel(copy[g], row'[req[g].id])
    BY <1>1, <1>2, <2>1 DEF IInv, LabelsKept, SameLabel, Ids
  <2>3. LabelNamesShipment'
    <3> SUFFICES ASSUME NEW l \in label, l.id \in Ids'
                 PROVE  row'[l.id].code = l.code /\ row'[l.id].order = l.order
      BY DEF LabelNamesShipment
    <3>1. CASE l.id = s
      BY <1>1, <1>2, <3>1 DEF IInv, LabelsKept, SameLabel
    <3>2. CASE l.id # s
      BY <1>2, <2>1, <3>2 DEF IInv, LabelsKept, LabelNamesShipment, Ids
    <3> QED
      BY <3>1, <3>2
  <2> QED
    BY <2>2, <2>3 DEF IInv, LabelsKept
<1> QED
  BY <1>3, <1>4, <1>5, <1>6, <1>7, <1>8 DEF IInv

LEMMA SaveUpdatesInv ==
    ASSUME IInv, NEW h \in Handler, SaveUpdates(h)
    PROVE  IInv'
<1> DEFINE s == req[h].id
           new == Edited(copy[h], req[h])
<1>1. /\ pc[h] = "update" /\ UNCHANGED <<born, label, req, copy>> /\ s \in Shipment
      /\ Writes(h, s)
  BY SavedCopy DEF SaveUpdates
<1>2. CASE s \in Ids
  <2>1. book[s] # Contended => book[s] = copy[h]
    BY <1>1 DEF IInv, CalmHasOneWriter, CalmIsSequential
  <2>2. book' = [book EXCEPT ![s] = IF @ = Contended THEN @ ELSE new]
    BY <1>2, <2>1 DEF SaveUpdates
  <2> QED
    BY <1>1, <1>2, <2>2, StoreInv DEF SaveUpdates
<1>3. CASE s \notin Ids
  <2>1. /\ pc' = [pc EXCEPT ![h] = "upsert"]
        /\ UNCHANGED <<row, book, answer>>
    BY <1>3 DEF SaveUpdates, Goto
  <2>2. pc'[h] = "upsert" /\ \A g \in Handler \ {h} : pc'[g] = pc[g]
    BY <2>1 DEF IInv, TypeOK
  <2>3. TypeOK'
    BY <1>1, <2>1 DEF IInv, TypeOK, Statement
  <2>4. RequestsFit'
    BY <1>1, <2>1, <2>2 DEF IInv, RequestsFit, Statement
  <2>5. \A g \in Handler, t \in Shipment : Writes(g, t)' <=> Writes(g, t)
    BY <1>1, <2>2 DEF Writes
  <2>6. BornOnce'
    BY <1>1, <2>1, <2>2, <2>5 DEF IInv, BornOnce
  <2>7. CalmHasOneWriter' /\ CalmIsSequential'
    <3>1. row[s] = NoRow /\ copy[h] # NoRow
      BY <1>1, <1>3, SavedCopy DEF Ids
    <3>2. book[s] = Contended
      BY <1>1, <3>1 DEF IInv, CalmHasOneWriter
    <3> QED
      BY <1>1, <2>1, <2>2, <2>5, <3>2 DEF IInv, CalmHasOneWriter, CalmIsSequential
  <2>8. PairsKept' /\ LabelsKept'
    BY <1>1, <2>1 DEF IInv, PairsKept, LabelsKept, LabelNamesShipment, Ids
  <2> QED
    BY <2>3, <2>4, <2>6, <2>7, <2>8 DEF IInv
<1> QED
  BY <1>2, <1>3

LEMMA SaveInsertsInv ==
    ASSUME IInv, NEW h \in Handler, SaveInserts(h)
    PROVE  IInv'
<1> DEFINE s == req[h].id
           new == Edited(copy[h], req[h])
<1>1. /\ pc[h] = "upsert" /\ UNCHANGED <<born, label, book, req, copy>> /\ s \in Shipment
      /\ book[s] = Contended /\ book \in [Shipment -> Row \cup {NoRow, Contended}]
  BY SavedCopy DEF SaveInserts, IInv, CalmHasOneWriter, TypeOK
<1>2. CASE Insertable(s, copy[h].order, copy[h].code)
  <2>1. book' = [book EXCEPT ![s] = IF @ = Contended THEN @ ELSE new]
    BY <1>1
  <2> QED
    BY <1>1, <1>2, <2>1, StoreInv DEF SaveInserts
<1>3. CASE ~Insertable(s, copy[h].order, copy[h].code)
  <2>1. Answer(h, "error") /\ UNCHANGED <<table, req, copy>>
    BY <1>1, <1>3 DEF SaveInserts, table
  <2>2. TypeOK'
    BY <1>1, <2>1 DEF Answer, Goto, IInv, TypeOK, Statement, table
  <2> QED
    BY <1>1, <2>1, <2>2, EndInv DEF Answer, Goto, IInv, TypeOK, OthersKept, Statement
<1> QED
  BY <1>2, <1>3

LEMMA DeleteShipmentInv ==
    ASSUME IInv, NEW h \in Handler, DeleteShipment(h)
    PROVE  IInv'
<1> DEFINE s == req[h].id
<1>1. /\ pc[h] = "delete" /\ UNCHANGED <<born, label, req, copy>> /\ s \in Shipment
      /\ Writes(h, s) /\ req[h].op # "create"
  BY RequestKinds DEF DeleteShipment, IInv, RequestsFit, Writes, Statement
<1>2. /\ row' = [row EXCEPT ![s] = NoRow]
      /\ book' = [book EXCEPT ![s] = IF @ = Contended THEN @ ELSE NoRow]
      /\ pc' = [pc EXCEPT ![h] = "reply"] /\ answer' = [answer EXCEPT ![h] = "ok"]
  BY DEF DeleteShipment, Answer, Goto
<1>3. /\ row'[s] = NoRow /\ pc'[h] = "reply"
      /\ book'[s] = (IF book[s] = Contended THEN Contended ELSE NoRow)
      /\ \A t \in Shipment \ {s} : UNCHANGED <<row[t], book[t]>>
      /\ \A g \in Handler \ {h} : UNCHANGED <<pc[g], answer[g]>>
  BY <1>1, <1>2 DEF IInv, TypeOK
<1>4. TypeOK'
  BY <1>1, <1>2 DEF IInv, TypeOK
<1>5. RequestsFit'
  BY <1>1, <1>3 DEF IInv, RequestsFit, Statement
<1>6. \A g \in Handler, t \in Shipment : Writes(g, t)' => g # h /\ Writes(g, t)
  BY <1>1, <1>3 DEF Writes
<1>7. BornOnce'
  <2>1. s \in born
    BY <1>1 DEF IInv, BornOnce
  <2> QED
    BY <1>1, <1>3, <1>6, <2>1 DEF IInv, BornOnce
<1>8. CalmHasOneWriter' /\ CalmIsSequential'
  <2>1. \A t \in Shipment : book'[t] = Contended <=> book[t] = Contended
    BY <1>3, ShipmentConstants
  <2>2. \A g \in Handler : pc'[g] \in {"update", "upsert"} =>
            /\ g # h /\ req[g].id \in Shipment
            /\ Writes(g, req[g].id) /\ (req[g].id = s => book[s] = Contended)
    BY <1>1, <1>3, RequestKinds DEF IInv, RequestsFit, CalmHasOneWriter, Writes
  <2> QED
    BY <1>1, <1>3, <1>6, <2>1, <2>2 DEF IInv, CalmHasOneWriter, CalmIsSequential
<1>9. Ids' = Ids \ {s}
  BY <1>3 DEF Ids
<1>10. PairsKept'
  BY <1>1, <1>3, <1>9 DEF IInv, PairsKept, Ids
<1>11. LabelsKept'
  BY <1>1, <1>3, <1>9 DEF IInv, LabelsKept, LabelNamesShipment, Ids
<1> QED
  BY <1>4, <1>5, <1>7, <1>8, <1>10, <1>11 DEF IInv

(* The statements that only read, and what is done when one fails. *)
LEMMA AnswersOnlyInv ==
    ASSUME IInv, NEW h \in Handler,
           GetShipmentByID(h) \/ GetShipmentByTrackingCode(h) \/ StatementFails(h)
    PROVE  IInv'
<1>1. /\ pc[h] \in Statement /\ UNCHANGED <<table, req, copy>> /\ pc' = [pc EXCEPT ![h] = "reply"]
      /\ \E a \in {"ok", "notfound", "error"} :
             answer' = [answer EXCEPT ![h] = a] /\ (a = "ok" => pc[h] # "insert")
  BY DEF GetShipmentByID, GetShipmentByTrackingCode, StatementFails, Answer, Goto, Statement
<1>2. TypeOK'
  BY <1>1 DEF IInv, TypeOK, table
<1>3. pc'[h] = "reply" /\ (answer'[h] = "ok" => pc[h] # "insert") /\ OthersKept(h)
  BY <1>1 DEF IInv, TypeOK, OthersKept
<1> QED
  BY <1>1, <1>2, <1>3, EndInv

LEMMA FinishType ==
    ASSUME IInv, NEW h \in Handler, Finish(h)
    PROVE  /\ pc' \in [Handler -> {"idle", "reply"} \cup Statement]
           /\ req' \in [Handler -> Request \cup {NoRequest}]
           /\ copy' \in [Handler -> Row \cup {NoRow}]
           /\ answer' \in [Handler -> {"none", "ok", "notfound", "error"}]
           /\ pc'[h] = "idle" /\ copy'[h] = NoRow /\ OthersKept(h)
BY DEF Finish, Goto, IInv, TypeOK, OthersKept

LEMMA CrashInv ==
    ASSUME IInv, NEW h \in Handler, Crash(h)
    PROVE  IInv'
<1>1. Finish(h) /\ UNCHANGED table
  BY DEF Crash
<1>2. TypeOK'
  BY <1>1, FinishType DEF IInv, TypeOK, table
<1> QED
  BY <1>1, <1>2, FinishType, EndInv

(* A creation that was answered goes on the list of labels. *)
LEMMA ReplyInv ==
    ASSUME IInv, NEW h \in Handler, Reply(h)
    PROVE  IInv'
<1>1. pc[h] = "reply" /\ Finish(h) /\ UNCHANGED <<row, born, book>>
  BY DEF Reply
<1>2. CASE UNCHANGED label
  <2>1. TypeOK'
    BY <1>1, <1>2, FinishType DEF IInv, TypeOK
  <2> QED
    BY <1>1, <1>2, <2>1, FinishType, EndInv DEF table
<1>3. CASE label' # label
  <2> DEFINE new == [id |-> req[h].id, order |-> copy[h].order, code |-> copy[h].code]
  <2>1. label' = label \cup {new} /\ req[h].op = "create" /\ answer[h] = "ok"
    BY <1>3 DEF Reply
  <2>2. /\ copy[h] \in Row /\ copy[h] # NoRow /\ req[h].id \in Shipment \cap born
    BY <1>1, <2>1, RequestKinds DEF IInv, TypeOK, RequestsFit, BornOnce
  <2>3. new \in Label /\ new.id = req[h].id /\ SameLabel(new, copy[h])
    BY <2>2 DEF Label, Row, SameLabel
  <2> HIDE DEF new
  <2>4. /\ pc'[h] = "idle" /\ copy'[h] = NoRow
        /\ \A g \in Handler \ {h} : UNCHANGED <<pc[g], req[g], copy[g], answer[g]>>
    BY <1>1, FinishType DEF OthersKept
  <2>5. TypeOK'
    BY <1>1, <2>1, <2>3, FinishType DEF IInv, TypeOK
  <2>6. RequestsFit'
    BY <2>4 DEF IInv, RequestsFit, Statement
  <2>7. BornOnce' /\ CalmHasOneWriter' /\ CalmIsSequential' /\ PairsKept'
    BY <1>1, <2>1, <2>2, <2>3, <2>4
       DEF IInv, BornOnce, CalmHasOneWriter, CalmIsSequential, PairsKept, Writes, Ids
  <2>8. LabelsKept'
    <3>1. Ids' = Ids
      BY <1>1 DEF Ids
    <3>2. /\ req[h].id \in Ids => SameLabel(new, row[req[h].id])
          /\ \A g \in Handler : copy[g] # NoRow /\ req[g].id = req[h].id => SameLabel(new, copy[g])
      BY <2>2, <2>3 DEF IInv, LabelsKept, SameLabel
    <3> QED
      BY <1>1, <2>1, <2>3, <2>4, <3>1, <3>2 DEF IInv, LabelsKept, LabelNamesShipment, SameLabel
  <2> QED
    BY <2>5, <2>6, <2>7, <2>8 DEF IInv
<1> QED
  BY <1>2, <1>3

LEMMA NextInv == IInv /\ [Next]_vars => IInv'
<1> SUFFICES ASSUME IInv, [Next]_vars PROVE IInv'
  OBVIOUS
<1>1. ASSUME NEW h \in Handler, NEW q \in Request, Ask(h, q) PROVE IInv'
  BY <1>1, AskInv
<1>2. ASSUME NEW h \in Handler, Step(h) PROVE IInv'
  BY <1>2, CreateShipmentInv, ReadShipmentInv, SaveUpdatesInv, SaveInsertsInv,
     DeleteShipmentInv, AnswersOnlyInv, ReplyInv DEF Step
<1>3. ASSUME NEW h \in Handler, StatementFails(h) \/ Crash(h) PROVE IInv'
  BY <1>3, AnswersOnlyInv, CrashInv
<1>4. CASE UNCHANGED vars
  BY <1>4 DEF vars, table, local, IInv, TypeOK, RequestsFit, BornOnce, CalmHasOneWriter,
              CalmIsSequential, PairsKept, LabelsKept, LabelNamesShipment, Writes, Ids
<1> QED
  BY <1>1, <1>2, <1>3, <1>4 DEF Next

LEMMA Invariance == Spec => []IInv
BY InitInv, NextInv, PTL DEF Spec

------------------------------------------------------------------------------
(* Theorems *)

(* Type correctness of shipment-service. *)
THEOREM TypeCorrect == Spec => []TypeOK
<1>1. IInv => TypeOK
  BY DEF IInv
<1> QED
  BY <1>1, Invariance, PTL

(* A shipment stands as delivered exactly when it has its photo, however    *)
(* updates, proofs and deletions overlap (lines 138-141, 163-167).         *)
THEOREM DeliveryHasProof == Spec => []DeliveredWithProof
<1>1. IInv => DeliveredWithProof
  BY DEF IInv, PairsKept, ProofPair, DeliveredWithProof
<1> QED
  BY <1>1, Invariance, PTL

(* What two requests never contended for is what they make one after the   *)
(* other (lines 97-168).                                                   *)
THEOREM CalmShipments == Spec => []CalmIsSequential
<1>1. IInv => CalmIsSequential
  BY DEF IInv
<1> QED
  BY <1>1, Invariance, PTL

(* The label a client was given names its order's shipment for ever, also  *)
(* after the shipment was deleted and saved again (lines 82-86).           *)
THEOREM LabelsStayTrue == Spec => []LabelNamesShipment
<1>1. IInv => LabelNamesShipment
  BY DEF IInv, LabelsKept
<1> QED
  BY <1>1, Invariance, PTL
==============================================================================
