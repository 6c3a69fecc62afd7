----------------------------- MODULE Chat_proofs ------------------------------
(***************************************************************************)
(* Theorems about ChatHub and, composed with it, ChatStore, for any number *)
(* of connections, users, rooms and messages and any capacity of queues.   *)
(***************************************************************************)
EXTENDS ChatStore, SequenceTheorems, FiniteSetTheorems, TLAPS

(* A connection the hub has not registered yet: nothing has happened to it.*)
Unregistered(c) == reader[c] \in {"none", "registering"}

UnregisteredIsNew ==
    \A c \in Client : Unregistered(c) =>
        /\ ~InRoom(c)
        /\ ~closed[c]
        /\ evicting[c] = 0
        /\ given[c] = <<>>

(* A connection joined at a message its room has seen. *)
JoinedBefore == \A c \in Client : joined[c] <= Len(log[OrderOf[c]])

(* A goroutine that hands a message to the hub holds a message. *)
HoldsMessage == \A c \in Client : reader[c] = "broadcasting" => msg[c] \in Message

IInv == /\ TypeOK
        /\ UnregisteredIsNew
        /\ JoinedBefore
        /\ HoldsMessage
        /\ NoSendOnClosed
        /\ NoSilentGap

------------------------------------------------------------------------------
(* The part of a log from a message on, when one more message is appended. *)
LEMMA SubSeqAppend ==
    ASSUME NEW S, NEW q \in Seq(S), NEW e \in S, NEW j \in Nat, j <= Len(q)
    PROVE  SubSeq(Append(q, e), j + 1, Len(Append(q, e)))
               = Append(SubSeq(q, j + 1, Len(q)), e)
<1> DEFINE n == Len(q)
           left == SubSeq(Append(q, e), j + 1, n + 1)
           part == SubSeq(q, j + 1, n)
           right == Append(part, e)
<1>1. n \in Nat /\ Append(q, e) \in Seq(S) /\ Len(Append(q, e)) = n + 1
      /\ Append(q, e)[n + 1] = e /\ \A i \in 1..n : Append(q, e)[i] = q[i]
  OBVIOUS
<1>2. part \in Seq(S) /\ Len(part) = n - j /\ \A i \in 1..(n - j) : part[i] = q[j + i]
  BY <1>1
<1>3. left \in Seq(S) /\ Len(left) = n + 1 - j
      /\ \A i \in 1..(n + 1 - j) : left[i] = Append(q, e)[j + i]
  BY <1>1
<1> HIDE DEF n, left, part
<1>4. right \in Seq(S) /\ Len(right) = n + 1 - j /\ right[n + 1 - j] = e
      /\ \A i \in 1..(n - j) : right[i] = part[i]
  BY <1>1, <1>2
<1> HIDE DEF right
<1>5. \A i \in 1..(n + 1 - j) : left[i] = right[i]
  BY <1>1, <1>2, <1>3, <1>4
<1>6. left = right
  BY <1>3, <1>4, <1>5, SeqEqual
<1> QED
  BY <1>1, <1>6 DEF left, right, part, n

LEMMA SubSeqNothing ==
    ASSUME NEW S, NEW q \in Seq(S)
    PROVE  SubSeq(q, Len(q) + 1, Len(q)) = <<>>
OBVIOUS

LEMMA InitInv == Init => IInv
<1> SUFFICES ASSUME Init PROVE IInv
  OBVIOUS
<1> USE ChatConstants DEF Init
<1>1. \A c \in Client : ~InRoom(c)
  BY DEF InRoom
<1>2. TypeOK
  BY DEF TypeOK, ReaderAt
<1>3. UnregisteredIsNew /\ JoinedBefore /\ HoldsMessage
  BY <1>1 DEF UnregisteredIsNew, Unregistered, JoinedBefore, HoldsMessage
<1>4. NoSendOnClosed /\ NoSilentGap
  BY <1>1 DEF NoSendOnClosed, NoSilentGap
<1> QED
  BY <1>2, <1>3, <1>4 DEF IInv

(* Steps that leave the hub and its history alone. *)
LEMMA PumpStepInv ==
    ASSUME IInv, TypeOK', UNCHANGED <<room, closed, evicting, log, joined, given>>,
           \A c \in Client : reader'[c] # reader[c] =>
               /\ Unregistered(c)' => Unregistered(c)
               /\ reader'[c] = "broadcasting" => msg'[c] \in Message,
           \A c \in Client : msg'[c] # msg[c] => msg'[c] \in Message
    PROVE  IInv'
<1>1. UnregisteredIsNew'
  BY DEF IInv, UnregisteredIsNew, Unregistered, InRoom
<1>2. JoinedBefore' /\ HoldsMessage'
  BY DEF IInv, JoinedBefore, HoldsMessage
<1>3. NoSendOnClosed' /\ NoSilentGap'
  BY DEF IInv, NoSendOnClosed, NoSilentGap, InRoom
<1> QED
  BY <1>1, <1>2, <1>3 DEF IInv

LEMMA EnvironmentInv ==
    ASSUME IInv, NEW c \in Client, Environment(c)
    PROVE  IInv'
<1> USE DEF channels, messages, history
<1>1. CASE Connect(c)
  <2>1. TypeOK'
    BY <1>1 DEF Connect, IInv, TypeOK, ReaderAt
  <2> QED
    BY <1>1, <2>1, PumpStepInv DEF Connect, IInv, TypeOK, Unregistered
<1>2. CASE Disconnect(c)
  <2>1. TypeOK'
    BY <1>2 DEF Disconnect, IInv, TypeOK
  <2> QED
    BY <1>2, <2>1, PumpStepInv DEF Disconnect, IInv, TypeOK, Unregistered
<1>3. CASE ReadMessage(c)
  <2>1. TypeOK' /\ sent + 1 \in Message
    BY <1>3, ChatConstants DEF ReadMessage, IInv, TypeOK, Message, ReaderAt
  <2>2. /\ reader' = [reader EXCEPT ![c] = "broadcasting"] /\ reader[c] = "reading"
        /\ msg' = [msg EXCEPT ![c] = sent + 1]
        /\ reader \in [Client -> ReaderAt] /\ msg \in [Client -> 0..MaxSent]
    BY <1>3 DEF ReadMessage, IInv, TypeOK
  <2>3. \A d \in Client : reader'[d] # reader[d] =>
            (Unregistered(d)' => Unregistered(d)) /\ msg'[d] \in Message
    BY <2>1, <2>2 DEF Unregistered
  <2>4. \A d \in Client : msg'[d] # msg[d] => msg'[d] \in Message
    BY <2>1, <2>2
  <2> QED
    BY <1>3, <2>1, <2>3, <2>4, PumpStepInv DEF ReadMessage
<1>4. CASE ReadRefused(c)
  <2>1. TypeOK'
    BY <1>4 DEF ReadRefused, IInv, TypeOK, ReaderAt
  <2> QED
    BY <1>4, <2>1, PumpStepInv DEF ReadRefused, IInv, TypeOK, Unregistered
<1> QED
  BY <1>1, <1>2, <1>3, <1>4 DEF Environment

LEMMA PumpsInv ==
    ASSUME IInv, NEW c \in Client, Pumps(c)
    PROVE  IInv'
<1> USE ChatConstants DEF channels, messages, history, pumps, StopWriter
<1>1. TypeOK'
  <2>1. CASE ReadError(c) \/ ReaderClose(c)
    BY <2>1 DEF ReadError, ReaderClose, IInv, TypeOK, ReaderAt
  <2>2. CASE WriteMessage(c)
    BY <2>2 DEF WriteMessage, IInv, TypeOK
  <2>3. CASE WriteError(c) \/ WriterSeesClose(c)
    BY <2>3 DEF WriteError, WriterSeesClose, IInv, TypeOK
  <2>4. CASE EvictClose(c)
    BY <2>4 DEF EvictClose, IInv, TypeOK
  <2> QED
    BY <2>1, <2>2, <2>3, <2>4 DEF Pumps
<1>2. UNCHANGED <<room, closed, evicting, log, joined, given, msg>>
  BY DEF Pumps, ReadError, ReaderClose, WriteMessage, WriteError, WriterSeesClose, EvictClose
<1>3. reader' = reader \/ \E at \in {"leaving", "done"} : reader' = [reader EXCEPT ![c] = at]
  BY DEF Pumps, ReadError, ReaderClose, WriteMessage, WriteError, WriterSeesClose, EvictClose
<1> QED
  BY <1>1, <1>2, <1>3, PumpStepInv DEF IInv, TypeOK, Unregistered

LEMMA HubRegisterInv ==
    ASSUME IInv, NEW c \in Client, HubRegister(c)
    PROVE  IInv'
<1> DEFINE o == OrderOf[c]  u == UserOf[c]
<1> USE ChatConstants DEF HubRegister, channels, messages
<1>0. /\ o \in Order /\ u \in User
      /\ log \in [Order -> Seq(Message)] /\ joined \in [Client -> Nat]
  BY DEF IInv, TypeOK
<1>1. /\ o \in Order /\ u \in User /\ reader[c] = "registering"
      /\ ~closed[c] /\ evicting[c] = 0 /\ given[c] = <<>>
      /\ log[o] \in Seq(Message) /\ Len(log[o]) \in Nat
  BY <1>0 DEF IInv, UnregisteredIsNew, Unregistered
<1>2. TypeOK'
  BY <1>1 DEF IInv, TypeOK, ReaderAt
<1>3. \A d \in Client : InRoom(d)' => d = c \/ InRoom(d)
  BY <1>1 DEF IInv, TypeOK, InRoom
<1>4. UnregisteredIsNew'
  BY <1>1, <1>3 DEF IInv, TypeOK, UnregisteredIsNew, Unregistered
<1>5. JoinedBefore' /\ HoldsMessage'
  <2>1. joined' = [joined EXCEPT ![c] = Len(log[o])] /\ log' = log
    OBVIOUS
  <2>2. JoinedBefore'
    BY <1>0, <1>1, <2>1 DEF IInv, JoinedBefore
  <2>3. HoldsMessage'
    BY DEF IInv, TypeOK, HoldsMessage
  <2> QED
    BY <2>2, <2>3
<1>6. NoSendOnClosed'
  BY <1>1, <1>3 DEF IInv, NoSendOnClosed
<1>7. NoSilentGap'
  <2> SUFFICES ASSUME NEW d \in Client, InRoom(d)', evicting'[d] = 0
               PROVE  given'[d] = SubSeq(log'[OrderOf[d]], joined'[d] + 1, Len(log'[OrderOf[d]]))
    BY DEF NoSilentGap
  <2>1. CASE d = c
    <3>1. joined'[c] = Len(log[o]) /\ given'[c] = <<>> /\ log' = log
      BY <1>1 DEF IInv, TypeOK
    <3> QED
      BY <1>1, <2>1, <3>1, SubSeqNothing
  <2>2. CASE d # c
    BY <1>3, <2>2 DEF IInv, TypeOK, NoSilentGap
  <2> QED
    BY <2>1, <2>2
<1> QED
  BY <1>2, <1>4, <1>5, <1>6, <1>7 DEF IInv

(* case client := <-h.unregister takes c out of its room, whatever is there.*)
LEMMA RemoveRoom ==
    ASSUME TypeOK, NEW c \in Client, Remove(c)
    PROVE  /\ room' \in [Order -> [User -> Client \cup {NoClient}]]
           /\ hub' \in {"running", "panicked"} \/ UNCHANGED hub
           /\ closed' \in [Client -> BOOLEAN]
           /\ ~InRoom(c)'
           /\ \A d \in Client : InRoom(d)' => InRoom(d)
           /\ \A d \in Client \ {c} : closed'[d] = closed[d]
<1> DEFINE o == OrderOf[c]  u == UserOf[c]
<1>1. /\ o \in Order /\ u \in User /\ c # NoClient
      /\ \A d \in Client : OrderOf[d] \in Order /\ UserOf[d] \in User /\ d # NoClient
      /\ room \in [Order -> [User -> Client \cup {NoClient}]]
      /\ closed \in [Client -> BOOLEAN]
  BY ChatConstants DEF TypeOK
<1>2. CASE room[o][u] = NoClient
  BY <1>1, <1>2 DEF Remove, InRoom, TypeOK
<1>3. CASE room[o][u] # NoClient
  <2>1. /\ room' = [room EXCEPT ![o][u] = NoClient]
        /\ hub' = IF closed[c] THEN "panicked" ELSE hub
        /\ closed' = [closed EXCEPT ![c] = TRUE]
    BY <1>3 DEF Remove
  <2>2. room' \in [Order -> [User -> Client \cup {NoClient}]] /\ room'[o][u] = NoClient
    BY <1>1, <2>1
  <2>3. \A p \in Order, v \in User : room'[p][v] \in {room[p][v], NoClient}
    BY <1>1, <2>1
  <2>4. ~InRoom(c)' /\ \A d \in Client : InRoom(d)' => InRoom(d)
    BY <1>1, <2>2, <2>3 DEF InRoom
  <2>5. closed' \in [Client -> BOOLEAN] /\ \A d \in Client \ {c} : closed'[d] = closed[d]
    BY <1>1, <2>1
  <2> QED
    BY <2>1, <2>2, <2>4, <2>5
<1> QED
  BY <1>2, <1>3

(* Both ways to take a connection out of its room.                         *)
LEMMA RemoveInv ==
    ASSUME IInv, TypeOK', NEW c \in Client, Remove(c), ~Unregistered(c),
           UNCHANGED <<log, joined, given, msg>>,
           \A d \in Client \ {c} : UNCHANGED <<reader[d], evicting[d]>>,
           reader'[c] \in {"closing", reader[c]}
    PROVE  IInv'
<1>1. /\ ~InRoom(c)'
      /\ \A d \in Client : InRoom(d)' => InRoom(d)
      /\ \A d \in Client \ {c} : closed'[d] = closed[d]
  BY RemoveRoom DEF IInv
<1>2. UnregisteredIsNew'
  BY <1>1 DEF IInv, UnregisteredIsNew, Unregistered
<1>3. JoinedBefore' /\ HoldsMessage'
  BY DEF IInv, JoinedBefore, HoldsMessage
<1>4. NoSendOnClosed'
  BY <1>1 DEF IInv, NoSendOnClosed
<1>5. NoSilentGap'
  BY <1>1 DEF IInv, NoSilentGap
<1> QED
  BY <1>2, <1>3, <1>4, <1>5 DEF IInv

LEMMA HubUnregisterInv ==
    ASSUME IInv, NEW c \in Client, HubUnregister(c)
    PROVE  IInv'
<1> USE DEF HubUnregister, history, messages
<1>1. TypeOK'
  <2>1. /\ room' \in [Order -> [User -> Client \cup {NoClient}]]
        /\ hub' \in {"running", "panicked"} \/ UNCHANGED hub
        /\ closed' \in [Client -> BOOLEAN]
    BY RemoveRoom DEF IInv
  <2> QED
    BY <2>1 DEF IInv, TypeOK, ReaderAt
<1>2. ~Unregistered(c)
  BY DEF Unregistered
<1>3. \A d \in Client \ {c} : UNCHANGED <<reader[d], evicting[d]>>
  BY DEF IInv, TypeOK
<1>4. reader'[c] = "closing"
  BY DEF IInv, TypeOK
<1> QED
  BY <1>1, <1>2, <1>3, <1>4, RemoveInv

LEMMA HubEvictInv ==
    ASSUME IInv, NEW c \in Client, HubEvict(c)
    PROVE  IInv'
<1> USE DEF HubEvict, history, messages, pumps
<1>1. TypeOK'
  <2>1. /\ room' \in [Order -> [User -> Client \cup {NoClient}]]
        /\ hub' \in {"running", "panicked"} \/ UNCHANGED hub
        /\ closed' \in [Client -> BOOLEAN]
    BY RemoveRoom DEF IInv
  <2>2. evicting \in [Client -> Nat] /\ closing \in [Client -> BOOLEAN]
    BY DEF IInv, TypeOK
  <2>3. evicting' \in [Client -> Nat] /\ closing' \in [Client -> BOOLEAN]
    BY <2>2
  <2> QED
    BY <2>1, <2>3 DEF IInv, TypeOK
<1>2. ~Unregistered(c)
  BY DEF IInv, UnregisteredIsNew
<1>3. \A d \in Client \ {c} : UNCHANGED <<reader[d], evicting[d]>>
  BY DEF IInv, TypeOK
<1> QED
  BY <1>1, <1>2, <1>3, RemoveInv

LEMMA HubBroadcastInv ==
    ASSUME IInv, NEW c \in Client, HubBroadcast(c)
    PROVE  IInv'
<1> DEFINE o == OrderOf[c]
           to == Members(o)
           ready == {r \in to : ~Full(r)}
<1>1. /\ reader[c] = "broadcasting" /\ o \in Order /\ msg[c] \in Message
      /\ UNCHANGED <<room, hub, writer, conn, closed, closing, sent, joined>>
      /\ queue' = [r \in Client |-> IF r \in ready THEN queue[r] + 1 ELSE queue[r]]
      /\ given' = [r \in Client |-> IF r \in ready THEN Append(given[r], msg[c]) ELSE given[r]]
      /\ evicting' = [r \in Client |-> IF r \in to \ ready THEN evicting[r] + 1 ELSE evicting[r]]
      /\ log' = [log EXCEPT ![o] = Append(@, msg[c])]
      /\ msg' = [msg EXCEPT ![c] = 0]
      /\ reader' = [reader EXCEPT ![c] = "reading"]
  BY ChatConstants DEF HubBroadcast, IInv, HoldsMessage
<1>2. \A r \in ready : queue[r] + 1 \in 0..Cap
  BY ChatConstants DEF IInv, TypeOK, Members, Full
<1>3. /\ to \subseteq Client /\ \A r \in to : InRoom(r) /\ OrderOf[r] = o
      /\ \A r \in Client : InRoom(r) /\ OrderOf[r] = o => r \in to
  BY DEF Members
<1> HIDE DEF o, to
<1>4. TypeOK'
  <2>1. /\ queue \in [Client -> 0..Cap] /\ given \in [Client -> Seq(Message)]
        /\ evicting \in [Client -> Nat] /\ log \in [Order -> Seq(Message)]
        /\ reader \in [Client -> ReaderAt] /\ msg \in [Client -> 0..MaxSent]
    BY DEF IInv, TypeOK
  <2> HIDE DEF ready
  <2>2. queue' \in [Client -> 0..Cap] /\ evicting' \in [Client -> Nat]
    BY <1>1, <1>2, <2>1
  <2>3. given' \in [Client -> Seq(Message)] /\ log' \in [Order -> Seq(Message)]
    BY <1>1, <2>1
  <2>4. reader' \in [Client -> ReaderAt] /\ msg' \in [Client -> 0..MaxSent]
    BY <1>1, <2>1, ChatConstants DEF ReaderAt
  <2> QED
    BY <1>1, <2>2, <2>3, <2>4 DEF IInv, TypeOK
<1> HIDE DEF ready
<1>5. UnregisteredIsNew'
  BY <1>1, <1>3 DEF IInv, TypeOK, UnregisteredIsNew, Unregistered, InRoom, ready
<1>6. JoinedBefore'
  <2>1. \A p \in Order : Len(log[p]) \in Nat /\ Len(log'[p]) \in Nat /\ Len(log[p]) <= Len(log'[p])
    BY <1>1 DEF IInv, TypeOK
  <2> QED
    BY <1>1, <2>1, ChatConstants DEF IInv, TypeOK, JoinedBefore
<1>7. HoldsMessage' /\ NoSendOnClosed'
  BY <1>1 DEF IInv, TypeOK, HoldsMessage, NoSendOnClosed, InRoom
<1>8. NoSilentGap'
  <2> SUFFICES ASSUME NEW d \in Client, InRoom(d)', evicting'[d] = 0
               PROVE  given'[d] = SubSeq(log'[OrderOf[d]], joined'[d] + 1, Len(log'[OrderOf[d]]))
    BY DEF NoSilentGap
  <2>1. InRoom(d) /\ OrderOf[d] \in Order /\ evicting[d] \in Nat
    BY <1>1, ChatConstants DEF InRoom, IInv, TypeOK
  <2>2. evicting[d] = 0 /\ d \notin to \ ready
    BY <1>1, <2>1
  <2>3. given[d] = SubSeq(log[OrderOf[d]], joined[d] + 1, Len(log[OrderOf[d]]))
    BY <2>1, <2>2 DEF IInv, NoSilentGap
  <2>4. CASE OrderOf[d] = o
    <3>1. d \in ready
      BY <1>3, <2>1, <2>2, <2>4
    <3>2. given'[d] = Append(given[d], msg[c]) /\ log'[o] = Append(log[o], msg[c])
      BY <1>1, <3>1 DEF IInv, TypeOK
    <3>3. log[o] \in Seq(Message) /\ joined[d] \in Nat /\ joined[d] <= Len(log[o])
      BY <1>1, <2>4 DEF IInv, TypeOK, JoinedBefore
    <3> DEFINE q == log[o]  e == msg[c]  j == joined[d]
    <3>4. SubSeq(Append(log[o], msg[c]), joined[d] + 1, Len(Append(log[o], msg[c])))
              = Append(SubSeq(log[o], joined[d] + 1, Len(log[o])), msg[c])
      <4>1. q \in Seq(Message) /\ e \in Message /\ j \in Nat /\ j <= Len(q)
        BY <1>1, <3>3
      <4> HIDE DEF q, e, j
      <4>2. SubSeq(Append(q, e), j + 1, Len(Append(q, e))) = Append(SubSeq(q, j + 1, Len(q)), e)
        BY <4>1, SubSeqAppend
      <4> QED
        BY <4>2 DEF q, e, j
    <3> QED
      BY <1>1, <2>3, <2>4, <3>2, <3>4
  <2>5. CASE OrderOf[d] # o
    <3>1. d \notin ready
      BY <1>3, <2>5 DEF ready
    <3>2. given'[d] = given[d] /\ log'[OrderOf[d]] = log[OrderOf[d]]
      BY <1>1, <2>1, <2>5, <3>1 DEF IInv, TypeOK
    <3> QED
      BY <1>1, <2>3, <3>2
  <2> QED
    BY <2>4, <2>5
<1> QED
  BY <1>4, <1>5, <1>6, <1>7, <1>8 DEF IInv

LEMMA NextInv == IInv /\ [Next]_vars => IInv'
<1> SUFFICES ASSUME IInv, [Next]_vars PROVE IInv'
  OBVIOUS
<1>1. ASSUME NEW c \in Client, Environment(c) \/ Pumps(c) \/ Hub(c)
      PROVE  IInv'
  BY <1>1, EnvironmentInv, PumpsInv, HubRegisterInv, HubUnregisterInv, HubEvictInv,
     HubBroadcastInv DEF Hub
<1>2. CASE UNCHANGED vars
  <2>1. TypeOK'
    BY <1>2 DEF IInv, TypeOK, vars, pumps, channels, messages, history
  <2> QED
    BY <1>2, <2>1, PumpStepInv DEF vars, pumps, channels, messages, history
<1> QED
  BY <1>1, <1>2 DEF Next

LEMMA Invariance == Spec => []IInv
BY InitInv, NextInv, PTL DEF Spec

------------------------------------------------------------------------------
(* Theorems *)

(* Type correctness of the hub; in particular Send never holds more        *)
(* messages than its capacity.                                             *)
THEOREM TypeCorrect == Spec => []TypeOK
<1>1. IInv => TypeOK
  BY DEF IInv
<1> QED
  BY <1>1, Invariance, PTL

(* Run never sends on a closed channel, whichever connections come and go  *)
(* (chat_service.go, lines 178-227).                                       *)
THEOREM SendsOnOpen == Spec => []NoSendOnClosed
<1>1. IInv => NoSendOnClosed
  BY DEF IInv
<1> QED
  BY <1>1, Invariance, PTL

(* A connection in its room that is not being evicted has been handed the  *)
(* messages since it registered, all of them and in order (lines 205-225). *)
THEOREM NothingSkipped == Spec => []NoSilentGap
<1>1. IInv => NoSilentGap
  BY DEF IInv
<1> QED
  BY <1>1, Invariance, PTL

------------------------------------------------------------------------------
(* The storage *)

(* The store takes the steps of the hub, or none of them.                  *)
LEMMA StoreStepsHub == [StoreNext]_storeVars => [Next]_vars
<1> SUFFICES ASSUME [StoreNext]_storeVars PROVE [Next]_vars
  OBVIOUS
<1>1. ASSUME hub = "running", NEW c \in Client, HubKeepsStore(c) PROVE Next
  BY <1>1 DEF HubKeepsStore, Next, Environment, Hub
<1>2. ASSUME hub = "running", NEW c \in Client, StampMessage(c) PROVE Next
  BY <1>2 DEF StampMessage, Next, Environment
<1>3. ASSUME hub = "running", NEW c \in Client, BroadcastMessage(c) PROVE Next
  BY <1>3 DEF BroadcastMessage, Next, Hub
<1>4. ASSUME NEW c \in Client, SaveAsync(c) PROVE UNCHANGED vars
  BY <1>4 DEF SaveAsync
<1>5. ASSUME NEW m \in Message, SaveMessage(m) \/ SaveFails(m) PROVE UNCHANGED vars
  BY <1>5 DEF SaveMessage, SaveFails
<1> QED
  BY <1>1, <1>2, <1>3, <1>4, <1>5 DEF StoreNext, storeVars

(* Composed with the storage the hub is the hub of ChatHub, whose theorems  *)
(* therefore hold of it.                                                   *)
THEOREM StoreKeepsHub == StoreSpec => Spec
<1>1. StoreInit => Init
  BY DEF StoreInit
<1> QED
  BY <1>1, StoreStepsHub, PTL DEF StoreSpec, Spec

LEMMA ElementsType ==
    ASSUME NEW S, NEW q \in Seq(S)
    PROVE  Ext!ToSet(q) \subseteq S
BY DEF Ext!ToSet

LEMMA ElementsAppend ==
    ASSUME NEW S, NEW q \in Seq(S), NEW e \in S
    PROVE  Ext!ToSet(Append(q, e)) = Ext!ToSet(q) \cup {e}
<1>1. ASSUME NEW x \in Ext!ToSet(Append(q, e)) PROVE x \in Ext!ToSet(q) \cup {e}
  BY <1>1 DEF Ext!ToSet
<1>2. ASSUME NEW x \in Ext!ToSet(q) PROVE x \in Ext!ToSet(Append(q, e))
  BY <1>2 DEF Ext!ToSet
<1>3. e \in Ext!ToSet(Append(q, e))
  <2>1. Append(q, e)[Len(q) + 1] = e /\ Len(q) + 1 \in DOMAIN Append(q, e)
    OBVIOUS
  <2> QED
    BY <2>1 DEF Ext!ToSet
<1> QED
  BY <1>1, <1>2, <1>3

Logged(o) == Ext!ToSet(log[o])

(* Messages are numbered as they are stamped, before the hub has them.     *)
Numbered ==
    /\ \A o \in Order : \A m \in Logged(o) : m <= sent
    /\ \A c \in Client : reader[c] = "broadcasting" => msg[c] <= sent

(* What is about to be saved was broadcast. *)
SavingWasLogged ==
    /\ \A m \in saving : \E o \in Order : m \in Logged(o)
    /\ \A c \in Client : unsaved[c] # 0 => \E o \in Order : unsaved[c] \in Logged(o)

HeardBefore == \A m \in Message : \A n \in heard[m] : n < m

StoreIInv == /\ IInv
             /\ StoreTypeOK
             /\ Numbered
             /\ SavingWasLogged
             /\ HeardBefore

LEMMA InitStoreInv == StoreInit => StoreIInv
<1> SUFFICES ASSUME StoreInit PROVE StoreIInv
  OBVIOUS
<1>1. IInv
  BY InitInv DEF StoreInit
<1>2. \A o \in Order : Logged(o) = {}
  BY DEF StoreInit, Init, Logged, Ext!ToSet
<1>3. StoreTypeOK /\ HeardBefore
  BY ChatConstants DEF StoreInit, StoreTypeOK, HeardBefore
<1>4. Numbered
  BY <1>2 DEF StoreInit, Init, Numbered
<1>5. SavingWasLogged
  BY DEF StoreInit, SavingWasLogged
<1> QED
  BY <1>1, <1>3, <1>4, <1>5 DEF StoreIInv

(* A step of the hub that neither stamps nor broadcasts a message.         *)
LEMMA HubKeepsStoreInv ==
    ASSUME StoreIInv, IInv', NEW c \in Client, HubKeepsStore(c)
    PROVE  StoreIInv'
<1>1. UNCHANGED <<log, sent, msg, lost, stored, heard>>
  BY DEF HubKeepsStore, Connect, Disconnect, ReadRefused, Pumps, ReadError, ReaderClose,
     WriteMessage, WriteError, WriterSeesClose, EvictClose, HubRegister, HubUnregister, HubEvict,
     messages, history, pumps
<1>2. reader' = reader
      \/ \E at \in {"registering", "reading", "leaving", "closing", "done"} :
             reader' = [reader EXCEPT ![c] = at]
  BY DEF HubKeepsStore, Connect, Disconnect, ReadRefused, Pumps, ReadError, ReaderClose,
     WriteMessage, WriteError, WriterSeesClose, EvictClose, HubRegister, HubUnregister, HubEvict,
     pumps
<1>3. \A d \in Client : reader'[d] = "broadcasting" => reader[d] = "broadcasting"
  BY <1>2 DEF StoreIInv, IInv, TypeOK
<1>4. \A o \in Order : Logged(o)' = Logged(o)
  BY <1>1 DEF Logged
<1>5. \/ UNCHANGED <<unsaved, saving>>
      \/ unsaved' = [d \in Client |-> 0] /\ saving' = {}
  BY DEF HubKeepsStore
<1>6. StoreTypeOK' /\ HeardBefore'
  BY <1>1, <1>5, ChatConstants DEF StoreIInv, StoreTypeOK, HeardBefore
<1>7. Numbered'
  BY <1>1, <1>3, <1>4 DEF StoreIInv, Numbered
<1>8. SavingWasLogged'
  BY <1>4, <1>5 DEF StoreIInv, SavingWasLogged
<1> QED
  BY <1>6, <1>7, <1>8 DEF StoreIInv

LEMMA StampMessageInv ==
    ASSUME StoreIInv, IInv', NEW c \in Client, StampMessage(c)
    PROVE  StoreIInv'
<1>1. /\ sent' = sent + 1 /\ sent \in Nat /\ sent < MaxSent /\ sent' \in Message
      /\ msg' = [msg EXCEPT ![c] = sent + 1]
      /\ reader' = [reader EXCEPT ![c] = "broadcasting"]
      /\ UNCHANGED <<log, unsaved, saving, lost, stored>>
      /\ heard' = [heard EXCEPT ![sent'] = Logged(OrderOf[c])]
  BY ChatConstants DEF StoreIInv, IInv, TypeOK, StampMessage, ReadMessage, history, Logged, Message
<1>2. /\ OrderOf[c] \in Order
      /\ \A o \in Order : Logged(o) \subseteq Message /\ \A m \in Logged(o) : m <= sent
  BY ChatConstants, ElementsType DEF StoreIInv, IInv, TypeOK, Logged, Numbered
<1>3. \A o \in Order : Logged(o)' = Logged(o)
  BY <1>1 DEF Logged
<1>4. StoreTypeOK'
  BY <1>1, <1>2 DEF StoreIInv, StoreTypeOK
<1>5. HeardBefore'
  <2>1. \A n \in Logged(OrderOf[c]) : n < sent'
    BY <1>1, <1>2 DEF Message
  <2> QED
    BY <1>1, <2>1 DEF StoreIInv, StoreTypeOK, HeardBefore
<1>6. \A d \in Client : IF d = c THEN msg'[d] = sent + 1
                        ELSE reader'[d] = reader[d] /\ msg'[d] = msg[d]
  BY <1>1 DEF StoreIInv, IInv, TypeOK
<1>7. \A d \in Client : reader[d] = "broadcasting" => msg[d] <= sent /\ msg[d] \in Nat
  BY DEF StoreIInv, IInv, TypeOK, Numbered
<1>8. Numbered'
  BY <1>1, <1>2, <1>3, <1>6, <1>7 DEF Numbered, Message
<1>9. SavingWasLogged'
  BY <1>1, <1>3 DEF StoreIInv, SavingWasLogged
<1> QED
  BY <1>4, <1>5, <1>8, <1>9 DEF StoreIInv

LEMMA BroadcastMessageInv ==
    ASSUME StoreIInv, IInv', NEW c \in Client, BroadcastMessage(c)
    PROVE  StoreIInv'
<1> DEFINE at == OrderOf[c]
<1>1. /\ at \in Order /\ msg[c] \in Message /\ reader[c] = "broadcasting"
      /\ log' = [log EXCEPT ![at] = Append(@, msg[c])]
      /\ reader' = [reader EXCEPT ![c] = "reading"]
      /\ msg' = [msg EXCEPT ![c] = 0]
      /\ unsaved' = [unsaved EXCEPT ![c] = msg[c]]
      /\ UNCHANGED <<sent, saving, lost, stored, heard>>
  BY ChatConstants DEF StoreIInv, IInv, HoldsMessage, BroadcastMessage, HubBroadcast
<1>2. \A o \in Order : Logged(o)' = IF o = at THEN Logged(o) \cup {msg[c]} ELSE Logged(o)
  <2>1. log[at] \in Seq(Message) /\ log'[at] = Append(log[at], msg[c])
    BY <1>1 DEF StoreIInv, IInv, TypeOK
  <2>2. Logged(at)' = Logged(at) \cup {msg[c]}
    BY <1>1, <2>1, ElementsAppend DEF Logged
  <2>3. \A o \in Order \ {at} : log'[o] = log[o]
    BY <1>1 DEF StoreIInv, IInv, TypeOK
  <2> QED
    BY <2>2, <2>3 DEF Logged
<1>3. msg[c] <= sent
  BY <1>1 DEF StoreIInv, Numbered
<1>4. \A d \in Client : reader'[d] = "broadcasting" =>
          d # c /\ reader[d] = "broadcasting" /\ msg'[d] = msg[d]
  BY <1>1 DEF StoreIInv, IInv, TypeOK
<1>5. StoreTypeOK' /\ HeardBefore'
  BY <1>1, ChatConstants DEF StoreIInv, StoreTypeOK, HeardBefore, Message
<1>6. Numbered'
  BY <1>1, <1>2, <1>3, <1>4 DEF StoreIInv, Numbered
<1>7. SavingWasLogged'
  <2>1. \A o \in Order : Logged(o) \subseteq Logged(o)'
    BY <1>2
  <2>2. \A d \in Client : unsaved'[d] = IF d = c THEN msg[c] ELSE unsaved[d]
    BY <1>1 DEF StoreIInv, StoreTypeOK
  <2>3. msg[c] \in Logged(at)'
    BY <1>1, <1>2
  <2> QED
    BY <1>1, <2>1, <2>2, <2>3 DEF StoreIInv, SavingWasLogged
<1> QED
  BY <1>5, <1>6, <1>7 DEF StoreIInv

(* ReadPump starts the goroutine. *)
LEMMA SaveAsyncInv ==
    ASSUME StoreIInv, IInv', NEW c \in Client, SaveAsync(c)
    PROVE  StoreIInv'
<1>1. /\ UNCHANGED <<log, sent, msg, reader, lost, stored, heard>>
      /\ unsaved[c] # 0
      /\ saving' = saving \cup {unsaved[c]}
      /\ unsaved' = [unsaved EXCEPT ![c] = 0]
  BY DEF SaveAsync, vars, pumps, messages, history
<1>2. \A o \in Order : Logged(o)' = Logged(o)
  BY <1>1 DEF Logged
<1>3. Numbered' /\ HeardBefore'
  BY <1>1, <1>2 DEF StoreIInv, Numbered, HeardBefore
<1>4. StoreTypeOK'
  <2>1. unsaved[c] \in Message /\ 0 \in 0..MaxSent
    BY <1>1, ChatConstants DEF StoreIInv, StoreTypeOK, Message
  <2>2. unsaved' \in [Client -> 0..MaxSent] /\ saving' \subseteq Message
    BY <1>1, <2>1 DEF StoreIInv, StoreTypeOK
  <2> QED
    BY <1>1, <2>2 DEF StoreIInv, StoreTypeOK
<1>5. \A d \in Client : unsaved'[d] = IF d = c THEN 0 ELSE unsaved[d]
  BY <1>1 DEF StoreIInv, StoreTypeOK
<1>6. SavingWasLogged'
  BY <1>1, <1>2, <1>5 DEF StoreIInv, SavingWasLogged
<1> QED
  BY <1>3, <1>4, <1>6 DEF StoreIInv

(* The goroutine of a message inserts it, or fails.                        *)
LEMMA SavesInv ==
    ASSUME StoreIInv, IInv', NEW m \in Message, SaveMessage(m) \/ SaveFails(m)
    PROVE  StoreIInv'
<1>1. /\ UNCHANGED <<log, sent, msg, reader, unsaved, heard>>
      /\ m \in saving /\ saving' = saving \ {m}
  BY DEF SaveMessage, SaveFails, vars, pumps, messages, history
<1>2. \A o \in Order : Logged(o)' = Logged(o)
  BY <1>1 DEF Logged
<1>3. Numbered' /\ SavingWasLogged' /\ HeardBefore'
  BY <1>1, <1>2 DEF StoreIInv, Numbered, SavingWasLogged, HeardBefore
<1>4. CASE SaveMessage(m)
  <2> DEFINE at == OrderOfMessage(m)
  <2>1. at \in Order
    <3>1. \E o \in Order : m \in Ext!ToSet(log[o])
      BY <1>1 DEF StoreIInv, SavingWasLogged, Logged
    <3> QED
      BY <3>1, Zenon DEF OrderOfMessage
  <2>2. stored' = [stored EXCEPT ![at] = Append(@, m)] /\ lost' = lost
    BY <1>4 DEF SaveMessage
  <2> HIDE DEF at
  <2>3. StoreTypeOK'
    BY <1>1, <2>1, <2>2 DEF StoreIInv, StoreTypeOK
  <2> QED
    BY <1>3, <2>3 DEF StoreIInv
<1>5. CASE SaveFails(m)
  <2>1. StoreTypeOK'
    BY <1>1, <1>5 DEF StoreIInv, StoreTypeOK, SaveFails
  <2> QED
    BY <1>3, <2>1 DEF StoreIInv
<1> QED
  BY <1>4, <1>5

LEMMA StoreInvariance == StoreSpec => []StoreIInv
<1>1. StoreIInv /\ [StoreNext]_storeVars => StoreIInv'
  <2> SUFFICES ASSUME StoreIInv, [StoreNext]_storeVars PROVE StoreIInv'
    OBVIOUS
  <2>1. IInv'
    BY NextInv, StoreStepsHub DEF StoreIInv
  <2>2. CASE UNCHANGED storeVars
    BY <2>1, <2>2 DEF StoreIInv, StoreTypeOK, Numbered, SavingWasLogged, HeardBefore, Logged, storeVars, store,
       vars, pumps, messages, history
  <2> QED
    BY <2>1, <2>2, HubKeepsStoreInv, StampMessageInv, BroadcastMessageInv, SaveAsyncInv, SavesInv
       DEF StoreNext
<1> QED
  BY <1>1, InitStoreInv, PTL DEF StoreSpec

------------------------------------------------------------------------------
(* The history *)

(* The numbers of a finite set can be put in order: each takes the place    *)
(* that the number of those not above it names.                            *)
LEMMA CanBeOrdered ==
    ASSUME NEW S \in SUBSET Nat, IsFiniteSet(S)
    PROVE  \E rows \in [1..Cardinality(S) -> S] : Ascending(rows)
<1> DEFINE n == Cardinality(S)
           Upto(x) == {y \in S : y <= x}
           place == [x \in S |-> Cardinality(Upto(x))]
<1>1. n \in Nat
  BY FS_CardinalityType
<1>2. \A x \in S : /\ IsFiniteSet(Upto(x))
                   /\ Cardinality(Upto(x)) \in Nat
                   /\ Cardinality(Upto(x)) <= n
  <2> SUFFICES ASSUME NEW x \in S
               PROVE  /\ IsFiniteSet(Upto(x)) /\ Cardinality(Upto(x)) \in Nat
                      /\ Cardinality(Upto(x)) <= n
    OBVIOUS
  <2>1. Upto(x) \in SUBSET S
    OBVIOUS
  <2> HIDE DEF Upto
  <2>2. IsFiniteSet(Upto(x)) /\ Cardinality(Upto(x)) <= n
    BY <2>1, FS_Subset
  <2> QED
    BY <2>2, FS_CardinalityType
<1>3. \A x \in S : Cardinality(Upto(x)) \in 1..n
  <2> SUFFICES ASSUME NEW x \in S PROVE Cardinality(Upto(x)) \in 1..n
    OBVIOUS
  <2>1. x \in Upto(x)
    OBVIOUS
  <2> HIDE DEF Upto
  <2>2. Cardinality(Upto(x)) # 0
    BY <1>2, <2>1, FS_EmptySet
  <2> QED
    BY <1>1, <1>2, <2>2
<1>4. ASSUME NEW x \in S, NEW y \in S, x < y
      PROVE  Cardinality(Upto(x)) < Cardinality(Upto(y))
  <2>1. Upto(x) \in SUBSET Upto(y) /\ y \in Upto(y) /\ y \notin Upto(x)
    <3>1. \A z \in S : z \in Nat
      OBVIOUS
    <3>2. \A z \in S : z <= x => z <= y
      BY <1>4, <3>1
    <3>3. y <= y /\ ~(y <= x)
      BY <1>4, <3>1
    <3> QED
      BY <3>2, <3>3
  <2> HIDE DEF Upto
  <2>2. Upto(x) # Upto(y)
    BY <2>1
  <2>3. /\ Cardinality(Upto(x)) <= Cardinality(Upto(y))
        /\ Cardinality(Upto(x)) # Cardinality(Upto(y))
    BY <1>2, <2>1, <2>2, FS_Subset
  <2> QED
    BY <1>2, <2>3
<1> HIDE DEF Upto
<1>5. place \in Injection(S, 1..n)
  <2>1. place \in [S -> 1..n]
    BY <1>3
  <2>2. ASSUME NEW x \in S, NEW y \in S, place[x] = place[y] PROVE x = y
    <3>1. ~(x < y) /\ ~(y < x)
      BY <1>2, <1>4, <2>2
    <3> QED
      BY <3>1
  <2> QED
    BY <2>1, <2>2 DEF Injection, IsInjective
<1>6. \A i \in 1..n : \E x \in S : place[x] = i
  <2> HIDE DEF place
  <2>1. IsFiniteSet(1..n) /\ Cardinality(1..n) = n
    BY <1>1, FS_Interval
  <2>2. place \in Surjection(S, 1..n)
    <3> DEFINE T == 1..n
    <3>1. IsFiniteSet(T) /\ Cardinality(T) = Cardinality(S) /\ place \in Injection(S, T)
      BY <1>5, <2>1
    <3> HIDE DEF T, n
    <3>2. place \in Surjection(S, T)
      BY <3>1, FS_Injection
    <3> QED
      BY <3>2 DEF T
  <2> QED
    BY <2>2 DEF Surjection
<1> DEFINE rows == [i \in 1..n |-> CHOOSE x \in S : place[x] = i]
<1>7. \A i \in 1..n : rows[i] \in S /\ place[rows[i]] = i
  BY <1>6
<1>8. rows \in [1..n -> S]
  BY <1>7
<1>9. Ascending(rows)
  <2> SUFFICES ASSUME NEW i \in 1..n, NEW j \in 1..n, i < j PROVE rows[i] < rows[j]
    BY DEF Ascending
  <2> DEFINE x == rows[i]  y == rows[j]
  <2>1. x \in S /\ y \in S /\ Cardinality(Upto(x)) = i /\ Cardinality(Upto(y)) = j
    BY <1>7
  <2> HIDE DEF x, y, rows
  <2>2. x # y /\ ~(y < x)
    BY <1>4, <2>1
  <2>3. x < y
    BY <2>1, <2>2
  <2> QED
    BY <2>3 DEF x, y
<1> HIDE DEF rows
<1> QED
  BY <1>8, <1>9

(* No answer stands before the message it answers, in whichever order the   *)
(* goroutines of any number of messages insert them.                       *)
THEOREM HistoryInOrder == StoreSpec => []HistoryIsCausal
<1>1. ASSUME StoreIInv PROVE HistoryIsCausal
  <2> SUFFICES ASSUME NEW o \in Order,
                      NEW i \in DOMAIN GetHistory(o), NEW j \in DOMAIN GetHistory(o),
                      GetHistory(o)[i] \in heard[GetHistory(o)[j]]
               PROVE  i < j
    BY DEF HistoryIsCausal
  <2> DEFINE found == Ext!ToSet(stored[o])
             rows == GetHistory(o)
  <2>1. found \in SUBSET Message
    BY <1>1, ElementsType DEF StoreIInv, StoreTypeOK
  <2>2. IsFiniteSet(found) /\ found \in SUBSET Nat
    <3>1. IsFiniteSet(Message) /\ Message \in SUBSET Nat
      BY ChatConstants, FS_Interval DEF Message
    <3> HIDE DEF found
    <3> QED
      BY <2>1, <3>1, FS_Subset
  <2>3. rows \in [1..Cardinality(found) -> found] /\ Ascending(rows)
    <3>1. \E r \in [1..Cardinality(found) -> found] : Ascending(r)
      BY <2>2, CanBeOrdered
    <3> QED
      BY <3>1, Zenon DEF GetHistory
  <2> HIDE DEF rows, found
  <2>4. i \in 1..Cardinality(found) /\ j \in 1..Cardinality(found) /\ rows[i] \in heard[rows[j]]
    BY <2>3 DEF rows
  <2>5. rows[i] \in Message /\ rows[j] \in Message
    BY <2>1, <2>3, <2>4
  <2>6. rows[i] < rows[j]
    BY <1>1, <2>4, <2>5 DEF StoreIInv, HeardBefore
  <2>7. ~(j < i) /\ i # j
    BY <2>3, <2>4, <2>5, <2>6 DEF Ascending, Message
  <2> QED
    BY <2>4, <2>7
<1> QED
  BY <1>1, StoreInvariance, PTL

(* The storage keeps to its types.                                         *)
THEOREM StoreTypeCorrect == StoreSpec => []StoreTypeOK
<1>1. StoreIInv => StoreTypeOK
  BY DEF StoreIInv
<1> QED
  BY <1>1, StoreInvariance, PTL
==============================================================================
