------------------------------- MODULE ChatHub -------------------------------
(***************************************************************************)
(* The WebSocket hub of chat-service.  A connection (Client) has a reading *)
(* goroutine (ReadPump), a writing one (WritePump) and a bounded queue     *)
(* between the hub and the writer (the channel Send).  One goroutine, Run, *)
(* owns the rooms; the others meet it on the unbuffered channels register, *)
(* unregister and broadcast, so a Hub... action below is the rendezvous    *)
(* and the whole case of Run's select that follows it.                     *)
(***************************************************************************)
EXTENDS Integers, Sequences, FiniteSets

CONSTANTS Client,   \* WebSocket connections, in all their life
          User,     \* participants (user_id)
          Order,    \* rooms (order_id)
          UserOf,   \* the user_id a connection is opened with
          OrderOf,  \* and its order_id
          NoClient,
          Cap,      \* capacity of Send (256)
          MaxSent   \* bound on the messages read from all connections

ASSUME ChatConstants ==
    /\ UserOf \in [Client -> User]
    /\ OrderOf \in [Client -> Order]
    /\ NoClient \notin Client
    /\ Cap \in Nat
    /\ MaxSent \in Nat

VARIABLES
    room,     \* h.clients: the connection of each user of each order
    hub,      \* Run: "running", or "panicked" (and the process is gone)
    reader,   \* where the ReadPump of a connection is
    writer,   \* where its WritePump is
    conn,     \* the socket: "open" or "gone"
    queue,    \* the number of messages buffered in Send
    closed,   \* Send has been closed
    evicting, \* goroutines blocked on h.unregister <- c for a full queue
    closing,  \* one of them is about to close the socket
    sent,     \* number of messages read so far, the identity of the last one
    msg,      \* the message a ReadPump is broadcasting
    log,      \* history: the messages of an order, as the hub took them
    joined,   \* history: length of the log when the connection registered
    given     \* history: the messages put into Send

pumps == <<reader, writer, conn>>
channels == <<queue, closed, evicting, closing>>
messages == <<sent, msg>>
history == <<log, joined, given>>
vars == <<room, hub, pumps, channels, messages, history>>

Message == 1..MaxSent
ReaderAt == {"none", "registering", "reading", "broadcasting",
             "leaving", "closing", "done"}

TypeOK ==
    /\ room \in [Order -> [User -> Client \cup {NoClient}]]
    /\ hub \in {"running", "panicked"}
    /\ reader \in [Client -> ReaderAt]
    /\ writer \in [Client -> {"none", "running", "done"}]
    /\ conn \in [Client -> {"open", "gone"}]
    /\ queue \in [Client -> 0..Cap]
    /\ closed \in [Client -> BOOLEAN]
    /\ evicting \in [Client -> Nat]
    /\ closing \in [Client -> BOOLEAN]
    /\ sent \in 0..MaxSent
    /\ msg \in [Client -> 0..MaxSent]
    /\ log \in [Order -> Seq(Message)]
    /\ joined \in [Client -> Nat]
    /\ given \in [Client -> Seq(Message)]

------------------------------------------------------------------------------
InRoom(c) == room[OrderOf[c]][UserOf[c]] = c
Members(o) == {c \in Client : OrderOf[c] = o /\ InRoom(c)}
Full(c) == queue[c] = Cap

Init ==
    /\ room = [o \in Order |-> [u \in User |-> NoClient]]
    /\ hub = "running"
    /\ reader = [c \in Client |-> "none"]
    /\ writer = [c \in Client |-> "none"]
    /\ conn = [c \in Client |-> "open"]
    /\ queue = [c \in Client |-> 0]
    /\ closed = [c \in Client |-> FALSE]
    /\ evicting = [c \in Client |-> 0]
    /\ closing = [c \in Client |-> FALSE]
    /\ sent = 0
    /\ msg = [c \in Client |-> 0]
    /\ log = [o \in Order |-> <<>>]
    /\ joined = [c \in Client |-> 0]
    /\ given = [c \in Client |-> <<>>]

------------------------------------------------------------------------------
(* The outside world *)

(* UpgradeWS: the handshake succeeds and Register is called. *)
Connect(c) ==
    /\ reader[c] = "none"
    /\ reader' = [reader EXCEPT ![c] = "registering"]
    /\ UNCHANGED <<room, hub, writer, conn, channels, messages, history>>

(* The peer closes the socket, or it stops answering pings. *)
Disconnect(c) ==
    /\ reader[c] # "none"
    /\ conn[c] = "open"
    /\ conn' = [conn EXCEPT ![c] = "gone"]
    /\ UNCHANGED <<room, hub, reader, writer, channels, messages, history>>

------------------------------------------------------------------------------
(* ReadPump *)

ReadMessage(c) ==
    /\ reader[c] = "reading"
    /\ conn[c] = "open"
    /\ sent < MaxSent
    /\ sent' = sent + 1
    /\ msg' = [msg EXCEPT ![c] = sent + 1]
    /\ reader' = [reader EXCEPT ![c] = "broadcasting"]
    /\ UNCHANGED <<room, hub, writer, conn, channels, history>>

(* Mutant of ReadError: the deferred Unregister is missing. *)
ReaderJustEnds(c) ==
    /\ reader[c] = "reading"
    /\ conn[c] = "gone"
    /\ reader' = [reader EXCEPT ![c] = "done"]
    /\ UNCHANGED <<room, hub, writer, conn, channels, messages, history>>

ReadError(c) ==
    /\ reader[c] = "reading"
    /\ conn[c] = "gone"
    /\ reader' = [reader EXCEPT ![c] = "leaving"]
    /\ UNCHANGED <<room, hub, writer, conn, channels, messages, history>>

(* A message that is not JSON or too long, or no pong within the deadline,  *)
(* is an error as well, and ends the loop with the socket still open.      *)
ReadRefused(c) ==
    /\ reader[c] = "reading"
    /\ conn[c] = "open"
    /\ reader' = [reader EXCEPT ![c] = "leaving"]
    /\ UNCHANGED <<room, hub, writer, conn, channels, messages, history>>

(* The deferred Close, after Unregister. *)
ReaderClose(c) ==
    /\ reader[c] = "closing"
    /\ reader' = [reader EXCEPT ![c] = "done"]
    /\ conn' = [conn EXCEPT ![c] = "gone"]
    /\ UNCHANGED <<room, hub, writer, channels, messages, history>>

------------------------------------------------------------------------------
(* WritePump; leaving it closes the socket. *)

StopWriter(c) == /\ writer' = [writer EXCEPT ![c] = "done"]
                 /\ conn' = [conn EXCEPT ![c] = "gone"]

(* A message is written, or (peer gone, not yet noticed) written to nobody. *)
WriteMessage(c) ==
    /\ writer[c] = "running"
    /\ queue[c] > 0
    /\ queue' = [queue EXCEPT ![c] = @ - 1]
    /\ UNCHANGED <<room, hub, pumps, closed, evicting, closing, messages, history>>

(* Mutant of WriteError: no pings, only a message shows that nobody reads. *)
WriteErrorWithoutPing(c) ==
    /\ writer[c] = "running"
    /\ conn[c] = "gone"
    /\ queue[c] > 0
    /\ StopWriter(c)
    /\ UNCHANGED <<room, hub, reader, channels, messages, history>>

(* WriteJSON or a ping fails. *)
WriteError(c) ==
    /\ writer[c] = "running"
    /\ conn[c] = "gone"
    /\ StopWriter(c)
    /\ UNCHANGED <<room, hub, reader, channels, messages, history>>

(* Send is closed and drained: close message, return. *)
WriterSeesClose(c) ==
    /\ writer[c] = "running"
    /\ closed[c]
    /\ queue[c] = 0
    /\ StopWriter(c)
    /\ UNCHANGED <<room, hub, reader, channels, messages, history>>

------------------------------------------------------------------------------
(* Run *)

(* The connection takes the place of any other one of its user; its pumps  *)
(* start.                                                                  *)
HubRegister(c) ==
    /\ hub = "running"
    /\ reader[c] = "registering"
    /\ room' = [room EXCEPT ![OrderOf[c]][UserOf[c]] = c]
    /\ reader' = [reader EXCEPT ![c] = "reading"]
    /\ writer' = [writer EXCEPT ![c] = "running"]
    /\ joined' = [joined EXCEPT ![c] = Len(log[OrderOf[c]])]
    /\ UNCHANGED <<hub, conn, channels, messages, log, given>>

(* Mutant of Remove: Send is closed, the room keeps the connection. *)
CloseOnly(c) ==
    IF room[OrderOf[c]][UserOf[c]] = NoClient
    THEN UNCHANGED <<room, hub, closed>>
    ELSE /\ UNCHANGED room
         /\ hub' = IF closed[c] THEN "panicked" ELSE hub
         /\ closed' = [closed EXCEPT ![c] = TRUE]

(* case client := <-h.unregister: whichever connection the user has in the *)
(* room is removed, and the Send of the one that leaves is closed; closing *)
(* a closed channel panics, and nothing recovers.                          *)
Remove(c) ==
    IF room[OrderOf[c]][UserOf[c]] = NoClient
    THEN UNCHANGED <<room, hub, closed>>
    ELSE /\ room' = [room EXCEPT ![OrderOf[c]][UserOf[c]] = NoClient]
         /\ hub' = IF closed[c] THEN "panicked" ELSE hub
         /\ closed' = [closed EXCEPT ![c] = TRUE]

(* From ReadPump's deferred call. *)
HubUnregister(c) ==
    /\ hub = "running"
    /\ reader[c] = "leaving"
    /\ Remove(c)
    /\ reader' = [reader EXCEPT ![c] = "closing"]
    /\ UNCHANGED <<writer, conn, queue, evicting, closing, messages, history>>

(* From the goroutine a full queue started. *)
HubEvict(c) ==
    /\ hub = "running"
    /\ evicting[c] > 0
    /\ Remove(c)
    /\ evicting' = [evicting EXCEPT ![c] = @ - 1]
    /\ closing' = [closing EXCEPT ![c] = TRUE]
    /\ UNCHANGED <<pumps, queue, messages, history>>

EvictClose(c) ==
    /\ closing[c]
    /\ closing' = [closing EXCEPT ![c] = FALSE]
    /\ conn' = [conn EXCEPT ![c] = "gone"]
    /\ UNCHANGED <<room, hub, reader, writer, queue, closed, evicting, messages, history>>

(* Mutant of HubBroadcast: a message that does not fit is dropped silently. *)
BroadcastDrops(c) ==
    LET ready == {r \in Members(OrderOf[c]) : ~Full(r)}
    IN  /\ hub = "running"
        /\ reader[c] = "broadcasting"
        /\ queue' = [r \in Client |-> IF r \in ready THEN queue[r] + 1 ELSE queue[r]]
        /\ given' = [r \in Client |-> IF r \in ready THEN Append(given[r], msg[c])
                                      ELSE given[r]]
        /\ log' = [log EXCEPT ![OrderOf[c]] = Append(@, msg[c])]
        /\ msg' = [msg EXCEPT ![c] = 0]
        /\ reader' = [reader EXCEPT ![c] = "reading"]
        /\ UNCHANGED <<room, hub, writer, conn, closed, evicting, closing, sent, joined>>

(* A message goes to every connection of the room, its sender's included;  *)
(* one whose queue is full loses it and is evicted from another goroutine. *)
HubBroadcast(c) ==
    LET to == Members(OrderOf[c])
        ready == {r \in to : ~Full(r)}
    IN  /\ hub = "running"
        /\ reader[c] = "broadcasting"
        /\ queue' = [r \in Client |-> IF r \in ready THEN queue[r] + 1 ELSE queue[r]]
        /\ given' = [r \in Client |-> IF r \in ready THEN Append(given[r], msg[c])
                                      ELSE given[r]]
        /\ evicting' = [r \in Client |-> IF r \in to \ ready THEN evicting[r] + 1
                                         ELSE evicting[r]]
        /\ log' = [log EXCEPT ![OrderOf[c]] = Append(@, msg[c])]
        /\ msg' = [msg EXCEPT ![c] = 0]
        /\ reader' = [reader EXCEPT ![c] = "reading"]
        /\ UNCHANGED <<room, hub, writer, conn, closed, closing, sent, joined>>

------------------------------------------------------------------------------
Environment(c) == Connect(c) \/ Disconnect(c) \/ ReadMessage(c) \/ ReadRefused(c)

Pumps(c) == \/ ReadError(c) \/ ReaderClose(c)
            \/ WriteMessage(c) \/ WriteError(c)
            \/ WriterSeesClose(c) \/ EvictClose(c)

Hub(c) == HubRegister(c) \/ HubUnregister(c) \/ HubEvict(c) \/ HubBroadcast(c)

Next == /\ hub = "running"
        /\ \E c \in Client : Environment(c) \/ Pumps(c) \/ Hub(c)

Spec == Init /\ [][Next]_vars

(* The next step of a connection's reading goroutine, of its writing one    *)
(* when there is nothing to write, and of those that evict it.             *)
Reader(c) == \/ HubRegister(c) \/ HubBroadcast(c) \/ HubUnregister(c)
             \/ hub = "running" /\ (ReadError(c) \/ ReaderClose(c))
WriterEnds(c) == hub = "running" /\ (WriteError(c) \/ WriterSeesClose(c))
Evictor(c) == HubEvict(c) \/ (hub = "running" /\ EvictClose(c))

(* Goroutines are scheduled; Run serves every sender that waits (a select   *)
(* chooses among the ready channels at random, a channel serves its senders *)
(* in order).  Users owe nothing: they may never connect, write or leave.   *)
Fairness ==
    \A c \in Client :
        /\ WF_vars(Reader(c))
        /\ WF_vars(hub = "running" /\ WriteMessage(c))
        /\ WF_vars(WriterEnds(c))
        /\ WF_vars(Evictor(c))

------------------------------------------------------------------------------
(* Properties *)

(* The hub never sends on a closed channel (which would panic): a          *)
(* connection in a room has its Send open, whichever connections of the    *)
(* same user come and go (lines 187, 194-196, 213).                        *)
NoSendOnClosed == \A c \in Client : InRoom(c) => ~closed[c]

(* A connection that is in its room and not about to be evicted has been   *)
(* handed every message broadcast since it registered, in the order the    *)
(* hub took them (lines 205-225).                                          *)
NoSilentGap ==
    \A c \in Client :
        InRoom(c) /\ evicting[c] = 0 =>
            given[c] = SubSeq(log[OrderOf[c]], joined[c] + 1, Len(log[OrderOf[c]]))

(* A connection whose socket is gone leaves its room: its reader notices,  *)
(* and Run is never blocked by a reader, a writer or an eviction of its    *)
(* own (lines 27-30, 217-220).                                             *)
GoneLeavesRoom ==
    \A c \in Client : (conn[c] = "gone" /\ reader[c] # "registering")
                          ~> (~InRoom(c) \/ hub = "panicked")

(* No writing goroutine outlives its socket, also when another connection  *)
(* of the same user was removed in its place and its Send stays open       *)
(* (lines 94-109).                                                         *)
GoneEndsWriter ==
    \A c \in Client : (conn[c] = "gone" /\ reader[c] # "registering")
                          ~> (writer[c] = "done" \/ hub = "panicked")
==============================================================================
