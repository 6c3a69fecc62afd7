------------------------------ MODULE ChatStore ------------------------------
(***************************************************************************)
(* The storage of chat-service composed with its hub.  ReadPump broadcasts *)
(* a message and then, when the hub has taken it, starts a goroutine that  *)
(* saves it; clients read the history of their order beside what the hub   *)
(* sends them.                                                             *)
(***************************************************************************)
EXTENDS ChatHub

Ext == INSTANCE SequencesExt

VARIABLES
    unsaved,  \* the message a ReadPump has broadcast and has no goroutine for yet, or 0
    saving,   \* messages with a goroutine that is about to save them
    lost,     \* messages whose INSERT failed or took more than 5 s
    stored,   \* chat_messages: the messages of an order, in the order of their ids
    heard     \* history: what the hub had broadcast when a message was read

store == <<unsaved, saving, lost, stored, heard>>
storeVars == <<vars, store>>

StoreTypeOK ==
    /\ unsaved \in [Client -> 0..MaxSent]
    /\ saving \subseteq Message
    /\ lost \subseteq Message
    /\ stored \in [Order -> Seq(Message)]
    /\ heard \in [Message -> SUBSET Message]

------------------------------------------------------------------------------
StoreInit ==
    /\ Init
    /\ unsaved = [c \in Client |-> 0]
    /\ saving = {} /\ lost = {}
    /\ stored = [o \in Order |-> <<>>]
    /\ heard = [m \in Message |-> {}]

(* ReadJSON returns, SentAt is taken. *)
StampMessage(c) ==
    /\ unsaved[c] = 0
    /\ ReadMessage(c)
    /\ heard' = [heard EXCEPT ![sent'] = Ext!ToSet(log[OrderOf[c]])]
    /\ UNCHANGED <<unsaved, saving, lost, stored>>

(* The hub takes the message, Broadcast returns. *)
BroadcastMessage(c) ==
    /\ HubBroadcast(c)
    /\ unsaved' = [unsaved EXCEPT ![c] = msg[c]]
    /\ UNCHANGED <<saving, lost, stored, heard>>

(* Mutant of SaveAsync: nothing is saved for a connection that is gone. *)
SaveWhileOpen(c) ==
    /\ unsaved[c] # 0
    /\ saving' = IF conn[c] = "open" THEN saving \cup {unsaved[c]} ELSE saving
    /\ unsaved' = [unsaved EXCEPT ![c] = 0]
    /\ UNCHANGED <<vars, lost, stored, heard>>

(* ReadPump starts the goroutine. *)
SaveAsync(c) ==
    /\ unsaved[c] # 0
    /\ saving' = saving \cup {unsaved[c]}
    /\ unsaved' = [unsaved EXCEPT ![c] = 0]
    /\ UNCHANGED <<vars, lost, stored, heard>>

OrderOfMessage(m) == CHOOSE o \in Order : m \in Ext!ToSet(log[o])

(* The INSERT takes the next id; it does not depend on the connection. *)
SaveMessage(m) ==
    /\ m \in saving
    /\ stored' = [stored EXCEPT ![OrderOfMessage(m)] = Append(@, m)]
    /\ saving' = saving \ {m}
    /\ UNCHANGED <<vars, unsaved, lost, heard>>

(* It is only logged that it failed, or took longer than 5 s. *)
SaveFails(m) ==
    /\ m \in saving
    /\ saving' = saving \ {m}
    /\ lost' = lost \cup {m}
    /\ UNCHANGED <<vars, unsaved, stored, heard>>

(* Mutant of GetHistory: in the order of the ids. *)
GetHistoryById(o) == stored[o]

Ascending(rows) == \A i, j \in DOMAIN rows : i < j => rows[i] < rows[j]

(* ORDER BY sent_at: messages are numbered as they were stamped. *)
GetHistory(o) ==
    LET found == Ext!ToSet(stored[o])
    IN  CHOOSE rows \in [1..Cardinality(found) -> found] : Ascending(rows)

------------------------------------------------------------------------------
(* ReadPump does nothing else before it has started the goroutine.  A panic *)
(* of the hub ends the process and with it every goroutine.                *)
HubKeepsStore(c) ==
    /\ \/ Connect(c) \/ Disconnect(c) \/ ReadRefused(c)
       \/ Pumps(c)
       \/ HubRegister(c) \/ HubUnregister(c) \/ HubEvict(c)
    /\ unsaved[c] # 0 => reader' = reader
    /\ IF hub' = "running"
       THEN UNCHANGED <<unsaved, saving>>
       ELSE unsaved' = [d \in Client |-> 0] /\ saving' = {}
    /\ UNCHANGED <<lost, stored, heard>>

StoreNext ==
    /\ hub = "running"
    /\ \/ \E c \in Client : \/ HubKeepsStore(c)
                          \/ StampMessage(c) \/ BroadcastMessage(c) \/ SaveAsync(c)
       \/ \E m \in Message : SaveFails(m) \/ SaveMessage(m)

StoreSpec == StoreInit /\ [][StoreNext]_storeVars

(* What ReadPump and then the goroutine do to save a message. *)
Save(m) == \/ \E c \in Client : unsaved[c] = m /\ SaveAsync(c)
           \/ SaveFails(m) \/ SaveMessage(m)

(* Goroutines are scheduled, and an INSERT ends: its context sees to that   *)
(* after 5 s.                                                              *)
FairStoreSpec ==
    /\ StoreSpec
    /\ Fairness
    /\ \A m \in Message : WF_storeVars(Save(m))

------------------------------------------------------------------------------
(* Properties *)

(* An answer never stands before the message it answers in the history,     *)
(* although the goroutines may insert them in the other order and the two   *)
(* came over different connections (lines 54-80; ORDER BY sent_at,          *)
(* repository line 50).                                                    *)
HistoryIsCausal ==
    \A o \in Order :
        LET rows == GetHistory(o)
        IN  \A i, j \in DOMAIN rows : rows[i] \in heard[rows[j]] => i < j

(* Every message that is read from a socket is stored in the history of its *)
(* room, unless its INSERT fails or the hub panics: also when its sender    *)
(* has nobody to talk to, is evicted for its full queue, or is gone before  *)
(* the hub takes the message or the goroutine runs (lines 56-80: Broadcast  *)
(* waits for the hub and not for the room, and the goroutine has a context  *)
(* and a copy of the message of its own).                                  *)
ReadIsKept ==
    \A m \in Message :
        sent >= m ~> \/ \E o \in Order : m \in Ext!ToSet(stored[o])
                     \/ m \in lost
                     \/ hub = "panicked"
==============================================================================
