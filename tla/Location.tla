------------------------------- MODULE Location -------------------------------
(***************************************************************************)
(* location-service.  UpdateLocation answers at once and leaves the upsert *)
(* to a goroutine of its own, so that the reports of one driver can reach  *)
(* the table in another order than they were sent.  The reports of a       *)
(* driver are numbered; the number stands for the position.                *)
(***************************************************************************)
EXTENDS Integers, FiniteSetsExt

CONSTANTS Driver,
          MaxReports \* bound on the reports of a driver

VARIABLES reported,  \* how many reports of a driver were answered
          writing,   \* reports whose goroutine has not written them
          unwritten, \* reports whose goroutine failed or died
          position,  \* driver_locations: the report in the row, 0 without a row
          overlapped \* history: drivers who reported while an upsert was pending

vars == <<reported, writing, unwritten, position, overlapped>>

Report == Driver \X (1..MaxReports)

Init ==
    /\ reported = [d \in Driver |-> 0]
    /\ writing = {} /\ unwritten = {} /\ overlapped = {}
    /\ position = [d \in Driver |-> 0]

UpdateLocation(d) ==
    /\ reported[d] < MaxReports
    /\ reported' = [reported EXCEPT ![d] = @ + 1]
    /\ writing' = writing \cup {<<d, reported[d] + 1>>}
    /\ overlapped' = IF \E r \in writing : r[1] = d THEN overlapped \cup {d} ELSE overlapped
    /\ UNCHANGED <<unwritten, position>>

(* Mutant of UpsertLocation: ON CONFLICT DO NOTHING. *)
InsertLocation(r) ==
    /\ r \in writing
    /\ writing' = writing \ {r}
    /\ position' = [position EXCEPT ![r[1]] = IF @ = 0 THEN r[2] ELSE @]
    /\ UNCHANGED <<reported, unwritten, overlapped>>

UpsertLocation(r) ==
    /\ r \in writing
    /\ writing' = writing \ {r}
    /\ position' = [position EXCEPT ![r[1]] = r[2]]
    /\ UNCHANGED <<reported, unwritten, overlapped>>

(* Only logged. *)
UpsertFails(r) ==
    /\ r \in writing
    /\ writing' = writing \ {r}
    /\ unwritten' = unwritten \cup {r}
    /\ UNCHANGED <<reported, position, overlapped>>

(* The process dies with its goroutines. *)
Crash ==
    /\ writing' = {}
    /\ unwritten' = unwritten \cup writing
    /\ UNCHANGED <<reported, position, overlapped>>

Next == \/ \E d \in Driver : UpdateLocation(d)
        \/ \E r \in Report : UpsertLocation(r) \/ UpsertFails(r)
        \/ Crash

Spec == Init /\ [][Next]_vars

(* A driver whose reports never met in the service is found where the last  *)
(* of them that was written has him, whatever was lost in between (service  *)
(* lines 27-42, repository lines 28-34).                                   *)
LastReportStands ==
    \A d \in Driver \ overlapped :
        position[d] = Max({0} \cup {n \in 1..reported[d] : <<d, n>> \notin writing \cup unwritten})
==============================================================================
