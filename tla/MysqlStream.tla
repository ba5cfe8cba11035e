------------------------------ MODULE MysqlStream ------------------------------
(***************************************************************************)
(* MySqlBatchReader (doris/transports/mysql.py) over SSCursorLifecycle    *)
(* (doris/transports/_pymysql.py): the unbuffered cursor that a           *)
(* stream_query reads, and the order in which it is taken down.           *)
(*                                                                         *)
(* The jobs run one after the other, so each is one step, taken when it   *)
(* ends; its driver calls may fail at any point.  PyMySQL is external:    *)
(* close() of a cursor that is attached to its connection while its       *)
(* result is active reads every row that is left, and close() of a        *)
(* connection drops it even when it raises.                               *)
(***************************************************************************)
EXTENDS StreamQuery

VARIABLES
    cursor,       \* _cursor: "none", "attached", "detached" or "closed"
    lifecycle,    \* what _cursor_lifecycle has validated, "none" without one
    active,       \* result.unbuffered_active
    fetchRows,    \* _fetch_rows
    drained       \* whether a close has read rows that nobody asked for

driverVars == <<readerVars, cursor, lifecycle, active, fetchRows, drained>>

ReaderInit ==
    /\ cursor = "none" /\ lifecycle = "none"
    /\ active = FALSE /\ fetchRows = BatchRows
    /\ drained = FALSE

(* How far connect, cursor(), validate_cursor, execute and validate_result
   come.  A result that was not validated may be active. *)
OpenFails ==
    /\ Job("open", "error")
    /\ \/ UNCHANGED <<connection, cursor, lifecycle, active>>
       \/ /\ connection' = "open"
          /\ UNCHANGED <<cursor, lifecycle, active>>
       \/ /\ connection' = "open" /\ cursor' = "attached"
          /\ lifecycle' = "new" /\ UNCHANGED active
       \/ /\ connection' = "open" /\ cursor' = "attached"
          /\ lifecycle' \in {"cursor", "result"} /\ active' \in BOOLEAN
    /\ UNCHANGED <<left, fetchRows, drained, fetched>>

Open ==
    /\ Job("open", "ok")
    /\ connection' = "open" /\ cursor' = "attached"
    /\ lifecycle' = "result" /\ active' = TRUE
    /\ UNCHANGED <<left, fetchRows, drained, fetched>>

(* The driver notices the end of the rows when it is asked for more than are
   left. *)
FetchMany ==
    /\ fetched' = IF left < fetchRows THEN left ELSE fetchRows
    /\ left' = left - fetched'
    /\ active' = (active /\ fetched' = fetchRows)
    /\ UNCHANGED <<connection, cursor, lifecycle, drained>>

(* A batch over batch_bytes lowers the next fetch. *)
Fetch ==
    /\ FetchMany
    /\ IF fetched' = 0 THEN Job("fetch", "end") /\ UNCHANGED fetchRows
                       ELSE Job("fetch", "batch") /\ fetchRows' \in 1 .. fetchRows

(* Rows that do not match the planned schema, or the connection is lost. *)
FetchFails ==
    /\ Job("fetch", "error")
    /\ \/ FetchMany
       \/ /\ active' \in {active, FALSE}
          /\ UNCHANGED <<connection, cursor, lifecycle, left, drained, fetched>>
    /\ UNCHANGED fetchRows

(* PyMySQL's SSCursor.close(); it may raise. *)
CloseCursor(state, stillActive) ==
    /\ cursor' \in {"closed", state}
    /\ drained' = (drained \/ (state = "attached" /\ stillActive))

(* Mutated: the cursor goes before its connection whatever its result. *)
CloseInactiveFirst ==
    /\ lifecycle = "result"
    /\ CloseCursor(cursor, active) /\ CloseConnection
    /\ UNCHANGED active

(* _close_inactive: the cursor first, because its result is known to have no
   row left. *)
CloseInactive ==
    /\ lifecycle = "result" /\ ~active
    /\ CloseCursor(cursor, active) /\ CloseConnection
    /\ UNCHANGED active

(* _abort_active_or_unvalidated: the connection first, and the cursor when
   it could be detached from it.  An unreadable unbuffered_active counts as
   active. *)
Abort ==
    /\ lifecycle # "none"
    /\ CloseConnection
    /\ active' \in IF lifecycle = "result" THEN {active, FALSE} ELSE {active}
    /\ \/ lifecycle \in {"cursor", "result"} /\ CloseCursor("detached", active')
       \/ UNCHANGED <<cursor, drained>>

(* _open raised before it had a lifecycle. *)
CloseBare ==
    /\ lifecycle = "none"
    /\ CloseConnection
    /\ UNCHANGED <<cursor, active, drained>>

CloseJob ==
    /\ \E result \in {"ok", "error"} :
         /\ result = "error" => connection = "open"
         /\ Job("close", result)
    /\ CloseInactive \/ Abort \/ CloseBare
    /\ lifecycle' = "none"
    /\ UNCHANGED <<left, fetchRows, fetched>>

Worker ==
    \/ (Take /\ UNCHANGED <<taskVars, driverVars>>)
    \/ Open \/ OpenFails \/ Fetch \/ FetchFails \/ CloseJob

ReaderTypeOK ==
    /\ cursor \in {"none", "attached", "detached", "closed"}
    /\ lifecycle \in {"none", "new", "cursor", "result"}
    /\ active \in BOOLEAN /\ drained \in BOOLEAN
    /\ fetchRows \in 1 .. BatchRows
===============================================================================
