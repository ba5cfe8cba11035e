------------------------------ MODULE FlightStream -----------------------------
(***************************************************************************)
(* FlightBatchReader (doris/transports/flight.py): the ADBC connection,   *)
(* cursor and record-batch reader behind a stream_query.                  *)
(*                                                                         *)
(* ADBC is external: it chooses the size of the batches, a batch may be   *)
(* empty, and close() releases its object even when it raises.            *)
(***************************************************************************)
EXTENDS StreamQuery

VARIABLES
    cursor,    \* _cursor: "none", "open" or "closed"
    reader     \* _reader, likewise

driverVars == <<readerVars, cursor, reader>>

ReaderInit == cursor = "none" /\ reader = "none"

(* connect, cursor() with its options, execute, fetch_record_batch. *)
Acquired(steps) ==
    /\ connection' = IF steps >= 1 THEN "open" ELSE connection
    /\ cursor' = IF steps >= 2 THEN "open" ELSE cursor
    /\ reader' = IF steps >= 3 THEN "open" ELSE reader
    /\ UNCHANGED <<left, fetched>>

Open == Job("open", "ok") /\ Acquired(3)
OpenFails == Job("open", "error") /\ \E steps \in 0 .. 2 : Acquired(steps)

Fetch ==
    /\ \/ left = 0 /\ Job("fetch", "end") /\ UNCHANGED <<left, fetched>>
       \/ /\ Job("fetch", "batch")
          /\ fetched' \in 0 .. left
          /\ left' = left - fetched'
    /\ UNCHANGED <<connection, cursor, reader>>

(* The stream breaks, or its batch cannot be cast to the planned schema. *)
FetchFails ==
    /\ Job("fetch", "error")
    /\ left' \in 0 .. left
    /\ UNCHANGED <<connection, fetched, cursor, reader>>

CloseOne(state) == IF state = "open" THEN "closed" ELSE state

(* Mutated: without the nested finally, a failed close of the reader leaves
   the others open. *)
CloseJobUnnested ==
    /\ \/ /\ Job("close", "ok")
          /\ CloseConnection
          /\ cursor' = CloseOne(cursor)
       \/ /\ reader = "open" /\ Job("close", "error")
          /\ UNCHANGED <<connection, cursor>>
    /\ reader' = CloseOne(reader)
    /\ UNCHANGED <<left, fetched>>

(* Reader, cursor, connection, each in the finally of the one before. *)
CloseJob ==
    /\ \/ Job("close", "ok")
       \/ connection = "open" /\ Job("close", "error")
    /\ CloseConnection
    /\ cursor' = CloseOne(cursor)
    /\ reader' = CloseOne(reader)
    /\ UNCHANGED <<left, fetched>>

Worker ==
    \/ (Take /\ UNCHANGED <<taskVars, driverVars>>)
    \/ Open \/ OpenFails \/ Fetch \/ FetchFails \/ CloseJob

ReaderTypeOK == {cursor, reader} \subseteq {"none", "open", "closed"}
===============================================================================
