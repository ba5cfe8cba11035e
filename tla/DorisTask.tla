------------------------------- MODULE DorisTask -------------------------------
(***************************************************************************)
(* DorisTask.read (doris/task.py): the generator that Daft reads.  It     *)
(* forwards the batches of the stream_query of its transport, so that two *)
(* generators are suspended, one in the other.                             *)
(*                                                                         *)
(* A cancellation goes through the inner generator first.  A read that    *)
(* Daft drops at a yield ends at once, for `async for` does not close the *)
(* generator it iterates: the inner one is closed by the event loop's     *)
(* hook for generators that nobody refers to.                              *)
(***************************************************************************)
EXTENDS StreamQuery

VARIABLES
    transport,    \* _transport
    read,         \* "reading", or "dropped" when only the inner generator is left
    cursor, reader, lifecycle, active, fetchRows, drained   \* of the readers

Mysql == INSTANCE MysqlStream
Flight == INSTANCE FlightStream

driverVars == <<readerVars, cursor, reader, lifecycle, active, fetchRows, drained>>
vars == <<transport, read, taskVars, driverVars, threadVars>>

Init ==
    /\ transport \in {"mysql", "flight"}
    /\ read = "reading"
    /\ TaskInit /\ Mysql!ReaderInit /\ Flight!ReaderInit

(* What the task's thread does. *)
Worker ==
    /\ \/ /\ transport = "mysql" /\ Mysql!Worker
          /\ UNCHANGED reader
       \/ /\ transport = "flight" /\ Flight!Worker
          /\ UNCHANGED <<lifecycle, active, fetchRows, drained>>
    /\ UNCHANGED <<transport, read>>

(* Daft asks for the next batch, or cancels while it waits for it. *)
Ask ==
    /\ read = "reading"
    /\ NextBatch \/ NextSlice \/ Cancel
    /\ UNCHANGED <<transport, read, driverVars>>

(* Daft closes the read at its yield, or daft_record_batch raises there. *)
Drop ==
    /\ read = "reading" /\ task = "yielding"
    /\ read' = "dropped"
    /\ UNCHANGED <<transport, taskVars, driverVars, threadVars>>

(* The hook's task calls aclose() of the inner generator. *)
CloseOrphan ==
    /\ read = "dropped" /\ Abandon
    /\ UNCHANGED <<transport, read, driverVars>>

(* A cancelled read, or the end of the event loop, which cancels the hook's
   task as well. *)
Interrupt == CancelWhileClosing /\ UNCHANGED <<transport, read, driverVars>>

Loop == LoopSteps /\ UNCHANGED <<transport, read, driverVars>>

(* The stream has ended and nothing of it is left to run. *)
Over == task = "ended" /\ executor = "down" /\ UNCHANGED vars

Next == Worker \/ Loop \/ Ask \/ Drop \/ CloseOrphan \/ Interrupt \/ Over

Spec == Init /\ [][Next]_vars

(* The thread runs what it is given, and every driver call on it ends: a
   MySQL connection carries connect, read and write time-outs, ADBC its
   query and fetch time-outs.  The event loop runs what is ready, and runs
   its hook, at the latest when it shuts down.  Daft may stop asking. *)
FairSpec ==
    /\ Spec
    /\ WF_vars(Worker) /\ WF_vars(Loop) /\ WF_vars(CloseOrphan)

-------------------------------------------------------------------------------
(* Properties, beside those of StreamQuery *)

(* Every variable keeps its type; in particular a MySQL fetch always asks
   for at least one row, and no row is delivered that the result lacks. *)
TypeOK ==
    /\ transport \in {"mysql", "flight"}
    /\ read \in {"reading", "dropped"}
    /\ TaskTypeOK
    /\ \/ transport = "mysql" /\ Mysql!ReaderTypeOK
       \/ transport = "flight" /\ Flight!ReaderTypeOK

(* However a MySQL stream ends, closing it reads none of the rows that Daft
   did not ask for: a stopped query does not stream the rest of a table
   through its connection. *)
NeverDrains == ~drained

(* Once the close has run, no job of the stream is left that could use the
   connection or open another one, also when a job was cancelled that had
   already started; and nothing that ADBC gave out is open, although opening
   may fail anywhere and each close may raise. *)
ClosedForGood ==
    closing = "done" => /\ queue = <<>> /\ running = {}
                        /\ "open" \notin {connection, cursor, reader}

(* Whatever cancels the stream, and however often, and when Daft just drops
   the read, the connection is closed and the thread ended. *)
Released ==
    task = "finally" \/ read = "dropped"
        ~> (executor = "down" /\ connection # "open")
===============================================================================
