------------------------------ MODULE StreamQuery -----------------------------
(***************************************************************************)
(* stream_query of doris/transports/mysql.py, and its twin in flight.py:  *)
(* an asynchronous generator that pulls one batch at a time from a reader *)
(* on its TaskThread, hands it over in slices and closes the reader       *)
(* however the stream ends.                                                *)
(*                                                                         *)
(* The reader is the module that extends this one.  The generator may be  *)
(* cancelled at every await and closed at every yield; who does either is *)
(* in DorisTask.                                                           *)
(***************************************************************************)
EXTENDS TaskThread

CONSTANTS
    TotalRows,     \* the rows of the query's result
    BatchRows,     \* limits.batch_rows
    MaxCancels     \* bounds how often the consuming task is cancelled

ASSUME ResultAssumption == TotalRows \in Nat
ASSUME RowsAssumption == BatchRows \in Nat \ {0}
ASSUME CancelAssumption == MaxCancels \in Nat

VARIABLES
    task,         \* where the generator stands
    failure,      \* the local `failure`
    outcome,      \* how the generator ended
    inHand,       \* rows of the present batch not yet handed to the consumer
    delivered,    \* all rows handed to the consumer
    cancels,      \* cancellations so far
    connection,   \* the reader's _connection: "none", "open" or "closed"
    left,         \* rows the server has still to send
    fetched       \* the rows of the batch that the last fetch returned

readerVars == <<connection, left, fetched>>
taskVars == <<task, failure, outcome, inHand, delivered, cancels>>

Places == {"start", "opening", "pulling", "fetching", "yielding",
           "finally", "closing", "ended"}
Failures == {"error", "cancelled", "generator_exit"}

TaskInit ==
    /\ task = "start"
    /\ failure = "none" /\ outcome = "none"
    /\ inHand = 0 /\ delivered = 0 /\ cancels = 0
    /\ connection = "none" /\ left = TotalRows /\ fetched = 0
    /\ ThreadInit

Goto(place) == task' = place

Start ==
    /\ task = "start" /\ Goto("opening")
    /\ Call("open")
    /\ UNCHANGED <<failure, outcome, inHand, delivered, cancels>>

Started ==
    /\ task = "opening" /\ answer = "ok" /\ Goto("pulling")
    /\ Resume
    /\ UNCHANGED <<failure, outcome, inHand, delivered, cancels>>

(* The next fetch is submitted when the consumer wants more than it has. *)
NextBatch ==
    /\ task \in {"pulling", "yielding"} /\ inHand = 0 /\ Goto("fetching")
    /\ Call("fetch")
    /\ UNCHANGED <<failure, outcome, inHand, delivered, cancels>>

(* Mutated: the offset into the batch is not advanced. *)
HandOverAgain(rows, slice) ==
    /\ inHand' = rows
    /\ delivered' = delivered + slice
    /\ UNCHANGED <<failure, outcome, cancels>>

(* iter_batch_slices cuts a batch at any row, as BatchSlices shows. *)
HandOver(rows, slice) ==
    /\ inHand' = rows - slice
    /\ delivered' = delivered + slice
    /\ UNCHANGED <<failure, outcome, cancels>>

Slices(rows) == {slice \in 1 .. rows : slice <= BatchRows}

FirstSlice ==
    /\ task = "fetching" /\ answer = "batch" /\ Goto("yielding")
    /\ Resume
    /\ \E slice \in Slices(fetched) : HandOver(fetched, slice)

NextSlice ==
    /\ task = "yielding" /\ inHand > 0
    /\ \E slice \in Slices(inHand) : HandOver(inHand, slice)
    /\ UNCHANGED <<task, threadVars>>

(* Mutated: a batch without rows is taken for the end. *)
EmptyBatchEnds ==
    /\ task = "fetching" /\ answer = "batch" /\ fetched = 0
    /\ Goto("finally")
    /\ Resume
    /\ UNCHANGED <<failure, outcome, inHand, delivered, cancels>>

(* It has no slice, and the loop goes on. *)
EmptyBatch ==
    /\ task = "fetching" /\ answer = "batch" /\ fetched = 0
    /\ Goto("pulling")
    /\ Resume
    /\ UNCHANGED <<failure, outcome, inHand, delivered, cancels>>

Exhausted ==
    /\ task = "fetching" /\ answer = "end" /\ Goto("finally")
    /\ Resume
    /\ UNCHANGED <<failure, outcome, inHand, delivered, cancels>>

Raise(exception) ==
    /\ Goto("finally")
    /\ failure' = exception
    /\ UNCHANGED <<outcome, inHand, delivered>>

Fail ==
    /\ task \in {"opening", "fetching"} /\ answer = "error"
    /\ Resume
    /\ Raise("error") /\ UNCHANGED cancels

(* CancelledError out of `await reader.start()` or `await next_batch()`. *)
Cancel ==
    /\ task \in {"opening", "fetching"} /\ cancels < MaxCancels
    /\ CancelCall
    /\ Raise("cancelled") /\ cancels' = cancels + 1

(* GeneratorExit at the yield, out of aclose(). *)
Abandon ==
    /\ task = "yielding"
    /\ Raise("generator_exit") /\ UNCHANGED <<cancels, threadVars>>

CloseReader ==
    /\ task = "finally" /\ Goto("closing")
    /\ Close
    /\ UNCHANGED <<failure, outcome, inHand, delivered, cancels>>

End(how) == /\ Goto("ended") /\ outcome' = how
            /\ UNCHANGED <<failure, inHand, delivered>>

(* Mutated: a failed close replaces the failure that led to it. *)
ClosedReplacing ==
    /\ task = "closing" /\ Resume
    /\ End(IF answer = "error"  THEN "close_error"
           ELSE IF failure # "none" THEN failure ELSE "exhausted")
    /\ UNCHANGED cancels

(* The failure that is on its way goes on, and a failed close counts only
   without one. *)
Closed ==
    /\ task = "closing" /\ Resume
    /\ End(IF failure # "none"   THEN failure
           ELSE IF answer = "error" THEN "close_error" ELSE "exhausted")
    /\ UNCHANGED cancels

(* CancelledError out of `await reader.close()`: whatever was raised before
   it, it is what leaves the generator. *)
CancelWhileClosing ==
    /\ task = "closing" /\ cancels < MaxCancels
    /\ CancelClose
    /\ End("cancelled") /\ cancels' = cancels + 1

(* What the event loop runs without being asked by the consumer. *)
LoopSteps ==
    \/ Start \/ Started \/ FirstSlice \/ EmptyBatch \/ Exhausted \/ Fail
    \/ CloseReader \/ Closed
    \/ (Shutdown /\ UNCHANGED taskVars)

(* A job ends and leaves its result to the coroutine. *)
Job(job, result) == Finish(job, result) /\ UNCHANGED taskVars

CloseConnection ==
    connection' = IF connection = "open" THEN "closed" ELSE connection

-------------------------------------------------------------------------------
(* Properties of a stream, whatever its reader *)

TaskTypeOK ==
    /\ task \in Places
    /\ failure \in Failures \cup {"none"}
    /\ outcome \in Failures \cup {"none", "exhausted", "close_error"}
    /\ {inHand, delivered, left, fetched} \subseteq 0 .. TotalRows
    /\ cancels \in 0 .. MaxCancels
    /\ connection \in {"none", "open", "closed"}
    /\ queue \in Seq(Jobs) /\ running \subseteq Jobs
    /\ awaited \in Jobs \cup {"none"}
    /\ answer \in {NoAnswer, "ok", "batch", "end", "error"}
    /\ closing \in {"none", "pending", "done"}
    /\ executor \in {"up", "down"}

(* A stream that ends without an error delivered every row of the result,
   however its batches are sized and cut. *)
CleanEndIsComplete == outcome = "exhausted" => delivered = TotalRows

(* The failure of a close is raised only for a stream that was read to its
   end; it never hides the failure that ended the stream. *)
CloseErrorOnlyAtEnd ==
    outcome = "close_error" => failure = "none" /\ delivered = TotalRows
===============================================================================
