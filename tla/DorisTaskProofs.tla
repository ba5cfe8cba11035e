---------------------------- MODULE DorisTaskProofs ----------------------------
(***************************************************************************)
(* A stream that ends without an error is complete, and one that is       *)
(* closed stays closed, for results and batches of every size and however *)
(* often the task is cancelled.                                            *)
(***************************************************************************)
EXTENDS DorisTask, SequenceTheorems, TLAPS

(* The one job, if any, that the thread still has of those in S. *)
OneOf(S) ==
    \/ queue = <<>> /\ running = {}
    \/ \E job \in S : queue = <<job>> /\ running = {}
    \/ \E job \in S : queue = <<>> /\ running = {job}

(* A close may find one job before it that nobody awaits any more. *)
ThreadOrder ==
    /\ closing \in {"none", "pending", "done"}
    /\ closing = "none" => OneOf(Operations)
    /\ closing = "pending" =>
         \/ OneOf({"close"}) /\ ~(queue = <<>> /\ running = {})
         \/ \E job \in Operations : \/ queue = <<job, "close">> /\ running = {}
                                    \/ queue = <<"close">> /\ running = {job}
    /\ closing = "done" => queue = <<>> /\ running = {}
    /\ executor \in {"up", "down"}

(* What the coroutine awaits, and where it stands. *)
Awaiting(job, answers) ==
    /\ awaited = job
    /\ answer \in answers \cup {NoAnswer}
    /\ IF answer = NoAnswer THEN OneOf({job}) /\ ~(queue = <<>> /\ running = {})
                            ELSE queue = <<>> /\ running = {}

Waiting ==
    /\ task \in Places
    /\ closing = "none" <=> task \notin {"closing", "ended"}
    /\ task \in {"start", "pulling", "yielding"} => queue = <<>> /\ running = {}
    /\ task \in {"start", "pulling", "yielding", "finally", "ended"} =>
         awaited = "none" /\ answer = NoAnswer
    /\ task = "opening" => Awaiting("open", {"ok", "error"})
    /\ task = "fetching" => Awaiting("fetch", {"batch", "end", "error"})
    /\ task = "closing" => /\ awaited = "close"
                           /\ answer \in {NoAnswer, "ok", "error"}
                           /\ answer = NoAnswer <=> closing = "pending"

(* Every row is with the server, in the batch or delivered, until the stream
   fails or is read to its end. *)
RowsCounted ==
    /\ inHand \in Nat /\ delivered \in Nat /\ left \in Nat /\ fetched \in Nat
    /\ delivered + inHand + left <= TotalRows /\ fetched <= TotalRows
    /\ task \in {"start", "opening", "pulling", "yielding"} =>
         delivered + inHand + left = TotalRows
    /\ task \in {"start", "opening", "pulling", "fetching"} => inHand = 0
    /\ task = "fetching" =>
         /\ answer = NoAnswer => delivered + left = TotalRows
         /\ answer = "batch" => delivered + fetched + left = TotalRows
         /\ answer = "end" => delivered = TotalRows

Ending ==
    /\ failure \in Failures \cup {"none"}
    /\ outcome \in Failures \cup {"none", "exhausted", "close_error"}
    /\ cancels \in 0 .. MaxCancels
    /\ failure # "none" => task \in {"finally", "closing", "ended"}
    /\ outcome # "none" => task = "ended"
    /\ task \in {"finally", "closing"} /\ failure = "none" => delivered = TotalRows
    /\ outcome \in {"exhausted", "close_error"} =>
         failure = "none" /\ delivered = TotalRows

(* Each reader leaves the variables of the other alone. *)
Resources ==
    /\ transport \in {"mysql", "flight"}
    /\ read \in {"reading", "dropped"}
    /\ connection \in {"none", "open", "closed"}
    /\ transport = "mysql" => Mysql!ReaderTypeOK /\ reader = "none"
    /\ transport = "flight" => Flight!ReaderTypeOK
    /\ drained = FALSE
    /\ closing = "done" => "open" \notin {connection, cursor, reader}

Inv == ThreadOrder /\ Waiting /\ RowsCounted /\ Ending /\ Resources

-------------------------------------------------------------------------------
(* What a step of the thread does to the stream, whatever the reader *)

Taken == Take /\ UNCHANGED <<taskVars, readerVars, cursor, reader>>

OpenEnds == /\ \E result \in {"ok", "error"} : Job("open", result)
            /\ UNCHANGED <<left, fetched>>

FetchEnds ==
    \E result \in {"batch", "end", "error"} :
      /\ Job("fetch", result)
      /\ left' \in Nat /\ left' <= left /\ fetched' \in Nat /\ fetched' <= TotalRows
      /\ result = "batch" => left' + fetched' = left
      /\ result = "end" => left = 0

CloseEnds == /\ \E result \in {"ok", "error"} : Job("close", result)
             /\ UNCHANGED <<left, fetched>>
             /\ "open" \notin {connection', cursor', reader'}

(* The variables of the readers, without what a close makes of them. *)
Readers ==
    /\ connection \in {"none", "open", "closed"}
    /\ transport = "mysql" => Mysql!ReaderTypeOK /\ reader = "none"
    /\ transport = "flight" => Flight!ReaderTypeOK
    /\ drained = FALSE

(* The first rows of what is left are fetched, and none are read twice. *)
LEMMA MysqlJobs ==
  ASSUME Inv, transport = "mysql", Mysql!Worker, UNCHANGED <<transport, read, reader>>
  PROVE  (Taken \/ OpenEnds \/ FetchEnds \/ CloseEnds) /\ Readers'
<1>1. /\ left \in Nat /\ left <= TotalRows /\ fetched \in Nat /\ fetched <= TotalRows
      /\ fetchRows \in Nat \ {0} /\ fetchRows <= BatchRows /\ BatchRows \in Nat
      /\ delivered \in Nat /\ inHand \in Nat /\ TotalRows \in Nat
  BY ResultAssumption, RowsAssumption DEF Inv, RowsCounted, Resources, Mysql!ReaderTypeOK
<1>2. CASE Mysql!Take /\ UNCHANGED <<Mysql!taskVars, Mysql!driverVars>>
  BY <1>2 DEF Inv, Resources, Readers, Mysql!Take, Mysql!taskVars, Mysql!driverVars,
     Mysql!readerVars, Taken, Take, taskVars, readerVars, Mysql!ReaderTypeOK
<1>3. CASE Mysql!Open \/ Mysql!OpenFails
  BY <1>3 DEF Inv, Resources, Readers, Mysql!Open, Mysql!OpenFails, Mysql!Job, Mysql!Finish,
     Mysql!taskVars, OpenEnds, Job, Finish, taskVars, Mysql!ReaderTypeOK
<1>4. ASSUME Mysql!FetchMany
      PROVE  /\ left' \in Nat /\ left' <= left /\ fetched' \in Nat /\ fetched' <= TotalRows
             /\ left' + fetched' = left /\ (fetched' = 0 => left = 0)
             /\ active' \in BOOLEAN
             /\ UNCHANGED <<connection, cursor, lifecycle, drained>>
  <2>1. active \in BOOLEAN
    BY DEF Inv, Resources, Mysql!ReaderTypeOK
  <2>2. QED
    BY <1>1, <1>4, <2>1 DEF Mysql!FetchMany
<1>5. CASE Mysql!Fetch
  <2>1. Mysql!FetchMany
    BY <1>5 DEF Mysql!Fetch
  <2>2. FetchEnds
    BY <1>4, <1>5, <2>1 DEF Mysql!Fetch, Mysql!Job, Mysql!Finish, Mysql!taskVars, FetchEnds,
       Job, Finish, taskVars
  <2>3. fetchRows' \in 1 .. BatchRows
    BY <1>1, <1>5 DEF Mysql!Fetch
  <2>4. QED
    BY <1>4, <2>1, <2>2, <2>3 DEF Inv, Resources, Readers, Mysql!ReaderTypeOK
<1>6. CASE Mysql!FetchFails
  <2>1. FetchEnds
    <3>1. Job("fetch", "error")
      BY <1>6 DEF Mysql!FetchFails, Mysql!Job, Mysql!Finish, Mysql!taskVars, Job, Finish,
         taskVars
    <3>2. /\ left' \in Nat /\ left' <= left /\ fetched' \in Nat /\ fetched' <= TotalRows
      <4>1. CASE Mysql!FetchMany
        BY <1>4, <4>1
      <4>2. CASE UNCHANGED <<left, fetched>>
        BY <1>1, <4>2
      <4>3. QED
        BY <1>6, <4>1, <4>2 DEF Mysql!FetchFails
    <3>3. QED
      BY <3>1, <3>2 DEF FetchEnds
  <2>2. Readers'
    BY <1>4, <1>6 DEF Mysql!FetchFails, Inv, Resources, Readers, Mysql!ReaderTypeOK
  <2>3. QED
    BY <2>1, <2>2
<1>7. CASE Mysql!CloseJob
  <2>1. /\ connection' \in {"none", "closed"} /\ active' \in BOOLEAN
        /\ cursor' \in {"none", "attached", "detached", "closed"}
        /\ drained' = FALSE /\ lifecycle' = "none" /\ UNCHANGED fetchRows
    BY <1>7 DEF Mysql!CloseJob, Mysql!CloseInactive, Mysql!Abort, Mysql!CloseBare,
       Mysql!CloseCursor, Mysql!CloseConnection, Inv, Resources, Mysql!ReaderTypeOK
  <2>2. CloseEnds
    BY <1>7, <2>1 DEF Mysql!CloseJob, Mysql!Job, Mysql!Finish, Mysql!taskVars, CloseEnds,
       Job, Finish, taskVars, Inv, Resources
  <2>3. Readers'
    BY <2>1 DEF Inv, Resources, Readers, Mysql!ReaderTypeOK
  <2>4. QED
    BY <2>2, <2>3
<1>8. QED
  BY <1>2, <1>3, <1>5, <1>6, <1>7 DEF Mysql!Worker

(* ADBC sends rows once as well, in batches of any size. *)
LEMMA FlightJobs ==
  ASSUME Inv, transport = "flight", Flight!Worker,
         UNCHANGED <<transport, read, lifecycle, active, fetchRows, drained>>
  PROVE  (Taken \/ OpenEnds \/ FetchEnds \/ CloseEnds) /\ Readers'
<1>1. /\ left \in Nat /\ left <= TotalRows /\ fetched \in Nat /\ fetched <= TotalRows
      /\ delivered \in Nat /\ inHand \in Nat /\ TotalRows \in Nat
  BY ResultAssumption DEF Inv, RowsCounted
<1>2. CASE Flight!Take /\ UNCHANGED <<Flight!taskVars, Flight!driverVars>>
  BY <1>2 DEF Inv, Resources, Readers, Flight!Take, Flight!taskVars, Flight!driverVars,
     Flight!readerVars, Taken, Take, taskVars, readerVars, Flight!ReaderTypeOK
<1>3. CASE Flight!Open \/ Flight!OpenFails
  BY <1>3 DEF Inv, Resources, Readers, Flight!Open, Flight!OpenFails, Flight!Acquired,
     Flight!Job, Flight!Finish, Flight!taskVars, OpenEnds, Job, Finish, taskVars,
     Flight!ReaderTypeOK
<1>4. CASE Flight!Fetch \/ Flight!FetchFails
  <2>1. FetchEnds
    BY <1>1, <1>4 DEF Flight!Fetch, Flight!FetchFails, Flight!Job, Flight!Finish,
       Flight!taskVars, FetchEnds, Job, Finish, taskVars
  <2>2. Readers'
    BY <1>4 DEF Flight!Fetch, Flight!FetchFails, Inv, Resources, Readers, Flight!ReaderTypeOK
  <2>3. QED
    BY <2>1, <2>2
<1>5. CASE Flight!CloseJob
  <2>1. {connection', cursor', reader'} \subseteq {"none", "closed"}
    BY <1>5 DEF Flight!CloseJob, Flight!CloseConnection, Flight!CloseOne, Inv, Resources,
       Flight!ReaderTypeOK
  <2>2. CloseEnds
    BY <1>5, <2>1 DEF Flight!CloseJob, Flight!Job, Flight!Finish, Flight!taskVars, CloseEnds,
       Job, Finish, taskVars
  <2>3. Readers'
    BY <2>1 DEF Inv, Resources, Readers, Flight!ReaderTypeOK
  <2>4. QED
    BY <2>2, <2>3
<1>6. QED
  BY <1>2, <1>3, <1>4, <1>5 DEF Flight!Worker

-------------------------------------------------------------------------------
(* The steps of the thread *)

(* A thread that is free takes the first job, and leaves a close behind it. *)
LEMMA TakenKeeps ==
  ASSUME Inv, Taken
  PROVE  ThreadOrder' /\ Waiting' /\ RowsCounted' /\ Ending'
<1>1. ThreadOrder' /\ Waiting'
  <2>1. CASE \E job \in Jobs : queue = <<job>> /\ running = {}
    <3>1. PICK job \in Jobs : queue = <<job>> /\ running = {}
      BY <2>1
    <3>2. queue' = <<>> /\ running' = {job} /\ queue # <<>>
      BY <3>1 DEF Taken, Take
    <3>3. ThreadOrder'
      BY <3>1, <3>2 DEF Inv, ThreadOrder, OneOf, Taken, Take, Operations, Jobs
    <3>4. Waiting'
      BY <3>1, <3>2 DEF Inv, Waiting, Awaiting, OneOf, Taken, Take, taskVars
    <3>5. QED
      BY <3>3, <3>4
  <2>2. CASE /\ closing = "pending" /\ running = {}
             /\ \E job \in Operations : queue = <<job, "close">>
    <3>1. PICK job \in Operations : queue = <<job, "close">>
      BY <2>2
    <3>2. queue' = <<"close">> /\ running' = {job} /\ queue # <<>>
      BY <2>2, <3>1 DEF Taken, Take
    <3>3. ThreadOrder'
      BY <2>2, <3>1, <3>2 DEF Inv, ThreadOrder, Taken, Take
    <3>4. task \in {"closing", "ended"}
      BY <2>2 DEF Inv, Waiting
    <3>5. Waiting'
      BY <2>2, <3>4 DEF Inv, Waiting, Taken, Take, taskVars
    <3>6. QED
      BY <3>3, <3>5
  <2>3. QED
    BY <2>1, <2>2 DEF Inv, ThreadOrder, OneOf, Taken, Take, Jobs
<1>2. RowsCounted' /\ Ending'
  BY DEF Inv, RowsCounted, Ending, Taken, Take, taskVars, readerVars
<1>3. QED
  BY <1>1, <1>2

(* An open may end when nobody awaits it, but not after the close. *)
LEMMA OpenEndsKeeps ==
  ASSUME Inv, OpenEnds
  PROVE  ThreadOrder' /\ Waiting' /\ RowsCounted' /\ Ending' /\ closing' # "done"
<1>1. PICK result \in {"ok", "error"} : Job("open", result)
  BY DEF OpenEnds
<1>2. closing' = closing /\ closing # "done"
  BY <1>1 DEF Inv, ThreadOrder, Job, Finish
<1>3. ThreadOrder'
  BY <1>1, <1>2 DEF Inv, ThreadOrder, OneOf, Job, Finish, Operations
<1>4. Waiting'
  BY <1>1, <1>2 DEF Inv, ThreadOrder, Waiting, Awaiting, OneOf, Job, Finish, taskVars,
     Operations, NoAnswer
<1>5. RowsCounted' /\ Ending'
  BY <1>1 DEF Inv, Waiting, Awaiting, RowsCounted, Ending, OpenEnds, Job, Finish, taskVars,
     NoAnswer
<1>6. QED
  BY <1>2, <1>3, <1>4, <1>5

(* So may a fetch; its rows count only while the stream awaits them. *)
LEMMA FetchEndsKeeps ==
  ASSUME Inv, FetchEnds
  PROVE  ThreadOrder' /\ Waiting' /\ RowsCounted' /\ Ending' /\ closing' # "done"
<1>1. PICK result \in {"batch", "end", "error"} :
        /\ Job("fetch", result)
        /\ left' \in Nat /\ left' <= left /\ fetched' \in Nat /\ fetched' <= TotalRows
        /\ result = "batch" => left' + fetched' = left
        /\ result = "end" => left = 0
  BY DEF FetchEnds
<1>2. closing' = closing /\ closing # "done"
  BY <1>1 DEF Inv, ThreadOrder, Job, Finish
<1>3. ThreadOrder'
  BY <1>1, <1>2 DEF Inv, ThreadOrder, OneOf, Job, Finish, Operations
<1>4. Waiting'
  BY <1>1, <1>2 DEF Inv, ThreadOrder, Waiting, Awaiting, OneOf, Job, Finish, taskVars,
     Operations, NoAnswer
  (* A job that still runs was not answered, and is the one awaited unless
     the stream has failed. *)
<1>5. task \notin {"start", "pulling", "yielding", "opening"}
  BY <1>1 DEF Inv, Waiting, Awaiting, OneOf, Job, Finish, Operations
<1>6. task = "fetching" => awaited = "fetch" /\ answer = NoAnswer
  BY <1>1 DEF Inv, Waiting, Awaiting, OneOf, Job, Finish
<1>7. RowsCounted'
  <2>1. /\ inHand \in Nat /\ delivered \in Nat /\ left \in Nat /\ TotalRows \in Nat
        /\ task' = task /\ inHand' = inHand /\ delivered' = delivered
        /\ delivered + inHand + left <= TotalRows
    BY <1>1, ResultAssumption DEF Inv, RowsCounted, Job, taskVars
  <2>2. /\ left' \in Nat /\ left' <= left /\ fetched' \in Nat /\ fetched' <= TotalRows
        /\ delivered + inHand + left' <= TotalRows
    <3>1. left' \in Nat /\ left' <= left /\ fetched' \in Nat /\ fetched' <= TotalRows
      BY <1>1
    <3>2. QED
      <4> DEFINE k == left'
      <4>1. k \in Nat /\ k <= left
        BY <3>1
      <4>2. delivered + inHand + k <= TotalRows
        <5> HIDE DEF k
        <5>1. QED
          BY <2>1, <4>1
      <4>3. QED
        BY <3>1, <4>2
  <2>3. CASE task = "fetching"
    <3>1. answer' = result /\ inHand = 0 /\ delivered + left = TotalRows
      BY <1>1, <1>6, <2>3 DEF Inv, RowsCounted, Job, Finish
    <3>2. /\ answer' # NoAnswer
          /\ answer' = "batch" => delivered + fetched' + left' = TotalRows
          /\ answer' = "end" => delivered = TotalRows
      <4>1. result # NoAnswer /\ (result = "batch" => left' + fetched' = left)
            /\ (result = "end" => left = 0)
        BY <1>1 DEF NoAnswer
      <4> DEFINE k == left'
                 f == fetched'
      <4>2. k \in Nat /\ f \in Nat /\ (result = "batch" => k + f = left)
        BY <2>2, <4>1
      <4>3. /\ result = "batch" => delivered + f + k = TotalRows
            /\ result = "end" => delivered = TotalRows
        <5> HIDE DEF k, f
        <5>1. QED
          BY <2>1, <3>1, <4>1, <4>2
      <4>4. QED
        BY <3>1, <4>1, <4>3
    <3>3. QED
      BY <2>1, <2>2, <2>3, <3>1, <3>2 DEF RowsCounted
  <2>4. CASE task # "fetching"
    BY <1>5, <2>1, <2>2, <2>4 DEF RowsCounted
  <2>5. QED
    BY <2>3, <2>4
<1>8. Ending'
  BY <1>1 DEF Inv, Ending, Job, taskVars
<1>9. QED
  BY <1>2, <1>3, <1>4, <1>7, <1>8

(* The close is the last job that the thread runs. *)
LEMMA CloseEndsKeeps ==
  ASSUME Inv, CloseEnds
  PROVE  ThreadOrder' /\ Waiting' /\ RowsCounted' /\ Ending'
<1>1. PICK result \in {"ok", "error"} : Job("close", result)
  BY DEF CloseEnds
<1>2. closing = "pending" /\ closing' = "done" /\ queue' = <<>> /\ running' = {}
  BY <1>1 DEF Inv, ThreadOrder, OneOf, Job, Finish, Operations
<1>3. ThreadOrder'
  BY <1>1, <1>2 DEF Inv, ThreadOrder, Job, Finish
<1>4. Waiting'
  BY <1>1, <1>2 DEF Inv, Waiting, Job, Finish, taskVars, NoAnswer
<1>5. RowsCounted' /\ Ending'
  BY <1>1, <1>2 DEF Inv, Waiting, RowsCounted, Ending, CloseEnds, Job, Finish, taskVars
<1>6. QED
  BY <1>3, <1>4, <1>5

(* The resources are released with the last job. *)
LEMMA WorkerKeeps ==
  ASSUME Inv, Worker
  PROVE  Inv'
<1>1. (Taken \/ OpenEnds \/ FetchEnds \/ CloseEnds) /\ Readers' /\ UNCHANGED <<transport, read>>
  <2>1. CASE transport = "mysql" /\ Mysql!Worker /\ UNCHANGED <<reader, transport, read>>
    BY <2>1, MysqlJobs
  <2>2. CASE /\ transport = "flight" /\ Flight!Worker
             /\ UNCHANGED <<lifecycle, active, fetchRows, drained, transport, read>>
    BY <2>2, FlightJobs
  <2>3. QED
    BY <2>1, <2>2 DEF Worker
<1>2. ThreadOrder' /\ Waiting' /\ RowsCounted' /\ Ending'
  BY <1>1, TakenKeeps, OpenEndsKeeps, FetchEndsKeeps, CloseEndsKeeps
<1>3. closing' = "done" => "open" \notin {connection', cursor', reader'}
  <2>1. Taken => closing' # "done"
    BY DEF Inv, ThreadOrder, Taken, Take
  <2>2. QED
    BY <1>1, <2>1, OpenEndsKeeps, FetchEndsKeeps DEF CloseEnds
<1>4. Resources'
  BY <1>1, <1>3 DEF Inv, Resources, Readers
<1>5. QED
  BY <1>2, <1>4 DEF Inv

-------------------------------------------------------------------------------
(* The steps of the generators *)

Coroutine == ThreadOrder /\ Waiting /\ RowsCounted /\ Ending

(* No step of theirs touches a resource or completes a close. *)
LEMMA ResourcesKept ==
  ASSUME Inv, UNCHANGED <<transport, driverVars>>, read' \in {"reading", "dropped"},
         closing' = "done" => closing = "done"
  PROVE  Resources'
BY DEF Inv, Resources, driverVars, readerVars, Mysql!ReaderTypeOK, Flight!ReaderTypeOK

(* The job that is submitted is the only one. *)
LEMMA CallKeeps ==
  ASSUME Inv, UNCHANGED driverVars, Start \/ NextBatch
  PROVE  Coroutine' /\ closing' = closing
<1>1. CASE Start
  <2>1. queue' = <<"open">> /\ running' = {} /\ closing = "none"
    BY <1>1 DEF Inv, Waiting, Start, Call, Submit
  <2>2. ThreadOrder'
    BY <1>1, <2>1 DEF Inv, ThreadOrder, OneOf, Start, Call, Submit, Operations
  <2>3. Waiting'
    BY <1>1, <2>1 DEF Inv, Waiting, Awaiting, OneOf, Start, Goto, Call, Submit, Places, NoAnswer
  <2>4. RowsCounted' /\ Ending'
    BY <1>1 DEF Inv, RowsCounted, Ending, Start, Goto, driverVars, readerVars
  <2>5. QED
    BY <1>1, <2>2, <2>3, <2>4 DEF Coroutine, Start, Call
<1>2. CASE NextBatch
  <2>1. /\ queue' = <<"fetch">> /\ running' = {} /\ closing = "none" /\ closing' = "none"
        /\ task' = "fetching" /\ awaited' = "fetch" /\ answer' = NoAnswer
    <3>1. queue = <<>> /\ running = {} /\ closing = "none"
      BY <1>2 DEF Inv, Waiting, NextBatch
    <3>2. QED
      BY <1>2, <3>1 DEF NextBatch, Goto, Call, Submit
  <2>2. ThreadOrder'
    BY <1>2, <2>1 DEF Inv, ThreadOrder, OneOf, NextBatch, Call, Submit, Operations
  <2>3. Waiting'
    BY <2>1 DEF Waiting, Awaiting, OneOf, Places, NoAnswer
  <2>4. RowsCounted'
    BY <1>2, ResultAssumption DEF Inv, RowsCounted, NextBatch, Goto, Call, Submit, driverVars,
       readerVars, NoAnswer
  <2>5. Ending'
    BY <1>2 DEF Inv, Ending, NextBatch, Goto
  <2>6. QED
    BY <1>2, <2>2, <2>3, <2>4, <2>5 DEF Coroutine, NextBatch, Call
<1>3. QED
  BY <1>1, <1>2

(* A slice moves rows from the batch to the consumer. *)
LEMMA SlicesKeep ==
  ASSUME Inv, UNCHANGED driverVars, FirstSlice \/ NextSlice
  PROVE  Coroutine' /\ closing' = closing
<1>1. CASE FirstSlice
  <2>1. /\ queue = <<>> /\ running = {} /\ closing = "none" /\ UNCHANGED <<queue, running, closing>>
        /\ awaited' = "none" /\ answer' = NoAnswer /\ UNCHANGED executor
    BY <1>1 DEF Inv, Waiting, Awaiting, FirstSlice, Resume, NoAnswer
  <2>2. ThreadOrder' /\ Waiting'
    BY <1>1, <2>1 DEF Inv, ThreadOrder, OneOf, Waiting, FirstSlice, Goto, Places
  <2>3. RowsCounted'
    BY <1>1, ResultAssumption DEF Inv, RowsCounted, FirstSlice, Goto, HandOver, Slices,
       driverVars, readerVars, NoAnswer
  <2>4. Ending'
    BY <1>1 DEF Inv, Ending, FirstSlice, Goto, HandOver
  <2>5. QED
    BY <2>1, <2>2, <2>3, <2>4 DEF Coroutine
<1>2. CASE NextSlice
  <2>1. ThreadOrder' /\ Waiting'
    BY <1>2 DEF Inv, ThreadOrder, OneOf, Waiting, Awaiting, NextSlice, threadVars
  <2>2. RowsCounted'
    BY <1>2, ResultAssumption DEF Inv, RowsCounted, NextSlice, HandOver, Slices,
       driverVars, readerVars
  <2>3. Ending'
    BY <1>2 DEF Inv, Ending, NextSlice, HandOver
  <2>4. QED
    BY <1>2, <2>1, <2>2, <2>3 DEF Coroutine, NextSlice, threadVars
<1>3. QED
  BY <1>1, <1>2

(* A job that was awaited to its end leaves the thread idle. *)
LEMMA AnswersKeep ==
  ASSUME Inv, UNCHANGED driverVars, Started \/ EmptyBatch \/ Exhausted \/ Fail
  PROVE  Coroutine' /\ closing' = closing
<1>1. /\ queue = <<>> /\ running = {} /\ closing = "none" /\ task \in {"opening", "fetching"}
      /\ UNCHANGED <<queue, running, closing, executor>>
      /\ awaited' = "none" /\ answer' = NoAnswer /\ task' \in {"pulling", "finally"}
  BY DEF Inv, Waiting, Awaiting, Started, EmptyBatch, Exhausted, Fail, Raise, Goto, Resume,
     NoAnswer
<1>2. ThreadOrder' /\ Waiting'
  BY <1>1 DEF Inv, ThreadOrder, OneOf, Waiting, Places
<1>3. RowsCounted'
  BY ResultAssumption DEF Inv, RowsCounted, Started, EmptyBatch, Exhausted, Fail, Raise, Goto,
     driverVars, readerVars, NoAnswer
<1>4. Ending'
  BY DEF Inv, RowsCounted, Ending, Started, EmptyBatch, Exhausted, Fail, Raise, Goto, Failures,
     NoAnswer
<1>5. QED
  BY <1>1, <1>2, <1>3, <1>4 DEF Coroutine

(* A cancelled job may still be queued or running, and nobody awaits it. *)
LEMMA StopsKeep ==
  ASSUME Inv, UNCHANGED driverVars, Cancel \/ Abandon
  PROVE  Coroutine' /\ closing' = closing
<1>1. closing = "none" /\ OneOf(Operations) /\ task \in {"opening", "fetching", "yielding"}
      /\ task' = "finally" /\ UNCHANGED <<running, closing, executor>>
      /\ awaited' = "none" /\ answer' = NoAnswer
  BY DEF Inv, Waiting, ThreadOrder, Cancel, Abandon, CancelCall, Raise, Goto, threadVars
<1>2. queue' = queue \/ queue' = <<>>
  <2>1. CASE queue = <<>>
    BY <2>1 DEF Cancel, Abandon, CancelCall, Withdrawn, threadVars
  <2>2. CASE \E job \in Operations : queue = <<job>>
    BY <2>2 DEF Cancel, Abandon, CancelCall, Withdrawn, threadVars, Front
  <2>3. QED
    BY <1>1, <2>1, <2>2 DEF OneOf
<1>3. ThreadOrder' /\ Waiting'
  BY <1>1, <1>2 DEF Inv, ThreadOrder, OneOf, Waiting, Places
<1>4. RowsCounted'
  BY <1>1, ResultAssumption DEF Inv, RowsCounted, Cancel, Abandon, Raise, driverVars, readerVars
<1>5. Ending'
  BY <1>1, CancelAssumption DEF Inv, Ending, Cancel, Abandon, Raise, Failures
<1>6. QED
  BY <1>1, <1>3, <1>4, <1>5 DEF Coroutine

(* A job that is submitted while one is queued is the second in the queue. *)
LEMMA TwoJobs ==
  ASSUME NEW first \in Jobs, NEW second \in Jobs
  PROVE  Append(<<first>>, second) = <<first, second>>
<1>1. <<first>> \in Seq(Jobs) /\ Len(<<first>>) = 1
  OBVIOUS
<1>2. Append(<<first>>, second) \in Seq(Jobs) /\ Len(Append(<<first>>, second)) = 2
  BY <1>1, AppendProperties
<1>3. /\ <<first, second>> \in Seq(Jobs) /\ Len(<<first, second>>) = 2
      /\ <<first, second>>[1] = first /\ <<first, second>>[2] = second
  OBVIOUS
<1>4. Append(<<first>>, second)[1] = first /\ Append(<<first>>, second)[2] = second
  BY <1>1, AppendProperties
<1>5. \A i \in 1 .. 2 : Append(<<first>>, second)[i] = <<first, second>>[i]
  BY <1>3, <1>4
<1>6. QED
  BY <1>2, <1>3, <1>5, SeqEqual

(* The close goes behind the job that is left. *)
LEMMA CloseReaderKeeps ==
  ASSUME Inv, UNCHANGED driverVars, CloseReader
  PROVE  Coroutine' /\ closing' # "done"
<1>1. /\ closing = "none" /\ closing' = "pending" /\ task = "finally" /\ task' = "closing"
      /\ awaited' = "close" /\ answer' = NoAnswer /\ UNCHANGED <<running, executor>>
      /\ queue' = Append(queue, "close")
  BY DEF CloseReader, Close, Submit, Goto
<1>2. OneOf(Operations)
  BY <1>1 DEF Inv, ThreadOrder
<1>3. ThreadOrder'
  <2>1. CASE queue = <<>>
    <3>1. queue' = <<"close">>
      BY <1>1, <2>1
    <3>2. QED
      BY <1>1, <1>2, <2>1, <3>1 DEF Inv, ThreadOrder, OneOf
  <2>2. CASE \E job \in Operations : queue = <<job>> /\ running = {}
    <3>1. PICK job \in Operations : queue = <<job>> /\ running = {}
      BY <2>2
    <3>2. queue' = <<job, "close">>
      <4>1. Append(<<job>>, "close") = <<job, "close">>
        BY TwoJobs DEF Jobs
      <4>2. QED
        BY <1>1, <3>1, <4>1
    <3>3. QED
      BY <1>1, <3>1, <3>2 DEF Inv, ThreadOrder
  <2>3. QED
    BY <1>2, <2>1, <2>2 DEF OneOf
<1>4. Waiting'
  BY <1>1 DEF Inv, Waiting, Places, NoAnswer
<1>5. RowsCounted' /\ Ending'
  BY <1>1 DEF Inv, RowsCounted, Ending, CloseReader, driverVars, readerVars
<1>6. QED
  BY <1>1, <1>3, <1>4, <1>5 DEF Coroutine

(* The end of the generator, and what comes after it. *)
LEMMA EndsKeep ==
  ASSUME Inv, UNCHANGED driverVars,
         Closed \/ CancelWhileClosing \/ (Shutdown /\ UNCHANGED taskVars)
  PROVE  Coroutine' /\ closing' = closing
<1>1. UNCHANGED <<queue, running, closing, inHand, delivered, failure>>
  BY DEF Closed, CancelWhileClosing, Resume, CancelClose, Shutdown, End, taskVars
<1>2. ThreadOrder'
  BY <1>1 DEF Inv, ThreadOrder, OneOf, Closed, CancelWhileClosing, Resume, CancelClose, Shutdown
<1>3. Waiting'
  BY <1>1 DEF Inv, Waiting, Awaiting, OneOf, Places, Closed, CancelWhileClosing, Resume,
     CancelClose, Shutdown, End, Goto, taskVars
<1>4. RowsCounted'
  BY <1>1 DEF Inv, RowsCounted, Closed, CancelWhileClosing, Shutdown, End, Goto, taskVars,
     driverVars, readerVars
<1>5. Ending'
  BY <1>1, CancelAssumption DEF Inv, Ending, Closed, CancelWhileClosing, Shutdown, End, Goto,
     taskVars, Failures
<1>6. QED
  BY <1>1, <1>2, <1>3, <1>4, <1>5 DEF Coroutine

-------------------------------------------------------------------------------
(* The inductive invariant and the results *)

LEMMA LoopKeeps ==
  ASSUME Inv, Loop \/ Ask \/ Drop \/ CloseOrphan \/ Interrupt
  PROVE  Inv'
<1>1. UNCHANGED <<transport, driverVars>> /\ read' \in {"reading", "dropped"}
  BY DEF Inv, Resources, Loop, Ask, Drop, CloseOrphan, Interrupt
<1>2. UNCHANGED driverVars
  BY <1>1
<1>3. CASE Drop
  <2>1. Coroutine'
    BY <1>3 DEF Coroutine, Inv, ThreadOrder, Waiting, Awaiting, OneOf, RowsCounted, Ending,
       Drop, taskVars, driverVars, readerVars, threadVars
  <2>2. closing' = closing
    BY <1>3 DEF Drop, threadVars
  <2>3. QED
    BY <1>1, <2>1, <2>2, ResourcesKept DEF Coroutine, Inv
<1>4. CASE ~Drop
  <2>1. /\ Coroutine'
        /\ closing' = closing \/ closing' # "done"
    BY <1>2, <1>4, CallKeeps, SlicesKeep, AnswersKeep, StopsKeep, CloseReaderKeeps, EndsKeep
       DEF Loop, LoopSteps, Ask, CloseOrphan, Interrupt
  <2>2. QED
    BY <1>1, <2>1, ResourcesKept DEF Coroutine, Inv
<1>5. QED
  BY <1>3, <1>4

LEMMA Initially == Init => Inv
<1> SUFFICES ASSUME Init PROVE Inv
  OBVIOUS
<1>1. ThreadOrder /\ Waiting
  BY DEF Init, TaskInit, ThreadInit, ThreadOrder, OneOf, Waiting, Places, NoAnswer
<1>2. RowsCounted /\ Ending
  BY ResultAssumption, CancelAssumption DEF Init, TaskInit, RowsCounted, Ending
<1>3. Resources
  <2>1. BatchRows \in 1 .. BatchRows
    BY RowsAssumption
  <2>2. Mysql!ReaderTypeOK
    BY <2>1 DEF Init, Mysql!ReaderInit, Mysql!ReaderTypeOK
  <2>3. QED
    BY <2>2 DEF Init, TaskInit, ThreadInit, Mysql!ReaderInit, Flight!ReaderInit, Resources,
       Flight!ReaderTypeOK
<1>4. QED
  BY <1>1, <1>2, <1>3 DEF Inv

LEMMA Inductive == Inv /\ [Next]_vars => Inv'
<1> SUFFICES ASSUME Inv, [Next]_vars PROVE Inv'
  OBVIOUS
<1>1. CASE UNCHANGED vars
  BY <1>1 DEF vars, taskVars, driverVars, readerVars, threadVars, Inv, ThreadOrder, OneOf,
     Waiting, Awaiting, RowsCounted, Ending, Resources, Mysql!ReaderTypeOK, Flight!ReaderTypeOK
<1>2. CASE Next
  BY <1>1, <1>2, WorkerKeeps, LoopKeeps DEF Next, Over
<1>3. QED
  BY <1>1, <1>2

(* Every variable of a stream keeps its type, for results and batches of
   every size: a MySQL fetch asks for at least one row, and no row is
   delivered that the result lacks. *)
THEOREM StreamTyped == Spec => []TypeOK
<1>1. Inv => TypeOK
  <2> SUFFICES ASSUME Inv PROVE TypeOK
    OBVIOUS
  <2>1. TaskTypeOK
    <3>1. {inHand, delivered, left, fetched} \subseteq 0 .. TotalRows
      BY ResultAssumption DEF Inv, RowsCounted
    <3>2. queue \in Seq(Jobs) /\ running \subseteq Jobs
      <4>1. running \subseteq Jobs
        BY DEF Inv, ThreadOrder, OneOf, Operations, Jobs
      <4>2. \/ queue = <<>> \/ \E job \in Jobs : queue = <<job>>
            \/ \E job \in Operations : queue = <<job, "close">>
        BY DEF Inv, ThreadOrder, OneOf, Jobs
      <4>3. \A job \in Jobs : <<job>> \in Seq(Jobs) /\ <<job, "close">> \in Seq(Jobs)
        <5>1. "close" \in Jobs
          BY DEF Jobs
        <5>2. QED
          BY <5>1
      <4>4. Operations \subseteq Jobs /\ <<>> \in Seq(Jobs)
        BY DEF Jobs
      <4>5. QED
        BY <4>1, <4>2, <4>3, <4>4
    <3>3. QED
      BY <3>1, <3>2 DEF Inv, ThreadOrder, Waiting, Awaiting, Ending, Resources, TaskTypeOK,
         Operations, Jobs, Places
  <2>2. QED
    BY <2>1 DEF Inv, Resources, TypeOK
<1>2. QED
  BY <1>1, Initially, Inductive, PTL DEF Spec

(* A stream that ends without an error delivered every row of the result. *)
THEOREM CleanEnd == Spec => []CleanEndIsComplete
<1>1. Inv => CleanEndIsComplete
  BY DEF Inv, Ending, CleanEndIsComplete
<1>2. QED
  BY <1>1, Initially, Inductive, PTL DEF Spec

(* A failed close is reported only for a stream that was read to its end. *)
THEOREM CloseErrorLast == Spec => []CloseErrorOnlyAtEnd
<1>1. Inv => CloseErrorOnlyAtEnd
  BY DEF Inv, Ending, CloseErrorOnlyAtEnd
<1>2. QED
  BY <1>1, Initially, Inductive, PTL DEF Spec

(* After the close nothing of the stream is open, and no job is left that
   could open it again. *)
THEOREM StaysClosed == Spec => []ClosedForGood
<1>1. Inv => ClosedForGood
  BY DEF Inv, ThreadOrder, Resources, ClosedForGood
<1>2. QED
  BY <1>1, Initially, Inductive, PTL DEF Spec

(* No way of ending a MySQL stream reads the rows that are left. *)
THEOREM ClosesWithoutDraining == Spec => []NeverDrains
<1>1. Inv => NeverDrains
  BY DEF Inv, Resources, NeverDrains
<1>2. QED
  BY <1>1, Initially, Inductive, PTL DEF Spec
===============================================================================
