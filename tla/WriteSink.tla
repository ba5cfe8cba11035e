------------------------------ MODULE WriteSink ------------------------------
(***************************************************************************)
(* DorisDataSink (write/sink.py): start() reads the table's metadata,     *)
(* write() takes micropartitions one by one, checks each, cuts it into    *)
(* batches and loads them one after the other, and finalize() sums up the *)
(* results that were yielded.                                             *)
(*                                                                         *)
(* The batches come from BatchSerialization.  A load is an AtomicLoad:    *)
(* StreamLoad is shown to implement it where no redirect leads from http  *)
(* to https.  Daft, which pulls the results and may drop the generator, is *)
(* external.                                                               *)
(***************************************************************************)
EXTENDS Integers, Sequences

CONSTANTS
    MaxRows,      \* batch_rows
    TableRows,    \* the numbers of rows a micropartition can have
    Inputs,       \* the sequences of micropartitions write() may be given
    MaxRequests   \* bounds the requests of a run; an input never needs more

ASSUME LimitAssumption == MaxRows \in Nat \ {0}
ASSUME RequestsAssumption == MaxRequests \in Nat
ASSUME InputsAssumption ==
    \A w \in Inputs : /\ Len(w) \in Nat /\ DOMAIN w = 1 .. Len(w)
                      /\ \A i \in 1 .. Len(w) : w[i].rows \in Nat

RequestNumbers == 1 .. MaxRequests
NoSchema == "none"

VARIABLES
    input,        \* the micropartitions of this write
    part,         \* how many of them were pulled
    phase,        \* where the sink stands
    failure,      \* the kind of error that ended write(), if one did
    inputSchema,  \* _input_arrow_schema, the schema of the first one pulled
    results,      \* the WriteResults yielded so far
    summary,      \* what finalize returned
    kept,         \* how many rows of each request Doris stores if it commits
    filtered,     \* how many it filters; those not selected are in neither
    size,         \* how many rows each request carries
    verdict, copies,                           \* of AtomicLoad
    rows, bad, start, length, fits, step, batches   \* of BatchSerialization

Load == INSTANCE AtomicLoad
          WITH Requests <- RequestNumbers, Labels <- {"label"}
Batches == INSTANCE BatchSerialization

countVars == <<kept, filtered, size>>
loadVars == <<verdict, copies, countVars>>
batchVars == <<rows, bad, start, length, fits, step, batches>>
sinkVars == <<part, phase, failure, inputSchema, results, summary>>
vars == <<input, sinkVars, loadVars, batchVars>>

Phases == {"new", "pull", "batching", "loading", "yielded",
           "exhausted", "finalized", "failed", "closed"}
NoSummary == [status |-> "none"]

Init ==
    /\ input \in Inputs
    /\ part = 0
    /\ phase = "new"
    /\ failure = "none"
    /\ inputSchema = NoSchema
    /\ results = <<>>
    /\ summary = NoSummary
    /\ kept = [n \in RequestNumbers |-> 0]
    /\ filtered = [n \in RequestNumbers |-> 0]
    /\ size = [n \in RequestNumbers |-> 0]
    /\ Load!AInit
    /\ rows = 0 /\ bad = {} /\ start = 0 /\ length = 0 /\ fits = FALSE
    /\ step = "done" /\ batches = {}

-------------------------------------------------------------------------------

Fail(kind) ==
    /\ phase' = "failed"
    /\ failure' = kind
    /\ UNCHANGED <<results, summary>>

(* The runner is native and the metadata was discovered. *)
Start ==
    /\ phase = "new"
    /\ phase' = "pull"
    /\ UNCHANGED <<input, part, failure, inputSchema, results, summary,
                   loadVars, batchVars>>

StartFails ==
    /\ phase = "new"
    /\ Fail("start")
    /\ UNCHANGED <<input, part, inputSchema, loadVars, batchVars>>

(* The first micropartition fixes the schema, and each is validated against
   the metadata as it comes. *)
Admitted(p) == inputSchema \in {NoSchema, p.schema} /\ p.compatible

Pull ==
    /\ phase = "pull" /\ part < Len(input)
    /\ part' = part + 1
    /\ LET p == input[part + 1]
       IN  /\ Admitted(p)
           /\ inputSchema' = p.schema
           /\ rows' = p.rows /\ bad' = p.bad
    /\ start' = 0 /\ length' = 0 /\ fits' = FALSE
    /\ step' = "slice" /\ batches' = {}
    /\ phase' = "batching"
    /\ UNCHANGED <<input, failure, results, summary, loadVars>>

Refuse ==
    /\ phase = "pull" /\ part < Len(input)
    /\ part' = part + 1
    /\ LET p == input[part + 1]
       IN  /\ ~Admitted(p)
           /\ inputSchema' = IF inputSchema = NoSchema THEN p.schema
                                                      ELSE inputSchema
    /\ Fail("validation")
    /\ UNCHANGED <<input, loadVars, batchVars>>

Exhaust ==
    /\ phase = "pull" /\ part = Len(input)
    /\ phase' = "exhausted"
    /\ UNCHANGED <<input, part, failure, inputSchema, results, summary,
                   loadVars, batchVars>>

(* The generator of batches runs to its next yield, to its end or to a value
   it cannot serialize. *)
NextBatch ==
    /\ phase = "batching" /\ step \in {"slice", "try"}
    /\ Batches!Slice \/ Batches!Yield \/ Batches!Halve
    /\ UNCHANGED <<input, sinkVars, loadVars>>

Unserializable ==
    /\ phase = "batching" /\ Batches!Raise
    /\ Fail("serialization")
    /\ UNCHANGED <<input, part, inputSchema, loadVars>>

PartDone ==
    /\ phase = "batching" /\ step = "done"
    /\ phase' = "pull"
    /\ UNCHANGED <<input, part, failure, inputSchema, results, summary,
                   loadVars, batchVars>>

Current == Len(results) + 1

BeginLoad ==
    /\ phase = "batching" /\ step = "yielded" /\ Current <= MaxRequests
    /\ Load!Submit(Current)
    /\ size' = [size EXCEPT ![Current] = length]
    /\ \E k \in 0 .. length : \E f \in 0 .. length - k :
         /\ kept' = [kept EXCEPT ![Current] = k]
         /\ filtered' = [filtered EXCEPT ![Current] = f]
    /\ phase' = "loading"
    /\ UNCHANGED <<input, part, failure, inputSchema, results, summary,
                   batchVars>>

(* load refuses its own headers: an over-long label, an unusable password. *)
LoadRefuses ==
    /\ phase = "batching" /\ step = "yielded" /\ Current <= MaxRequests
    /\ Load!Reject(Current)
    /\ Fail("failed")
    /\ UNCHANGED <<input, part, inputSchema, countVars, batchVars>>

(* The WriteResult made of load's answer, with the counts that Doris gives.
   load refuses counts that exceed the batch together, not counts that fall
   short of it. *)
Result(n, status) ==
    [status |-> status, rows |-> size[n], loaded |-> kept[n],
     filtered |-> filtered[n]]

LoadReturns ==
    /\ phase = "loading"
    /\ Load!Conclude(Current) /\ verdict'[Current] = "stored"
    /\ \E status \in {"Success", "Publish Timeout"} :
         results' = Append(results, Result(Current, status))
    /\ phase' = "yielded"
    /\ UNCHANGED <<input, part, failure, inputSchema, summary, countVars,
                   batchVars>>

(* Mutated: a failed load is skipped and the next batch is sent. *)
LoadRaisesSkipped ==
    /\ phase = "loading"
    /\ Load!Conclude(Current) /\ verdict'[Current] # "stored"
    /\ results' = Append(results, Result(Current, "Publish Timeout"))
    /\ phase' = "yielded"
    /\ UNCHANGED <<input, part, failure, inputSchema, summary, countVars,
                   batchVars>>

LoadRaises ==
    /\ phase = "loading"
    /\ Load!Conclude(Current) /\ verdict'[Current] # "stored"
    /\ Fail(verdict'[Current])
    /\ UNCHANGED <<input, part, inputSchema, countVars, batchVars>>

(* Mutated: the next batch starts a full batch_rows further. *)
ResumeUnhalved ==
    /\ phase = "yielded"
    /\ start' = start + MaxRows /\ step' = "slice"
    /\ phase' = "batching"
    /\ UNCHANGED <<rows, bad, length, fits, batches, input, part, failure,
                   inputSchema, results, summary, loadVars>>

Resume ==
    /\ phase = "yielded" /\ Batches!Resume
    /\ phase' = "batching"
    /\ UNCHANGED <<input, part, failure, inputSchema, results, summary,
                   loadVars>>

(* Daft drops the generator between two results. *)
Abandon ==
    /\ phase = "yielded"
    /\ phase' = "closed"
    /\ UNCHANGED <<input, part, failure, inputSchema, results, summary,
                   loadVars, batchVars>>

(* f[1] + ... + f[n] *)
Sum(f, n) ==
    LET sum[k \in Nat] == IF k = 0 THEN 0 ELSE sum[k - 1] + f[k]
    IN  sum[n]

(* finalize's aggregation of the results. *)
Total(field) == Sum([i \in DOMAIN results |-> results[i][field]], Len(results))
Statuses == {results[i].status : i \in DOMAIN results}

(* Mutated: any Success among the results makes the write a success. *)
OverallAnySuccess ==
    IF "Success" \in Statuses \/ Statuses = {} THEN "success"
                                               ELSE "publish_timeout"

Overall ==
    IF {"Success", "Publish Timeout"} \subseteq Statuses THEN "mixed"
    ELSE IF Statuses \subseteq {"Success"} THEN "success"
    ELSE "publish_timeout"

Finalize ==
    /\ phase = "exhausted"
    /\ summary' = [status |-> Overall, batches |-> Len(results),
                   attempted |-> Total("rows"), loaded |-> Total("loaded"),
                   filtered |-> Total("filtered")]
    /\ phase' = "finalized"
    /\ UNCHANGED <<input, part, failure, inputSchema, results, loadVars,
                   batchVars>>

(* Doris stores the rows of a request, perhaps after write() has ended. *)
Store ==
    /\ \E n \in RequestNumbers : Load!Store(n)
    /\ UNCHANGED <<input, sinkVars, countVars, batchVars>>

Write ==
    \/ Start \/ StartFails
    \/ Pull \/ Refuse \/ Exhaust
    \/ NextBatch \/ Unserializable \/ PartDone
    \/ BeginLoad \/ LoadRefuses \/ LoadReturns \/ LoadRaises \/ Resume
    \/ Finalize

Ended == {"finalized", "failed", "closed"}
Stopped == phase \in Ended /\ UNCHANGED vars

Next == Write \/ Abandon \/ Store \/ Stopped

(* Daft keeps asking for results unless it drops the generator, and every
   load comes back (EveryLoadConcludes of StreamLoad). *)
Spec == Init /\ [][Next]_vars
FairSpec == Spec /\ WF_vars(Write)

-------------------------------------------------------------------------------

Stored == {n \in RequestNumbers : copies[n] # {}}
OfStored(count) ==
    Sum([n \in RequestNumbers |-> IF n \in Stored THEN count[n] ELSE 0], MaxRequests)
InputRows == Sum([i \in DOMAIN input |-> input[i].rows], Len(input))

(* Every variable keeps its type, and no request holds more rows than the
   limit allows, or stores and filters more than it holds. *)
TypeOK ==
    /\ part \in 0 .. Len(input)
    /\ phase \in Phases
    /\ start \in 0 .. rows
    /\ failure \in {"none", "start", "validation", "serialization",
                    "failed", "unknown"}
    /\ Len(results) \in 0 .. MaxRequests
    /\ size \in [RequestNumbers -> 0 .. MaxRows]
    /\ kept \in [RequestNumbers -> Nat] /\ filtered \in [RequestNumbers -> Nat]
    /\ \A n \in RequestNumbers : kept[n] + filtered[n] <= size[n]
    /\ verdict \in [RequestNumbers -> Load!Concluded \cup {"idle", "running"}]
    /\ copies \in [RequestNumbers -> SUBSET {"label"}]

(* The row that finalize returns describes the table: every row of the input
   was attempted once, the rows it calls loaded are the rows Doris holds,
   those it calls filtered are the rows Doris filtered of the batches it
   holds, and the status says whether all of them can be read. *)
SummaryIsExact ==
    phase = "finalized" =>
        /\ summary.batches = Len(results) /\ Stored = 1 .. Len(results)
        /\ summary.attempted = InputRows
        /\ summary.loaded = OfStored(kept)
        /\ summary.filtered = OfStored(filtered)
        /\ summary.loaded + summary.filtered <= summary.attempted
        /\ summary.status = "success" =>
             \A i \in DOMAIN results : results[i].status = "Success"
        /\ summary.status = "publish_timeout" =>
             \A i \in DOMAIN results : results[i].status = "Publish Timeout"

(* However write() ends, what Doris holds is a prefix of the batches, and all
   of it was yielded as a result but for one batch at most: the last, whose
   load was not answered or not yet. *)
StoredIsReportedPrefix ==
    /\ 1 .. Len(results) \subseteq Stored
    /\ Stored \subseteq 1 .. Len(results) + 1
    /\ Current \in Stored => verdict[Current] \in {"running", "unknown"}

(* write() comes to an end of its own or of Daft's making. *)
WriteEnds == <>(phase \in Ended)

(* "Validate operation prerequisites before the first Stream Load request":
   a write refused by the validation has sent nothing. *)
ValidatedBeforeFirstLoad ==
    failure = "validation" => \A n \in RequestNumbers : verdict[n] = "idle"
===============================================================================
