# Specifications of daft-doris

TLA+ specifications of `daft-doris`, the connector that reads Apache Doris tables into Daft and
writes Daft data frames to Doris through Stream Load. TLC checks every model on small instances;
TLAPS proves the central results for every value of the constants. `PROJECT.json` maps each
definition to the lines it models, and lists the runs, the mutants that show each property can fail,
the hazards of the code and the theorems.

## The system

The package has no process of its own. Its code runs inside Daft: on the driver when a scan is
planned, on workers when a task is read or a micropartition is written. All lasting state is in
Doris; what is hard is what the connector may conclude about it.

| Part | Source (under `src/src/daft_doris`) | State | Operations | What makes it correct |
|---|---|---|---|---|
| Stream Load client | `write/stream_load.py` | per call: the hop, `_RequestTransmission` of the hop, the label | `load` | A failure reported as known has stored nothing, now or later; a result is committed; a batch is stored at most once; every call ends |
| Batch serialization | `write/serialization.py` | the generator's `start`, `length` | `iter_serialized_batches` | Every row in one batch; both limits; the halving ends |
| Data sink | `write/sink.py` | `_metadata`, `_input_arrow_schema`, the yielded results | `start`, `write`, `finalize` | The summary describes the table; after a failure the stored batches are those reported, plus at most the unknown one |
| Write metadata | `write/metadata.py` | the client of one discovery | `discover_table_metadata`, `parse_create_table`, `validate_write_table` | The text of a table is not misread; only compatible data is sent; the client is closed |
| Task thread | `doris/transports/_thread.py` | the executor, `_close_future` | `call`, `close`, `_shutdown` | Jobs are serial; a close runs once and whatever is cancelled |
| Query streams | `stream_query` in `mysql.py` and `flight.py`; `doris/task.py` | `failure`, the batch in hand | the generator's steps, `DorisTask.read` | Clean end only with all rows; the first failure survives; everything is released |
| MySQL transport | `doris/transports/mysql.py`, `_pymysql.py` | connection, unbuffered cursor, `SSCursorLifecycle`, `_fetch_rows` | `_open`, `_fetch`, `_close` | Closing never reads rows nobody asked for; the fetch size stays positive |
| Flight transport | `doris/transports/flight.py` | connection, cursor, reader | `_open`, `_fetch`, `_close` | Three closes in every case |
| Read planning | `doris/datasource.py`, `group_adjacent_ids` | immutable; the plan is local | `get_tasks`, `_tablet_plan` | No row lost or doubled by splitting, pruning, fallback; limits and counts stay right |
| Slices | `iter_batch_slices` in `_common/contracts.py` | `offset` and the binary search | the generator's steps | Every row once; both limits; the longest slice that fits |
| Tablet discovery | `doris/discovery.py` | connection and cursor of the binding | `discover_tablets`, `_materialize_plan_sql` | Every error is classified; nothing stays open |
| Filter pushdown | `_compat.py`, `_common/predicate_ir.py` | none | `compile_filter` | A pushed filter is exact under three-valued logic |
| SQL text | `doris/sql.py` | none | `build_select` | Both transports and the planner run the same statement |
| Schema discovery and types | `doris/schema.py`, `discover_schema` | connection and cursor | `discover_schema`, `doris_type_to_arrow` | Types map to what Daft can hold; the first failure survives the cleanup |
| Options, connections, snapshots, secrets, errors, facades | the rest | immutable | validation | Single checks |

Interactions. A scan calls discovery on a thread, builds one `QuerySpec` per tablet group and hands
it to a `DorisTask`; the task pulls batches from a `stream_query`, which runs every driver call on
its own `TaskThread`. A write calls `start` on the driver, then `write` per task: each
micropartition goes through validation, `iter_serialized_batches` and one `load` per batch; Daft
gathers the yielded results and calls `finalize`.

Hard behaviour. A response that is lost, late, cut short or written by an intermediary; a redirect
in the middle of a call; cancellation at each `await`, twice; closing a cursor that still has rows;
tasks that read at different times; a failure between two batches; text that is formatted twice; SQL
that looks like other SQL; a table that changes between two questions about it.

## Modules

| Module | Models | Kind |
|---|---|---|
| `AtomicLoad` | what `load` promises its caller | abstract specification |
| `StreamLoad` | `StreamLoadClient.load` over a faulty network and Doris' label transactions | implements `AtomicLoad` |
| `BatchSerialization` | `iter_serialized_batches` | algorithm as a state machine |
| `WriteSink` | `DorisDataSink`, composed of `AtomicLoad` and `BatchSerialization` | composition |
| `TaskThread` | the executor seen from the event loop | part of the next |
| `StreamQuery` | `stream_query` of both transports | extends `TaskThread` |
| `MysqlStream`, `FlightStream` | the jobs of the two readers | extend `StreamQuery` |
| `DorisTask` | `DorisTask.read` over either reader, its consumer and the event loop | composition |
| `BatchSlices` | `iter_batch_slices` | algorithm as a state machine |
| `ReadPlanning` | `get_tasks`, `_tablet_plan`, grouping, and the reading of the tasks | state machine |
| `Predicates` | Daft's filters, the predicate IR, `compile_filter` | pure operators |
| `SelectText` | `build_select` and the formatting by PyMySQL | extends `Predicates` |
| `CreateTable` | `parse_create_table` and the text it reads | pure operators |
| `TableSchema` | `schema.py` and `validate_write_table` | extends `CreateTable` |
| `Discovery` | `discover_table_metadata`, `discover_schema`, `_materialize_plan_sql` and the validation of a write | extends `TableSchema` |
| `MC*` | instances for TLC | |
| `StreamLoadProofs`, `BatchSerializationProofs`, `BatchSlicesProofs`, `WriteSinkProofs`, `DiscoveryProofs`, `DorisTaskProofs`, `ReadPlanningProofs`, `SelectTextProofs` | theorems | |

Definitions named `...` with the comment "Mutated" are plausible bugs of the definition below them.
They are used in no specification; each is listed in `PROJECT.json` with the property that it breaks.

### StreamLoad

The client is a sequence of the socket operations `http.client` performs for one call: headers,
body, `getresponse`, read. `tracker` is `_RequestTransmission` and `Mark` the tracking connection's
`send`: the second `send` of a hop is the body. Each operation may raise; each response is one of
eight classes of body that `_parse_response` tells apart, with one of four classes of code. Doris
keeps a transaction per label. It may begin when the headers have arrived, commits only a whole
request, may do so after the client has given up, and answers a second delivery of a label with
`Label Already Exists`. A front end may redirect; the second hop has a tracker of its own, and a scheme.
`Secure` is the set of calls with `http_secure`, `PlainTargets` the schemes that a call without it may be
redirected to. A hop is `Tracked` unless it is an https hop of a call without `http_secure`: the
opener of such a call has no tracking handler for https, and urllib's own marks nothing (`Sent`).
So the tracker of that hop stays `Unsent` after its body has left (finding 4).

Two kinds of error are caught by no handler of `load`. `incomplete_read` is finding 2. `value_error`
is the `ValueError` of `int` for a counter of digits that are not decimal, such as a superscript (`_int_field` lets through what
`isdigit` does), and of `urlsplit` for a `Location` that it cannot read.

External assumptions, from how the code treats Doris: a `Fail` means that the transaction is
aborted, and that is final; an HTTP 4xx means that the request was rejected before a transaction
began; a node that redirects does not load. Intermediaries may answer for Doris: `GatewayReplies` is a constant, so that
the runs and the theorems say what they assume of it.

`AtomicLoad` has two variables, a verdict per request and the labels under which its rows are held.
The refinement maps `outcome` to the verdict; `label_exists`, which says that the label is retained
but not by whom, is "unknown" like the ambiguous error, and so is an exception that is not the
connector's. The refinement holds while no redirect leads from http to https, and so does all that is
said of the sink.

### BatchSerialization and WriteSink

A serializer either raises for rows in `bad` or returns a payload that fits or does not. Payload sizes
are nondeterministic for each new slice: nothing assumes that a shorter slice is smaller. `WriteSink` runs that
generator inside `write()` and submits each batch to an `AtomicLoad` request, so what is checked of
the sink holds of any client that keeps the promise, and `StreamLoad` does where its hops are
tracked. Doris counts the rows it stores and those it filters; rows that were not selected are in
neither count, and `load` refuses only counts that exceed the batch (`stream_load.py:412`). So
`kept` and `filtered` need not add up to `size`, nor the counts of the summary to the rows attempted.
Between a yield and the
next request for a result Daft may drop the generator (`Abandon`). Doris may store a batch after the
write has ended. Whether a micropartition fits the table is a field of the input; the rules behind it
are in `TableSchema`.

### TaskThread, StreamQuery, MysqlStream, FlightStream, DorisTask

One step is what the event loop does between two awaits, or one job of the thread. `queue` and
`running` are the executor's, `awaited` and `answer` the future the coroutine is suspended on. A
cancelled `call` withdraws a queued job or leaves a running one to itself; a cancelled `close`
leaves its job alone because of the shield. `StreamQuery` holds the control flow of the generator,
which is the same in both transports. The two
readers add the jobs. A job is one step, taken when it ends, since only one runs at a time and
nothing else touches the reader's fields; it may stop after any of its driver calls.

`DorisTask` puts them together: `transport` chooses the reader and `read` says whether the outer
generator is being read. Its `async for` does not close the inner generator. When Daft drops the
read (`Drop`), the inner generator is left suspended at its `yield`, and `read` is over before the
connection is closed: that happens when the event loop's hook for asynchronous generators gets to it
(`CloseOrphan`), or in `shutdown_asyncgens` at the latest. A read that is cancelled while it waits
(`Interrupt`) closes its stream itself.

PyMySQL is external: closing an attached `SSCursor` with an active result reads all remaining rows,
closing a connection drops it even when it raises. ADBC is external: batches have any size, also zero,
and a close releases its object even when it raises.

### BatchSlices

The binary search of `iter_batch_slices`. Which lengths of a slice have at most `batch_bytes` bytes
is any set of lengths for each offset. The search is right about the longest slice only when that set
is closed downwards (`Grows`); tiling and the byte limit do not depend on it. `StreamQuery` takes
slices of any length up to `batch_rows` (`HandOver`), which is what `SlicesTile` leaves of them.

### ReadPlanning

A scan is Daft's pushdowns (count, filter, limit) with the options `split` and `discovery_policy`. A
filter is absent, compiles, or is left to Daft. `Plan` is the end of `get_tasks`; `Read` takes the
result of one task from the table as it is at that time, while `Insert` adds rows. The FE's pruning
is external and sound: it leaves out a tablet only when none of its rows can be selected. Daft
applies the filter and the limit to what it gets. A task that fails ends the scan. Tablet ids are
integers; `Rank` is the place of a tablet among the sorted ones, and a task gets a run of ranks.
`unsafe_where_sql` is in every query alike, so it is part of what rows there are.

### Predicates and SelectText

Expressions and predicates are tuples. `Expressions` is a constant, closed under operands, with the
`Depth` of each, so that the visitor and the renderer are recursive functions of it. `Visit` is the
visitor, with the checks of the IR's constructors; `Evaluate` is what Daft makes of an expression
and `Selects` what Doris makes of a predicate, both external and three-valued. What compiled of
`is_null` and `not_null` is one node, plain or negated. A text is a sequence of characters, and a rendered value is a
character of its own, so that a text with every value in its place can be compared without
spelling literals. Fragments are made of a quote, the backtick, the backslash, `%`, `:` and a
letter. The planning query is always in MySQL style and is materialized by PyMySQL when there are
values; the query of the tasks is in the style of the transport, and PyMySQL formats it in
`execute`, also only when there are values. Parameters that one transport cannot render, the
look of literals, and double quotes (scanned like single ones) are left out. So are the parentheses
that `build_select` puts around the fragment (`sql.py:260`): the text has the order of its parts, and
how AND and OR bind in it is not checked. A name stands for all its characters: a
column with a percent sign in its name is one for which nothing is said (`NamesPercent`), and that
includes a doubled one, which formatting would send as a single `%`.

### CreateTable, TableSchema, Discovery

The text of SHOW CREATE TABLE is a sequence of characters. A word is a character of its own, so that
a column may be called `UNIQUE KEY`, and what matters is whether it is inside quotes. The loops of
the scanner are recursive functions of the position. Doris' side, `ShowCreate`, is external: it writes
names in backticks, doubled or (4.0.6) as they are, and escapes its literals. A text is `Legible` if
backticks are doubled or no name has one; other texts are ambiguous, and nothing is claimed of what
the scanner makes of them. In `Discovery` one
driver call is one step, and each may fail in every way that the except clauses tell apart. Between
SHOW CREATE TABLE and DESCRIBE another session may alter or replace the table. The three procedures
share their steps, since they share their pattern: connect, ask, close whatever was acquired, keep
the first failure. A context manager's cursor in `discover_table_metadata` is closed with its block,
and PyMySQL's buffered cursor has nothing left to read then, so that its close is no step.

`Validate` is `validate_write_table` for any operation and any data of a small set: the tables' own
columns reordered, cut, repeated, with nulls, with another type that is or is not safely cast.
Of a table that is replaced between the two statements `SentHasColumns` says that the data has the
columns described last. Model and keys are those that were shown first; nothing in the code reads them again, and no property
says that they are still the table's.

## Runs

| Run | Instance | Distinct states | Shows |
|---|---|---|---|
| `stream_load` | 2 requests, one with TLS, redirects that keep the scheme, 3 labels, intermediaries without JSON | 402 thousand | the classification is sound; `AtomicLoad` is implemented; every call comes back |
| `status_less_json` | 1 request, a gateway that answers 5xx with JSON | violation | finding 1 |
| `error_body_cut_short` | 1 request | violation | finding 2 |
| `untracked_redirect` | 1 request without TLS, redirects to http and https | violation | finding 4 |
| `batch_serialization` | tables of 0, 1, 7, 8 rows, `max_rows` 5 | 11 thousand | rows once, limits |
| `batch_slices` | batches of 0, 1, 6, 9 rows, `batch_rows` 7 | 11 thousand | tiling, both limits, the longest slice, the end of the search |
| `write_sink` | up to 2 micropartitions of 0, 1 or 3 rows, `batch_rows` 2 | 293 thousand | the summary, what is stored after any end, and that an end comes |
| `validation_order` | the same | violation | finding 3 |
| `task_streams` | 5 rows, `batch_rows` 3, 2 cancellations, both transports | 6 thousand | nothing leaks, drains or is truncated |
| `read_planning` | 3 tablets of one row, limits 0, 1, 2, two tasks | 312 thousand | splitting, pruning, limits, counts |
| `select_text` | every fragment up to 4 characters with 3 filters; some 600 filters with 4 fragments | 419 thousand | exact filters, one statement |
| `metadata_discovery` | 12 lists of columns with 1 or 2 keys, models, properties and comments; their data in 8 variants | 184 thousand | cleanup and errors; a scanner that is not misled; what is sent fits and what fits is sent |

Why the bounds are enough. Two requests are needed for one to be answered about, or to hold, the
label of another; the third label is the one a redrawn label would use. Requests and labels are
interchangeable, but the run checks liveness too and so uses no symmetry. Eight rows with a
limit of five give a first batch of five with two halvings (5, 2, 1) and a second, shorter one;
seven gives an odd remainder. Two micropartitions with several batches each cover a failure in the
first, between and in the second; four requests are the most such an input needs. Two cancellations
are one in the query and one in the close. Three tablets in two tasks give uneven groups, and two
rows per limit one that is and one that is not reached. A fragment of four characters holds a
quoted character with an escape, an escaped quote, a doubled quote, a marker inside quotes, and two
markers. Filters nest one connective over atoms, with a negation outside or inside; every node of
the visitor looks at its children's kinds only. A slice of up to seven rows gives searches of three
probes on both sides, and nine rows a second slice. The tables of `metadata_discovery` have names with each
character the scanner looks for, a name that is a clause, a comment made of clauses, every kind of
type with arguments at and over their limits, and a boundary between two keys; an alteration adds,
keeps or swaps columns and replaces the model.

Fairness. `EveryLoadConcludes` assumes that the client's own thread runs: every socket operation
carries `request_timeout_seconds`, so an operation without an answer raises. Nothing is assumed of
Doris or the network, and a call that was not made need not be. `Released` assumes that the worker
thread runs what it is given, that every driver call ends (the connections carry connect, read and
write or RPC time-outs) and that the event loop runs what is ready, its hook for dropped generators
included, which it runs as a task or in `shutdown_asyncgens`. The consumer may stop asking for
ever, and so the property starts at the `finally` block or where the read is dropped. `WriteEnds`
assumes that Daft goes on pulling unless it drops the generator, that the serializer comes back (so
that it shows the end of the halving) and that each load does, which is `EveryLoadConcludes`.
`SlicingEnds` assumes that the generator is run.

Deadlock is checked in every run; the ended states have a stuttering step of their own.

## Findings

1. A JSON object without `Status` counts as Doris' `Fail` (`stream_load.py:392`), also in a 5xx of an
   intermediary: `load` raises the plain error although the batch may be stored.
   `docs/consistency.md` and `docs/errors.md` call status-less and 5xx malformed responses ambiguous.
2. A chunked error body that ends early raises `http.client.IncompleteRead` from
   `_read_error_body`, inside an `except` clause of `load`, and leaves `load` unclassified.
3. Validation of a later micropartition comes after loads of earlier ones; the docstring of
   `validate_write_table` and `docs/writing.md` say before the first request.
4. A call without `http_secure` that is redirected from http to https sends its body through urllib's own HTTPS
   handler, which records nothing (`stream_load.py:256`): a response that is lost, or malformed, is
   reported as a failure before the body, although the batch may be stored. `docs/consistency.md` says
   that such failures are ambiguous, and that a redirected request is classified by the same rule.

A further observation is part of a property and not a finding, since nothing in the repository says
otherwise: a column with a percent sign in its name makes a MySQL query with bound values that
PyMySQL cannot format (`NamesPercent` in `SelectText`).

Further observations, which no run is about:

- `discover_tablets` does not catch `http.client.HTTPException`: a planning response that ends early or
  has a malformed status line neither falls back nor becomes a connector error. `ReadPlanning` has a
  phase of its own for it, `escaped`.
- The environment variable of a `SecretRef` is missing: `mysql_kwargs` raises `ConfigurationError`
  inside the `try` blocks. `discover_table_metadata` makes `DiscoveryError` of it and `discover_schema`
  `SchemaError`, while `_materialize_plan_sql` lets it through (`LetsThrough` in `Discovery`).
- Doris 4.0.6 does not double a backtick in a name, and `_split_key_columns` (`metadata.py:124`) ends
  an identifier at each: a key column named ``a`,`b`` is read as the columns `a` and `b`. If the table
  has these two as well, a partial update of them is accepted although it lacks the key.
  `docs/writing.md` says that validation fails closed on a malformed text and does not guess.
- `ValueError` is caught nowhere in `load` (`value_error` in `StreamLoad`): it may leave `load` after the
  batch was stored, and the connector's errors do not say so.
- The counts of a result need not add up to its rows, as `WriteSink` has it, above.
- A dropped `DorisTask.read` is over before its connection is closed (`DorisTask`, above).

## Proofs

`StreamLoadProofs` holds for all sets of requests and labels. `TypeCorrect` assumes nothing but that
`NoLabel` is no label and that gateway replies are replies. The others assume `TrustedGateway`: a
response of an intermediary either has a 4xx code or is malformed. Finding 1 is what happens
without it. `KnownFailure` and `Refinement` assume `TrackedTargets` as well: no redirect leads from
http to https. Finding 4 is what happens without it, and `TrackedFailure` says that nothing else does:
a known failure on a tracked hop stores nothing, wherever redirects lead. None of the safety properties is inductive. The invariant `IInv` adds:

- `Hops`: a hop has the scheme of the endpoint or one that a redirect may have, so that
  `TrackedTargets` makes every hop tracked (`AllTracked`);
- `OwnLabels`, `FreshLabels`: a label is drawn by one request, and Doris has heard of no other;
- `Loads`: a transaction stands for a request that arrived, a committed one for a whole request;
- `Flow`: what the place in the call says about the tracker and about the bytes that arrived, which
  is where `body_started` is shown to mean, on a tracked hop, what the classification takes it for;
- `RepliesProve`: what the reply that waits on the connection proves about the transaction;
- `Verdicts`: a known failure on a tracked hop is doomed (aborted, or never to be whole), a result is committed.

`Invariance` shows it inductive, one step per action. `KnownFailure`, `Acknowledgement`,
`StoredOnce` and `AmbiguityEarned` follow, and `Refinement` shows that each step is a step of
`AtomicLoad` or changes neither of its variables.

`BatchSerializationProofs` proves typing, coverage and limits for all tables and limits. The
inductive invariant is that the batches so far tile the rows before `start`. `TableRows` must be
natural numbers and `MaxRows` positive.

`BatchSlicesProofs` proves typing, tiling and the choice of the longest slice for all batches and
limits. The invariant of the search is that `size` fits or is one, that `low` is at most one above
it, and, if bytes grow with rows, that no length above `high` fits; that of the batch is that the
slices so far tile the rows before `offset`.

`WriteSinkProofs` proves typing and `StoredIsReportedPrefix` for all inputs, over `AtomicLoad`, which
`Refinement` shows `StreamLoad` to implement where its hops are tracked. The invariant says that loads happen one at a time:
the requests before the current one are stored and were reported, those after it were not made, and
the current one is what the phase of the generator says. For `SummaryIsExact` a second part,
`Accounts`, says what the yielded results report, what is in hand and what the batches of the
micropartitions before add up to; of Doris' counts it assumes that together they are at most the
rows of the batch, which is what `load` checks. It rests on lemmas about `Sum`, which is a recursive function of
the naturals: that it exists and what it returns is proved by induction, as the absence of a least
counterexample (`AllNaturals`). It assumes that the row limit is positive and that inputs are
sequences of numbers of rows.

`ReadPlanningProofs` proves all six invariants of the scan, for every table, number of slots and
limits. `GroupsPartition` is about `group_adjacent_ids`: by the bounds of a rounded quotient, the
runs of ranks are not empty, do not meet and leave no tablet out. The inductive invariant carries
that to the scan:

- `Split`: the tasks' tablets are disjoint and of the plan, and each task asks for what the scan asks
  for, unless the plan shows that there is nothing to get;
- `Covered`: each row wanted at the time of planning is in some task's tablets;
- `Answers`: what a task got is of its own tablets, within its limit, and either all it could get at
  the time of planning or as many rows as its limit;
- `Counts`: a count lies between the rows at planning and the rows now.

The tasks read at different times, so that no task's answer is compared with a table of its own time:
rows are only added, and it is the table of the planning that each must have covered. Tablets, and
the slots for rows of a tablet, are assumed finite in number, the number of tasks positive, limits
natural, and the FE's pruning sound.

`SelectTextProofs` proves all five invariants of the filters and the text, for expressions of every
depth, fragments and projections of every length, and all columns and values. The functions of the
model are recursive, so the proofs need induction over data, which the library's theorems cannot
state here. The module has its own: `AllNaturals` for sets instead of predicates, `Recursion` and
`SameRecursion` for functions whose value depends on arguments of less depth, `FromTheEnd` for the
places of a text. On these rest:

- `SameTruth`: a compiled filter has the truth of the expression in every row, by depth;
- `PredicateRelated` and `FragmentRelated`: a relation between pieces of SQL that every word, name
  and value keeps, and that following keeps (a `Congruence`), holds between the two styles of every
  predicate and every fragment. It is used for three relations: `Printed` (PyMySQL's formatting of one
  is the text of the other, or fails at a column's percent sign), `Rendered` and `Scanned` (what is
  there without a value to be bound);
- `FormatShifted`: formatting what follows a piece does not depend on the piece, so that `Printed` is
  such a relation;
- `ScannerReads`: the scanner of `_render_unsafe_fragment`, which looks ahead for escapes and doubled
  quotes, finds the markers and the end that a reader finds who does not look ahead.

The inductive invariant `TextInv` says what the steps of `get_tasks` leave: the predicate is what the
filter compiled to, a query that was built is of a fragment with a meaning, and what is planned and
sent is what is meant or names a column with a percent sign. The columns' names are assumed to be
other than `%` itself, since a name stands for all its characters.

`DiscoveryProofs` proves typing, `EndsCleanly`, `SentHasColumns`, `MetadataIsTrue` and
`AcceptsWhatFits` for all tables, alterations and data. The invariant `Inv` adds the place in the
procedure, which says what may be open and which failure is known, and that the metadata has the
columns of the table that was described; `TrueInv` adds that their names are distinct. It assumes
that a table has a column and a key, that names and comments are texts, that `nullable` is Boolean,
and that data is a sequence of columns.

What the scanner computes of the text of any table is `TextIsTrue`. The scans are recursive functions
of the position, and each looks further on in the text, so that they exist (`ScanExists`) and facts
about them follow from the end of the text backwards (`FromTheEnd`). The text is a sequence of parts
(`LaidOut`), and what a scan does with a part does not depend on what is around it:

- `Inside`: the content of a quoted token, unit by unit: other characters, a doubled quote, an escaped
  character. So a token ends where it should (`TokenEnds`) whatever a name or a comment holds
  (`DoubledRead`, `LiteralPassed`);
- `Passed`: what a search outside quotes goes over: tokens, plain words between them, lists of both.
  So the first model and the first PROPERTIES that are found are those of the table (`ModelFound`,
  `PropertiesFound`), and a clause ends at its own parenthesis (`ClauseCloses`);
- `KeysRead`: the list of identifiers is split at its own commas, and each name is read back;
- `MowOfOne`, `MowOfTwo`: the properties are read one behind the other.

`TrueInv` carries that to the procedure: the metadata is true of the table that was shown, and the
validation compares data with true metadata (`ValidatedHasModel`, `FittingIsValidated`).

`DorisTaskProofs` proves the safety properties of the streams for both transports, every number of
rows and of cancellations. First it reduces a step of either reader to what it does to the stream:
a job ends, a fetch turns rows of the server into rows of the batch, a close leaves nothing open.
The inductive invariant then has five parts:

- `ThreadOrder`: at most one job is with the thread, and a close behind it; after the close none;
- `Waiting`: what the coroutine awaits at each place, and when the thread must be idle;
- `RowsCounted`: until the stream fails, every row is with the server, in the batch or delivered;
- `Ending`: without a failure, the `finally` block is reached only with all rows delivered;
- `Resources`: each reader's own variables, and nothing open after the close.

The numbers of rows and cancellations are assumed natural, and `BatchRows` positive. The proof rests
on the model's reading of `ThreadPoolExecutor`, `shield`, PyMySQL and ADBC, which are external.

Only model-checked: liveness, which the prover cannot do. Nothing is proved of what the scanner makes
of a text that is not `Legible`: it may be misread.

## Not modelled

- Casts of values, `project_schema`, `coerce_decimal`: library calls; a cast is safe or is not.
- Validation of options, redaction, the codes and phrases of `translate_doris_error`: single checks
  without state. `Discovery` keeps the classes of errors apart, not how each is recognized.
- The regular expressions of the scanner beyond a word and its place: blanks inside a clause's two
  words, letters in both cases.
- `group_weighted_items`, which nothing in `src/` calls.
- Facades, scripts, CI and the integration environment: not part of the running program.

## Plan

Done: `AtomicLoad`, `StreamLoad`, `BatchSerialization` and `WriteSink` with proofs; `BatchSlices`
with proofs; `CreateTable`, `TableSchema` and `Discovery` with proofs; `TaskThread`, `StreamQuery`,
the two readers and `DorisTask` with proofs; `ReadPlanning` with proofs; `Predicates` and
`SelectText` with proofs.

Next, in this order:

1. Which texts that are not `Legible` the scanner refuses: a single backtick that is not doubled
   cannot be closed, two may be.
2. Two tasks of one scan with their streams, so that a failed task and an abandoned scan meet.
