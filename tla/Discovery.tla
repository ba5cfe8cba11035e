------------------------------- MODULE Discovery -------------------------------
(***************************************************************************)
(* The three procedures that ask Doris over a MySQL connection of their   *)
(* own: discover_table_metadata (write/metadata.py) of a sink's start(),  *)
(* discover_schema and _materialize_plan_sql (doris/discovery.py) of a    *)
(* scan; and the validation of a write against what the first has found.  *)
(*                                                                         *)
(* The first asks twice, and another session may alter the table between  *)
(* SHOW CREATE TABLE and DESCRIBE.  Every driver call may fail.            *)
(***************************************************************************)
EXTENDS TableSchema, FiniteSets

CONSTANTS
    Tables,         \* the tables there can be
    Alterations,    \* what other sessions do, as pairs of tables
    Data            \* the data that may be written

ASSUME TablesAssumption ==
    \A t \in Tables :
        /\ Len(t.columns) \in Nat \ {0}
        /\ DOMAIN t.columns = 1 .. Len(t.columns)
        /\ \A i \in DOMAIN t.columns : /\ t.columns[i].name \in Seq(STRING) \ {<<>>}
                                       /\ t.columns[i].nullable \in BOOLEAN
        /\ t.keys \in DOMAIN t.columns /\ t.model \in Models
        /\ t.mow \in {"unset", "false", "true"} /\ t.comment \in Seq(STRING)
ASSUME AlterationsAssumption == Alterations \subseteq Tables \X Tables
ASSUME DataAssumption ==
    \A data \in Data : Len(data) \in Nat /\ DOMAIN data = 1 .. Len(data)

VARIABLES
    procedure,    \* "write", "schema" or "plan"
    table,        \* the table in Doris
    escaped,      \* whether Doris escapes backticks in SHOW CREATE TABLE
    step,         \* where the procedure stands
    client, cursor,    \* "none", "open" or "closed"
    failure,      \* the exception that reached the except clauses
    outcome,      \* what the procedure returned or raised
    shown, described,  \* the table when it was asked about, as a set
    metadata,     \* the result of discover_table_metadata, as a set
    write         \* the write that was validated, as a set

asked == <<shown, described, metadata>>
vars == <<procedure, table, escaped, step, client, cursor, failure, outcome,
          asked, write>>

(* What may come out of a driver call: an error that translate_doris_error
   or the bounded phrases classify, another one, or a KeyboardInterrupt. *)
DriverErrors == {"denied", "not_found", "driver", "interrupt"}

Init ==
    /\ procedure \in {"write", "schema", "plan"}
    /\ table \in Tables /\ escaped \in BOOLEAN
    /\ step = "connect"
    /\ client = "none" /\ cursor = "none"
    /\ failure = "none" /\ outcome = "none"
    /\ shown = {} /\ described = {} /\ metadata = {} /\ write = {}

Goto(next) ==
    /\ step' = next
    /\ UNCHANGED <<procedure, table, escaped, outcome, write>>

Raise(exception) == Goto("finally") /\ failure' = exception

Connect ==
    /\ step = "connect"
    /\ client' = "open"
    /\ Goto(IF procedure = "write" THEN "show" ELSE "cursor")
    /\ UNCHANGED <<cursor, failure, asked>>

(* PyMySQL is not installed, or the password's variable is not set. *)
ConnectFails ==
    /\ step = "connect"
    /\ \E error \in DriverErrors \cup {"dependency", "configuration"} : Raise(error)
    /\ UNCHANGED <<client, cursor, asked>>

OpenCursor ==
    /\ step = "cursor"
    /\ cursor' = "open"
    /\ Goto(IF procedure = "schema" THEN "describe" ELSE "mogrify")
    /\ UNCHANGED <<client, failure, asked>>

(* A call fails after the connection was made.  The cursors of a write are
   closed by their with statement. *)
CallFails ==
    /\ step \in {"cursor", "show", "describe", "mogrify"}
    /\ \E error \in DriverErrors : Raise(error)
    /\ UNCHANGED <<client, cursor, asked>>

Mogrify ==
    /\ step = "mogrify" /\ Goto("finally")
    /\ UNCHANGED <<client, cursor, failure, asked>>

Show ==
    /\ step = "show"
    /\ shown' = {table}
    /\ metadata' = ParseCreateTable(ShowCreate(table, escaped))
    /\ IF metadata' = {} THEN Raise("metadata")
                         ELSE Goto("describe") /\ UNCHANGED failure
    /\ UNCHANGED <<client, cursor, described>>

ShowsNothing ==
    /\ step = "show" /\ Raise("metadata")
    /\ UNCHANGED <<client, cursor, asked>>

(* External: ALTER TABLE, or another table under the name.  Before SHOW it
   is another initial table, after DESCRIBE nobody sees it. *)
Alter ==
    /\ step = "describe" /\ shown = {table}
    /\ \E alteration \in Alterations :
         alteration[1] = table /\ table' = alteration[2]
    /\ UNCHANGED <<procedure, escaped, step, client, cursor, failure, outcome,
                   asked, write>>

(* External: the rows of DESCRIBE. *)
Rows == [i \in 1 .. Len(table.columns) |->
           LET column == table.columns[i]
           IN  [name |-> column.name, type |-> column.type,
                null |-> IF column.nullable THEN "YES" ELSE "NO"]]

(* Rows that do not describe a table. *)
BadRows == {<<>>, Rows \o Rows, <<[Rows[1] EXCEPT !.null = "MAYBE"]>>,
            <<[Rows[1] EXCEPT !.name = <<>>]>>}

Describe ==
    /\ step = "describe"
    /\ \E rows \in {Rows} \cup BadRows :
         LET columns == ParseDescribeRows(rows)
         IN  IF columns = {} \/ (/\ procedure = "schema"
                                 /\ \A c \in columns : CanonicalSchema(c) = {})
             THEN Raise("schema") /\ UNCHANGED asked
             ELSE /\ Goto("finally") /\ UNCHANGED <<failure, shown>>
                  /\ described' = {table}
                  /\ metadata' = {[model |-> m.model, keys |-> m.keys, mow |-> m.mow,
                                   columns |-> c] : m \in metadata, c \in columns}
    /\ UNCHANGED <<client, cursor>>

(* validate_daft_arrow_schema finds a type that Daft cannot hold. *)
Incompatible ==
    /\ step = "describe" /\ procedure = "schema"
    /\ Raise("compatibility")
    /\ UNCHANGED <<client, cursor, asked>>

(* The exceptions that the except clauses of a procedure let through, by
   themselves or as their translation. *)
Translated == {"denied", "not_found", "interrupt", "dependency"}
LetsThrough == [write |-> Translated \cup {"metadata"},
                schema |-> Translated \cup {"schema", "compatibility"},
                plan |-> Translated \cup {"configuration"}]
(* Mutated: what no clause knows goes on as it is. *)
BecomesNothing == failure

(* What the other exceptions become. *)
Becomes ==
    CASE procedure = "write" /\ failure = "schema" -> "metadata"
      [] procedure = "schema"                     -> "schema"
      [] OTHER                                    -> "discovery"

Leaves == IF failure \in LetsThrough[procedure] THEN failure ELSE Becomes

Closed(resource) == IF resource = "open" THEN "closed" ELSE resource

(* Mutated: a resource that cannot be closed ends the cleanup. *)
CloseUntilFailure(failed) ==
    /\ cursor' = Closed(cursor)
    /\ client' = IF failed THEN client ELSE Closed(client)

(* _close_resources goes on after a failed close. *)
CloseResources(failed) == cursor' = Closed(cursor) /\ client' = Closed(client)

(* A failed close is raised only by the procedures of a scan, and only when
   nothing else was. *)
Finally ==
    /\ step = "finally" /\ step' = "ended"
    /\ \E failed \in BOOLEAN :
         /\ failed => client = "open"
         /\ CloseResources(failed)
         /\ outcome' = IF failure # "none" THEN Leaves
                       ELSE IF failed /\ procedure # "write" THEN "close" ELSE "returned"
    /\ UNCHANGED <<procedure, table, escaped, failure, asked, write>>

(* validate_write_table, with data of the sink. *)
Validate ==
    /\ step = "ended" /\ step' = "validated"
    /\ procedure = "write" /\ outcome = "returned"
    /\ \E operation \in {"load", "upsert", "partial_update"}, data \in Data, m \in metadata :
         write' = {[operation |-> operation, data |-> data,
                    accepted |-> Validates(m, operation, data)]}
    /\ UNCHANGED <<procedure, table, escaped, client, cursor, failure, outcome, asked>>

Over ==
    /\ \/ step = "validated"
       \/ step = "ended" /\ (procedure # "write" \/ outcome # "returned")
    /\ UNCHANGED vars

Next ==
    \/ Connect \/ ConnectFails \/ OpenCursor \/ CallFails \/ Mogrify
    \/ Show \/ ShowsNothing \/ Alter \/ Describe \/ Incompatible
    \/ Finally \/ Validate \/ Over

Spec == Init /\ [][Next]_vars
-------------------------------------------------------------------------------
(* Properties *)

(* Every variable keeps its type: whatever fails, a procedure returns or
   leaves with an error of the connector (or the interrupt). *)
TypeOK ==
    /\ procedure \in DOMAIN LetsThrough
    /\ table \in Tables /\ escaped \in BOOLEAN
    /\ step \in {"connect", "cursor", "show", "describe", "mogrify", "finally",
                 "ended", "validated"}
    /\ {client, cursor} \subseteq {"none", "open", "closed"}
    /\ outcome \in {"none", "returned", "close", "metadata", "schema", "discovery",
                    "compatibility", "configuration"} \cup Translated
    /\ shown \cup described \subseteq Tables
    /\ {w.data : w \in write} \subseteq Data

(* What was acquired has been closed whichever call failed, the closing ones
   included, and neither they nor the except clauses hide a denial, a missing
   object or an interrupt. *)
EndsCleanly ==
    step \in {"ended", "validated"} =>
        /\ "open" \notin {client, cursor}
        /\ failure \in Translated => outcome = failure
        /\ outcome = "returned" => failure = "none"

Keys(t) == SubSeq(Names(t.columns), 1, t.keys)

(* The text of a table says where its names end. *)
Legible(t) == escaped \/ \A name \in ToSet(Names(t.columns)) : "tick" \notin ToSet(name)

(* In a legible text the scanner finds the model, the keys and the
   Merge-on-Write property of the table, whatever its names and comments
   hold. *)
MetadataIsTrue ==
    \A t \in shown : Legible(t) =>
        /\ metadata # {}
        /\ \A m \in metadata : /\ m.model = t.model /\ m.keys = Keys(t)
                               /\ m.mow = (t.mow = "true")

(* Data can be stored in a column: it keeps its nulls out where they are not
   allowed, and its values have the type that a scan of the column reads. *)
Storable(operation, column, d) ==
    /\ d.nulls => column.nullable
    /\ ArrowType(column.type) # {}
    /\ \/ d.safe \/ {d.type} = ArrowType(column.type)
       \/ operation = "partial_update" /\ Head(column.type) \in {"JSON", "JSONB"}

HasColumns(operation, t, data) ==
    /\ \A i, j \in 1 .. Len(data) : data[i].name = data[j].name => i = j
    /\ \A i \in 1 .. Len(data) : \E j \in 1 .. Len(t.columns) :
         /\ data[i].name = t.columns[j].name
         /\ Storable(operation, t.columns[j], data[i])
         /\ data[i].type # <<"timestamp[us, tz]">>
         /\ operation # "partial_update" => i = j /\ Len(data) = Len(t.columns)

HasModel(operation, t, data) ==
    /\ \A i \in 1 .. t.keys : \E d \in ToSet(data) : d.name = t.columns[i].name
    /\ operation = "upsert" => t.model = "UNIQUE KEY"
    /\ operation = "partial_update" => t.model = "UNIQUE KEY" /\ t.mow = "true"

(* Whatever the text of SHOW CREATE TABLE, and although the table may have
   been altered behind it, what is sent has the columns that were described
   last. *)
SentHasColumns ==
    \A w \in write, t \in described :
        w.accepted => HasColumns(w.operation, t, w.data)

(* Of a table that is left alone, exactly the data that it can take is
   accepted, if its text can be trusted. *)
AcceptsWhatFits ==
    \A w \in write, t \in shown \cap described : Legible(t) =>
        (w.accepted <=> /\ HasColumns(w.operation, t, w.data)
                        /\ HasModel(w.operation, t, w.data))
===============================================================================
