------------------------------ MODULE TableSchema ------------------------------
(***************************************************************************)
(* doris/schema.py, the columns and types of a table as DESCRIBE gives    *)
(* them, and validate_write_table (write/metadata.py), which compares the *)
(* data of a write with them.                                              *)
(*                                                                         *)
(* A Doris type is its base with its integer arguments, such as           *)
(* <<"DECIMAL", 9, 2>>; an Arrow type likewise.                            *)
(***************************************************************************)
EXTENDS CreateTable

Simple == [BOOLEAN |-> "bool", TINYINT |-> "int8", SMALLINT |-> "int16",
           INT |-> "int32", INTEGER |-> "int32", BIGINT |-> "int64",
           FLOAT |-> "float32", DOUBLE |-> "float64", STRING |-> "string",
           TEXT |-> "string", JSON |-> "string", JSONB |-> "string",
           DATE |-> "date32", DATEV2 |-> "date32"]
LengthLimits == [CHAR |-> 255, VARCHAR |-> 65533]
Datetimes == {"DATETIME", "DATETIMEV2"}
Decimals == {"DECIMAL", "DECIMALV2", "DECIMALV3", "DECIMAL32", "DECIMAL64",
             "DECIMAL128", "DECIMAL256"}

(* doris_type_to_arrow: the Arrow type as the member of a set, which is
   empty for an unsupported or malformed type, a SchemaError. *)
ArrowType(type) ==
    LET base == Head(type)
        arguments == Tail(type)
    IN  IF base \in DOMAIN Simple /\ arguments = <<>> THEN {<<Simple[base]>>}
        ELSE IF /\ base \in DOMAIN LengthLimits /\ Len(arguments) = 1
                /\ arguments[1] \in 1 .. LengthLimits[base] THEN {<<"string">>}
        ELSE IF /\ base \in Datetimes /\ Len(arguments) \in {0, 1}
                /\ ToSet(arguments) \subseteq 0 .. 6 THEN {<<"timestamp[us]">>}
        ELSE IF /\ base \in Decimals /\ Len(arguments) = 2
                /\ arguments[1] \in 1 .. 38
                /\ arguments[2] \in 0 .. arguments[1] THEN {<<"decimal128">> \o arguments}
        ELSE {}

Names(columns) == [i \in 1 .. Len(columns) |-> columns[i].name]

(* parse_describe_rows, the same way. *)
ParseDescribeRows(rows) ==
    IF /\ rows # <<>>
       /\ \A row \in ToSet(rows) : row.name # <<>> /\ row.null \in {"YES", "NO"}
       /\ IsInjective(Names(rows))
    THEN {[i \in 1 .. Len(rows) |-> [name |-> rows[i].name, type |-> rows[i].type,
                                     nullable |-> rows[i].null = "YES"]]}
    ELSE {}

(* Every declared column has to have an Arrow type. *)
CanonicalSchema(columns) ==
    IF \E column \in ToSet(columns) : ArrowType(column.type) = {} THEN {}
    ELSE {[i \in 1 .. Len(columns) |->
             [name |-> columns[i].name, nullable |-> columns[i].nullable,
              type |-> CHOOSE type \in ArrowType(columns[i].type) : TRUE]]}

-------------------------------------------------------------------------------
(* Data to be written is a sequence of columns with a name, an Arrow type,
   whether there are nulls among the values, and whether all values are safe
   in another type. *)

(* External: pyarrow's cast with safe=True. *)
Castable(column, type) == column.type = type \/ column.safe

(* The columns of a JSON type go through as they are in a partial update. *)
Prepares(operation, column, specification) ==
    /\ specification.nullable \/ ~column.nulls
    /\ \E type \in ArrowType(specification.type) :
         \/ operation = "partial_update" /\ Head(specification.type) \in {"JSON", "JSONB"}
         \/ Castable(column, type)

(* Mutated: any Unique Key table takes partial updates. *)
TakesAnyUnique(metadata, operation) ==
    operation \in {"upsert", "partial_update"} => metadata.model = "UNIQUE KEY"

Takes(metadata, operation) ==
    /\ operation \in {"upsert", "partial_update"} => metadata.model = "UNIQUE KEY"
    /\ operation = "partial_update" => metadata.mow

(* Mutated: the order of a full row's columns does not matter. *)
MatchesInAnyOrder(operation, names, columns) ==
    ToSet(names) \subseteq ToSet(columns)

Matches(operation, names, columns) ==
    IF operation = "partial_update" THEN ToSet(names) \subseteq ToSet(columns)
                                    ELSE names = columns

(* validate_write_table raises the same error for each of these. *)
Validates(metadata, operation, data) ==
    LET names == Names(data)
    IN  /\ IsInjective(names)
        /\ \A column \in ToSet(data) : column.type # <<"timestamp[us, tz]">>
        /\ ToSet(metadata.keys) \subseteq ToSet(names)
        /\ Takes(metadata, operation)
        /\ Matches(operation, names, Names(metadata.columns))
        /\ \A column \in ToSet(data), specification \in ToSet(metadata.columns) :
             column.name = specification.name
                 => Prepares(operation, column, specification)
===============================================================================
