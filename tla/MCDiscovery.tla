------------------------------ MODULE MCDiscovery ------------------------------
(* Tables and data for Discovery. *)
EXTENDS Discovery

Column(name, type) == [name |-> name, type |-> type, nullable |-> FALSE]
Nullable(name, type) == [name |-> name, type |-> type, nullable |-> TRUE]
A == <<"a">>
B == <<"b">>
Tick == <<"a", "tick", "b">>

(* Names with every character that the scanner looks for, and every kind of
   type. *)
ColumnLists == {
    <<Column(A, <<"BIGINT">>), Nullable(B, <<"STRING">>)>>,
    <<Column(A, <<"BIGINT">>), Nullable(B, <<"STRING">>), Nullable(<<"c">>, <<"JSON">>)>>,
    <<Column(B, <<"BIGINT">>), Nullable(A, <<"STRING">>)>>,
    <<Column(<<"a", ",", " ", "b">>, <<"INT">>), Column(<<"b", ")">>, <<"VARCHAR", 9>>)>>,
    <<Column(Tick, <<"BIGINT">>), Column(A, <<"DATETIME", 6>>)>>,
    <<Column(A, <<"BIGINT">>), Nullable(Tick, <<"DECIMAL", 9, 2>>)>>,
    <<Column(Tick, <<"INT">>), Column(<<"tick">>, <<"DATE">>)>>,
    <<Column(<<"a", "tick", "tick", "b">>, <<"INT">>)>>,
    <<Column(<<"UNIQUE KEY">>, <<"BIGINT">>), Column(<<"quote", "(">>, <<"DOUBLE">>)>>,
    <<Column(<<"double">>, <<"BIGINT">>), Nullable(B, <<"ARRAY">>)>>,
    <<Column(A, <<"DATETIME", 7>>)>>,
    <<Column(A, <<"DECIMAL", 2, 3>>), Nullable(B, <<"JSONB">>)>>}

(* A comment that looks like the clauses. *)
Misleading == <<"quote", "UNIQUE KEY", "(", "tick", "b", "tick", ")", "double",
                "PROPERTIES", "(", ")", "slash">>

MCTables ==
    {t \in [columns : ColumnLists, keys : 1 .. 2,
            model : {"DUPLICATE KEY", "UNIQUE KEY"},
            mow : {"unset", "false", "true"}, comment : {<<>>, Misleading}] :
        /\ t.keys <= Len(t.columns)
        /\ t.mow # "unset" => t.model = "UNIQUE KEY"}

(* A column is added or renamed, or the table replaced by one of another
   model. *)
MCAlterations ==
    {p \in MCTables \X MCTables :
        /\ Names(p[1].columns) = <<A, B>>
        /\ {A, B} \subseteq ToSet(Names(p[2].columns))
        /\ \A t \in {p[1], p[2]} : t.keys = 1 /\ t.comment = <<>>}

(* Data as it is read from a table, and what may be wrong with it. *)
AsRead(columns) ==
    [i \in 1 .. Len(columns) |->
       [name |-> columns[i].name, nulls |-> FALSE, safe |-> FALSE,
        type |-> IF ArrowType(columns[i].type) = {} THEN <<"binary">>
                 ELSE CHOOSE type \in ArrowType(columns[i].type) : TRUE]]

Variants(data) ==
    LET last == Len(data)
    IN  {data, Reverse(data), Front(data), Append(data, data[1]),
         [data EXCEPT ![last].nulls = TRUE],
         [data EXCEPT ![last].type = <<"binary">>],
         [data EXCEPT ![last].type = <<"float64">>, ![last].safe = TRUE],
         [data EXCEPT ![last].type = <<"timestamp[us, tz]">>, ![last].safe = TRUE]}

MCData == UNION {Variants(AsRead(columns)) : columns \in ColumnLists}
===============================================================================
