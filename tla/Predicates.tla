------------------------------ MODULE Predicates ------------------------------
(***************************************************************************)
(* The filters that a scan hands to Doris: the expressions of Daft, what   *)
(* compile_filter (_compat.py) makes of them in the connector's predicate  *)
(* IR (_common/predicate_ir.py), and what both say of a row.               *)
(*                                                                         *)
(* An expression and a predicate are tuples whose head names the node.     *)
(* Truth is three-valued.  Evaluation is external: Evaluate is Daft's and  *)
(* Selects is Doris'.                                                      *)
(***************************************************************************)
EXTENDS Integers, Sequences, SequencesExt

CONSTANTS
    Columns,        \* the columns of the table
    Values,         \* what a column may hold and a literal may be, besides NULL
    Expressions,    \* expressions, with all their operands
    Depth           \* how deep each of them nests

NULL == -1
Refused == -2      \* a literal of a type, or with a value, that Literal refuses

Comparisons == {"=", "!=", "<", "<=", ">", ">="}
Connectives == {"and", "or"}

Unsupported == <<"unsupported">>      \* UnsupportedPredicateError was raised
NoPredicate == <<"none">>             \* nothing is pushed down

IsColumn(e) == e[1] = "column"
IsLiteral(e) == e[1] = "literal"
IsValue(e) == IsColumn(e) \/ IsLiteral(e)
IsPredicate(e) == e[1] \in {"compare", "and", "or", "not", "isnull", "in"}

Operands(e) ==
    CASE e[1] \in Comparisons \cup Connectives -> {e[2], e[3]}
      [] e[1] \in {"not", "is_null", "not_null"} -> {e[2]}
      [] e[1] = "between" -> {e[2], e[3], e[4]}
      [] e[1] = "is_in" -> {e[2]} \cup ToSet(e[3])
      [] OTHER -> {}

ASSUME ValueAssumption == Values \subseteq Nat
ASSUME ExpressionAssumption ==
    /\ Depth \in [Expressions -> Nat]
    /\ \A e \in Expressions :
         /\ IsColumn(e) => \E name \in Columns : e = <<"column", name>>
         /\ IsLiteral(e) =>
              \E value \in Values \cup {NULL, Refused} : e = <<"literal", value>>
         /\ e[1] = "is_in" => e[3] \in Seq(Expressions)
         /\ \A x \in Operands(e) : x \in Expressions /\ Depth[x] < Depth[e]

-------------------------------------------------------------------------------
(* compile_filter *)

OrUnsupported(condition, node) == IF condition THEN node ELSE Unsupported

CompareValues(op, l, r) ==
    OrUnsupported(IsValue(l) /\ IsValue(r) /\ <<"literal", NULL>> \notin {l, r},
                  <<"compare", op, l, r>>)

(* Mutated: either bound is enough. *)
BetweenEither(value, lower, upper) ==
    LET least == CompareValues(">=", value, lower)
        most == CompareValues("<=", value, upper)
    IN  OrUnsupported(Unsupported \notin {least, most}, <<"or", least, most>>)

Between(value, lower, upper) ==
    LET least == CompareValues(">=", value, lower)
        most == CompareValues("<=", value, upper)
    IN  OrUnsupported(Unsupported \notin {least, most}, <<"and", least, most>>)

(* Mutated: a NULL among the items is let through. *)
ItemsWithNull(items) == items # <<>>

Items(items) == items # <<>> /\ <<"literal", NULL>> \notin ToSet(items)

InValues(operand, items) ==
    OrUnsupported(/\ IsColumn(operand)
                  /\ \A i \in DOMAIN items : IsLiteral(items[i])
                  /\ Items(items),
                  <<"in", operand, items>>)

(* What an expression becomes, from what its operands became. *)
VisitNode(visited, e) ==
    CASE e[1] = "column" -> e
      [] e[1] = "literal" -> OrUnsupported(e[2] # Refused, e)
      [] e[1] \in Comparisons -> CompareValues(e[1], visited[e[2]], visited[e[3]])
      [] e[1] \in Connectives ->
           LET l == visited[e[2]]
               r == visited[e[3]]
           IN  OrUnsupported(IsPredicate(l) /\ IsPredicate(r), <<e[1], l, r>>)
      [] e[1] = "not" ->
           LET p == visited[e[2]] IN OrUnsupported(IsPredicate(p), <<"not", p>>)
      [] e[1] = "between" -> Between(visited[e[2]], visited[e[3]], visited[e[4]])
      [] e[1] = "is_in" ->
           InValues(visited[e[2]], [i \in DOMAIN e[3] |-> visited[e[3][i]]])
      [] e[1] \in {"is_null", "not_null"} ->
           LET c == visited[e[2]]
           IN  OrUnsupported(IsColumn(c),
                             <<"isnull", c, IF e[1] = "is_null" THEN "plain" ELSE "negated">>)
      [] OTHER -> Unsupported      \* aliases, casts, functions, coalesce

Visit[e \in Expressions] == VisitNode(Visit, e)

(* All or nothing: a part that is not supported leaves the filter to Daft. *)
CompileFilter(filter) ==
    LET compiled == Visit[filter]
    IN  IF IsPredicate(compiled) THEN compiled ELSE NoPredicate

-------------------------------------------------------------------------------
(* Three-valued logic *)

Truth(condition) == IF condition THEN "true" ELSE "false"

Not3(v) == CASE v = "true" -> "false" [] v = "false" -> "true" [] OTHER -> v

And3(l, r) == IF "false" \in {l, r} THEN "false"
              ELSE IF "null" \in {l, r} THEN "null" ELSE "true"

Or3(l, r) == Not3(And3(Not3(l), Not3(r)))

(* The disjunction of any number of values. *)
Some3(vs) == IF "true" \in vs THEN "true" ELSE IF "null" \in vs THEN "null" ELSE "false"

Connect(connective, l, r) == IF connective = "and" THEN And3(l, r) ELSE Or3(l, r)

Compare3(op, l, r) ==
    IF NULL \in {l, r} THEN "null"
    ELSE Truth(CASE op = "=" -> l = r  [] op = "!=" -> l # r
                 [] op = "<" -> l < r  [] op = "<=" -> l <= r
                 [] op = ">" -> l > r  [] op = ">=" -> l >= r)

ValueIn(row, value) == IF IsColumn(value) THEN row[value[2]] ELSE value[2]

(* The filters that can be pushed down. *)
Supported == {e \in Expressions : IsPredicate(Visit[e])}

(* What Daft makes of them. *)
EvaluateNode(truth, e, row) ==
    CASE e[1] \in Comparisons ->
           Compare3(e[1], ValueIn(row, e[2]), ValueIn(row, e[3]))
      [] e[1] \in Connectives -> Connect(e[1], truth[e[2]], truth[e[3]])
      [] e[1] = "not" -> Not3(truth[e[2]])
      [] e[1] = "between" ->
           Not3(Or3(Compare3("<", ValueIn(row, e[2]), ValueIn(row, e[3])),
                    Compare3(">", ValueIn(row, e[2]), ValueIn(row, e[4]))))
      [] e[1] = "is_in" ->
           IF ValueIn(row, e[2]) = NULL THEN "null"
           ELSE Truth(\E i \in DOMAIN e[3] : e[3][i][2] = ValueIn(row, e[2]))
      [] OTHER -> Truth((ValueIn(row, e[2]) = NULL) = (e[1] = "is_null"))

Evaluate(row) ==
    LET truth[e \in Supported] == EvaluateNode(truth, e, row) IN truth

(* The predicates that filters compile to, and their operands. *)
Below(p) ==
    CASE p[1] \in Connectives -> {p[2], p[3]}
      [] p[1] = "not" -> {p[2]}
      [] OTHER -> {}

Predicates ==
    LET compiled == {Visit[e] : e \in Supported}
    IN  compiled \cup UNION {Below(p) : p \in compiled}

(* What Doris makes of a predicate. *)
SelectNode(truth, p, row) ==
    CASE p[1] = "compare" -> Compare3(p[2], ValueIn(row, p[3]), ValueIn(row, p[4]))
      [] p[1] \in Connectives -> Connect(p[1], truth[p[2]], truth[p[3]])
      [] p[1] = "not" -> Not3(truth[p[2]])
      [] p[1] = "isnull" -> Truth((ValueIn(row, p[2]) = NULL) = (p[3] = "plain"))
      [] OTHER -> Some3({Compare3("=", ValueIn(row, p[2]), p[3][i][2]) :
                           i \in DOMAIN p[3]})

Selects(row) ==
    LET truth[p \in Predicates] == SelectNode(truth, p, row) IN truth
===============================================================================
