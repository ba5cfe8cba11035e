------------------------------ MODULE SelectText ------------------------------
(***************************************************************************)
(* The text of a scan's query: build_select (doris/sql.py) joins the       *)
(* unsafe_where_sql of the source and the filter that compiled, once for   *)
(* the planning request, which PyMySQL materializes, and once for the      *)
(* transport of the tasks.                                                 *)
(*                                                                         *)
(* A text is a sequence of characters; a rendered value is one of them.    *)
(* The characters of a fragment are a quote, the backtick ("tick"), the    *)
(* backslash ("slash"), %, : and s, which stands for all a name may hold.  *)
(* Parameters are values that a transport can render.                      *)
(***************************************************************************)
EXTENDS Predicates, TLC

CONSTANT Scans     \* the scans considered: see Init

Quotes == {"quote", "tick"}
Characters == Quotes \cup {"slash", "%", ":", "s"}
NoFragment == <<>>
NoText == <<>>
Outside == "outside"

NameSets == {{}, {<<"s">>}}     \* of the query_parameters
Styles == {"mysql", "flight"}

ASSUME ColumnAssumption == "%" \notin Columns
ASSUME ScanAssumption ==
    Scans \subseteq [fragment : Seq(Characters), names : NameSets,
                    filter : Expressions, columns : Seq(Columns),
                    style : Styles, split : {"single", "auto"}]

VARIABLES
    scan,         \* [fragment, names, filter, columns, style, split]
    phase,        \* where get_tasks stands
    predicate,    \* the compiled filter
    planned,      \* the text of the planning request, once sent
    query,        \* the text and the bound values of the tasks' query
    sent          \* the text that Doris gets

vars == <<scan, phase, predicate, planned, query, sent>>

Init ==
    /\ scan \in Scans
    /\ phase = "new"
    /\ predicate = NoPredicate
    /\ planned = NoText /\ sent = NoText
    /\ query = [ok |-> TRUE, text |-> NoText, values |-> <<>>]

-------------------------------------------------------------------------------
(* Pieces of SQL: a text with placeholders and the values bound to them *)

Text(text) == [ok |-> TRUE, text |-> text, values |-> <<>>]
Raises == [ok |-> FALSE, text |-> NoText, values |-> <<>>]

Followed(l, r) == [ok |-> l.ok /\ r.ok, text |-> l.text \o r.text,
                   values |-> l.values \o r.values]

Concat(pieces) ==
    LET joined[n \in 0 .. Len(pieces)] ==
            IF n = 0 THEN Text(NoText) ELSE Followed(joined[n - 1], pieces[n])
    IN  joined[Len(pieces)]

(* Mutated: every transport gets placeholders. *)
ValueBound(value, style) ==
    [ok |-> TRUE, text |-> <<"%", "s">>, values |-> <<value>>]

(* A value is bound by PyMySQL and rendered as a literal for Flight. *)
Value(value, style) ==
    IF style = "mysql" THEN [ok |-> TRUE, text |-> <<"%", "s">>, values |-> <<value>>]
    ELSE Text(<<value>>)

(* The column "p" has a percent sign in its name. *)
Identifier(column) ==
    Text(IF column = "p" THEN <<"tick", "p", "%", "tick">> ELSE <<"tick", column, "tick">>)

-------------------------------------------------------------------------------
(* The unsafe fragment *)

(* Mutated: only the query_parameters decide whether PyMySQL formats. *)
BindRequiredByNames(style, rendered) == style = "mysql" /\ scan.names # {}

BindRequired(style, rendered) ==
    style = "mysql" /\ (scan.names # {} \/ rendered.values # <<>>)

Raw(c, bind) == Text(IF c = "%" /\ bind THEN <<"%", "%">> ELSE <<c>>)

IsMarker(f, i) == /\ f[i] = ":" /\ ~(i > 1 /\ f[i - 1] = ":")
                  /\ i < Len(f) /\ f[i + 1] = "s"

NameEnd(f, i) ==
    CHOOSE j \in i .. Len(f) : /\ \A k \in i .. j : f[k] = "s"
                               /\ j = Len(f) \/ f[j + 1] # "s"

Name(f, i) == SubSeq(f, i + 1, NameEnd(f, i + 1))

(* Two characters inside a quoted value that do not close it. *)
Escapes(f, i, quote) ==
    /\ i < Len(f)
    /\ \/ f[i] = "slash" /\ quote # "tick"
       \/ f[i] = quote /\ f[i + 1] = quote

(* What is rendered from character i on, for a scanner that is inside of
   quote there, from what is rendered from the characters behind. *)
RenderNode(from, f, i, quote, style, bind) ==
    IF i > Len(f) THEN IF quote = Outside THEN Text(NoText) ELSE Raises
    ELSE IF quote # Outside THEN
        IF Escapes(f, i, quote)
        THEN Followed(Raw(f[i], bind), Followed(Raw(f[i + 1], bind), from[i + 2][quote]))
        ELSE Followed(Raw(f[i], bind),
                      from[i + 1][IF f[i] = quote THEN Outside ELSE quote])
    ELSE IF f[i] \notin Quotes /\ IsMarker(f, i) THEN
        IF Name(f, i) \in scan.names
        THEN Followed(Value("value", style), from[NameEnd(f, i + 1) + 1][quote])
        ELSE Raises
    ELSE Followed(Raw(f[i], bind),
                  from[i + 1][IF f[i] \in Quotes THEN f[i] ELSE Outside])

RenderFrom(f, style, bind) ==
    LET from[i \in 1 .. Len(f) + 1] ==
            [quote \in Quotes \cup {Outside} |->
                RenderNode(from, f, i, quote, style, bind)]
    IN  from

(* Every parameter is used: the one value there is appears in the Flight text. *)
RenderFragment(style, rendered) ==
    LET Rendered(to, bind) == RenderFrom(scan.fragment, to, bind)[1][Outside]
        used == "value" \in ToSet(Rendered("flight", FALSE).text)
    IN  IF scan.names # {} /\ ~used THEN Raises
        ELSE Rendered(style, BindRequired(style, rendered))

-------------------------------------------------------------------------------
(* The filter and the query *)

RenderValue(value, style) ==
    IF IsColumn(value) THEN Identifier(value[2])
    ELSE IF value[2] = NULL THEN Raises
    ELSE Value(ToString(value[2]), style)

Parenthesized(piece) == Followed(Text(<<"(">>), Followed(piece, Text(<<")">>)))

PredicateNode(rendered, p, style) ==
    Parenthesized(
      CASE p[1] = "compare" ->
             Followed(RenderValue(p[3], style),
                      Followed(Text(<<p[2]>>), RenderValue(p[4], style)))
        [] p[1] \in Connectives ->
             Followed(rendered[p[2]], Followed(Text(<<p[1]>>), rendered[p[3]]))
        [] p[1] = "not" -> Followed(Text(<<"not">>), rendered[p[2]])
        [] p[1] = "isnull" ->
             Followed(RenderValue(p[2], style),
                      Text(<<IF p[3] = "plain" THEN "is null" ELSE "is not null">>))
        [] OTHER ->
             Followed(Followed(RenderValue(p[2], style), Text(<<"in">>)),
                      Concat([i \in DOMAIN p[3] |-> RenderValue(p[3][i], style)])))

RenderPredicate(style) ==
    LET rendered[p \in Predicates] == PredicateNode(rendered, p, style) IN rendered

(* Mutated: the values of the filter come before those of the fragment. *)
ClausesFilterFirst(fragment, rendered) ==
    [Followed(fragment, Followed(Text(<<"and">>), rendered))
       EXCEPT !.values = rendered.values \o fragment.values]

Clauses(fragment, rendered) == Followed(fragment, Followed(Text(<<"and">>), rendered))

Projection ==
    Concat([i \in DOMAIN scan.columns |-> Identifier(scan.columns[i])])

BuildSelect(style) ==
    LET rendered == IF predicate = NoPredicate THEN Text(NoText)
                    ELSE RenderPredicate(style)[predicate]
        clauses == IF scan.fragment = NoFragment
                   THEN IF scan.names = {} THEN rendered ELSE Raises
                   ELSE IF predicate = NoPredicate
                   THEN RenderFragment(style, rendered)
                   ELSE Clauses(RenderFragment(style, rendered), rendered)
    IN  Followed(Projection, clauses)

(* query % values of PyMySQL, which it leaves out when there are no values. *)
FormatNode(from, text, values, i, k) ==
    IF i > Len(text) THEN IF k > Len(values) THEN Text(NoText) ELSE Raises
    ELSE IF text[i] # "%" THEN Followed(Text(<<text[i]>>), from[i + 1][k])
    ELSE IF i < Len(text) /\ text[i + 1] = "%" THEN Followed(Text(<<"%">>), from[i + 2][k])
    ELSE IF i < Len(text) /\ text[i + 1] = "s" /\ k <= Len(values)
         THEN Followed(Text(<<values[k]>>), from[i + 2][k + 1])
    ELSE Raises

Format(text, values) ==
    LET from[i \in 1 .. Len(text) + 1] ==
            [k \in 1 .. Len(values) + 1 |-> FormatNode(from, text, values, i, k)]
    IN  from

Materialize(built) ==
    IF built.values = <<>> THEN built ELSE Format(built.text, built.values)[1][1]

-------------------------------------------------------------------------------
(* get_tasks, from the pushdowns to a task *)

Compile ==
    /\ phase = "new"
    /\ predicate' = CompileFilter(scan.filter)
    /\ phase' = IF scan.split = "auto" THEN "planning" ELSE "building"
    /\ UNCHANGED <<scan, planned, query, sent>>

(* A text that cannot be formatted is a DiscoveryError: the scan goes on
   without a plan, or ends if its discovery_policy is "error". *)
PlanQuery ==
    /\ phase = "planning"
    /\ BuildSelect("mysql").ok
    /\ LET text == Materialize(BuildSelect("mysql"))
       IN  planned' = IF text.ok THEN text.text ELSE NoText
    /\ phase' = "building"
    /\ UNCHANGED <<scan, predicate, query, sent>>

Build ==
    /\ phase = "building"
    /\ BuildSelect(scan.style).ok
    /\ query' = BuildSelect(scan.style)
    /\ phase' = "built"
    /\ UNCHANGED <<scan, predicate, planned, sent>>

BuildRaises ==
    /\ \/ phase = "planning" /\ ~BuildSelect("mysql").ok
       \/ phase = "building" /\ ~BuildSelect(scan.style).ok
    /\ phase' = "raised"
    /\ UNCHANGED <<scan, predicate, planned, query, sent>>

Send ==
    /\ phase = "built"
    /\ LET text == Materialize(query)
       IN  /\ phase' = IF text.ok THEN "sent" ELSE "unsendable"
           /\ sent' = text.text
    /\ UNCHANGED <<scan, predicate, planned, query>>

Over == phase \in {"sent", "unsendable", "raised"} /\ UNCHANGED vars

Next == Compile \/ PlanQuery \/ Build \/ BuildRaises \/ Send \/ Over

Spec == Init /\ [][Next]_vars

-------------------------------------------------------------------------------
(* Properties *)

(* Every variable keeps its type; no value is left to be bound in a query for
   Flight, which cannot bind one. *)
TypeOK ==
    /\ scan \in Scans
    /\ phase \in {"new", "planning", "building", "built",
                  "sent", "unsendable", "raised"}
    /\ predicate = NoPredicate \/ IsPredicate(predicate)
    /\ query.ok
    /\ scan.style = "flight" => query.values = <<>>

(* A filter that is pushed down is exact: Doris selects a row if and only if
   Daft's own evaluation of the filter keeps it.  A filter that kept fewer
   would lose rows, and one that selected more would let the pushed limit be
   filled with rows that Daft drops. *)
FilterIsExact ==
    predicate # NoPredicate =>
        \A row \in [Columns -> Values \cup {NULL}] :
            Selects(row)[predicate] = "true" <=>
            Evaluate(row)[scan.filter] = "true"

(* What a reader of SQL sees of a fragment: whether each character is inside
   of a quoted value, without looking ahead. *)
Reader(mode, c) ==
    CASE mode = Outside -> IF c \in Quotes THEN c ELSE Outside
      [] mode = "escaped" -> "quote"
      [] mode = "quote" /\ c = "slash" -> "escaped"
      [] OTHER -> IF c = mode THEN Outside ELSE mode

Mode(f) ==
    LET mode[i \in 1 .. Len(f) + 1] ==
            IF i = 1 THEN Outside ELSE Reader(mode[i - 1], f[i - 1])
    IN  mode

Markers(f) == {i \in DOMAIN f : Mode(f)[i] = Outside /\ IsMarker(f, i)}

WellFormed(f) ==
    /\ Mode(f)[Len(f) + 1] = Outside
    /\ \A i \in Markers(f) : Name(f, i) \in scan.names
    /\ scan.names # {} => Markers(f) # {}

(* The only queries that cannot be built are those of a fragment with an open
   quote, with a marker without a value, or with a value without a marker: a
   filter that compiled never fails later, and no marker in a quoted value
   counts. *)
RaisesOnlyForFragments ==
    phase \in {"sent", "unsendable", "raised"} =>
        (phase = "raised" <=> ~WellFormed(scan.fragment))

(* The fragment with the value in the place of each marker and its name. *)
FragmentMeant(f) ==
    LET Named(i) == \E m \in Markers(f) : m < i /\ i <= NameEnd(f, m + 1)
        from[i \in 1 .. Len(f) + 1] ==
            IF i > Len(f) THEN <<>>
            ELSE (IF i \in Markers(f) THEN <<"value">>
                  ELSE IF Named(i) THEN <<>> ELSE <<f[i]>>) \o from[i + 1]
    IN  from

Meant ==
    Projection.text \o FragmentMeant(scan.fragment)[1]
    \o (IF predicate = NoPredicate THEN <<>>
        ELSE (IF scan.fragment = NoFragment THEN <<>> ELSE <<"and">>)
             \o RenderPredicate("flight")[predicate].text)

NamesPercent == "p" \in ToSet(Meant)

(* Over both transports Doris gets the fragment as written, with each value at
   its marker, and the filter: the text PyMySQL formats has every percent sign
   back and every value in its place.  Only a column whose name has a percent
   sign makes a query that cannot be formatted. *)
StatementIsMeant ==
    /\ phase = "sent" => sent = Meant
    /\ phase = "unsendable" => NamesPercent

(* The FE prunes tablets for the rows that the tasks select: the text of the
   planning request is that of the tasks' query, whatever their transport. *)
PlannedAsRead ==
    phase = "sent" /\ scan.split = "auto" =>
        planned = sent \/ (planned = NoText /\ NamesPercent)
===============================================================================
