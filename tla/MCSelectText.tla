----------------------------- MODULE MCSelectText -----------------------------
(* Instances of SelectText for TLC: fragments of every text with few filters,  *)
(* and every filter with few fragments.                                        *)
EXTENDS SelectText

CONSTANT MaxLength     \* of a fragment

Fragments == SeqOf(Characters, MaxLength)
FewFragments == {NoFragment, <<":", "s">>, <<"quote", "%", "quote">>,
                 <<"%", ":", "s">>}

A == <<"column", "a">>
P == <<"column", "p">>
Lit(v) == <<"literal", v>>
Leaves == {A, P, Lit(0), Lit(NULL), Lit(Refused)}

Atoms ==
    {<<op, l, r>> : op \in Comparisons, l \in Leaves, r \in Leaves}
    \cup {<<"between", A, l, r>> : l \in Leaves, r \in Leaves \cup {Lit(1)}}
    \cup {<<"is_in", l, items>> : l \in Leaves, items \in
             {<<>>, <<Lit(0)>>, <<Lit(1), Lit(0)>>, <<Lit(0), Lit(NULL)>>, <<P>>}}
    \cup {<<test, l>> : test \in {"is_null", "not_null"}, l \in Leaves}
    \cup {A, <<"cast", A>>}

FewAtoms == {<<"<", A, Lit(1)>>, <<"!=", P, A>>, <<"is_null", P>>,
             <<"between", A, P, Lit(1)>>, <<"is_in", P, <<Lit(0), Lit(1)>>>>,
             <<"=", A, Lit(NULL)>>, A}

Filters ==
    Atoms \cup {<<"not", e>> : e \in Atoms}
          \cup {<<c, l, r>> : c \in Connectives, l \in FewAtoms, r \in FewAtoms}
          \cup {<<"not", <<c, l, r>>>> :
                   c \in Connectives, l \in FewAtoms, r \in FewAtoms}
          \cup {<<c, l, <<"not", r>>>> :
                   c \in Connectives, l \in FewAtoms, r \in FewAtoms}

(* The filters and whatever they are made of. *)
MCExpressions ==
    Filters \cup Atoms \cup FewAtoms \cup Leaves \cup {Lit(1)}
    \cup {<<"not", r>> : r \in FewAtoms}
    \cup {<<c, l, r>> : c \in Connectives, l \in FewAtoms, r \in FewAtoms}
FewFilters == {<<"cast", A>>, <<"is_null", A>>, <<"=", A, Lit(0)>>}

Every(fragments, filters) ==
    [fragment : fragments, names : {{}, {<<"s">>}}, filter : filters,
     columns : {<<"a">>, <<"p">>}, style : {"mysql", "flight"},
     split : {"single", "auto"}]

MCDepth[e \in MCExpressions] ==
    IF Operands(e) = {} THEN 0 ELSE 1 + Max({MCDepth[x] : x \in Operands(e)})

MCScans == Every(Fragments, FewFilters) \cup Every(FewFragments, Filters)
===============================================================================
