--------------------------- MODULE SelectTextProofs ---------------------------
(***************************************************************************)
(* What is true of the text of a query for every filter, every fragment    *)
(* and every list of columns.                                              *)
(***************************************************************************)
EXTENDS SelectText, SequenceTheorems, WellFoundedInduction, TLAPS

-------------------------------------------------------------------------------
(* Recursive functions *)

(* Induction over the natural numbers, for a set instead of a predicate. *)
LEMMA AllNaturals ==
  ASSUME NEW S \in SUBSET Nat, 0 \in S, \A n \in S : n + 1 \in S
  PROVE  S = Nat
<1> DEFINE T == Nat \ S
<1> SUFFICES ASSUME T # {} PROVE FALSE
  OBVIOUS
<1>1. PICK least \in T : \A n \in T : <<n, least>> \notin OpToRel(<, Nat)
  BY NatLessThanWellFounded, WFMin
<1>2. \A n \in T : ~(n < least)
  BY <1>1 DEF OpToRel
<1>3. least - 1 \in S
  BY <1>2
<1>4. QED
  BY <1>3

(* The value for e depends only on the values for arguments of less depth. *)
Descends(E, V, depth, Step) ==
    /\ depth \in [E -> Nat]
    /\ Step \in [[E -> V] -> [E -> V]]
    /\ \A f, g \in [E -> V] : \A e \in E :
         (\A x \in E : depth[x] < depth[e] => f[x] = g[x]) => Step[f][e] = Step[g][e]

(* Then the equation F = Step[F] defines a function. *)
LEMMA Recursion ==
  ASSUME NEW E, NEW V, NEW v \in V, NEW depth, NEW Step, Descends(E, V, depth, Step)
  PROVE  \E f \in [E -> V] : f = Step[f]
<1> USE DEF Descends
<1> DEFINE Fixed(f, n) == \A e \in E : depth[e] < n => f[e] = Step[f][e]
           S == {n \in Nat : \E f \in [E -> V] : Fixed(f, n)}
<1>1. 0 \in S
  <2>1. [e \in E |-> v] \in [E -> V]
    OBVIOUS
  <2>2. Fixed([e \in E |-> v], 0)
    OBVIOUS
  <2>3. QED
    BY <2>1, <2>2
<1>2. ASSUME NEW n \in S
      PROVE  n + 1 \in S
  <2>1. PICK f \in [E -> V] : Fixed(f, n)
    OBVIOUS
  <2> DEFINE g == Step[f]
  <2>2. g \in [E -> V]
    OBVIOUS
  <2>3. ASSUME NEW e \in E, depth[e] < n + 1
        PROVE  g[e] = Step[g][e]
    <3>1. \A x \in E : depth[x] < depth[e] => g[x] = f[x]
      BY <2>1, <2>3
    <3>2. Step[g][e] = Step[f][e]
      BY <2>2, <3>1
    <3>3. QED
      BY <3>2
  <2>4. Fixed(g, n + 1)
    BY <2>3
  <2>5. QED
    BY <2>2, <2>4
<1>3. S = Nat
  <2> HIDE DEF S
  <2>1. S \in SUBSET Nat
    BY DEF S
  <2>2. QED
    BY <1>1, <1>2, <2>1, AllNaturals
<1>4. \A n \in Nat : \E f \in [E -> V] : Fixed(f, n)
  BY <1>3
<1>5. ASSUME NEW f \in [E -> V], NEW g \in [E -> V], NEW m \in Nat, NEW n \in Nat,
             Fixed(f, m), Fixed(g, n)
      PROVE  \A e \in E : depth[e] < m /\ depth[e] < n => f[e] = g[e]
  <2> DEFINE A == {k \in Nat : \A e \in E : depth[e] < k /\ depth[e] < m /\ depth[e] < n
                                            => f[e] = g[e]}
  <2>1. 0 \in A
    OBVIOUS
  <2>2. ASSUME NEW k \in A
        PROVE  k + 1 \in A
    <3>1. ASSUME NEW e \in E, depth[e] < k + 1, depth[e] < m, depth[e] < n
          PROVE  f[e] = g[e]
      <4>1. \A x \in E : depth[x] < depth[e] => f[x] = g[x]
        BY <3>1
      <4>2. Step[f][e] = Step[g][e]
        BY <4>1
      <4>3. QED
        BY <1>5, <3>1, <4>2
    <3>2. QED
      BY <3>1
  <2>3. A = Nat
    <3> HIDE DEF A
    <3>1. A \in SUBSET Nat
      BY DEF A
    <3>2. QED
      BY <2>1, <2>2, <3>1, AllNaturals
  <2>4. ASSUME NEW e \in E, depth[e] < m, depth[e] < n
        PROVE  f[e] = g[e]
    <3>1. depth[e] + 1 \in A
      BY <2>3
    <3>2. QED
      BY <3>1, <2>4
  <2>5. QED
    BY <2>4
<1> DEFINE F(n) == CHOOSE f \in [E -> V] : Fixed(f, n)
           G == [e \in E |-> F(depth[e] + 1)[e]]
<1>6. \A n \in Nat : F(n) \in [E -> V] /\ Fixed(F(n), n)
  BY <1>4
<1>7. G \in [E -> V]
  <2> HIDE DEF F
  <2>1. \A e \in E : depth[e] + 1 \in Nat
    OBVIOUS
  <2>2. \A e \in E : F(depth[e] + 1) \in [E -> V]
    BY <1>6, <2>1
  <2>3. QED
    BY <2>2
<1>8. ASSUME NEW e \in E
      PROVE  G[e] = Step[G][e]
  <2> DEFINE n == depth[e] + 1
  <2> HIDE DEF F, Fixed
  <2>1. n \in Nat /\ F(n) \in [E -> V] /\ Fixed(F(n), n)
    BY <1>6
  <2>2. ASSUME NEW x \in E, depth[x] < depth[e]
        PROVE  G[x] = F(n)[x]
    <3>1. depth[x] + 1 \in Nat /\ depth[x] < depth[x] + 1 /\ depth[x] < n
      BY <2>2
    <3>2. F(depth[x] + 1) \in [E -> V] /\ Fixed(F(depth[x] + 1), depth[x] + 1)
      BY <1>6, <3>1
    <3> HIDE DEF n
    <3>3. F(depth[x] + 1)[x] = F(n)[x]
      BY <1>5, <2>1, <3>1, <3>2
    <3>4. QED
      BY <3>3
  <2>3. Step[G][e] = Step[F(n)][e]
    BY <1>7, <2>1, <2>2
  <2>4. F(n)[e] = Step[F(n)][e]
    <3>1. depth[e] < n
      OBVIOUS
    <3>2. QED
      BY <2>1, <3>1 DEF Fixed
  <2>5. QED
    BY <2>3, <2>4
<1>9. G = Step[G]
  <2> HIDE DEF G
  <2>1. Step[G] \in [E -> V]
    BY <1>7
  <2>2. QED
    BY <1>7, <1>8, <2>1
<1>10. QED
  BY <1>7, <1>9

(* The functions f and g are equal for e when they are for all of less depth. *)
Agree(E, depth, f, g) ==
    /\ depth \in [E -> Nat]
    /\ \A e \in E : (\A x \in E : depth[x] < depth[e] => f[x] = g[x]) => f[e] = g[e]

(* Then they are equal. *)
LEMMA SameRecursion ==
  ASSUME NEW E, NEW depth, NEW f, NEW g, Agree(E, depth, f, g)
  PROVE  \A e \in E : f[e] = g[e]
<1> USE DEF Agree
<1> DEFINE A == {k \in Nat : \A e \in E : depth[e] < k => f[e] = g[e]}
<1>1. 0 \in A
  OBVIOUS
<1>2. ASSUME NEW k \in A
      PROVE  k + 1 \in A
  <2>1. ASSUME NEW e \in E, depth[e] < k + 1
        PROVE  f[e] = g[e]
    <3>1. \A x \in E : depth[x] < depth[e] => f[x] = g[x]
      BY <2>1
    <3>2. QED
      BY <3>1
  <2>2. QED
    BY <2>1
<1>3. A = Nat
  <2> HIDE DEF A
  <2>1. A \in SUBSET Nat
    BY DEF A
  <2>2. QED
    BY <1>1, <1>2, <2>1, AllNaturals
<1>4. ASSUME NEW e \in E
      PROVE  f[e] = g[e]
  <2>1. depth[e] + 1 \in A
    BY <1>3
  <2>2. QED
    BY <2>1
<1>5. QED
  BY <1>4

-------------------------------------------------------------------------------
(* What a filter compiles to *)

(* What an expression becomes depends on its operands only. *)
LEMMA VisitLocal ==
  ASSUME NEW f, NEW g, NEW e, \A x \in Operands(e) : f[x] = g[x]
  PROVE  VisitNode(f, e) = VisitNode(g, e)
<1>1. CASE e[1] \in Comparisons
  <2>1. f[e[2]] = g[e[2]] /\ f[e[3]] = g[e[3]]
    BY <1>1 DEF Operands, Comparisons, Connectives
  <2>2. QED
    BY <1>1, <2>1 DEF VisitNode, Comparisons
<1>2. CASE e[1] \in Connectives
  <2>1. f[e[2]] = g[e[2]] /\ f[e[3]] = g[e[3]]
    BY <1>2 DEF Operands, Comparisons, Connectives
  <2>2. QED
    BY <1>2, <2>1 DEF VisitNode, Comparisons, Connectives
<1>3. CASE e[1] \in {"not", "is_null", "not_null"}
  <2>1. f[e[2]] = g[e[2]]
    BY <1>3 DEF Operands, Comparisons, Connectives
  <2>2. QED
    BY <1>3, <2>1 DEF VisitNode, Comparisons, Connectives
<1>4. CASE e[1] = "between"
  <2>1. f[e[2]] = g[e[2]] /\ f[e[3]] = g[e[3]] /\ f[e[4]] = g[e[4]]
    BY <1>4 DEF Operands, Comparisons, Connectives
  <2>2. QED
    BY <1>4, <2>1 DEF VisitNode, Comparisons, Connectives
<1>5. CASE e[1] = "is_in"
  <2>1. Operands(e) = {e[2]} \cup ToSet(e[3])
    BY <1>5 DEF Operands, Comparisons, Connectives
  <2>2. \A i \in DOMAIN e[3] : e[3][i] \in ToSet(e[3])
    BY DEF ToSet
  <2>3. [i \in DOMAIN e[3] |-> f[e[3][i]]] = [i \in DOMAIN e[3] |-> g[e[3][i]]]
    BY <2>1, <2>2
  <2>4. f[e[2]] = g[e[2]]
    BY <2>1
  <2>5. QED
    BY <1>5, <2>3, <2>4 DEF VisitNode, Comparisons, Connectives
<1>6. QED
  BY <1>1, <1>2, <1>3, <1>4, <1>5 DEF VisitNode, Comparisons, Connectives

(* Visit is the function its definition describes. *)
LEMMA VisitStep ==
  \A e \in Expressions : Visit[e] = VisitNode(Visit, e)
<1> DEFINE Fixed(f, n) ==
             \A e \in Expressions : Depth[e] < n => f[e] = VisitNode(f, e)
           S == {n \in Nat : \E f : Fixed(f, n)}
<1>1. 0 \in S
  <2>1. \A e \in Expressions : Depth[e] \in Nat
    BY ExpressionAssumption
  <2>2. Fixed([e \in Expressions |-> e], 0)
    BY <2>1
  <2>3. QED
    BY <2>2
<1>0. \A f, g : \A e \in Expressions :
        (\A x \in Expressions : Depth[x] < Depth[e] => f[x] = g[x])
        => VisitNode(f, e) = VisitNode(g, e)
  BY VisitLocal, ExpressionAssumption
<1>D. \A e \in Expressions : Depth[e] \in Nat
  BY ExpressionAssumption
<1>2. ASSUME NEW n \in S
      PROVE  n + 1 \in S
  <2>1. PICK f : Fixed(f, n)
    OBVIOUS
  <2> DEFINE g == [e \in Expressions |-> VisitNode(f, e)]
  <2>3. ASSUME NEW e \in Expressions, Depth[e] < n + 1
        PROVE  g[e] = VisitNode(g, e)
    <3>1. \A x \in Expressions : Depth[x] < Depth[e] => g[x] = f[x]
      BY <1>D, <2>1, <2>3
    <3> HIDE DEF g
    <3>2. VisitNode(g, e) = VisitNode(f, e)
      BY <1>0, <3>1
    <3>3. QED
      BY <3>2 DEF g
  <2>4. Fixed(g, n + 1)
    BY <2>3
  <2>5. \E h : Fixed(h, n + 1)
    <3> HIDE DEF Fixed, g
    <3>1. QED
      BY <2>4
  <2>6. QED
    BY <2>5
<1>3. S = Nat
  <2> HIDE DEF S
  <2>1. S \in SUBSET Nat
    BY DEF S
  <2>2. QED
    BY <1>1, <1>2, <2>1, AllNaturals
<1>4. \A n \in Nat : \E f : Fixed(f, n)
  BY <1>3
<1>5. ASSUME NEW f, NEW g, NEW m \in Nat, NEW n \in Nat, Fixed(f, m), Fixed(g, n)
      PROVE  \A e \in Expressions : Depth[e] < m /\ Depth[e] < n => f[e] = g[e]
  <2> DEFINE A == {k \in Nat : \A e \in Expressions :
                     Depth[e] < k /\ Depth[e] < m /\ Depth[e] < n => f[e] = g[e]}
  <2>1. 0 \in A
    BY <1>D
  <2>2. ASSUME NEW k \in A
        PROVE  k + 1 \in A
    <3>1. ASSUME NEW e \in Expressions, Depth[e] < k + 1, Depth[e] < m, Depth[e] < n
          PROVE  f[e] = g[e]
      <4>1. \A x \in Expressions : Depth[x] < Depth[e] => f[x] = g[x]
        BY <3>1, <1>D
      <4>2. VisitNode(f, e) = VisitNode(g, e)
        BY <4>1, <1>0
      <4>3. QED
        BY <1>5, <3>1, <4>2
    <3>2. QED
      BY <3>1
  <2>3. A = Nat
    <3> HIDE DEF A
    <3>1. A \in SUBSET Nat
      BY DEF A
    <3>2. QED
      BY <2>1, <2>2, <3>1, AllNaturals
  <2>4. ASSUME NEW e \in Expressions, Depth[e] < m, Depth[e] < n
        PROVE  f[e] = g[e]
    <3>1. Depth[e] + 1 \in A
      BY <1>D, <2>3
    <3>2. QED
      BY <1>D, <3>1, <2>4
  <2>5. QED
    BY <2>4
<1> DEFINE F(n) == CHOOSE f : Fixed(f, n)
           G == [e \in Expressions |-> VisitNode(F(Depth[e]), e)]
<1>6. \A n \in Nat : Fixed(F(n), n)
  BY <1>4
<1>7. ASSUME NEW e \in Expressions
      PROVE  G[e] = VisitNode(G, e)
  <2> DEFINE n == Depth[e]
  <2> HIDE DEF F, Fixed
  <2>1. n \in Nat /\ Fixed(F(n), n)
    BY <1>6, <1>D
  <2>2. ASSUME NEW x \in Expressions, Depth[x] < n
        PROVE  G[x] = F(n)[x]
    <3>1. Depth[x] \in Nat /\ Fixed(F(Depth[x]), Depth[x])
      BY <1>6, <1>D
    <3> HIDE DEF n
    <3>2. \A y \in Expressions : Depth[y] < Depth[x] => F(Depth[x])[y] = F(n)[y]
      BY <1>5, <1>D, <2>1, <2>2, <3>1
    <3>3. VisitNode(F(Depth[x]), x) = VisitNode(F(n), x)
      BY <1>0, <3>2
    <3>4. F(n)[x] = VisitNode(F(n), x)
      BY <2>1, <2>2 DEF Fixed
    <3>5. QED
      BY <3>3, <3>4
  <2> HIDE DEF G
  <2>3. VisitNode(G, e) = VisitNode(F(n), e)
    BY <1>0, <2>2
  <2>4. QED
    BY <2>3 DEF G
<1>8. \E f : f = [e \in Expressions |-> VisitNode(f, e)]
  <2>1. G = [e \in Expressions |-> VisitNode(G, e)]
    BY <1>7
  <2>2. QED
    BY <2>1
<1>9. Visit = [e \in Expressions |-> VisitNode(Visit, e)]
  BY <1>8 DEF Visit
<1>10. QED
  BY <1>9

(* Visit, one kind of expression at a time. *)
LEMMA VisitKinds ==
  ASSUME NEW e \in Expressions
  PROVE  /\ IsColumn(e) => Visit[e] = e
         /\ IsLiteral(e) => Visit[e] = OrUnsupported(e[2] # Refused, e)
         /\ e[1] \in Comparisons =>
              Visit[e] = CompareValues(e[1], Visit[e[2]], Visit[e[3]])
         /\ e[1] \in Connectives =>
              Visit[e] = OrUnsupported(IsPredicate(Visit[e[2]]) /\ IsPredicate(Visit[e[3]]),
                                              <<e[1], Visit[e[2]], Visit[e[3]]>>)
         /\ e[1] = "not" =>
              Visit[e] = OrUnsupported(IsPredicate(Visit[e[2]]), <<"not", Visit[e[2]]>>)
         /\ e[1] = "between" => Visit[e] = Between(Visit[e[2]], Visit[e[3]], Visit[e[4]])
         /\ e[1] = "is_in" =>
              Visit[e] = InValues(Visit[e[2]], [i \in DOMAIN e[3] |-> Visit[e[3][i]]])
         /\ e[1] \in {"is_null", "not_null"} =>
              Visit[e] = OrUnsupported(IsColumn(Visit[e[2]]),
                                              <<"isnull", Visit[e[2]],
                                          IF e[1] = "is_null" THEN "plain" ELSE "negated">>)
         /\ \/ IsValue(e) \/ e[1] \in Comparisons \cup Connectives
            \/ e[1] \in {"not", "between", "is_in", "is_null", "not_null"}
            \/ Visit[e] = Unsupported
BY VisitStep DEF VisitNode, IsColumn, IsLiteral, IsValue, Comparisons, Connectives

LEMMA OperandKinds ==
  ASSUME NEW e
  PROVE  /\ e[1] \in Comparisons \cup Connectives => Operands(e) = {e[2], e[3]}
         /\ e[1] \in {"not", "is_null", "not_null"} => Operands(e) = {e[2]}
         /\ e[1] = "between" => Operands(e) = {e[2], e[3], e[4]}
         /\ e[1] = "is_in" => Operands(e) = {e[2]} \cup ToSet(e[3])
BY DEF Operands, Comparisons, Connectives

ColumnOf(x) == \E name \in Columns : x = <<"column", name>>
ConstantOf(x) == \E value \in Values : x = <<"literal", value>>
Comparable(x) == ColumnOf(x) \/ ConstantOf(x)

(* Only a column and an accepted literal are values once visited. *)
LEMMA VisitedValues ==
  ASSUME NEW e \in Expressions, IsValue(Visit[e])
  PROVE  /\ Visit[e] = e
         /\ IsColumn(e) => ColumnOf(e)
         /\ IsLiteral(e) => e = <<"literal", NULL>> \/ ConstantOf(e)
<1>1. CASE IsColumn(e)
  <2>1. Visit[e] = e
    BY <1>1, VisitKinds
  <2>2. ColumnOf(e) /\ ~IsLiteral(e)
    BY <1>1, ExpressionAssumption DEF ColumnOf, IsColumn, IsLiteral
  <2>3. QED
    BY <2>1, <2>2
<1>2. CASE IsLiteral(e)
  <2>1. PICK value \in Values \cup {NULL, Refused} : e = <<"literal", value>>
    BY <1>2, ExpressionAssumption
  <2>2. Visit[e] = OrUnsupported(e[2] # Refused, e)
    BY <1>2, VisitKinds
  <2>3. e[2] # Refused /\ Visit[e] = e
    BY <2>2 DEF OrUnsupported, Unsupported, IsValue, IsColumn, IsLiteral
  <2>4. value # Refused
    BY <2>1, <2>3
  <2>5. QED
    BY <1>2, <2>1, <2>3, <2>4 DEF ConstantOf, IsColumn, IsLiteral
<1>3. CASE ~IsValue(e)
  <2>1. Visit[e][1] \notin {"column", "literal"}
    <3>1. CASE e[1] \in Comparisons
      <4>1. Visit[e] = CompareValues(e[1], Visit[e[2]], Visit[e[3]])
        BY <3>1, VisitKinds
      <4>2. QED
        BY <4>1 DEF CompareValues, OrUnsupported, Unsupported
    <3>2. CASE e[1] \in Connectives
      <4>1. Visit[e] \in {Unsupported, <<e[1], Visit[e[2]], Visit[e[3]]>>}
        BY <3>2, VisitKinds DEF OrUnsupported
      <4>2. e[1] \notin {"column", "literal"}
        BY <3>2 DEF Connectives
      <4>3. QED
        BY <4>1, <4>2 DEF Unsupported
    <3>3. CASE e[1] = "not"
      <4>1. Visit[e] \in {Unsupported, <<"not", Visit[e[2]]>>}
        BY <3>3, VisitKinds DEF OrUnsupported
      <4>2. QED
        BY <4>1 DEF Unsupported
    <3>4. CASE e[1] = "between"
      <4>1. Visit[e] = Between(Visit[e[2]], Visit[e[3]], Visit[e[4]])
        BY <3>4, VisitKinds
      <4>2. QED
        BY <4>1 DEF Between, OrUnsupported, Unsupported
    <3>5. CASE e[1] = "is_in"
      <4>1. Visit[e] = InValues(Visit[e[2]], [i \in DOMAIN e[3] |-> Visit[e[3][i]]])
        BY <3>5, VisitKinds
      <4>2. QED
        BY <4>1 DEF InValues, OrUnsupported, Unsupported
    <3>6. CASE e[1] \in {"is_null", "not_null"}
      <4>1. Visit[e] \in {Unsupported, <<"isnull", Visit[e[2]],
                                     IF e[1] = "is_null" THEN "plain" ELSE "negated">>}
        BY <3>6, VisitKinds DEF OrUnsupported
      <4>2. QED
        BY <4>1 DEF Unsupported
    <3>7. CASE Visit[e] = Unsupported
      BY <3>7 DEF Unsupported
    <3>8. \/ e[1] \in Comparisons \/ e[1] \in Connectives
          \/ e[1] = "not" \/ e[1] = "between" \/ e[1] = "is_in"
          \/ e[1] \in {"is_null", "not_null"} \/ Visit[e] = Unsupported
      BY <1>3, VisitKinds
    <3>9. QED
      BY <3>1, <3>2, <3>3, <3>4, <3>5, <3>6, <3>7, <3>8
  <2>2. QED
    BY <2>1 DEF IsValue, IsColumn, IsLiteral
<1>4. QED
  BY <1>1, <1>2, <1>3 DEF IsValue

(* The comparison of two operands is supported if both are values and neither
   is NULL. *)
LEMMA Compared ==
  ASSUME NEW op, NEW l \in Expressions, NEW r \in Expressions,
         CompareValues(op, Visit[l], Visit[r]) # Unsupported
  PROVE  /\ CompareValues(op, Visit[l], Visit[r]) = <<"compare", op, l, r>>
         /\ Comparable(l) /\ Comparable(r)
<1>1. /\ IsValue(Visit[l]) /\ IsValue(Visit[r])
      /\ <<"literal", NULL>> # Visit[l] /\ <<"literal", NULL>> # Visit[r]
      /\ CompareValues(op, Visit[l], Visit[r]) = <<"compare", op, Visit[l], Visit[r]>>
  BY DEF CompareValues, OrUnsupported
<1>2. Visit[l] = l /\ Visit[r] = r
  BY <1>1, VisitedValues
<1>3. Comparable(l) /\ Comparable(r)
  BY <1>1, <1>2, VisitedValues DEF IsValue, Comparable
<1>4. QED
  BY <1>1, <1>2, <1>3

(* What a supported filter is, and what it compiles to. *)
LEMMA SupportedKinds ==
  ASSUME NEW e \in Supported
  PROVE  \/ /\ e[1] \in Comparisons
            /\ Visit[e] = <<"compare", e[1], e[2], e[3]>>
            /\ Comparable(e[2]) /\ Comparable(e[3])
         \/ /\ e[1] \in Connectives
            /\ Visit[e] = <<e[1], Visit[e[2]], Visit[e[3]]>>
            /\ e[2] \in Supported /\ e[3] \in Supported
            /\ Depth[e[2]] < Depth[e] /\ Depth[e[3]] < Depth[e]
         \/ /\ e[1] = "not"
            /\ Visit[e] = <<"not", Visit[e[2]]>>
            /\ e[2] \in Supported /\ Depth[e[2]] < Depth[e]
         \/ /\ e[1] = "between"
            /\ Visit[e] = <<"and", <<"compare", ">=", e[2], e[3]>>,
                                   <<"compare", "<=", e[2], e[4]>>>>
            /\ Comparable(e[2]) /\ Comparable(e[3]) /\ Comparable(e[4])
         \/ /\ e[1] = "is_in"
            /\ Visit[e] = <<"in", e[2], e[3]>>
            /\ ColumnOf(e[2])
            /\ e[3] \in Seq(Expressions) /\ e[3] # <<>>
            /\ \A i \in DOMAIN e[3] : ConstantOf(e[3][i])
         \/ /\ e[1] \in {"is_null", "not_null"}
            /\ Visit[e] = <<"isnull", e[2], IF e[1] = "is_null" THEN "plain"
                                                                  ELSE "negated">>
            /\ ColumnOf(e[2])
<1>1. e \in Expressions /\ IsPredicate(Visit[e])
  BY DEF Supported
<1>2. Visit[e] # Unsupported
  BY <1>1 DEF IsPredicate, Unsupported
<1>3. \A x \in Operands(e) : x \in Expressions /\ Depth[x] < Depth[e]
  BY <1>1, ExpressionAssumption
<1>4. CASE e[1] \in Comparisons
  <2>1. e[2] \in Expressions /\ e[3] \in Expressions
    BY <1>3, <1>4, OperandKinds
  <2>2. Visit[e] = CompareValues(e[1], Visit[e[2]], Visit[e[3]])
    BY <1>1, <1>4, VisitKinds
  <2>3. CompareValues(e[1], Visit[e[2]], Visit[e[3]]) # Unsupported
    BY <1>2, <2>2
  <2>4. /\ CompareValues(e[1], Visit[e[2]], Visit[e[3]]) = <<"compare", e[1], e[2], e[3]>>
        /\ Comparable(e[2]) /\ Comparable(e[3])
    BY <2>1, <2>3, Compared
  <2>5. Visit[e] = <<"compare", e[1], e[2], e[3]>>
    BY <2>2, <2>4, Zenon
  <2>6. QED
    BY <1>4, <2>4, <2>5, Zenon
<1>5. CASE e[1] \in Connectives
  <2>1. e[2] \in Operands(e) /\ e[3] \in Operands(e)
    BY <1>5, OperandKinds
  <2>2. /\ IsPredicate(Visit[e[2]]) /\ IsPredicate(Visit[e[3]])
        /\ Visit[e] = <<e[1], Visit[e[2]], Visit[e[3]]>>
    BY <1>1, <1>2, <1>5, VisitKinds DEF OrUnsupported
  <2>3. QED
    BY <1>3, <1>5, <2>1, <2>2 DEF Supported
<1>6. CASE e[1] = "not"
  <2>1. e[2] \in Operands(e)
    BY <1>6, OperandKinds
  <2>2. IsPredicate(Visit[e[2]]) /\ Visit[e] = <<"not", Visit[e[2]]>>
    BY <1>1, <1>2, <1>6, VisitKinds DEF OrUnsupported
  <2>3. QED
    BY <1>3, <1>6, <2>1, <2>2 DEF Supported
<1>7. CASE e[1] = "between"
  <2>1. e[2] \in Expressions /\ e[3] \in Expressions /\ e[4] \in Expressions
    BY <1>3, <1>7, OperandKinds
  <2>2. Visit[e] = Between(Visit[e[2]], Visit[e[3]], Visit[e[4]])
    BY <1>1, <1>7, VisitKinds
  <2> DEFINE least == CompareValues(">=", Visit[e[2]], Visit[e[3]])
             most == CompareValues("<=", Visit[e[2]], Visit[e[4]])
  <2>3. /\ least # Unsupported /\ most # Unsupported
        /\ Visit[e] = <<"and", least, most>>
    BY <1>2, <2>2 DEF Between, OrUnsupported
  <2>4. /\ least = <<"compare", ">=", e[2], e[3]>>
        /\ Comparable(e[2]) /\ Comparable(e[3])
    BY <2>1, <2>3, Compared
  <2>5. /\ most = <<"compare", "<=", e[2], e[4]>> /\ Comparable(e[4])
    BY <2>1, <2>3, Compared
  <2> HIDE DEF least, most
  <2>6. QED
    BY <1>7, <2>3, <2>4, <2>5
<1>8. CASE e[1] = "is_in"
  <2>1. /\ e[2] \in Expressions
        /\ e[3] \in Seq(Expressions)
    BY <1>1, <1>3, <1>8, OperandKinds, ExpressionAssumption
  <2> DEFINE items == [i \in DOMAIN e[3] |-> Visit[e[3][i]]]
  <2>2. Visit[e] = InValues(Visit[e[2]], items)
    BY <1>1, <1>8, VisitKinds
  <2>3. /\ IsColumn(Visit[e[2]]) /\ Items(items)
        /\ \A i \in DOMAIN items : IsLiteral(items[i])
        /\ Visit[e] = <<"in", Visit[e[2]], items>>
    BY <1>2, <2>2 DEF InValues, OrUnsupported
  <2>4. Visit[e[2]] = e[2] /\ ColumnOf(e[2])
    BY <2>1, <2>3, VisitedValues DEF IsValue
  <2>5. ASSUME NEW i \in DOMAIN e[3]
        PROVE  items[i] = e[3][i] /\ ConstantOf(e[3][i])
    <3>1. e[3][i] \in Expressions /\ items[i] = Visit[e[3][i]]
      BY <2>1
    <3>2. IsLiteral(items[i]) /\ items[i] # <<"literal", NULL>>
      BY <2>3 DEF Items, ToSet
    <3>3. QED
      BY <3>1, <3>2, VisitedValues DEF IsValue
  <2>6. items = e[3]
    <3>1. \A s \in Seq(Expressions) : s = [i \in DOMAIN s |-> s[i]]
      OBVIOUS
    <3>2. e[3] = [i \in DOMAIN e[3] |-> e[3][i]]
      BY <2>1, <3>1
    <3>3. items = [i \in DOMAIN e[3] |-> e[3][i]]
      BY <2>5
    <3>4. QED
      BY <3>2, <3>3
  <2>7. e[3] # <<>>
    BY <2>3, <2>6 DEF Items
  <2>8. QED
    BY <1>8, <2>1, <2>3, <2>4, <2>5, <2>6, <2>7
<1>9. CASE e[1] \in {"is_null", "not_null"}
  <2>1. e[2] \in Expressions
    BY <1>3, <1>9, OperandKinds
  <2>2. /\ IsColumn(Visit[e[2]])
        /\ Visit[e] = <<"isnull", Visit[e[2]], IF e[1] = "is_null" THEN "plain"
                                                                     ELSE "negated">>
    BY <1>1, <1>2, <1>9, VisitKinds DEF OrUnsupported
  <2>3. Visit[e[2]] = e[2] /\ ColumnOf(e[2])
    BY <2>1, <2>2, VisitedValues DEF IsValue
  <2>4. QED
    BY <1>9, <2>2, <2>3
<1>10. ~IsValue(e)
  <2>1. ~IsValue(Visit[e])
    BY <1>1 DEF IsPredicate, IsValue, IsColumn, IsLiteral
  <2>2. IsColumn(e) => Visit[e] = e
    BY <1>1, VisitKinds
  <2>3. IsLiteral(e) => Visit[e] \in {e, Unsupported}
    BY <1>1, VisitKinds DEF OrUnsupported
  <2>4. QED
    BY <1>2, <2>1, <2>2, <2>3 DEF IsValue
<1>11. \/ e[1] \in Comparisons \/ e[1] \in Connectives
       \/ e[1] = "not" \/ e[1] = "between" \/ e[1] = "is_in"
       \/ e[1] \in {"is_null", "not_null"}
  BY <1>1, <1>2, <1>10, VisitKinds
<1>12. QED
  BY <1>4, <1>5, <1>6, <1>7, <1>8, <1>9, <1>11

-------------------------------------------------------------------------------
(* What Daft and Doris make of a filter *)

Truths == {"true", "false", "null"}

LEMMA Connecting ==
  ASSUME NEW l \in Truths, NEW r \in Truths
  PROVE  /\ Not3(l) \in Truths
         /\ \A c : Connect(c, l, r) \in Truths
         /\ Not3("true") = "false" /\ Not3("false") = "true" /\ Not3("null") = "null"
BY DEF Truths, Not3, And3, Or3, Connect

LEMMA Comparing ==
  ASSUME NEW op, NEW l, NEW r
  PROVE  Compare3(op, l, r) \in Truths
<1>1. \A condition : Truth(condition) \in Truths
  BY DEF Truth, Truths
<1>2. QED
  BY <1>1 DEF Compare3, Truths

LEMMA EvaluateKinds ==
  ASSUME NEW f, NEW e \in Supported, NEW row
  PROVE  /\ e[1] \in Comparisons =>
              EvaluateNode(f, e, row) =
                Compare3(e[1], ValueIn(row, e[2]), ValueIn(row, e[3]))
         /\ e[1] \in Connectives =>
              EvaluateNode(f, e, row) = Connect(e[1], f[e[2]], f[e[3]])
         /\ e[1] = "not" => EvaluateNode(f, e, row) = Not3(f[e[2]])
         /\ e[1] = "between" =>
              EvaluateNode(f, e, row) =
                Not3(Or3(Compare3("<", ValueIn(row, e[2]), ValueIn(row, e[3])),
                         Compare3(">", ValueIn(row, e[2]), ValueIn(row, e[4]))))
         /\ e[1] = "is_in" =>
              EvaluateNode(f, e, row) =
                IF ValueIn(row, e[2]) = NULL THEN "null"
                ELSE IF \E i \in DOMAIN e[3] : e[3][i][2] = ValueIn(row, e[2])
                     THEN "true" ELSE "false"
         /\ e[1] \in {"is_null", "not_null"} =>
              EvaluateNode(f, e, row) =
                IF ValueIn(row, e[2]) = NULL <=> e[1] = "is_null" THEN "true" ELSE "false"
BY DEF EvaluateNode, Truth, Comparisons, Connectives

(* The value of a filter depends on its operands. *)
LEMMA EvaluateLocal ==
  ASSUME NEW row, NEW e \in Supported, NEW f, NEW g,
         \A x \in Supported : Depth[x] < Depth[e] => f[x] = g[x]
  PROVE  EvaluateNode(f, e, row) = EvaluateNode(g, e, row)
<1>1. CASE e[1] \in Comparisons
  <2> DEFINE value == Compare3(e[1], ValueIn(row, e[2]), ValueIn(row, e[3]))
  <2>1. /\ e[1] \notin Connectives
        /\ e[1] # "not" /\ e[1] # "between" /\ e[1] # "is_in"
    BY <1>1 DEF Comparisons, Connectives
  <2>2. \A h : EvaluateNode(h, e, row) = value
    BY <1>1, <2>1, Zenon DEF EvaluateNode
  <2>3. QED
    BY <2>2, Zenon
<1>2. CASE e[1] \in Connectives
  <2>1. f[e[2]] = g[e[2]] /\ f[e[3]] = g[e[3]]
    BY <1>2, SupportedKinds DEF Comparisons, Connectives
  <2>2. QED
    BY <1>2, <2>1, EvaluateKinds
<1>3. CASE e[1] = "not"
  <2>1. f[e[2]] = g[e[2]]
    BY <1>3, SupportedKinds DEF Comparisons, Connectives
  <2>2. QED
    BY <1>3, <2>1, EvaluateKinds
<1>4. CASE e[1] = "between"
  <2> DEFINE value == Not3(Or3(Compare3("<", ValueIn(row, e[2]), ValueIn(row, e[3])),
                               Compare3(">", ValueIn(row, e[2]), ValueIn(row, e[4]))))
  <2>1. \A h : EvaluateNode(h, e, row) = value
    BY <1>4, EvaluateKinds
  <2>2. QED
    BY <2>1
<1>5. CASE e[1] = "is_in"
  BY <1>5, EvaluateKinds
<1>6. CASE e[1] \in {"is_null", "not_null"}
  BY <1>6, EvaluateKinds
<1>7. QED
  BY <1>1, <1>2, <1>3, <1>4, <1>5, <1>6, SupportedKinds

LEMMA EvaluateTyped ==
  ASSUME NEW row, NEW e \in Supported, NEW f \in [Supported -> Truths]
  PROVE  EvaluateNode(f, e, row) \in Truths
<1>1. CASE e[1] \in Comparisons
  BY <1>1, EvaluateKinds, Comparing
<1>2. CASE e[1] \in Connectives
  <2>1. f[e[2]] \in Truths /\ f[e[3]] \in Truths
    BY <1>2, SupportedKinds DEF Comparisons, Connectives
  <2>2. EvaluateNode(f, e, row) = Connect(e[1], f[e[2]], f[e[3]])
    BY <1>2, EvaluateKinds
  <2>3. QED
    BY <2>1, <2>2, Connecting
<1>3. CASE e[1] = "not"
  <2>1. f[e[2]] \in Truths
    BY <1>3, SupportedKinds DEF Comparisons, Connectives
  <2>2. QED
    BY <1>3, <2>1, EvaluateKinds, Connecting
<1>4. CASE e[1] = "between"
  <2> DEFINE l == Compare3("<", ValueIn(row, e[2]), ValueIn(row, e[3]))
             r == Compare3(">", ValueIn(row, e[2]), ValueIn(row, e[4]))
  <2>1. l \in Truths /\ r \in Truths
    BY Comparing
  <2>2. EvaluateNode(f, e, row) = Not3(Or3(l, r))
    BY <1>4, EvaluateKinds
  <2> HIDE DEF l, r
  <2>3. Or3(l, r) \in Truths
    BY <2>1 DEF Or3, And3, Not3, Truths
  <2>4. QED
    BY <2>2, <2>3, Connecting
<1>5. CASE e[1] = "is_in"
  BY <1>5, EvaluateKinds DEF Truths
<1>6. CASE e[1] \in {"is_null", "not_null"}
  BY <1>6, EvaluateKinds DEF Truths
<1>7. QED
  BY <1>1, <1>2, <1>3, <1>4, <1>5, <1>6, SupportedKinds

LEMMA EvaluateStep ==
  ASSUME NEW row
  PROVE  /\ Evaluate(row) \in [Supported -> Truths]
         /\ \A e \in Supported : Evaluate(row)[e] = EvaluateNode(Evaluate(row), e, row)
<1> DEFINE depth == [e \in Supported |-> Depth[e]]
           Step == [f \in [Supported -> Truths] |->
                      [e \in Supported |-> EvaluateNode(f, e, row)]]
<1>1. depth \in [Supported -> Nat]
  BY ExpressionAssumption DEF Supported
<1>2. Step \in [[Supported -> Truths] -> [Supported -> Truths]]
  BY EvaluateTyped
<1>3. ASSUME NEW f \in [Supported -> Truths], NEW g \in [Supported -> Truths],
             NEW e \in Supported, \A x \in Supported : depth[x] < depth[e] => f[x] = g[x]
      PROVE  Step[f][e] = Step[g][e]
  BY <1>3, EvaluateLocal
<1>4. \E f \in [Supported -> Truths] : f = Step[f]
  <2>1. "true" \in Truths
    BY DEF Truths
  <2> HIDE DEF depth, Step
  <2>2. \A f, g \in [Supported -> Truths] : \A e \in Supported :
          (\A x \in Supported : depth[x] < depth[e] => f[x] = g[x])
          => Step[f][e] = Step[g][e]
    BY <1>3
  <2>3. Descends(Supported, Truths, depth, Step)
    BY <1>1, <1>2, <2>2 DEF Descends
  <2>4. QED
    BY <2>1, <2>3, Recursion
<1>5. PICK f \in [Supported -> Truths] : f = [e \in Supported |-> EvaluateNode(f, e, row)]
  BY <1>4
<1>6. Evaluate(row) = [e \in Supported |-> EvaluateNode(Evaluate(row), e, row)]
  BY <1>5 DEF Evaluate
<1> DEFINE g == Evaluate(row)
<1>7. \A e \in Supported : g[e] = EvaluateNode(g, e, row)
  BY <1>6
<1>8. \A e \in Supported : f[e] = EvaluateNode(f, e, row)
  BY <1>5
<1>9. \A e \in Supported : f[e] = g[e]
  <2> HIDE DEF g
  <2>1. ASSUME NEW e \in Supported, \A x \in Supported : depth[x] < depth[e] => f[x] = g[x]
        PROVE  f[e] = g[e]
    BY <1>7, <1>8, <2>1, EvaluateLocal
  <2> HIDE DEF depth
  <2>2. Agree(Supported, depth, f, g)
    BY <1>1, <2>1 DEF Agree
  <2>3. QED
    BY <2>2, SameRecursion
<1>10. g = f
  BY <1>5, <1>6, <1>9
<1>11. QED
  BY <1>7, <1>10

(* What a predicate is. *)
LEMMA PredicateKinds ==
  ASSUME NEW p \in Predicates
  PROVE  \/ /\ p[1] = "compare"
            /\ p = <<"compare", p[2], p[3], p[4]>> /\ p[2] \in Comparisons
            /\ Comparable(p[3]) /\ Comparable(p[4])
         \/ \E e \in Supported : p = Visit[e] /\ e[1] \notin Comparisons
<1>1. CASE \E e \in Supported : p = Visit[e]
  <2>1. PICK e \in Supported : p = Visit[e]
    BY <1>1
  <2>2. CASE e[1] \in Comparisons
    <3>1. /\ p = <<"compare", e[1], e[2], e[3]>>
          /\ Comparable(e[2]) /\ Comparable(e[3])
      BY <2>1, <2>2, SupportedKinds DEF Comparisons, Connectives
    <3>2. QED
      BY <2>2, <3>1
  <2>3. QED
    BY <2>1, <2>2
<1>2. CASE \E e \in Supported : p \in Below(Visit[e])
  <2>1. PICK e \in Supported : p \in Below(Visit[e])
    BY <1>2
  <2>2. CASE e[1] \in Connectives \cup {"not"}
    <3>1. \E x \in Supported : p = Visit[x]
      BY <2>1, <2>2, SupportedKinds DEF Below, Comparisons, Connectives
    <3>2. QED
      BY <1>1, <3>1
  <2>3. CASE e[1] = "between"
    <3> DEFINE l == <<"compare", ">=", e[2], e[3]>>
               r == <<"compare", "<=", e[2], e[4]>>
    <3>1. /\ Visit[e] = <<"and", l, r>>
          /\ Comparable(e[2]) /\ Comparable(e[3]) /\ Comparable(e[4])
      BY <2>3, SupportedKinds DEF Comparisons, Connectives
    <3>2. Below(Visit[e]) = {l, r}
      <4> HIDE DEF l, r
      <4>1. QED
        BY <3>1 DEF Below, Connectives
    <3>3. p = l \/ p = r
      BY <2>1, <3>2
    <3>4. QED
      BY <3>1, <3>3 DEF Comparisons
  <2>4. CASE e[1] \notin Connectives \cup {"not", "between"}
    <3>1. Below(Visit[e]) = {}
      BY <2>4, SupportedKinds DEF Below, Connectives
    <3>2. QED
      BY <2>1, <3>1
  <2>5. QED
    BY <2>2, <2>3, <2>4
<1>3. QED
  BY <1>1, <1>2 DEF Predicates

(* The operands of a predicate are predicates of less rank. *)
Rank(p) ==
    IF p[1] = "compare" THEN 0
    ELSE 1 + CHOOSE n \in {Depth[e] : e \in {x \in Supported : Visit[x] = p}} :
                \A e \in Supported : Visit[e] = p => n <= Depth[e]

LEMMA RankIsLeast ==
  ASSUME NEW e \in Supported, e[1] \notin Comparisons
  PROVE  \E x \in Supported : /\ Visit[x] = Visit[e] /\ Rank(Visit[e]) = 1 + Depth[x]
                              /\ x[1] \notin Comparisons /\ Depth[x] <= Depth[e]
<1> DEFINE p == Visit[e]
           T == {Depth[x] : x \in {y \in Supported : Visit[y] = p}}
<1>1. \A x \in Supported : Depth[x] \in Nat
  BY ExpressionAssumption DEF Supported
<1>2. T \in SUBSET Nat /\ T # {}
  BY <1>1
<1>3. PICK least \in T : \A n \in T : <<n, least>> \notin OpToRel(<, Nat)
  BY <1>2, NatLessThanWellFounded, WFMin
<1>4. \A n \in T : least <= n
  <2> HIDE DEF T
  <2>1. least \in Nat /\ \A n \in T : n \in Nat
    BY <1>2
  <2>2. \A n \in T : ~(n < least)
    BY <1>3, <2>1 DEF OpToRel
  <2>3. QED
    BY <2>1, <2>2
<1>5. \A x \in Supported : Visit[x] = p => least <= Depth[x]
  BY <1>4
<1>6. p[1] # "compare"
  BY SupportedKinds DEF Comparisons, Connectives
<1> DEFINE m == CHOOSE n \in T : \A x \in Supported : Visit[x] = p => n <= Depth[x]
<1>7. m \in T /\ \A x \in Supported : Visit[x] = p => m <= Depth[x]
  <2> HIDE DEF T, p
  <2>1. QED
    BY <1>3, <1>5
<1>8. Rank(p) = 1 + m
  BY <1>6 DEF Rank
<1>9. PICK x \in Supported : Visit[x] = p /\ Depth[x] = m
  BY <1>7
<1>10. x[1] \notin Comparisons
  <2>1. x[1] \in Comparisons => Visit[x] = <<"compare", x[1], x[2], x[3]>>
    BY SupportedKinds DEF Comparisons, Connectives
  <2>2. QED
    BY <1>6, <1>9, <2>1
<1>11. QED
  <2> HIDE DEF m, p
  <2>1. Visit[x] = Visit[e] /\ Rank(Visit[e]) = 1 + Depth[x] /\ Depth[x] <= Depth[e]
    BY <1>7, <1>8, <1>9 DEF p
  <2>2. QED
    BY <1>10, <2>1

LEMMA BelowRanks ==
  /\ \A p \in Predicates : Rank(p) \in Nat
  /\ \A p \in Predicates : \A q \in Below(p) : q \in Predicates /\ Rank(q) < Rank(p)
<1>1. \A e \in Supported : Depth[e] \in Nat
  BY ExpressionAssumption DEF Supported
<1>2. \A e \in Supported : e[1] \notin Comparisons =>
        Rank(Visit[e]) \in Nat /\ Rank(Visit[e]) <= 1 + Depth[e] /\ Rank(Visit[e]) > 0
  <2>1. ASSUME NEW e \in Supported, e[1] \notin Comparisons
        PROVE  Rank(Visit[e]) \in Nat /\ Rank(Visit[e]) <= 1 + Depth[e] /\ Rank(Visit[e]) > 0
    <3>1. PICK x \in Supported : Rank(Visit[e]) = 1 + Depth[x] /\ Depth[x] <= Depth[e]
      BY <2>1, RankIsLeast
    <3>2. QED
      BY <1>1, <3>1
  <2>2. QED
    BY <2>1
<1>3. \A p : p[1] = "compare" => Rank(p) = 0
  BY DEF Rank
<1>4. \A e \in Supported : e[1] \in Comparisons => Visit[e][1] = "compare"
  BY SupportedKinds DEF Comparisons, Connectives
<1>5. \A p \in Predicates : Rank(p) \in Nat
  BY <1>2, <1>3, PredicateKinds
<1>6. ASSUME NEW p \in Predicates, NEW q \in Below(p)
      PROVE  q \in Predicates /\ Rank(q) < Rank(p)
  <2>1. p[1] \in Connectives \cup {"not"}
    BY <1>6 DEF Below
  <2>2. PICK y \in Supported : p = Visit[y] /\ y[1] \notin Comparisons
    BY <2>1, PredicateKinds DEF Connectives
  <2>3. PICK e \in Supported : /\ Visit[e] = p /\ Rank(p) = 1 + Depth[e]
                               /\ e[1] \notin Comparisons
    BY <2>2, RankIsLeast
  <2>4. q \in Predicates
    BY <1>6, <2>2 DEF Predicates
  <2>5. CASE e[1] \in Connectives \cup {"not"}
    <3>1. \E x \in Supported : q = Visit[x] /\ Depth[x] < Depth[e]
      BY <1>6, <2>3, <2>5, SupportedKinds DEF Below, Comparisons, Connectives
    <3>2. PICK x \in Supported : q = Visit[x] /\ Depth[x] < Depth[e]
      BY <3>1
    <3>3. Rank(q) \in Nat /\ Rank(q) <= 1 + Depth[x]
      BY <1>1, <1>2, <1>3, <1>4, <3>2
    <3>4. QED
      BY <1>1, <2>3, <2>4, <3>2, <3>3
  <2>6. CASE e[1] = "between"
    <3> DEFINE l == <<"compare", ">=", e[2], e[3]>>
               r == <<"compare", "<=", e[2], e[4]>>
    <3>1. Visit[e] = <<"and", l, r>>
      BY <2>6, SupportedKinds DEF Comparisons, Connectives
    <3>2. Below(p) = {l, r}
      <4> HIDE DEF l, r
      <4>1. QED
        BY <2>3, <3>1 DEF Below, Connectives
    <3>3. Rank(q) = 0
      BY <1>3, <1>6, <3>2
    <3>4. QED
      BY <1>1, <2>3, <2>4, <3>3
  <2>7. e[1] \in Connectives \cup {"not", "between"}
    BY <2>1, <2>3, SupportedKinds DEF Connectives
  <2>8. QED
    BY <2>5, <2>6, <2>7
<1>7. QED
  BY <1>5, <1>6

LEMMA SelectKinds ==
  ASSUME NEW f, NEW p \in Predicates, NEW row
  PROVE  /\ p[1] = "compare" =>
              SelectNode(f, p, row) =
                Compare3(p[2], ValueIn(row, p[3]), ValueIn(row, p[4]))
         /\ p[1] \in Connectives =>
              SelectNode(f, p, row) = Connect(p[1], f[p[2]], f[p[3]])
         /\ p[1] = "not" => SelectNode(f, p, row) = Not3(f[p[2]])
         /\ p[1] = "isnull" =>
              SelectNode(f, p, row) =
                IF ValueIn(row, p[2]) = NULL <=> p[3] = "plain" THEN "true" ELSE "false"
BY DEF SelectNode, Truth, Connectives

InTruth(p, row) ==
    Some3({Compare3("=", ValueIn(row, p[2]), p[3][i][2]) : i \in DOMAIN p[3]})

LEMMA SelectIn ==
  ASSUME NEW f, NEW p \in Predicates, NEW row, p[1] = "in"
  PROVE  SelectNode(f, p, row) = InTruth(p, row)
BY DEF SelectNode, Connectives, InTruth

LEMMA PredicateHeads ==
  ASSUME NEW p \in Predicates
  PROVE  \/ p[1] = "compare" \/ p[1] \in Connectives \/ p[1] = "not"
         \/ p[1] = "isnull" \/ p[1] = "in"
<1>1. \A e \in Supported : \/ e[1] \in Comparisons \/ Visit[e][1] \in Connectives
                           \/ Visit[e][1] = "not"
                           \/ Visit[e][1] = "isnull" \/ Visit[e][1] = "in"
  BY SupportedKinds DEF Comparisons, Connectives
<1>2. QED
  BY <1>1, PredicateKinds

LEMMA SelectLocal ==
  ASSUME NEW row, NEW p \in Predicates, NEW f, NEW g,
         \A q \in Predicates : Rank(q) < Rank(p) => f[q] = g[q]
  PROVE  SelectNode(f, p, row) = SelectNode(g, p, row)
<1>1. \A q \in Below(p) : f[q] = g[q]
  BY BelowRanks
<1>2. CASE p[1] = "compare"
  <2> DEFINE value == Compare3(p[2], ValueIn(row, p[3]), ValueIn(row, p[4]))
  <2>1. \A h : SelectNode(h, p, row) = value
    BY <1>2, SelectKinds
  <2>2. QED
    BY <2>1
<1>3. CASE p[1] \in Connectives
  <2>1. p[2] \in Below(p) /\ p[3] \in Below(p)
    BY <1>3 DEF Below, Connectives
  <2>2. \A h : SelectNode(h, p, row) = Connect(p[1], h[p[2]], h[p[3]])
    BY <1>3, SelectKinds
  <2>3. QED
    BY <1>1, <2>1, <2>2
<1>4. CASE p[1] = "not"
  <2>1. p[2] \in Below(p)
    BY <1>4 DEF Below, Connectives
  <2>2. \A h : SelectNode(h, p, row) = Not3(h[p[2]])
    BY <1>4, SelectKinds
  <2>3. QED
    BY <1>1, <2>1, <2>2
<1>5. CASE p[1] = "isnull"
  <2> DEFINE value == IF ValueIn(row, p[2]) = NULL <=> p[3] = "plain" THEN "true" ELSE "false"
  <2>1. \A h : SelectNode(h, p, row) = value
    BY <1>5, SelectKinds
  <2>2. QED
    BY <2>1
<1>6. CASE p[1] = "in"
  <2>1. \A h : SelectNode(h, p, row) = InTruth(p, row)
    BY <1>6, SelectIn
  <2>2. QED
    BY <2>1
<1>7. QED
  BY <1>2, <1>3, <1>4, <1>5, <1>6, PredicateHeads

LEMMA SelectTyped ==
  ASSUME NEW row, NEW p \in Predicates, NEW f \in [Predicates -> Truths]
  PROVE  SelectNode(f, p, row) \in Truths
<1>1. \A q \in Below(p) : f[q] \in Truths
  BY BelowRanks
<1>2. CASE p[1] = "compare"
  BY <1>2, Comparing, SelectKinds
<1>3. CASE p[1] \in Connectives
  <2>1. p[2] \in Below(p) /\ p[3] \in Below(p)
    BY <1>3 DEF Below, Connectives
  <2>2. SelectNode(f, p, row) = Connect(p[1], f[p[2]], f[p[3]])
    BY <1>3, SelectKinds
  <2>3. QED
    BY <1>1, <2>1, <2>2, Connecting
<1>4. CASE p[1] = "not"
  <2>1. p[2] \in Below(p)
    BY <1>4 DEF Below, Connectives
  <2>2. SelectNode(f, p, row) = Not3(f[p[2]])
    BY <1>4, SelectKinds
  <2>3. QED
    BY <1>1, <2>1, <2>2, Connecting
<1>5. CASE p[1] = "isnull"
  BY <1>5, SelectKinds DEF Truths
<1>6. CASE p[1] = "in"
  <2>1. \A s : Some3(s) \in Truths
    BY DEF Some3, Truths
  <2>2. SelectNode(f, p, row) = InTruth(p, row)
    BY <1>6, SelectIn
  <2>3. QED
    BY <2>1, <2>2 DEF InTruth
<1>7. QED
  BY <1>2, <1>3, <1>4, <1>5, <1>6, PredicateHeads

LEMMA SelectsStep ==
  ASSUME NEW row
  PROVE  /\ Selects(row) \in [Predicates -> Truths]
         /\ \A p \in Predicates : Selects(row)[p] = SelectNode(Selects(row), p, row)
<1> DEFINE rank == [p \in Predicates |-> Rank(p)]
           Step == [f \in [Predicates -> Truths] |->
                      [p \in Predicates |-> SelectNode(f, p, row)]]
<1>1. rank \in [Predicates -> Nat]
  BY BelowRanks
<1>2. Step \in [[Predicates -> Truths] -> [Predicates -> Truths]]
  BY SelectTyped
<1>3. ASSUME NEW f \in [Predicates -> Truths], NEW g \in [Predicates -> Truths],
             NEW p \in Predicates, \A q \in Predicates : rank[q] < rank[p] => f[q] = g[q]
      PROVE  Step[f][p] = Step[g][p]
  BY <1>3, SelectLocal
<1>4. \E f \in [Predicates -> Truths] : f = Step[f]
  <2>1. "true" \in Truths
    BY DEF Truths
  <2> HIDE DEF rank, Step
  <2>2. \A f, g \in [Predicates -> Truths] : \A p \in Predicates :
          (\A q \in Predicates : rank[q] < rank[p] => f[q] = g[q])
          => Step[f][p] = Step[g][p]
    BY <1>3
  <2>3. Descends(Predicates, Truths, rank, Step)
    BY <1>1, <1>2, <2>2 DEF Descends
  <2>4. QED
    BY <2>1, <2>3, Recursion
<1>5. PICK f \in [Predicates -> Truths] : f = [p \in Predicates |-> SelectNode(f, p, row)]
  BY <1>4
<1>6. Selects(row) = [p \in Predicates |-> SelectNode(Selects(row), p, row)]
  BY <1>5 DEF Selects
<1> DEFINE g == Selects(row)
<1>7. \A p \in Predicates : g[p] = SelectNode(g, p, row)
  BY <1>6
<1>8. \A p \in Predicates : f[p] = SelectNode(f, p, row)
  BY <1>5
<1>9. \A p \in Predicates : f[p] = g[p]
  <2> HIDE DEF g
  <2>1. ASSUME NEW p \in Predicates,
               \A q \in Predicates : rank[q] < rank[p] => f[q] = g[q]
        PROVE  f[p] = g[p]
    BY <1>7, <1>8, <2>1, SelectLocal
  <2> HIDE DEF rank
  <2>2. Agree(Predicates, rank, f, g)
    BY <1>1, <2>1 DEF Agree
  <2>3. QED
    BY <2>2, SameRecursion
<1>10. g = f
  BY <1>5, <1>6, <1>9
<1>11. QED
  BY <1>7, <1>10

(* A value of a row or a literal is NULL or a number. *)
LEMMA ValuesAreNumbers ==
  ASSUME NEW row \in [Columns -> Values \cup {NULL}], NEW x
  PROVE  /\ Comparable(x) => ValueIn(row, x) \in Int
         /\ ConstantOf(x) => ValueIn(row, x) \in Nat /\ ValueIn(row, x) = x[2]
<1>1. NULL \in Int /\ Values \subseteq Nat
  BY ValueAssumption DEF NULL
<1>2. ASSUME ColumnOf(x)
      PROVE  ValueIn(row, x) \in Int
  <2>1. PICK name \in Columns : x = <<"column", name>>
    BY <1>2 DEF ColumnOf
  <2>2. ValueIn(row, x) = row[name]
    BY <2>1 DEF ValueIn, IsColumn
  <2>3. row[name] \in Values \cup {NULL}
    OBVIOUS
  <2>4. \A v \in Values \cup {NULL} : v \in Int
    BY <1>1
  <2>5. QED
    BY <2>2, <2>3, <2>4
<1>3. ASSUME ConstantOf(x)
      PROVE  ValueIn(row, x) \in Nat /\ ValueIn(row, x) = x[2]
  <2>1. PICK value \in Values : x = <<"literal", value>>
    BY <1>3 DEF ConstantOf
  <2>2. ValueIn(row, x) = value /\ x[2] = value
    BY <2>1 DEF ValueIn, IsColumn
  <2>3. QED
    BY <1>1, <2>2
<1>4. QED
  BY <1>2, <1>3 DEF Comparable

(* A range is the negation of being outside of it, also where NULL is compared. *)
LEMMA Ranges ==
  ASSUME NEW v \in Int, NEW l \in Int, NEW u \in Int
  PROVE  Not3(Or3(Compare3("<", v, l), Compare3(">", v, u))) =
         Connect("and", Compare3(">=", v, l), Compare3("<=", v, u))
<1>1. Compare3("<", v, l) = IF NULL \in {v, l} THEN "null" ELSE IF v < l THEN "true" ELSE "false"
  BY DEF Compare3, Truth
<1>2. Compare3(">", v, u) = IF NULL \in {v, u} THEN "null" ELSE IF v > u THEN "true" ELSE "false"
  BY DEF Compare3, Truth
<1>3. Compare3(">=", v, l) = IF NULL \in {v, l} THEN "null" ELSE IF v >= l THEN "true" ELSE "false"
  BY DEF Compare3, Truth
<1>4. Compare3("<=", v, u) = IF NULL \in {v, u} THEN "null" ELSE IF v <= u THEN "true" ELSE "false"
  BY DEF Compare3, Truth
<1>5. Compare3("<", v, l) = Not3(Compare3(">=", v, l))
  BY <1>1, <1>3 DEF Not3
<1>6. Compare3(">", v, u) = Not3(Compare3("<=", v, u))
  BY <1>2, <1>4 DEF Not3
<1>7. \A a, b \in Truths : Not3(Or3(Not3(a), Not3(b))) = And3(a, b)
  BY DEF Truths, Or3, And3, Not3
<1>8. QED
  BY <1>5, <1>6, <1>7, Comparing DEF Connect

(* A supported filter and what it compiles to have the same value for every
   row: true, false or NULL. *)
LEMMA SameTruth ==
  ASSUME NEW row \in [Columns -> Values \cup {NULL}]
  PROVE  \A e \in Supported : Selects(row)[Visit[e]] = Evaluate(row)[e]
<1> DEFINE S == {n \in Nat : \A e \in Supported :
                   Depth[e] < n => Selects(row)[Visit[e]] = Evaluate(row)[e]}
<1>1. \A e \in Supported : Depth[e] \in Nat
  BY ExpressionAssumption DEF Supported
<1>2. \A e \in Supported : Visit[e] \in Predicates
  BY DEF Predicates
<1>3. 0 \in S
  BY <1>1
<1>4. ASSUME NEW n \in S, NEW e \in Supported, Depth[e] < n + 1
      PROVE  Selects(row)[Visit[e]] = Evaluate(row)[e]
  <2> DEFINE p == Visit[e]
             here == Selects(row)
             there == Evaluate(row)
  <2>1. \A x \in Supported : Depth[x] < Depth[e] => here[Visit[x]] = there[x]
    BY <1>1, <1>4
  <2>2. p \in Predicates /\ here[p] = SelectNode(here, p, row)
    BY <1>2, SelectsStep
  <2>3. there[e] = EvaluateNode(there, e, row)
    BY EvaluateStep
  <2> HIDE DEF here, there
  <2>4. CASE e[1] \in Comparisons
    <3>1. p = <<"compare", e[1], e[2], e[3]>>
      BY <2>4, SupportedKinds DEF Comparisons, Connectives
    <3> DEFINE value == Compare3(e[1], ValueIn(row, e[2]), ValueIn(row, e[3]))
    <3>2. \A h : SelectNode(h, p, row) = value
      <4>1. p[1] = "compare" /\ p[2] = e[1] /\ p[3] = e[2] /\ p[4] = e[3]
        BY <3>1
      <4> HIDE DEF p
      <4>2. \A h : SelectNode(h, p, row) =
                     Compare3(p[2], ValueIn(row, p[3]), ValueIn(row, p[4]))
        BY <2>2, <4>1, SelectKinds
      <4>3. QED
        BY <4>1, <4>2
    <3>3. EvaluateNode(there, e, row) = value
      BY <2>4, EvaluateKinds
    <3>4. QED
      BY <2>2, <2>3, <3>2, <3>3 DEF here, there
  <2>5. CASE e[1] \in Connectives
    <3>1. /\ p = <<e[1], Visit[e[2]], Visit[e[3]]>>
          /\ e[2] \in Supported /\ e[3] \in Supported
          /\ Depth[e[2]] < Depth[e] /\ Depth[e[3]] < Depth[e]
      BY <2>5, SupportedKinds DEF Comparisons, Connectives
    <3>2. here[p] = Connect(e[1], here[Visit[e[2]]], here[Visit[e[3]]])
      BY <2>2, <2>5, <3>1, SelectKinds
    <3>3. there[e] = Connect(e[1], there[e[2]], there[e[3]])
      BY <2>3, <2>5, EvaluateKinds
    <3>4. QED
      BY <2>1, <3>1, <3>2, <3>3 DEF here, there
  <2>6. CASE e[1] = "not"
    <3>1. /\ p = <<"not", Visit[e[2]]>>
          /\ e[2] \in Supported /\ Depth[e[2]] < Depth[e]
      BY <2>6, SupportedKinds DEF Comparisons, Connectives
    <3>2. here[p] = Not3(here[Visit[e[2]]])
      BY <2>2, <3>1, SelectKinds
    <3>3. there[e] = Not3(there[e[2]])
      BY <2>3, <2>6, EvaluateKinds
    <3>4. QED
      BY <2>1, <3>1, <3>2, <3>3 DEF here, there
  <2>7. CASE e[1] = "between"
    <3> DEFINE l == <<"compare", ">=", e[2], e[3]>>
               r == <<"compare", "<=", e[2], e[4]>>
               v == ValueIn(row, e[2])
               low == ValueIn(row, e[3])
               high == ValueIn(row, e[4])
    <3>1. /\ p = <<"and", l, r>>
          /\ Comparable(e[2]) /\ Comparable(e[3]) /\ Comparable(e[4])
      BY <2>7, SupportedKinds DEF Comparisons, Connectives
    <3>2. l \in Predicates /\ r \in Predicates
      <4> HIDE DEF l, r
      <4>1. Below(p) = {l, r}
        BY <3>1 DEF Below, Connectives
      <4>2. QED
        BY <2>2, <4>1, BelowRanks
    <3>3. here[l] = Compare3(">=", v, low)
      <4>1. here[l] = SelectNode(here, l, row)
        BY <3>2, SelectsStep DEF here
      <4>2. l[1] = "compare" /\ l[2] = ">=" /\ l[3] = e[2] /\ l[4] = e[3]
        OBVIOUS
      <4> HIDE DEF l
      <4>3. \A h : SelectNode(h, l, row) =
                     Compare3(l[2], ValueIn(row, l[3]), ValueIn(row, l[4]))
        BY <3>2, <4>2, SelectKinds
      <4>4. QED
        BY <4>1, <4>2, <4>3
    <3>4. here[r] = Compare3("<=", v, high)
      <4>1. here[r] = SelectNode(here, r, row)
        BY <3>2, SelectsStep DEF here
      <4>2. r[1] = "compare" /\ r[2] = "<=" /\ r[3] = e[2] /\ r[4] = e[4]
        OBVIOUS
      <4> HIDE DEF r
      <4>3. \A h : SelectNode(h, r, row) =
                     Compare3(r[2], ValueIn(row, r[3]), ValueIn(row, r[4]))
        BY <3>2, <4>2, SelectKinds
      <4>4. QED
        BY <4>1, <4>2, <4>3
    <3>5. here[p] = Connect("and", here[l], here[r])
      <4> HIDE DEF l, r
      <4>1. QED
        BY <2>2, <3>1, SelectKinds DEF Connectives
    <3>6. there[e] = Not3(Or3(Compare3("<", v, low), Compare3(">", v, high)))
      BY <2>3, <2>7, EvaluateKinds
    <3>7. v \in Int /\ low \in Int /\ high \in Int
      BY <3>1, ValuesAreNumbers
    <3> HIDE DEF l, r, v, low, high
    <3>8. QED
      BY <3>3, <3>4, <3>5, <3>6, <3>7, Ranges DEF here, there
  <2>8. CASE e[1] = "is_in"
    <3> DEFINE v == ValueIn(row, e[2])
               items == e[3]
               s == {Compare3("=", v, items[i][2]) : i \in DOMAIN items}
    <3>1. /\ p = <<"in", e[2], items>> /\ ColumnOf(e[2])
          /\ items \in Seq(Expressions) /\ items # <<>>
          /\ \A i \in DOMAIN items : ConstantOf(items[i])
      BY <2>8, SupportedKinds DEF Comparisons, Connectives
    <3>2. here[p] = Some3(s)
      <4>1. p[1] = "in" /\ p[2] = e[2] /\ p[3] = items
        BY <3>1
      <4> HIDE DEF p, items
      <4>2. here[p] = Some3({Compare3("=", ValueIn(row, p[2]), p[3][i][2]) :
                               i \in DOMAIN p[3]})
        <5>1. p \in Predicates /\ p[1] = "in"
          BY <2>2, <4>1
        <5>2. \A h : SelectNode(h, p, row) = InTruth(p, row)
          BY <5>1, SelectIn
        <5>3. QED
          BY <2>2, <5>2 DEF InTruth
      <4>3. s = {Compare3("=", ValueIn(row, p[2]), p[3][i][2]) : i \in DOMAIN p[3]}
        BY <4>1
      <4>4. QED
        BY <4>2, <4>3
    <3>3. there[e] = IF v = NULL THEN "null"
                     ELSE IF \E i \in DOMAIN items : items[i][2] = v THEN "true" ELSE "false"
      BY <2>3, <2>8, EvaluateKinds
    <3>4. v \in Int /\ \A i \in DOMAIN items : items[i][2] \in Nat
      BY <3>1, ValuesAreNumbers DEF Comparable
    <3>5. 1 \in DOMAIN items
      BY <3>1
    <3> HIDE DEF v, items
    <3>6. \A i \in DOMAIN items :
            Compare3("=", v, items[i][2]) =
              IF v = NULL THEN "null" ELSE IF v = items[i][2] THEN "true" ELSE "false"
      BY <3>4 DEF Compare3, Truth, NULL
    <3>7. CASE v = NULL
      <4>1. s = {"null"}
        BY <3>5, <3>6, <3>7
      <4>2. QED
        BY <3>2, <3>3, <3>7, <4>1 DEF Some3, here, there
    <3>8. CASE v # NULL /\ \E i \in DOMAIN items : items[i][2] = v
      <4>1. "true" \in s
        BY <3>6, <3>8
      <4>2. QED
        BY <3>2, <3>3, <3>8, <4>1 DEF Some3, here, there
    <3>9. CASE v # NULL /\ ~\E i \in DOMAIN items : items[i][2] = v
      <4>1. s \subseteq {"false"}
        BY <3>6, <3>9
      <4>2. "true" \notin s /\ "null" \notin s
        BY <4>1
      <4> HIDE DEF s
      <4>3. QED
        BY <3>2, <3>3, <3>9, <4>2 DEF Some3, here, there
    <3>10. QED
      BY <3>7, <3>8, <3>9
  <2>9. CASE e[1] \in {"is_null", "not_null"}
    <3>1. p = <<"isnull", e[2], IF e[1] = "is_null" THEN "plain" ELSE "negated">>
      BY <2>9, SupportedKinds DEF Comparisons, Connectives
    <3>2. there[e] = IF ValueIn(row, e[2]) = NULL <=> e[1] = "is_null" THEN "true" ELSE "false"
      BY <2>3, <2>9, EvaluateKinds
    <3>3. CASE e[1] = "is_null"
      <4>1. p = <<"isnull", e[2], "plain">>
        BY <3>1, <3>3
      <4>2. here[p] = IF ValueIn(row, e[2]) = NULL THEN "true" ELSE "false"
        BY <2>2, <4>1 DEF SelectNode, Truth, Connectives
      <4>3. QED
        BY <3>2, <3>3, <4>2 DEF here, there
    <3>4. CASE e[1] = "not_null"
      <4>1. p = <<"isnull", e[2], "negated">>
        BY <3>1, <3>4
      <4>2. here[p] = IF ValueIn(row, e[2]) = NULL THEN "false" ELSE "true"
        BY <2>2, <4>1 DEF SelectNode, Truth, Connectives
      <4>3. QED
        BY <3>2, <3>4, <4>2 DEF here, there
    <3>5. QED
      BY <2>9, <3>3, <3>4
  <2>10. QED
    BY <2>4, <2>5, <2>6, <2>7, <2>8, <2>9, SupportedKinds
<1>5. S = Nat
  <2>1. \A n \in S : n + 1 \in S
    BY <1>4
  <2>2. S \in SUBSET Nat
    OBVIOUS
  <2> HIDE DEF S
  <2>3. QED
    BY <1>3, <2>1, <2>2, AllNaturals
<1>6. ASSUME NEW e \in Supported
      PROVE  Selects(row)[Visit[e]] = Evaluate(row)[e]
  <2>1. Depth[e] + 1 \in S
    BY <1>1, <1>5
  <2>2. QED
    BY <1>1, <2>1
<1>7. QED
  BY <1>6

-------------------------------------------------------------------------------
(* Pieces of SQL *)

Words == Comparisons \cup Connectives
         \cup {"(", ")", "not", "in", "is null", "is not null"}
Literals == {ToString(value) : value \in Values}
Chars == Characters \cup Words \cup {"p", "value"} \cup Columns \cup Literals
Pieces == [ok : BOOLEAN, text : Seq(Chars), values : Seq(Chars)]
Empty == Text(NoText)

LEMMA PieceFields ==
  ASSUME NEW l \in Pieces, NEW r \in Pieces
  PROVE  /\ Followed(l, r) \in Pieces
         /\ Followed(l, r).ok = (l.ok /\ r.ok)
         /\ Followed(l, r).text = l.text \o r.text
         /\ Followed(l, r).values = l.values \o r.values
BY DEF Followed, Pieces

LEMMA TextFields ==
  ASSUME NEW t \in Seq(Chars)
  PROVE  /\ Text(t) \in Pieces
         /\ Text(t).ok = TRUE /\ Text(t).text = t /\ Text(t).values = <<>>
BY DEF Text, Pieces

LEMMA Constants ==
  /\ Empty \in Pieces /\ Empty.ok = TRUE /\ Empty.text = <<>> /\ Empty.values = <<>>
  /\ Raises \in Pieces /\ Raises.ok = FALSE /\ Raises.text = <<>> /\ Raises.values = <<>>
<1>1. <<>> \in Seq(Chars)
  OBVIOUS
<1>2. QED
  BY <1>1, TextFields DEF Empty, NoText, Raises, Pieces

(* Two pieces with the same fields are the same. *)
LEMMA SamePiece ==
  ASSUME NEW l \in Pieces, NEW r \in Pieces,
         l.ok = r.ok, l.text = r.text, l.values = r.values
  PROVE  l = r
BY DEF Pieces

LEMMA FollowedAssociative ==
  ASSUME NEW a \in Pieces, NEW b \in Pieces, NEW c \in Pieces
  PROVE  Followed(Followed(a, b), c) = Followed(a, Followed(b, c))
<1>1. /\ a.text \in Seq(Chars) /\ b.text \in Seq(Chars) /\ c.text \in Seq(Chars)
      /\ a.values \in Seq(Chars) /\ b.values \in Seq(Chars) /\ c.values \in Seq(Chars)
  BY DEF Pieces
<1>2. \A s, t, u \in Seq(Chars) : (s \o t) \o u = s \o (t \o u)
  BY ConcatAssociative
<1>3. (a.text \o b.text) \o c.text = a.text \o (b.text \o c.text)
  <2> DEFINE s == a.text
             t == b.text
             u == c.text
  <2> HIDE DEF s, t, u
  <2>1. s \in Seq(Chars) /\ t \in Seq(Chars) /\ u \in Seq(Chars)
    BY <1>1 DEF s, t, u
  <2>2. (s \o t) \o u = s \o (t \o u)
    BY <1>2, <2>1, Zenon
  <2>3. QED
    BY <2>2, Zenon DEF s, t, u
<1>6. (a.values \o b.values) \o c.values = a.values \o (b.values \o c.values)
  <2> DEFINE s == a.values
             t == b.values
             u == c.values
  <2> HIDE DEF s, t, u
  <2>1. s \in Seq(Chars) /\ t \in Seq(Chars) /\ u \in Seq(Chars)
    BY <1>1 DEF s, t, u
  <2>2. (s \o t) \o u = s \o (t \o u)
    BY <1>2, <2>1, Zenon
  <2>3. QED
    BY <2>2, Zenon DEF s, t, u
<1>4. ((a.ok /\ b.ok) /\ c.ok) = (a.ok /\ (b.ok /\ c.ok))
  OBVIOUS
<1>5. QED
  BY <1>3, <1>6, <1>4, Zenon DEF Followed

LEMMA FollowedEmpty ==
  ASSUME NEW x \in Pieces
  PROVE  Followed(x, Empty) = x /\ Followed(Empty, x) = x
<1>1. x.text \in Seq(Chars) /\ x.values \in Seq(Chars) /\ x.ok \in BOOLEAN
  BY DEF Pieces
<1>2. /\ x.text \o <<>> = x.text /\ <<>> \o x.text = x.text
      /\ x.values \o <<>> = x.values /\ <<>> \o x.values = x.values
  BY <1>1, ConcatEmptySeq
<1>3. /\ Followed(x, Empty) \in Pieces /\ Followed(x, Empty).ok = (x.ok /\ Empty.ok)
      /\ Followed(x, Empty).text = x.text \o Empty.text
      /\ Followed(x, Empty).values = x.values \o Empty.values
  BY PieceFields, Constants
<1>4. /\ Followed(Empty, x) \in Pieces /\ Followed(Empty, x).ok = (Empty.ok /\ x.ok)
      /\ Followed(Empty, x).text = Empty.text \o x.text
      /\ Followed(Empty, x).values = Empty.values \o x.values
  BY PieceFields, Constants
<1>5. Followed(x, Empty) = x
  BY <1>1, <1>2, <1>3, Constants, SamePiece
<1>6. Followed(Empty, x) = x
  BY <1>1, <1>2, <1>4, Constants, SamePiece
<1>7. QED
  BY <1>5, <1>6
-------------------------------------------------------------------------------
(* Joining pieces *)

LEMMA Joined ==
  ASSUME NEW pieces \in Seq(Pieces)
  PROVE  \E joined \in [0 .. Len(pieces) -> Pieces] :
           /\ joined[0] = Empty
           /\ \A n \in 1 .. Len(pieces) : joined[n] = Followed(joined[n - 1], pieces[n])
           /\ Concat(pieces) = joined[Len(pieces)]
<1> DEFINE E == 0 .. Len(pieces)
           depth == [n \in E |-> n]
           Node(f, n) == IF n = 0 THEN Text(NoText) ELSE Followed(f[n - 1], pieces[n])
           Step == [f \in [E -> Pieces] |-> [n \in E |-> Node(f, n)]]
<1>0. Len(pieces) \in Nat /\ \A n \in E : n # 0 => n - 1 \in E /\ pieces[n] \in Pieces
  OBVIOUS
<1>1. depth \in [E -> Nat]
  BY <1>0
<1>2. ASSUME NEW f \in [E -> Pieces], NEW n \in E
      PROVE  Node(f, n) \in Pieces
  BY <1>0, PieceFields, Constants DEF Empty
<1>3. ASSUME NEW f, NEW g, NEW n \in E, \A x \in E : depth[x] < depth[n] => f[x] = g[x]
      PROVE  Node(f, n) = Node(g, n)
  <2>1. n # 0 => n - 1 \in E /\ depth[n - 1] < depth[n]
    BY <1>0
  <2> HIDE DEF E, depth
  <2>2. QED
    BY <1>3, <2>1
<1>4. PICK f \in [E -> Pieces] : f = [n \in E |-> Node(f, n)]
  <2> HIDE DEF Node, E, depth
  <2>1. Step \in [[E -> Pieces] -> [E -> Pieces]]
    BY <1>2
  <2>2. ASSUME NEW f \in [E -> Pieces], NEW g \in [E -> Pieces], NEW n \in E,
               \A x \in E : depth[x] < depth[n] => f[x] = g[x]
        PROVE  Step[f][n] = Step[g][n]
    BY <1>3, <2>2
  <2>3. \E f \in [E -> Pieces] : f = Step[f]
    <3> HIDE DEF Step
    <3>1. \A f, g \in [E -> Pieces] : \A n \in E :
            (\A x \in E : depth[x] < depth[n] => f[x] = g[x]) => Step[f][n] = Step[g][n]
      BY <2>2
    <3>2. Descends(E, Pieces, depth, Step)
      BY <1>1, <2>1, <3>1 DEF Descends
    <3>3. QED
      BY <3>2, Constants, Recursion
  <2>4. QED
    BY <2>3
<1> DEFINE g == CHOOSE joined : joined = [n \in 0 .. Len(pieces) |->
                  IF n = 0 THEN Text(NoText) ELSE Followed(joined[n - 1], pieces[n])]
<1>5. g = [n \in E |-> Node(g, n)]
  BY <1>4
<1>6. Concat(pieces) = g[Len(pieces)]
  BY DEF Concat
<1> HIDE DEF g
<1>7. \A n \in E : f[n] = g[n]
  <2> HIDE DEF Node, E, depth, Step
  <2>1. ASSUME NEW n \in E, \A x \in E : depth[x] < depth[n] => f[x] = g[x]
        PROVE  f[n] = g[n]
    <3>1. f[n] = Node(f, n) /\ g[n] = Node(g, n)
      BY <1>4, <1>5
    <3>2. QED
      BY <1>3, <2>1, <3>1
  <2>2. Agree(E, depth, f, g)
    BY <1>1, <2>1 DEF Agree
  <2>3. QED
    BY <2>2, SameRecursion
<1>8. Concat(pieces) = f[Len(pieces)]
  BY <1>0, <1>6, <1>7
<1>9. \A n \in E : f[n] = Node(f, n)
  BY <1>4
<1>10. /\ f[0] = Empty
       /\ \A n \in 1 .. Len(pieces) : f[n] = Followed(f[n - 1], pieces[n])
  BY <1>0, <1>9 DEF Empty
<1>11. QED
  BY <1>8, <1>10

(* A relation between pieces that holds of what follows related pieces. *)
Congruence(R) ==
    /\ R \subseteq Pieces \X Pieces
    /\ <<Empty, Empty>> \in R
    /\ \A a, b, c, d \in Pieces :
         <<a, b>> \in R /\ <<c, d>> \in R => <<Followed(a, c), Followed(b, d)>> \in R

LEMMA ConcatRelated ==
  ASSUME NEW R, Congruence(R), NEW s \in Seq(Pieces), NEW t \in Seq(Pieces),
         Len(s) = Len(t), \A i \in 1 .. Len(s) : <<s[i], t[i]>> \in R
  PROVE  <<Concat(s), Concat(t)>> \in R
<1>1. PICK f \in [0 .. Len(s) -> Pieces] :
        /\ f[0] = Empty
        /\ \A n \in 1 .. Len(s) : f[n] = Followed(f[n - 1], s[n])
        /\ Concat(s) = f[Len(s)]
  BY Joined
<1>2. PICK g \in [0 .. Len(t) -> Pieces] :
        /\ g[0] = Empty
        /\ \A n \in 1 .. Len(t) : g[n] = Followed(g[n - 1], t[n])
        /\ Concat(t) = g[Len(t)]
  BY Joined
<1> DEFINE S == {n \in Nat : n <= Len(s) => <<f[n], g[n]>> \in R}
<1>3. 0 \in S
  BY <1>1, <1>2 DEF Congruence
<1>4. ASSUME NEW n \in S
      PROVE  n + 1 \in S
  <2> SUFFICES ASSUME n + 1 <= Len(s) PROVE <<f[n + 1], g[n + 1]>> \in R
    OBVIOUS
  <2>1. n \in 0 .. Len(s) /\ n + 1 \in 1 .. Len(s) /\ (n + 1) - 1 = n /\ <<f[n], g[n]>> \in R
    OBVIOUS
  <2>2. f[n + 1] = Followed(f[n], s[n + 1]) /\ g[n + 1] = Followed(g[n], t[n + 1])
    BY <1>1, <1>2, <2>1
  <2>3. s[n + 1] \in Pieces /\ t[n + 1] \in Pieces /\ f[n] \in Pieces /\ g[n] \in Pieces
    <3>1. n \in 0 .. Len(t) /\ n + 1 \in 1 .. Len(t)
      BY <2>1
    <3>2. f[n] \in Pieces /\ g[n] \in Pieces
      BY <2>1, <3>1
    <3>3. s[n + 1] \in Pieces /\ t[n + 1] \in Pieces
      BY <2>1, <3>1, ElementOfSeq
    <3>4. QED
      BY <3>2, <3>3
  <2>4. QED
    BY <2>1, <2>2, <2>3 DEF Congruence
<1>5. S = Nat
  <2> HIDE DEF S
  <2>1. S \in SUBSET Nat
    BY DEF S
  <2>2. QED
    BY <1>3, <1>4, <2>1, AllNaturals
<1>6. <<f[Len(s)], g[Len(s)]>> \in R
  <2>1. Len(s) \in S
    BY <1>5
  <2>2. QED
    BY <2>1
<1>7. QED
  BY <1>1, <1>2, <1>6

-------------------------------------------------------------------------------
(* The scanner of fragments *)

Scanners == Quotes \cup {Outside}
Places(f) == 1 .. Len(f) + 1

(* Induction over the places of a text, from its end. *)
LEMMA FromTheEnd ==
  ASSUME NEW f, Len(f) \in Nat, NEW A \in SUBSET Places(f),
         \A i \in Places(f) : (\A j \in Places(f) : j > i => j \in A) => i \in A
  PROVE  A = Places(f)
<1> DEFINE S == {n \in Nat : \A i \in Places(f) : Len(f) + 1 - i < n => i \in A}
<1>0. \A i \in Places(f) : i \in Nat /\ Len(f) + 1 - i \in Nat
  BY DEF Places
<1>1. 0 \in S
  BY <1>0
<1>2. ASSUME NEW n \in S
      PROVE  n + 1 \in S
  <2>1. ASSUME NEW i \in Places(f), Len(f) + 1 - i < n + 1
        PROVE  i \in A
    <3>1. \A j \in Places(f) : j > i => Len(f) + 1 - j < n
      BY <1>0, <2>1
    <3>2. QED
      BY <3>1
  <2>2. QED
    BY <2>1
<1>3. S = Nat
  <2> HIDE DEF S
  <2>1. S \in SUBSET Nat
    BY DEF S
  <2>2. QED
    BY <1>1, <1>2, <2>1, AllNaturals
<1>4. ASSUME NEW i \in Places(f)
      PROVE  i \in A
  <2>1. (Len(f) + 1 - i) + 1 \in S /\ Len(f) + 1 - i < (Len(f) + 1 - i) + 1
    BY <1>0, <1>3
  <2>2. QED
    BY <2>1
<1>5. QED
  BY <1>4

(* A name has an end. *)
LEMMA NameEnds ==
  ASSUME NEW f \in Seq(Characters), NEW i \in 1 .. Len(f), f[i] = "s"
  PROVE  /\ NameEnd(f, i) \in i .. Len(f)
         /\ \A k \in i .. NameEnd(f, i) : f[k] = "s"
         /\ NameEnd(f, i) = Len(f) \/ f[NameEnd(f, i) + 1] # "s"
<1> DEFINE T == {j \in i .. Len(f) : j = Len(f) \/ f[j + 1] # "s"}
<1>0. Len(f) \in Nat
  OBVIOUS
<1>1. T \in SUBSET Nat /\ T # {}
  <2>1. Len(f) \in T
    BY <1>0
  <2>2. QED
    BY <1>0, <2>1
<1>2. PICK j \in T : \A n \in T : <<n, j>> \notin OpToRel(<, Nat)
  BY <1>1, NatLessThanWellFounded, WFMin
<1>3. j \in i .. Len(f) /\ (j = Len(f) \/ f[j + 1] # "s") /\ \A n \in T : ~(n < j)
  <2>1. \A n \in T : n \in Nat
    BY <1>1
  <2>2. QED
    BY <1>2, <2>1 DEF OpToRel
<1>4. \A k \in i .. j : f[k] = "s"
  <2> DEFINE S == {n \in Nat : i + n <= j => f[i + n] = "s"}
  <2>1. 0 \in S
    OBVIOUS
  <2>2. ASSUME NEW n \in S
        PROVE  n + 1 \in S
    <3> SUFFICES ASSUME i + (n + 1) <= j PROVE f[i + (n + 1)] = "s"
      OBVIOUS
    <3>1. i + n \in i .. Len(f) /\ i + n < j
      BY <1>0, <1>3
    <3>2. i + n \notin T
      BY <1>3, <3>1
    <3>3. f[(i + n) + 1] = "s"
      BY <3>1, <3>2
    <3>4. QED
      BY <3>1, <3>3
  <2>3. S = Nat
    <3> HIDE DEF S
    <3>1. S \in SUBSET Nat
      BY DEF S
    <3>2. QED
      BY <2>1, <2>2, <3>1, AllNaturals
  <2>4. ASSUME NEW k \in i .. j
        PROVE  f[k] = "s"
    <3>1. k - i \in Nat /\ i + (k - i) = k /\ k <= j
      BY <1>0, <1>3
    <3>2. k - i \in S
      BY <2>3, <3>1
    <3>3. QED
      BY <3>1, <3>2
  <2>5. QED
    BY <2>4
<1>5. QED
  <2> HIDE DEF T
  <2>1. \E k \in i .. Len(f) : /\ \A n \in i .. k : f[n] = "s"
                               /\ k = Len(f) \/ f[k + 1] # "s"
    BY <1>3, <1>4
  <2>2. QED
    BY <2>1 DEF NameEnd

(* What one step of the scanner makes of what follows. *)
LEMMA RenderKinds ==
  ASSUME NEW f \in Seq(Characters), NEW i \in Places(f), NEW q \in Scanners,
         NEW style, NEW bind
  PROVE  /\ i = Len(f) + 1 =>
              \A from : RenderNode(from, f, i, q, style, bind) =
                          IF q = Outside THEN Empty ELSE Raises
         /\ i <= Len(f) /\ q # Outside /\ Escapes(f, i, q) =>
              /\ i + 2 \in Places(f)
              /\ \A from : RenderNode(from, f, i, q, style, bind) =
                   Followed(Raw(f[i], bind), Followed(Raw(f[i + 1], bind), from[i + 2][q]))
         /\ i <= Len(f) /\ q # Outside /\ ~Escapes(f, i, q) =>
              /\ i + 1 \in Places(f)
              /\ \A from : RenderNode(from, f, i, q, style, bind) =
                   Followed(Raw(f[i], bind), from[i + 1][IF f[i] = q THEN Outside ELSE q])
         /\ i <= Len(f) /\ q = Outside /\ IsMarker(f, i) =>
              /\ NameEnd(f, i + 1) \in i + 1 .. Len(f)
              /\ NameEnd(f, i + 1) + 1 \in Places(f)
              /\ \A from : RenderNode(from, f, i, q, style, bind) =
                   IF Name(f, i) \in scan.names
                   THEN Followed(Value("value", style), from[NameEnd(f, i + 1) + 1][q])
                   ELSE Raises
         /\ i <= Len(f) /\ q = Outside /\ ~IsMarker(f, i) =>
              /\ i + 1 \in Places(f)
              /\ \A from : RenderNode(from, f, i, q, style, bind) =
                   Followed(Raw(f[i], bind),
                            from[i + 1][IF f[i] \in Quotes THEN f[i] ELSE Outside])
<1>0. Len(f) \in Nat
  OBVIOUS
<1>1. CASE i = Len(f) + 1
  <2>1. i > Len(f) /\ ~(i <= Len(f))
    BY <1>0, <1>1
  <2>2. \A from : RenderNode(from, f, i, q, style, bind) = IF q = Outside THEN Empty ELSE Raises
    BY <2>1 DEF RenderNode, Empty
  <2>3. QED
    BY <2>1, <2>2
<1>2. CASE i <= Len(f) /\ q # Outside /\ Escapes(f, i, q)
  <2>1. i + 2 \in Places(f) /\ ~(i > Len(f)) /\ i # Len(f) + 1
    BY <1>0, <1>2 DEF Escapes, Places
  <2>2. QED
    BY <1>2, <2>1 DEF RenderNode
<1>3. CASE i <= Len(f) /\ q # Outside /\ ~Escapes(f, i, q)
  <2>1. i + 1 \in Places(f) /\ ~(i > Len(f)) /\ i # Len(f) + 1
    BY <1>0, <1>3 DEF Places
  <2>2. QED
    BY <1>3, <2>1 DEF RenderNode
<1>4. CASE i <= Len(f) /\ q = Outside /\ IsMarker(f, i)
  <2>1. f[i] = ":" /\ i + 1 \in 1 .. Len(f) /\ f[i + 1] = "s"
        /\ ~(i > Len(f)) /\ i # Len(f) + 1
    BY <1>0, <1>4 DEF IsMarker, Places
  <2>2. NameEnd(f, i + 1) \in i + 1 .. Len(f)
    BY <2>1, NameEnds
  <2>3. NameEnd(f, i + 1) + 1 \in Places(f)
    BY <1>0, <2>2 DEF Places
  <2>4. f[i] \notin Quotes
    BY <2>1 DEF Quotes
  <2>5. QED
    BY <1>4, <2>1, <2>2, <2>3, <2>4 DEF RenderNode
<1>5. CASE i <= Len(f) /\ q = Outside /\ ~IsMarker(f, i)
  <2>1. i + 1 \in Places(f) /\ ~(i > Len(f)) /\ i # Len(f) + 1
    BY <1>0, <1>5 DEF Places
  <2>2. QED
    BY <1>5, <2>1 DEF RenderNode
<1>6. QED
  BY <1>0, <1>1, <1>2, <1>3, <1>4, <1>5 DEF Places

LEMMA RenderLocal ==
  ASSUME NEW f \in Seq(Characters), NEW i \in Places(f), NEW q \in Scanners,
         NEW style, NEW bind, NEW g, NEW h,
         \A j \in Places(f) : j > i => \A r \in Scanners : g[j][r] = h[j][r]
  PROVE  RenderNode(g, f, i, q, style, bind) = RenderNode(h, f, i, q, style, bind)
<1>0. Len(f) \in Nat /\ i \in Nat /\ (i = Len(f) + 1 \/ i <= Len(f))
  BY DEF Places
<1>1. CASE i = Len(f) + 1
  BY <1>1, RenderKinds
<1>2. CASE i <= Len(f) /\ q # Outside /\ Escapes(f, i, q)
  <2>1. i + 2 \in Places(f) /\ i + 2 > i
    BY <1>0, <1>2, RenderKinds
  <2>2. g[i + 2][q] = h[i + 2][q]
    BY <2>1
  <2>3. QED
    BY <1>2, <2>2, RenderKinds
<1>3. CASE i <= Len(f) /\ q # Outside /\ ~Escapes(f, i, q)
  <2> DEFINE r == IF f[i] = q THEN Outside ELSE q
  <2>1. i + 1 \in Places(f) /\ i + 1 > i /\ r \in Scanners
    BY <1>0, <1>3, RenderKinds DEF Scanners
  <2>2. g[i + 1][r] = h[i + 1][r]
    BY <2>1
  <2>3. QED
    BY <1>3, <2>2, RenderKinds
<1>4. CASE i <= Len(f) /\ q = Outside /\ IsMarker(f, i)
  <2> DEFINE n == NameEnd(f, i + 1)
  <2>1. n \in i + 1 .. Len(f) /\ n + 1 \in Places(f)
    BY <1>4, RenderKinds
  <2>2. n + 1 > i
    BY <1>0, <2>1
  <2>3. g[n + 1][q] = h[n + 1][q]
    BY <2>1, <2>2
  <2>4. QED
    BY <1>4, <2>3, RenderKinds
<1>5. CASE i <= Len(f) /\ q = Outside /\ ~IsMarker(f, i)
  <2> DEFINE r == IF f[i] \in Quotes THEN f[i] ELSE Outside
  <2>1. i + 1 \in Places(f) /\ i + 1 > i /\ r \in Scanners
    BY <1>0, <1>5, RenderKinds DEF Scanners
  <2>2. g[i + 1][r] = h[i + 1][r]
    BY <2>1
  <2>3. QED
    BY <1>5, <2>2, RenderKinds
<1>6. QED
  BY <1>0, <1>1, <1>2, <1>3, <1>4, <1>5

(* The pieces a fragment is rendered in. *)
LEMMA FragmentPieces ==
  ASSUME NEW style, NEW bind
  PROVE  /\ \A c \in Characters : Raw(c, bind) \in Pieces
         /\ \A v \in Chars : Value(v, style) \in Pieces
         /\ "value" \in Chars
<1>1. Characters \subseteq Chars /\ {"%", "s", "value"} \subseteq Chars
  BY DEF Characters, Chars
<1>2. ASSUME NEW c \in Characters
      PROVE  Raw(c, bind) \in Pieces
  <2>1. <<c>> \in Seq(Chars) /\ <<"%", "%">> \in Seq(Chars)
    BY <1>1
  <2>2. QED
    BY <2>1, TextFields DEF Raw
<1>3. ASSUME NEW v \in Chars
      PROVE  Value(v, style) \in Pieces
  <2>1. <<v>> \in Seq(Chars) /\ <<"%", "s">> \in Seq(Chars)
    BY <1>1
  <2>2. QED
    BY <2>1, TextFields DEF Value, Pieces
<1>4. QED
  BY <1>1, <1>2, <1>3

LEMMA RenderTyped ==
  ASSUME NEW f \in Seq(Characters), NEW i \in Places(f), NEW q \in Scanners,
         NEW style, NEW bind, NEW from \in [Places(f) -> [Scanners -> Pieces]]
  PROVE  RenderNode(from, f, i, q, style, bind) \in Pieces
<1>0. Len(f) \in Nat /\ i \in Nat /\ (i = Len(f) + 1 \/ i <= Len(f))
  BY DEF Places
<1>1. \A j \in Places(f) : \A r \in Scanners : from[j][r] \in Pieces
  OBVIOUS
<1>2. /\ i <= Len(f) => Raw(f[i], bind) \in Pieces
      /\ i < Len(f) => Raw(f[i + 1], bind) \in Pieces
  <2>1. /\ i <= Len(f) => f[i] \in Characters
        /\ i < Len(f) => f[i + 1] \in Characters
    BY <1>0 DEF Places
  <2>2. QED
    BY <2>1, FragmentPieces
<1>3. CASE i = Len(f) + 1
  BY <1>3, RenderKinds, Constants
<1>4. CASE i <= Len(f) /\ q # Outside /\ Escapes(f, i, q)
  <2>1. i + 2 \in Places(f) /\ i < Len(f)
    BY <1>4, RenderKinds DEF Escapes
  <2>2. from[i + 2][q] \in Pieces
    BY <1>1, <2>1
  <2>3. Followed(Raw(f[i + 1], bind), from[i + 2][q]) \in Pieces
    BY <1>2, <2>1, <2>2, PieceFields
  <2>4. Followed(Raw(f[i], bind), Followed(Raw(f[i + 1], bind), from[i + 2][q])) \in Pieces
    BY <1>2, <1>4, <2>3, PieceFields
  <2>5. QED
    BY <1>4, <2>4, RenderKinds
<1>5. CASE i <= Len(f) /\ q # Outside /\ ~Escapes(f, i, q)
  <2> DEFINE r == IF f[i] = q THEN Outside ELSE q
  <2>1. i + 1 \in Places(f) /\ r \in Scanners
    BY <1>5, RenderKinds DEF Scanners
  <2>2. from[i + 1][r] \in Pieces
    BY <1>1, <2>1
  <2>3. Followed(Raw(f[i], bind), from[i + 1][r]) \in Pieces
    BY <1>2, <1>5, <2>2, PieceFields
  <2>4. QED
    BY <1>5, <2>3, RenderKinds
<1>6. CASE i <= Len(f) /\ q = Outside /\ IsMarker(f, i)
  <2> DEFINE n == NameEnd(f, i + 1)
  <2>1. n + 1 \in Places(f)
    BY <1>6, RenderKinds
  <2>2. from[n + 1][q] \in Pieces
    BY <1>1, <2>1
  <2>3. Value("value", style) \in Pieces
    BY FragmentPieces
  <2>4. Followed(Value("value", style), from[n + 1][q]) \in Pieces
    BY <2>2, <2>3, PieceFields
  <2>5. QED
    BY <1>6, <2>4, RenderKinds, Constants
<1>7. CASE i <= Len(f) /\ q = Outside /\ ~IsMarker(f, i)
  <2> DEFINE r == IF f[i] \in Quotes THEN f[i] ELSE Outside
  <2>1. i + 1 \in Places(f) /\ r \in Scanners
    BY <1>7, RenderKinds DEF Scanners
  <2>2. from[i + 1][r] \in Pieces
    BY <1>1, <2>1
  <2>3. Followed(Raw(f[i], bind), from[i + 1][r]) \in Pieces
    BY <1>2, <1>7, <2>2, PieceFields
  <2>4. QED
    BY <1>7, <2>3, RenderKinds
<1>8. QED
  BY <1>0, <1>3, <1>4, <1>5, <1>6, <1>7

(* RenderFrom is the function its definition describes. *)
LEMMA RenderFromStep ==
  ASSUME NEW f \in Seq(Characters), NEW style, NEW bind
  PROVE  /\ RenderFrom(f, style, bind) \in [Places(f) -> [Scanners -> Pieces]]
         /\ \A i \in Places(f) : \A q \in Scanners :
              RenderFrom(f, style, bind)[i][q] =
                RenderNode(RenderFrom(f, style, bind), f, i, q, style, bind)
<1> DEFINE E == Places(f)
           V == [Scanners -> Pieces]
           depth == [i \in E |-> Len(f) + 1 - i]
           Node(from, i) == [q \in Scanners |-> RenderNode(from, f, i, q, style, bind)]
           Step == [from \in [E -> V] |-> [i \in E |-> Node(from, i)]]
<1>1. depth \in [E -> Nat]
  <2>1. \A i \in E : Len(f) + 1 - i \in Nat
    BY DEF Places
  <2>2. QED
    BY <2>1
<1>2. \A i, j \in E : j > i => depth[j] < depth[i]
  BY DEF Places
<1>3. ASSUME NEW from \in [E -> V], NEW i \in E
      PROVE  Node(from, i) \in V
  BY RenderTyped
<1>4. ASSUME NEW g, NEW h, NEW i \in E, \A j \in E : depth[j] < depth[i] => g[j] = h[j]
      PROVE  Node(g, i) = Node(h, i)
  <2>1. \A j \in E : j > i => \A r \in Scanners : g[j][r] = h[j][r]
    BY <1>2, <1>4
  <2>2. \A q \in Scanners : RenderNode(g, f, i, q, style, bind)
                              = RenderNode(h, f, i, q, style, bind)
    BY <2>1, RenderLocal
  <2>3. QED
    BY <2>2
<1>5. PICK g \in [E -> V] : g = [i \in E |-> Node(g, i)]
  <2> HIDE DEF Node, E, V, depth
  <2>1. Step \in [[E -> V] -> [E -> V]]
    BY <1>3
  <2>2. ASSUME NEW g \in [E -> V], NEW h \in [E -> V], NEW i \in E,
               \A j \in E : depth[j] < depth[i] => g[j] = h[j]
        PROVE  Step[g][i] = Step[h][i]
    BY <1>4, <2>2
  <2>3. [q \in Scanners |-> Empty] \in V
    BY Constants DEF V
  <2>4. \E g \in [E -> V] : g = Step[g]
    <3> HIDE DEF Step
    <3>1. \A g, h \in [E -> V] : \A i \in E :
            (\A j \in E : depth[j] < depth[i] => g[j] = h[j]) => Step[g][i] = Step[h][i]
      BY <2>2
    <3>2. Descends(E, V, depth, Step)
      BY <1>1, <2>1, <3>1 DEF Descends
    <3>3. QED
      BY <2>3, <3>2, Recursion
  <2>5. QED
    BY <2>4
<1> DEFINE h == RenderFrom(f, style, bind)
<1>6. h = [i \in E |-> Node(h, i)]
  BY <1>5 DEF RenderFrom, Places, Scanners
<1> HIDE DEF h
<1>7. \A i \in E : g[i] = h[i]
  <2> HIDE DEF Node, E, V, depth, Step
  <2>1. ASSUME NEW i \in E, \A j \in E : depth[j] < depth[i] => g[j] = h[j]
        PROVE  g[i] = h[i]
    <3>1. g[i] = Node(g, i) /\ h[i] = Node(h, i)
      BY <1>5, <1>6
    <3>2. QED
      BY <1>4, <2>1, <3>1
  <2>2. Agree(E, depth, g, h)
    BY <1>1, <2>1 DEF Agree
  <2>3. QED
    BY <2>2, SameRecursion
<1>8. h = g
  BY <1>5, <1>6, <1>7
<1>9. \A i \in E : h[i] = Node(h, i)
  BY <1>6
<1>10. QED
  BY <1>8, <1>9 DEF h

-------------------------------------------------------------------------------
(* The renderer of predicates *)

(* A relation between the pieces of the two styles that holds of all a
   predicate is rendered in. *)
Renders(R) ==
    /\ Congruence(R)
    /\ \A word \in Words : <<Text(<<word>>), Text(<<word>>)>> \in R
    /\ \A name \in Columns : <<Identifier(name), Identifier(name)>> \in R
    /\ \A value \in Literals : <<Value(value, "mysql"), Value(value, "flight")>> \in R

LEMMA PredicateForms ==
  ASSUME NEW p \in Predicates
  PROVE  \/ /\ p[1] = "compare" /\ p[2] \in Comparisons
            /\ Comparable(p[3]) /\ Comparable(p[4])
         \/ p[1] \in Connectives /\ p[2] \in Below(p) /\ p[3] \in Below(p)
         \/ p[1] = "not" /\ p[2] \in Below(p)
         \/ p[1] = "isnull" /\ Comparable(p[2])
         \/ /\ p[1] = "in" /\ Comparable(p[2]) /\ p[3] \in Seq(Expressions)
            /\ \A i \in DOMAIN p[3] : Comparable(p[3][i])
<1>1. CASE p[1] = "compare" /\ p[2] \in Comparisons /\ Comparable(p[3]) /\ Comparable(p[4])
  BY <1>1
<1>2. CASE \E e \in Supported : p = Visit[e] /\ e[1] \notin Comparisons
  <2>1. PICK e \in Supported : p = Visit[e] /\ e[1] \notin Comparisons
    BY <1>2
  <2>2. CASE e[1] \in Connectives
    <3>1. p[1] \in Connectives
      BY <2>1, <2>2, SupportedKinds DEF Connectives, Comparisons
    <3>2. QED
      BY <3>1 DEF Below
  <2>3. CASE e[1] = "not"
    <3>1. p[1] = "not"
      BY <2>1, <2>3, SupportedKinds DEF Connectives, Comparisons
    <3>2. QED
      BY <3>1 DEF Below, Connectives
  <2>4. CASE e[1] = "between"
    <3>1. p[1] = "and"
      BY <2>1, <2>4, SupportedKinds DEF Connectives, Comparisons
    <3>2. QED
      BY <3>1 DEF Below, Connectives
  <2>5. CASE e[1] = "is_in"
    <3>1. /\ p = <<"in", e[2], e[3]>> /\ ColumnOf(e[2]) /\ e[3] \in Seq(Expressions)
          /\ \A i \in DOMAIN e[3] : ConstantOf(e[3][i])
      BY <2>1, <2>5, SupportedKinds DEF Connectives, Comparisons
    <3>2. QED
      BY <3>1 DEF Comparable
  <2>6. CASE e[1] \in {"is_null", "not_null"}
    <3>1. p[1] = "isnull" /\ p[2] = e[2] /\ ColumnOf(e[2])
      BY <2>1, <2>6, SupportedKinds DEF Connectives, Comparisons
    <3>2. QED
      BY <3>1 DEF Comparable
  <2>7. QED
    BY <2>1, <2>2, <2>3, <2>4, <2>5, <2>6, SupportedKinds
<1>3. QED
  BY <1>1, <1>2, PredicateKinds

LEMMA ValueRelated ==
  ASSUME NEW R, Renders(R), NEW x, Comparable(x)
  PROVE  <<RenderValue(x, "mysql"), RenderValue(x, "flight")>> \in R
<1>1. CASE ColumnOf(x)
  <2>1. PICK name \in Columns : x = <<"column", name>>
    BY <1>1 DEF ColumnOf
  <2>2. \A style : RenderValue(x, style) = Identifier(name)
    BY <2>1 DEF RenderValue, IsColumn
  <2>3. QED
    BY <2>2 DEF Renders
<1>2. CASE ConstantOf(x)
  <2>1. PICK value \in Values : x = <<"literal", value>>
    BY <1>2 DEF ConstantOf
  <2>2. value # NULL
    BY ValueAssumption DEF NULL
  <2>3. \A style : RenderValue(x, style) = Value(ToString(value), style)
    BY <2>1, <2>2 DEF RenderValue, IsColumn
  <2>4. ToString(value) \in Literals
    BY DEF Literals
  <2>5. QED
    BY <2>3, <2>4 DEF Renders
<1>3. QED
  BY <1>1, <1>2 DEF Comparable

LEMMA ParenthesizedRelated ==
  ASSUME NEW R, Renders(R), NEW a \in Pieces, NEW b \in Pieces, <<a, b>> \in R
  PROVE  <<Parenthesized(a), Parenthesized(b)>> \in R
<1> DEFINE l == Text(<<"(">>)
           r == Text(<<")">>)
<1>1. <<l, l>> \in R /\ <<r, r>> \in R /\ l \in Pieces /\ r \in Pieces
  <2>1. "(" \in Words /\ ")" \in Words
    BY DEF Words
  <2>2. <<l, l>> \in R /\ <<r, r>> \in R
    BY <2>1 DEF Renders
  <2>3. QED
    BY <2>2 DEF Renders, Congruence
<1> HIDE DEF l, r
<1>2. <<Followed(a, r), Followed(b, r)>> \in R
  BY <1>1 DEF Renders, Congruence
<1>3. Followed(a, r) \in Pieces /\ Followed(b, r) \in Pieces
  BY <1>1, PieceFields
<1>4. <<Followed(l, Followed(a, r)), Followed(l, Followed(b, r))>> \in R
  BY <1>1, <1>2, <1>3 DEF Renders, Congruence
<1>5. QED
  BY <1>4 DEF Parenthesized, l, r

LEMMA FollowedRelated ==
  ASSUME NEW R, Renders(R)
  PROVE  /\ \A a, b : <<a, b>> \in R => a \in Pieces /\ b \in Pieces
         /\ \A a, b, c, d : <<a, b>> \in R /\ <<c, d>> \in R =>
                              <<Followed(a, c), Followed(b, d)>> \in R
BY DEF Renders, Congruence

(* What a predicate is rendered in, from what its operands are. *)
LEMMA PredicateNodeKinds ==
  ASSUME NEW p \in Predicates, NEW f, NEW style
  PROVE  /\ p[1] = "compare" =>
              PredicateNode(f, p, style) = Parenthesized(
                Followed(RenderValue(p[3], style),
                         Followed(Text(<<p[2]>>), RenderValue(p[4], style))))
         /\ p[1] \in Connectives =>
              PredicateNode(f, p, style) = Parenthesized(
                Followed(f[p[2]], Followed(Text(<<p[1]>>), f[p[3]])))
         /\ p[1] = "not" =>
              PredicateNode(f, p, style) = Parenthesized(Followed(Text(<<"not">>), f[p[2]]))
         /\ p[1] = "isnull" =>
              PredicateNode(f, p, style) = Parenthesized(
                Followed(RenderValue(p[2], style),
                         Text(<<IF p[3] = "plain" THEN "is null" ELSE "is not null">>)))
BY DEF PredicateNode, Connectives

LEMMA PredicateNodeIn ==
  ASSUME NEW p \in Predicates, NEW f, NEW style, p[1] = "in"
  PROVE  PredicateNode(f, p, style) = Parenthesized(
           Followed(Followed(RenderValue(p[2], style), Text(<<"in">>)),
                    Concat([i \in DOMAIN p[3] |-> RenderValue(p[3][i], style)])))
BY DEF PredicateNode, Connectives

LEMMA NodeRelated ==
  ASSUME NEW R, Renders(R), NEW p \in Predicates, NEW f, NEW g,
         \A q \in Below(p) : <<f[q], g[q]>> \in R
  PROVE  <<PredicateNode(f, p, "mysql"), PredicateNode(g, p, "flight")>> \in R
<1>0. /\ \A a, b : <<a, b>> \in R => <<Parenthesized(a), Parenthesized(b)>> \in R
      /\ \A a, b, c, d : <<a, b>> \in R /\ <<c, d>> \in R =>
                           <<Followed(a, c), Followed(b, d)>> \in R
      /\ \A word \in Words : <<Text(<<word>>), Text(<<word>>)>> \in R
  BY FollowedRelated, ParenthesizedRelated DEF Renders
<1>1. CASE p[1] = "compare" /\ p[2] \in Comparisons /\ Comparable(p[3]) /\ Comparable(p[4])
  <2>1. /\ <<RenderValue(p[3], "mysql"), RenderValue(p[3], "flight")>> \in R
        /\ <<RenderValue(p[4], "mysql"), RenderValue(p[4], "flight")>> \in R
    BY <1>1, ValueRelated
  <2>2. <<Text(<<p[2]>>), Text(<<p[2]>>)>> \in R
    BY <1>0, <1>1 DEF Words
  <2>3. <<Followed(RenderValue(p[3], "mysql"),
                   Followed(Text(<<p[2]>>), RenderValue(p[4], "mysql"))),
          Followed(RenderValue(p[3], "flight"),
                   Followed(Text(<<p[2]>>), RenderValue(p[4], "flight")))>> \in R
    BY <1>0, <2>1, <2>2
  <2>4. \A h, style : PredicateNode(h, p, style) = Parenthesized(
          Followed(RenderValue(p[3], style),
                   Followed(Text(<<p[2]>>), RenderValue(p[4], style))))
    BY <1>1, PredicateNodeKinds
  <2>5. QED
    BY <1>0, <2>3, <2>4
<1>2. CASE p[1] \in Connectives /\ p[2] \in Below(p) /\ p[3] \in Below(p)
  <2>1. <<f[p[2]], g[p[2]]>> \in R /\ <<f[p[3]], g[p[3]]>> \in R
    BY <1>2
  <2>2. <<Text(<<p[1]>>), Text(<<p[1]>>)>> \in R
    BY <1>0, <1>2 DEF Words
  <2>3. <<Followed(f[p[2]], Followed(Text(<<p[1]>>), f[p[3]])),
          Followed(g[p[2]], Followed(Text(<<p[1]>>), g[p[3]]))>> \in R
    BY <1>0, <2>1, <2>2
  <2>4. \A h, style : PredicateNode(h, p, style) = Parenthesized(
          Followed(h[p[2]], Followed(Text(<<p[1]>>), h[p[3]])))
    BY <1>2, PredicateNodeKinds
  <2>5. QED
    BY <1>0, <2>3, <2>4
<1>3. CASE p[1] = "not" /\ p[2] \in Below(p)
  <2>1. <<f[p[2]], g[p[2]]>> \in R
    BY <1>3
  <2>2. <<Text(<<"not">>), Text(<<"not">>)>> \in R
    BY <1>0 DEF Words
  <2>3. <<Followed(Text(<<"not">>), f[p[2]]), Followed(Text(<<"not">>), g[p[2]])>> \in R
    BY <1>0, <2>1, <2>2
  <2>4. \A h, style : PredicateNode(h, p, style) = Parenthesized(
          Followed(Text(<<"not">>), h[p[2]]))
    BY <1>3, PredicateNodeKinds
  <2>5. QED
    BY <1>0, <2>3, <2>4
<1>4. CASE p[1] = "isnull" /\ Comparable(p[2])
  <2> DEFINE word == IF p[3] = "plain" THEN "is null" ELSE "is not null"
  <2>1. <<RenderValue(p[2], "mysql"), RenderValue(p[2], "flight")>> \in R
    BY <1>4, ValueRelated
  <2>2. <<Text(<<word>>), Text(<<word>>)>> \in R
    <3>1. word \in Words
      BY DEF Words
    <3>2. QED
      BY <1>0, <3>1
  <2>3. <<Followed(RenderValue(p[2], "mysql"), Text(<<word>>)),
          Followed(RenderValue(p[2], "flight"), Text(<<word>>))>> \in R
    <3> HIDE DEF word
    <3>1. QED
      BY <1>0, <2>1, <2>2
  <2>4. \A h, style : PredicateNode(h, p, style) = Parenthesized(
          Followed(RenderValue(p[2], style), Text(<<word>>)))
    BY <1>4, PredicateNodeKinds
  <2>5. QED
    BY <1>0, <2>3, <2>4
<1>5. CASE /\ p[1] = "in" /\ Comparable(p[2]) /\ p[3] \in Seq(Expressions)
           /\ \A i \in DOMAIN p[3] : Comparable(p[3][i])
  <2> DEFINE items(style) == [i \in DOMAIN p[3] |-> RenderValue(p[3][i], style)]
             s == items("mysql")
             t == items("flight")
  <2>1. <<RenderValue(p[2], "mysql"), RenderValue(p[2], "flight")>> \in R
    BY <1>5, ValueRelated
  <2>2. <<Text(<<"in">>), Text(<<"in">>)>> \in R
    BY <1>0 DEF Words
  <2>3. \A i \in DOMAIN p[3] :
          <<RenderValue(p[3][i], "mysql"), RenderValue(p[3][i], "flight")>> \in R
    BY <1>5, ValueRelated
  <2>4. \A i \in DOMAIN p[3] : /\ RenderValue(p[3][i], "mysql") \in Pieces
                               /\ RenderValue(p[3][i], "flight") \in Pieces
    BY <2>3, FollowedRelated
  <2>5. DOMAIN p[3] = 1 .. Len(p[3]) /\ Len(p[3]) \in Nat
    BY <1>5
  <2>6. s \in Seq(Pieces) /\ t \in Seq(Pieces)
    BY <2>4, <2>5
  <2>7. Len(s) = Len(p[3]) /\ Len(t) = Len(p[3])
    BY <2>5
  <2>8. \A i \in 1 .. Len(s) : <<s[i], t[i]>> \in R
    BY <2>3, <2>5, <2>7
  <2>9. <<Concat(s), Concat(t)>> \in R
    <3> HIDE DEF s, t
    <3>1. Congruence(R)
      BY DEF Renders
    <3>2. QED
      BY <2>6, <2>7, <2>8, <3>1, ConcatRelated
  <2>10. <<Followed(Followed(RenderValue(p[2], "mysql"), Text(<<"in">>)), Concat(s)),
           Followed(Followed(RenderValue(p[2], "flight"), Text(<<"in">>)), Concat(t))>> \in R
    <3> HIDE DEF s, t
    <3>1. QED
      BY <1>0, <2>1, <2>2, <2>9
  <2>11. /\ PredicateNode(f, p, "mysql") = Parenthesized(
              Followed(Followed(RenderValue(p[2], "mysql"), Text(<<"in">>)), Concat(s)))
         /\ PredicateNode(g, p, "flight") = Parenthesized(
              Followed(Followed(RenderValue(p[2], "flight"), Text(<<"in">>)), Concat(t)))
    BY <1>5, PredicateNodeIn
  <2>12. QED
    <3> HIDE DEF s, t
    <3>1. QED
      BY <1>0, <2>10, <2>11
<1>6. QED
  BY <1>1, <1>2, <1>3, <1>4, <1>5, PredicateForms

(* All of a predicate is rendered in pieces. *)
LEMMA PredicatePieces ==
  /\ \A word \in Words : Text(<<word>>) \in Pieces
  /\ \A name \in Columns : Identifier(name) \in Pieces
  /\ \A value \in Literals : Value(value, "mysql") \in Pieces /\ Value(value, "flight") \in Pieces
<1>1. ASSUME NEW word \in Words
      PROVE  Text(<<word>>) \in Pieces
  <2>1. <<word>> \in Seq(Chars)
    BY DEF Chars
  <2>2. QED
    BY <2>1, TextFields
<1>2. ASSUME NEW name \in Columns
      PROVE  Identifier(name) \in Pieces
  <2>1. name \in Chars /\ "tick" \in Chars /\ "p" \in Chars /\ "%" \in Chars
    BY DEF Chars, Characters, Quotes
  <2>2. <<"tick", name, "tick">> \in Seq(Chars) /\ <<"tick", "p", "%", "tick">> \in Seq(Chars)
    BY <2>1
  <2>3. QED
    BY <2>2, TextFields DEF Identifier
<1>3. ASSUME NEW value \in Literals
      PROVE  Value(value, "mysql") \in Pieces /\ Value(value, "flight") \in Pieces
  <2>1. value \in Chars
    BY DEF Chars
  <2>2. QED
    BY <2>1, FragmentPieces
<1>4. QED
  BY <1>1, <1>2, <1>3

LEMMA PiecesRender == Renders(Pieces \X Pieces)
<1>1. Congruence(Pieces \X Pieces)
  BY Constants, PieceFields DEF Congruence
<1>2. QED
  BY <1>1, PredicatePieces DEF Renders

LEMMA NodeTyped ==
  ASSUME NEW p \in Predicates, NEW f \in [Predicates -> Pieces], NEW style \in Styles
  PROVE  PredicateNode(f, p, style) \in Pieces
<1>1. \A q \in Below(p) : f[q] \in Pieces
  BY BelowRanks
<1>2. \A q \in Below(p) : <<f[q], f[q]>> \in Pieces \X Pieces
  BY <1>1
<1>3. <<PredicateNode(f, p, "mysql"), PredicateNode(f, p, "flight")>> \in Pieces \X Pieces
  BY <1>2, PiecesRender, NodeRelated
<1>4. QED
  BY <1>3 DEF Styles

LEMMA NodeLocal ==
  ASSUME NEW p \in Predicates, NEW f, NEW g, NEW style, \A q \in Below(p) : f[q] = g[q]
  PROVE  PredicateNode(f, p, style) = PredicateNode(g, p, style)
<1>1. CASE p[1] = "compare"
  <2>1. \A h, t : PredicateNode(h, p, t) = Parenthesized(
                   Followed(RenderValue(p[3], t),
                            Followed(Text(<<p[2]>>), RenderValue(p[4], t))))
    BY <1>1 DEF PredicateNode, Connectives
  <2>2. QED
    BY <2>1
<1>2. CASE p[1] \in Connectives
  <2>1. p[2] \in Below(p) /\ p[3] \in Below(p)
    BY <1>2 DEF Below, Connectives
  <2>2. \A h : PredicateNode(h, p, style) = Parenthesized(
                 Followed(h[p[2]], Followed(Text(<<p[1]>>), h[p[3]])))
    BY <1>2, PredicateNodeKinds
  <2>3. QED
    BY <2>1, <2>2
<1>3. CASE p[1] = "not"
  <2>1. p[2] \in Below(p)
    BY <1>3 DEF Below, Connectives
  <2>2. \A h : PredicateNode(h, p, style) = Parenthesized(
                 Followed(Text(<<"not">>), h[p[2]]))
    BY <1>3, PredicateNodeKinds
  <2>3. QED
    BY <2>1, <2>2
<1>4. CASE p[1] = "isnull"
  <2> DEFINE word == IF p[3] = "plain" THEN "is null" ELSE "is not null"
  <2>1. \A h, t : PredicateNode(h, p, t) = Parenthesized(
                   Followed(RenderValue(p[2], t), Text(<<word>>)))
    BY <1>4 DEF PredicateNode, Connectives
  <2>2. QED
    BY <2>1
<1>5. CASE p[1] = "in"
  <2> DEFINE node == Parenthesized(
           Followed(Followed(RenderValue(p[2], style), Text(<<"in">>)),
                    Concat([i \in DOMAIN p[3] |-> RenderValue(p[3][i], style)])))
  <2>1. \A h : PredicateNode(h, p, style) = node
    BY <1>5, PredicateNodeIn
  <2>2. QED
    BY <2>1
<1>6. QED
  BY <1>1, <1>2, <1>3, <1>4, <1>5, PredicateHeads

(* RenderPredicate is the function its definition describes. *)
LEMMA RenderPredicateStep ==
  ASSUME NEW style \in Styles
  PROVE  /\ RenderPredicate(style) \in [Predicates -> Pieces]
         /\ \A p \in Predicates :
              RenderPredicate(style)[p] = PredicateNode(RenderPredicate(style), p, style)
<1> DEFINE rank == [p \in Predicates |-> Rank(p)]
           Step == [f \in [Predicates -> Pieces] |->
                      [p \in Predicates |-> PredicateNode(f, p, style)]]
<1>1. rank \in [Predicates -> Nat]
  BY BelowRanks
<1>2. Step \in [[Predicates -> Pieces] -> [Predicates -> Pieces]]
  BY NodeTyped
<1>3. ASSUME NEW f, NEW g, NEW p \in Predicates,
             \A q \in Predicates : rank[q] < rank[p] => f[q] = g[q]
      PROVE  PredicateNode(f, p, style) = PredicateNode(g, p, style)
  <2>1. \A q \in Below(p) : q \in Predicates /\ rank[q] < rank[p]
    BY BelowRanks
  <2> HIDE DEF rank
  <2>2. \A q \in Below(p) : f[q] = g[q]
    BY <1>3, <2>1
  <2>3. QED
    BY <2>2, NodeLocal
<1>4. PICK f \in [Predicates -> Pieces] :
        f = [p \in Predicates |-> PredicateNode(f, p, style)]
  <2> HIDE DEF rank
  <2>1. \A f, g \in [Predicates -> Pieces] : \A p \in Predicates :
          (\A q \in Predicates : rank[q] < rank[p] => f[q] = g[q]) => Step[f][p] = Step[g][p]
    BY <1>3
  <2> HIDE DEF Step
  <2>2. Descends(Predicates, Pieces, rank, Step)
    BY <1>1, <1>2, <2>1 DEF Descends
  <2>3. \E f \in [Predicates -> Pieces] : f = Step[f]
    BY <2>2, Constants, Recursion
  <2>4. QED
    BY <2>3 DEF Step
<1> DEFINE g == RenderPredicate(style)
<1>5. g = [p \in Predicates |-> PredicateNode(g, p, style)]
  BY <1>4 DEF RenderPredicate
<1> HIDE DEF g
<1>6. \A p \in Predicates : f[p] = g[p]
  <2> HIDE DEF rank, Step
  <2>1. ASSUME NEW p \in Predicates, \A q \in Predicates : rank[q] < rank[p] => f[q] = g[q]
        PROVE  f[p] = g[p]
    <3>1. /\ f[p] = PredicateNode(f, p, style)
          /\ g[p] = PredicateNode(g, p, style)
      BY <1>4, <1>5
    <3>2. QED
      BY <1>3, <2>1, <3>1
  <2>2. Agree(Predicates, rank, f, g)
    BY <1>1, <2>1 DEF Agree
  <2>3. QED
    BY <2>2, SameRecursion
<1>7. g = f
  BY <1>4, <1>5, <1>6
<1>8. \A p \in Predicates : g[p] = PredicateNode(g, p, style)
  BY <1>5
<1>9. QED
  BY <1>7, <1>8 DEF g

(* What holds of the pieces of a predicate holds of the predicate. *)
LEMMA PredicateRelated ==
  ASSUME NEW R, Renders(R)
  PROVE  \A p \in Predicates : <<RenderPredicate("mysql")[p], RenderPredicate("flight")[p]>> \in R
<1> DEFINE f == RenderPredicate("mysql")
           g == RenderPredicate("flight")
           S == {n \in Nat : \A p \in Predicates : Rank(p) < n => <<f[p], g[p]>> \in R}
<1>1. /\ \A p \in Predicates : f[p] = PredicateNode(f, p, "mysql")
      /\ \A p \in Predicates : g[p] = PredicateNode(g, p, "flight")
  BY RenderPredicateStep DEF Styles
<1> HIDE DEF f, g
<1>2. 0 \in S
  BY BelowRanks
<1>3. ASSUME NEW n \in S
      PROVE  n + 1 \in S
  <2>1. ASSUME NEW p \in Predicates, Rank(p) < n + 1
        PROVE  <<f[p], g[p]>> \in R
    <3>1. \A q \in Below(p) : q \in Predicates /\ Rank(q) \in Nat /\ Rank(q) < Rank(p)
      BY BelowRanks
    <3>2. Rank(p) \in Nat
      BY BelowRanks
    <3>3. \A q \in Below(p) : <<f[q], g[q]>> \in R
      BY <2>1, <3>1, <3>2
    <3>4. <<PredicateNode(f, p, "mysql"), PredicateNode(g, p, "flight")>> \in R
      BY <3>3, NodeRelated
    <3>5. QED
      BY <1>1, <3>4
  <2>2. QED
    BY <2>1
<1>4. S = Nat
  <2> HIDE DEF S
  <2>1. S \in SUBSET Nat
    BY DEF S
  <2>2. QED
    BY <1>2, <1>3, <2>1, AllNaturals
<1>5. ASSUME NEW p \in Predicates
      PROVE  <<f[p], g[p]>> \in R
  <2>1. Rank(p) \in Nat
    BY BelowRanks
  <2>2. Rank(p) + 1 \in S /\ Rank(p) < Rank(p) + 1
    BY <1>4, <2>1
  <2>3. QED
    BY <2>2
<1>6. QED
  BY <1>5 DEF f, g

(* What holds of the pieces of a fragment holds of the fragment. *)
LEMMA FragmentRelated ==
  ASSUME NEW R, Congruence(R), <<Raises, Raises>> \in R,
         NEW s, NEW t, NEW b, NEW d,
         \A c \in Characters : <<Raw(c, b), Raw(c, d)>> \in R,
         scan.names = {} \/ <<Value("value", s), Value("value", t)>> \in R,
         NEW f \in Seq(Characters)
  PROVE  \A i \in Places(f) : \A q \in Scanners :
           <<RenderFrom(f, s, b)[i][q], RenderFrom(f, t, d)[i][q]>> \in R
<1> DEFINE g == RenderFrom(f, s, b)
           h == RenderFrom(f, t, d)
           Holds(i) == \A q \in Scanners : <<g[i][q], h[i][q]>> \in R
           S == {i \in Places(f) : Holds(i)}
<1>0. Len(f) \in Nat /\ \A i \in Places(f) : i \in Nat /\ Len(f) + 1 - i \in Nat
  BY DEF Places
<1>1. /\ \A i \in Places(f) : \A q \in Scanners : g[i][q] = RenderNode(g, f, i, q, s, b)
      /\ \A i \in Places(f) : \A q \in Scanners : h[i][q] = RenderNode(h, f, i, q, t, d)
  BY RenderFromStep
<1>2. \A j, k, l, m : <<j, k>> \in R /\ <<l, m>> \in R => <<Followed(j, l), Followed(k, m)>> \in R
  BY DEF Congruence
<1>3. <<Empty, Empty>> \in R
  BY DEF Congruence
<1> HIDE DEF g, h
<1>4. ASSUME NEW i \in Places(f), \A j \in Places(f) : j > i => Holds(j), NEW q \in Scanners
      PROVE  <<g[i][q], h[i][q]>> \in R
  <2>0. i \in Nat /\ (i = Len(f) + 1 \/ i <= Len(f))
    BY <1>0 DEF Places
  <2>1. /\ i <= Len(f) => <<Raw(f[i], b), Raw(f[i], d)>> \in R
        /\ i < Len(f) => <<Raw(f[i + 1], b), Raw(f[i + 1], d)>> \in R
    <3>1. /\ i <= Len(f) => f[i] \in Characters
          /\ i < Len(f) => f[i + 1] \in Characters
      BY <1>0, <2>0 DEF Places
    <3>2. QED
      BY <3>1
  <2>2. CASE i = Len(f) + 1
    <3>1. /\ g[i][q] = IF q = Outside THEN Empty ELSE Raises
          /\ h[i][q] = IF q = Outside THEN Empty ELSE Raises
      BY <1>1, <2>2, RenderKinds
    <3>2. QED
      BY <1>3, <3>1
  <2>3. CASE i <= Len(f) /\ q # Outside /\ Escapes(f, i, q)
    <3>1. i + 2 \in Places(f) /\ i < Len(f)
      BY <2>3, RenderKinds DEF Escapes
    <3>2. /\ g[i][q] = Followed(Raw(f[i], b), Followed(Raw(f[i + 1], b), g[i + 2][q]))
          /\ h[i][q] = Followed(Raw(f[i], d), Followed(Raw(f[i + 1], d), h[i + 2][q]))
      BY <1>1, <2>3, RenderKinds
    <3>3. <<g[i + 2][q], h[i + 2][q]>> \in R
      BY <1>4, <2>0, <3>1
    <3>4. QED
      BY <1>2, <2>1, <2>3, <3>1, <3>2, <3>3
  <2>4. CASE i <= Len(f) /\ q # Outside /\ ~Escapes(f, i, q)
    <3> DEFINE r == IF f[i] = q THEN Outside ELSE q
    <3>1. i + 1 \in Places(f) /\ r \in Scanners
      BY <2>4, RenderKinds DEF Scanners
    <3>2. /\ g[i][q] = Followed(Raw(f[i], b), g[i + 1][r])
          /\ h[i][q] = Followed(Raw(f[i], d), h[i + 1][r])
      BY <1>1, <2>4, RenderKinds
    <3> HIDE DEF r
    <3>3. <<g[i + 1][r], h[i + 1][r]>> \in R
      BY <1>4, <2>0, <3>1
    <3>4. QED
      BY <1>2, <2>1, <2>4, <3>2, <3>3
  <2>5. CASE i <= Len(f) /\ q = Outside /\ IsMarker(f, i)
    <3> DEFINE n == NameEnd(f, i + 1)
    <3>1. n \in i + 1 .. Len(f) /\ n + 1 \in Places(f)
      BY <2>5, RenderKinds
    <3>2. n + 1 > i
      BY <2>0, <3>1
    <3>3. <<g[n + 1][q], h[n + 1][q]>> \in R
      BY <1>4, <3>1, <3>2
    <3>4. CASE Name(f, i) \in scan.names
      <4>1. /\ g[i][q] = Followed(Value("value", s), g[n + 1][q])
            /\ h[i][q] = Followed(Value("value", t), h[n + 1][q])
        BY <1>1, <2>5, <3>4, RenderKinds
      <4>2. <<Value("value", s), Value("value", t)>> \in R
        BY <3>4
      <4>3. QED
        BY <1>2, <3>3, <4>1, <4>2
    <3>5. CASE Name(f, i) \notin scan.names
      <4>1. g[i][q] = Raises /\ h[i][q] = Raises
        BY <1>1, <2>5, <3>5, RenderKinds
      <4>2. QED
        BY <4>1
    <3>6. QED
      BY <3>4, <3>5
  <2>6. CASE i <= Len(f) /\ q = Outside /\ ~IsMarker(f, i)
    <3> DEFINE r == IF f[i] \in Quotes THEN f[i] ELSE Outside
    <3>1. i + 1 \in Places(f) /\ r \in Scanners
      BY <2>6, RenderKinds DEF Scanners
    <3>2. /\ g[i][q] = Followed(Raw(f[i], b), g[i + 1][r])
          /\ h[i][q] = Followed(Raw(f[i], d), h[i + 1][r])
      BY <1>1, <2>6, RenderKinds
    <3> HIDE DEF r
    <3>3. <<g[i + 1][r], h[i + 1][r]>> \in R
      BY <1>4, <2>0, <3>1
    <3>4. QED
      BY <1>2, <2>1, <2>6, <3>2, <3>3
  <2>7. QED
    BY <2>0, <2>2, <2>3, <2>4, <2>5, <2>6
<1>5. \A i \in Places(f) : (\A j \in Places(f) : j > i => j \in S) => i \in S
  BY <1>4
<1>6. S = Places(f)
  <2>1. S \in SUBSET Places(f)
    OBVIOUS
  <2> HIDE DEF S
  <2>2. QED
    BY <1>0, <1>5, <2>1, FromTheEnd
<1>7. QED
  BY <1>6 DEF g, h

-------------------------------------------------------------------------------
(* The formatting of PyMySQL *)

Formatted(x) == Format(x.text, x.values)[1][1]

(* What FormatNode is at the end of the text, at other characters than %, at
   a doubled one, at a marker, and at a % that is neither. *)
LEMMA FormatEnd ==
  ASSUME NEW text \in Seq(Chars), NEW values \in Seq(Chars),
         NEW i \in Places(text), NEW k \in Places(values),
         i = Len(text) + 1
  PROVE  \A from : FormatNode(from, text, values, i, k) =
                     IF k = Len(values) + 1 THEN Empty ELSE Raises
<1>1. i > Len(text) /\ (k > Len(values) <=> k = Len(values) + 1)
  BY DEF Places
<1>2. QED
  BY <1>1 DEF FormatNode, Empty

LEMMA FormatPlain ==
  ASSUME NEW text \in Seq(Chars), NEW values \in Seq(Chars),
         NEW i \in Places(text), NEW k \in Places(values),
         i <= Len(text), text[i] # "%"
  PROVE  /\ i + 1 \in Places(text)
         /\ \A from : FormatNode(from, text, values, i, k) =
                        Followed(Text(<<text[i]>>), from[i + 1][k])
<1>1. ~(i > Len(text)) /\ i + 1 \in Places(text)
  BY DEF Places
<1>2. QED
  BY <1>1 DEF FormatNode

LEMMA FormatDoubled ==
  ASSUME NEW text \in Seq(Chars), NEW values \in Seq(Chars),
         NEW i \in Places(text), NEW k \in Places(values),
         i < Len(text), text[i] = "%", text[i + 1] = "%"
  PROVE  /\ i + 2 \in Places(text)
         /\ \A from : FormatNode(from, text, values, i, k) =
                        Followed(Text(<<"%">>), from[i + 2][k])
<1>1. ~(i > Len(text)) /\ i + 2 \in Places(text)
  BY DEF Places
<1>2. QED
  BY <1>1 DEF FormatNode

LEMMA FormatMarker ==
  ASSUME NEW text \in Seq(Chars), NEW values \in Seq(Chars),
         NEW i \in Places(text), NEW k \in Places(values),
         i < Len(text), text[i] = "%", text[i + 1] = "s", k <= Len(values)
  PROVE  /\ i + 2 \in Places(text) /\ k + 1 \in Places(values)
         /\ \A from : FormatNode(from, text, values, i, k) =
                        Followed(Text(<<values[k]>>), from[i + 2][k + 1])
<1>1. ~(i > Len(text)) /\ i + 2 \in Places(text) /\ k + 1 \in Places(values)
  BY DEF Places
<1>2. QED
  BY <1>1 DEF FormatNode

LEMMA FormatFails ==
  ASSUME NEW text \in Seq(Chars), NEW values \in Seq(Chars),
         NEW i \in Places(text), NEW k \in Places(values),
         i <= Len(text), text[i] = "%",
         ~(i < Len(text) /\ text[i + 1] = "%"),
         ~(i < Len(text) /\ text[i + 1] = "s" /\ k <= Len(values))
  PROVE  \A from : FormatNode(from, text, values, i, k) = Raises
<1>1. ~(i > Len(text))
  BY DEF Places
<1>2. QED
  BY <1>1 DEF FormatNode

SameBehind(E, F, i, g, h) == \A j \in E : j > i => \A l \in F : g[j][l] = h[j][l]

LEMMA FormatLocal ==
  ASSUME NEW text \in Seq(Chars), NEW values \in Seq(Chars),
         NEW i \in Places(text), NEW k \in Places(values), NEW g, NEW h,
         SameBehind(Places(text), Places(values), i, g, h)
  PROVE  FormatNode(g, text, values, i, k) = FormatNode(h, text, values, i, k)
<1>0. Len(text) \in Nat /\ i \in Nat /\ (i = Len(text) + 1 \/ i <= Len(text))
      /\ i + 1 > i /\ i + 2 > i
  BY DEF Places
<1>1. CASE i = Len(text) + 1
  <2>1. \A from : FormatNode(from, text, values, i, k) =
                     IF k = Len(values) + 1 THEN Empty ELSE Raises
    BY <1>1, FormatEnd
  <2>2. QED
    BY <2>1, Zenon
<1>2. CASE i <= Len(text) /\ text[i] # "%"
  <2>1. \A from : FormatNode(from, text, values, i, k) = Followed(Text(<<text[i]>>), from[i + 1][k])
    BY <1>0, <1>2, FormatPlain
  <2>2. i + 1 \in Places(text) /\ i + 1 > i /\ k \in Places(values)
    BY <1>0, <1>2, FormatPlain
  <2>3. g[i + 1][k] = h[i + 1][k]
    BY <2>2 DEF SameBehind
  <2>4. QED
    BY <2>1, <2>3, Zenon
<1>3. CASE i < Len(text) /\ text[i] = "%" /\ text[i + 1] = "%"
  <2>1. \A from : FormatNode(from, text, values, i, k) = Followed(Text(<<"%">>), from[i + 2][k])
    BY <1>0, <1>3, FormatDoubled
  <2>2. i + 2 \in Places(text) /\ i + 2 > i /\ k \in Places(values)
    BY <1>0, <1>3, FormatDoubled
  <2>3. g[i + 2][k] = h[i + 2][k]
    BY <2>2 DEF SameBehind
  <2>4. QED
    BY <2>1, <2>3, Zenon
<1>4. CASE i < Len(text) /\ text[i] = "%" /\ text[i + 1] = "s" /\ k <= Len(values)
  <2>1. \A from : FormatNode(from, text, values, i, k) = Followed(Text(<<values[k]>>), from[i + 2][k + 1])
    BY <1>0, <1>4, FormatMarker
  <2>2. i + 2 \in Places(text) /\ i + 2 > i /\ k + 1 \in Places(values)
    BY <1>0, <1>4, FormatMarker
  <2>3. g[i + 2][k + 1] = h[i + 2][k + 1]
    BY <2>2 DEF SameBehind
  <2>4. QED
    BY <2>1, <2>3, Zenon
<1>5. CASE /\ i <= Len(text) /\ text[i] = "%"
           /\ ~(i < Len(text) /\ text[i + 1] = "%")
           /\ ~(i < Len(text) /\ text[i + 1] = "s" /\ k <= Len(values))
  <2>1. \A from : FormatNode(from, text, values, i, k) = Raises
    BY <1>5, FormatFails
  <2>2. QED
    BY <2>1, Zenon
<1>6. QED
  BY <1>0, <1>1, <1>2, <1>3, <1>4, <1>5

LEMMA FormatTyped ==
  ASSUME NEW text \in Seq(Chars), NEW values \in Seq(Chars),
         NEW i \in Places(text), NEW k \in Places(values),
         NEW from \in [Places(text) -> [Places(values) -> Pieces]]
  PROVE  FormatNode(from, text, values, i, k) \in Pieces
<1>0. Len(text) \in Nat /\ i \in Nat /\ (i = Len(text) + 1 \/ i <= Len(text))
      /\ Len(values) \in Nat /\ k \in Nat /\ k >= 1 /\ i >= 1
  BY DEF Places
<1>1. \A j \in Places(text) : \A l \in Places(values) : from[j][l] \in Pieces
  OBVIOUS
<1>2. \A c \in Chars : \A x \in Pieces : Followed(Text(<<c>>), x) \in Pieces
  <2>1. \A c \in Chars : <<c>> \in Seq(Chars)
    OBVIOUS
  <2>2. \A c \in Chars : Text(<<c>>) \in Pieces
    BY <2>1, TextFields
  <2>3. QED
    BY <2>2, PieceFields
<1>3. CASE i = Len(text) + 1
  <2>1. \A g : FormatNode(g, text, values, i, k) =
                  IF k = Len(values) + 1 THEN Empty ELSE Raises
    BY <1>3, FormatEnd
  <2>2. QED
    BY <2>1, Constants
<1>4. CASE i <= Len(text) /\ text[i] # "%"
  <2>1. from[i + 1][k] \in Pieces
    BY <1>1, <1>4, FormatPlain
  <2>2. text[i] \in Chars
    BY <1>0, <1>4
  <2>3. Followed(Text(<<text[i]>>), from[i + 1][k]) \in Pieces
    BY <1>2, <2>1, <2>2
  <2>4. \A g : FormatNode(g, text, values, i, k) = Followed(Text(<<text[i]>>), g[i + 1][k])
    BY <1>4, FormatPlain
  <2>5. QED
    BY <2>3, <2>4
<1>5. CASE i < Len(text) /\ text[i] = "%" /\ text[i + 1] = "%"
  <2>1. from[i + 2][k] \in Pieces
    BY <1>1, <1>5, FormatDoubled
  <2>2. "%" \in Chars
    BY DEF Chars, Characters
  <2>3. Followed(Text(<<"%">>), from[i + 2][k]) \in Pieces
    BY <1>2, <2>1, <2>2
  <2>4. \A g : FormatNode(g, text, values, i, k) = Followed(Text(<<"%">>), g[i + 2][k])
    BY <1>5, FormatDoubled
  <2>5. QED
    BY <2>3, <2>4
<1>6. CASE i < Len(text) /\ text[i] = "%" /\ text[i + 1] = "s" /\ k <= Len(values)
  <2>1. from[i + 2][k + 1] \in Pieces
    BY <1>1, <1>6, FormatMarker
  <2>2. values[k] \in Chars
    BY <1>0, <1>6
  <2>3. Followed(Text(<<values[k]>>), from[i + 2][k + 1]) \in Pieces
    BY <1>2, <2>1, <2>2
  <2>4. ~(i > Len(text)) /\ i < Len(text) /\ text[i] = "%" /\ text[i + 1] = "s"
        /\ k <= Len(values) /\ "s" # "%"
    BY <1>0, <1>6
  <2>5. FormatNode(from, text, values, i, k) =
          Followed(Text(<<values[k]>>), from[i + 2][k + 1])
    BY <2>4, Zenon DEF FormatNode
  <2>6. QED
    BY <2>3, <2>5, Zenon
<1>7. CASE /\ i <= Len(text) /\ text[i] = "%"
           /\ ~(i < Len(text) /\ text[i + 1] = "%")
           /\ ~(i < Len(text) /\ text[i + 1] = "s" /\ k <= Len(values))
  <2>1. \A g : FormatNode(g, text, values, i, k) = Raises
    BY <1>7, FormatFails
  <2>2. QED
    BY <2>1, Constants
<1>8. QED
  BY <1>0, <1>3, <1>4, <1>5, <1>6, <1>7

(* Format is the function its definition describes. *)
LEMMA FormatStep ==
  ASSUME NEW text \in Seq(Chars), NEW values \in Seq(Chars)
  PROVE  /\ Format(text, values) \in [Places(text) -> [Places(values) -> Pieces]]
         /\ \A i \in Places(text) : \A k \in Places(values) :
              Format(text, values)[i][k] =
                FormatNode(Format(text, values), text, values, i, k)
<1> DEFINE E == Places(text)
           V == [Places(values) -> Pieces]
           depth == [i \in E |-> Len(text) + 1 - i]
           Node(from, i) == [k \in Places(values) |-> FormatNode(from, text, values, i, k)]
           Step == [from \in [E -> V] |-> [i \in E |-> Node(from, i)]]
<1>1. depth \in [E -> Nat]
  <2>1. \A i \in E : Len(text) + 1 - i \in Nat
    BY DEF Places
  <2>2. QED
    BY <2>1
<1>2. \A i, j \in E : j > i => depth[j] < depth[i]
  BY DEF Places
<1>3. ASSUME NEW from \in [E -> V], NEW i \in E
      PROVE  Node(from, i) \in V
  BY FormatTyped
<1>4. ASSUME NEW g, NEW h, NEW i \in E, \A j \in E : depth[j] < depth[i] => g[j] = h[j]
      PROVE  Node(g, i) = Node(h, i)
  <2>1. \A j \in E : j > i => \A l \in Places(values) : g[j][l] = h[j][l]
    BY <1>2, <1>4
  <2>2. ASSUME NEW k \in Places(values)
        PROVE  FormatNode(g, text, values, i, k) = FormatNode(h, text, values, i, k)
    <3> HIDE DEF depth, Node, Step, V
    <3>1. SameBehind(Places(text), Places(values), i, g, h)
      BY <2>1 DEF SameBehind
    <3>2. QED
      BY <3>1, FormatLocal
  <2>3. QED
    BY <2>2
<1>5. PICK g \in [E -> V] : g = [i \in E |-> Node(g, i)]
  <2> HIDE DEF Node, E, V, depth
  <2>1. Step \in [[E -> V] -> [E -> V]]
    BY <1>3
  <2>2. ASSUME NEW g \in [E -> V], NEW h \in [E -> V], NEW i \in E,
               \A j \in E : depth[j] < depth[i] => g[j] = h[j]
        PROVE  Step[g][i] = Step[h][i]
    BY <1>4, <2>2
  <2> DEFINE nothing == [k \in Places(values) |-> Empty]
  <2>3. nothing \in V
    BY Constants DEF V
  <2>4. \E g \in [E -> V] : g = Step[g]
    <3> HIDE DEF Step, nothing
    <3>1. \A g, h \in [E -> V] : \A i \in E :
            (\A j \in E : depth[j] < depth[i] => g[j] = h[j]) => Step[g][i] = Step[h][i]
      BY <2>2
    <3>2. Descends(E, V, depth, Step)
      BY <1>1, <2>1, <3>1 DEF Descends
    <3>3. QED
      BY <2>3, <3>2, Recursion
  <2>5. QED
    BY <2>4
<1> DEFINE h == Format(text, values)
<1>6. h = [i \in E |-> Node(h, i)]
  BY <1>5 DEF Format, Places
<1> HIDE DEF h
<1>7. \A i \in E : g[i] = h[i]
  <2> HIDE DEF Node, E, V, depth, Step
  <2>1. ASSUME NEW i \in E, \A j \in E : depth[j] < depth[i] => g[j] = h[j]
        PROVE  g[i] = h[i]
    <3>1. g[i] = Node(g, i) /\ h[i] = Node(h, i)
      BY <1>5, <1>6
    <3>2. QED
      BY <1>4, <2>1, <3>1
  <2>2. Agree(E, depth, g, h)
    BY <1>1, <2>1 DEF Agree
  <2>3. QED
    BY <2>2, SameRecursion
<1>8. h = g
  BY <1>5, <1>6, <1>7
<1>9. \A i \in E : h[i] = Node(h, i)
  BY <1>6
<1>10. QED
  BY <1>8, <1>9 DEF h

LEMMA ShiftedPlaces ==
  ASSUME NEW m \in Nat, NEW n \in Nat, NEW i \in 1 .. n + 1
  PROVE  /\ i \in Nat /\ (i = n + 1 \/ i <= n)
         /\ m + i \in 1 .. (m + n) + 1
         /\ m + i = (m + n) + 1 <=> i = n + 1
         /\ m + i > m + n <=> i > n
         /\ m + i < m + n <=> i < n
         /\ m + i <= m + n <=> i <= n
         /\ i = n + 1 <=> i > n
         /\ (m + i) + 1 = m + (i + 1) /\ (m + i) + 2 = m + (i + 2)
         /\ i + 1 > i /\ i + 2 > i
         /\ i <= n => i \in 1 .. n /\ i + 1 \in 1 .. n + 1
         /\ i < n => i <= n /\ i + 1 \in 1 .. n /\ i + 2 \in 1 .. n + 1
OBVIOUS

(* What a text is formatted to from a place on depends on what follows only. *)
LEMMA FormatShifted ==
  ASSUME NEW a \in Seq(Chars), NEW u \in Seq(Chars),
         NEW text \in Seq(Chars), NEW values \in Seq(Chars)
  PROVE  \A i \in Places(text) : \A k \in Places(values) :
           Format(a \o text, u \o values)[Len(a) + i][Len(u) + k] = Format(text, values)[i][k]
<1> DEFINE t == a \o text
           v == u \o values
           m == Len(a)
           n == Len(u)
           g == Format(t, v)
           h == Format(text, values)
           A == {i \in Places(text) : \A k \in Places(values) : g[m + i][n + k] = h[i][k]}
<1>1. /\ m \in Nat /\ n \in Nat /\ Len(text) \in Nat /\ Len(values) \in Nat
      /\ t \in Seq(Chars) /\ v \in Seq(Chars)
      /\ Len(t) = m + Len(text) /\ Len(v) = n + Len(values)
  BY ConcatProperties
<1>2. /\ \A i \in 1 .. Len(text) : t[m + i] = text[i]
      /\ \A k \in 1 .. Len(values) : v[n + k] = values[k]
  BY ConcatProperties
<1>3. /\ \A i \in Places(t), k \in Places(v) : g[i][k] = FormatNode(g, t, v, i, k)
      /\ \A i \in Places(text), k \in Places(values) : h[i][k] = FormatNode(h, text, values, i, k)
  BY <1>1, FormatStep
<1> HIDE DEF t, v, m, n, g, h
<1>4. ASSUME NEW i \in Places(text), \A j \in Places(text) : j > i => j \in A,
             NEW k \in Places(values)
      PROVE  g[m + i][n + k] = h[i][k]
  <2>0. /\ (i = Len(text) + 1 \/ i <= Len(text))
        /\ m + i \in Places(t) /\ i + 1 > i /\ i + 2 > i
        /\ m + i > Len(t) <=> i > Len(text)
        /\ m + i < Len(t) <=> i < Len(text)
        /\ i = Len(text) + 1 <=> i > Len(text)
        /\ (m + i) + 1 = m + (i + 1) /\ (m + i) + 2 = m + (i + 2)
        /\ i <= Len(text) => ~(i > Len(text)) /\ i \in 1 .. Len(text) /\ i + 1 \in Places(text)
        /\ i < Len(text) => /\ ~(i > Len(text)) /\ i <= Len(text)
                            /\ i + 1 \in 1 .. Len(text) /\ i + 2 \in Places(text)
    BY <1>1, ShiftedPlaces DEF Places
  <2>1. /\ n + k \in Places(v)
        /\ n + k > Len(v) <=> k > Len(values)
        /\ n + k <= Len(v) <=> k <= Len(values)
        /\ (n + k) + 1 = n + (k + 1)
        /\ k <= Len(values) => k \in 1 .. Len(values) /\ k + 1 \in Places(values)
    BY <1>1, ShiftedPlaces DEF Places
  <2>2. /\ g[m + i][n + k] = FormatNode(g, t, v, m + i, n + k)
        /\ h[i][k] = FormatNode(h, text, values, i, k)
        /\ i <= Len(text) => t[m + i] = text[i]
        /\ i < Len(text) => t[(m + i) + 1] = text[i + 1]
        /\ k <= Len(values) => v[n + k] = values[k]
    <3>1. g[m + i][n + k] = FormatNode(g, t, v, m + i, n + k)
      BY <1>3, <2>0, <2>1, Zenon
    <3>2. h[i][k] = FormatNode(h, text, values, i, k)
      BY <1>3, Zenon
    <3>3. i <= Len(text) => t[m + i] = text[i]
      BY <1>2, <2>0, Zenon
    <3>4. ASSUME i < Len(text) PROVE t[(m + i) + 1] = text[i + 1]
      <4>1. i + 1 \in 1 .. Len(text) /\ (m + i) + 1 = m + (i + 1)
        BY <2>0, <3>4
      <4>2. t[m + (i + 1)] = text[i + 1]
        BY <1>2, <4>1, Zenon
      <4>3. QED
        BY <4>1, <4>2, Zenon
    <3>5. k <= Len(values) => v[n + k] = values[k]
      BY <1>2, <2>1, Zenon
    <3>6. QED
      BY <3>1, <3>2, <3>3, <3>4, <3>5, Zenon
  <2>3. CASE i = Len(text) + 1
    BY <2>0, <2>1, <2>2, <2>3 DEF FormatNode
  <2>4. CASE i <= Len(text) /\ text[i] # "%"
    <3>1. g[m + (i + 1)][n + k] = h[i + 1][k]
      BY <1>4, <2>0, <2>4
    <3>2. QED
      BY <2>0, <2>2, <2>4, <3>1 DEF FormatNode
  <2>5. CASE i < Len(text) /\ text[i] = "%" /\ text[i + 1] = "%"
    <3>1. g[m + (i + 2)][n + k] = h[i + 2][k]
      BY <1>4, <2>0, <2>5
    <3>2. QED
      BY <2>0, <2>2, <2>5, <3>1 DEF FormatNode
  <2>6. CASE i < Len(text) /\ text[i] = "%" /\ text[i + 1] = "s" /\ k <= Len(values)
    <3>1. g[m + (i + 2)][n + (k + 1)] = h[i + 2][k + 1]
      BY <1>4, <2>0, <2>1, <2>6
    <3>2. QED
      BY <2>0, <2>1, <2>2, <2>6, <3>1 DEF FormatNode
  <2>7. CASE /\ i <= Len(text) /\ text[i] = "%"
             /\ ~(i < Len(text) /\ text[i + 1] = "%")
             /\ ~(i < Len(text) /\ text[i + 1] = "s" /\ k <= Len(values))
    <3>1. h[i][k] = Raises
      BY <2>0, <2>2, <2>7 DEF FormatNode
    <3>2. g[m + i][n + k] = Raises
      BY <2>0, <2>1, <2>2, <2>7 DEF FormatNode
    <3>3. QED
      BY <3>1, <3>2
  <2>8. QED
    BY <2>0, <2>3, <2>4, <2>5, <2>6, <2>7
<1>5. \A i \in Places(text) : (\A j \in Places(text) : j > i => j \in A) => i \in A
  BY <1>4
<1>6. A = Places(text)
  <2>1. A \in SUBSET Places(text)
    OBVIOUS
  <2> HIDE DEF A
  <2>2. QED
    BY <1>1, <1>5, <2>1, FromTheEnd
<1>7. QED
  BY <1>6 DEF t, v, m, n, g, h

(* What formatting makes of a piece and whatever follows it: the other piece's
   text, or nothing that can be sent. *)
Prints(x, y) ==
    \A r \in Pieces : Formatted(Followed(x, r)) = Followed(Text(y.text), Formatted(r))
Breaks(x, y) ==
    /\ "p" \in ToSet(y.text)
    /\ \A r \in Pieces : Formatted(Followed(x, r)).ok = FALSE

LEMMA FormattedTyped ==
  ASSUME NEW x \in Pieces
  PROVE  Formatted(x) \in Pieces
<1>1. x.text \in Seq(Chars) /\ x.values \in Seq(Chars)
  BY DEF Pieces
<1>2. 1 \in Places(x.text) /\ 1 \in Places(x.values)
  BY <1>1 DEF Places
<1>3. Format(x.text, x.values) \in [Places(x.text) -> [Places(x.values) -> Pieces]]
  BY <1>1, FormatStep
<1>4. QED
  BY <1>2, <1>3 DEF Formatted

(* The first step of formatting a piece and what follows it. *)
LEMMA FormattedStart ==
  ASSUME NEW x \in Pieces, NEW r \in Pieces
  PROVE  \E g, t, v :
           /\ t = x.text \o r.text /\ v = x.values \o r.values
           /\ Formatted(Followed(x, r)) = FormatNode(g, t, v, 1, 1)
           /\ g[Len(x.text) + 1][Len(x.values) + 1] = Formatted(r)
<1> DEFINE t == x.text \o r.text
           v == x.values \o r.values
           g == Format(t, v)
<1>1. /\ x.text \in Seq(Chars) /\ x.values \in Seq(Chars)
      /\ r.text \in Seq(Chars) /\ r.values \in Seq(Chars)
  BY DEF Pieces
<1>2. t \in Seq(Chars) /\ v \in Seq(Chars)
  BY <1>1
<1>3. /\ 1 \in Places(t) /\ 1 \in Places(v)
      /\ 1 \in Places(r.text) /\ 1 \in Places(r.values)
  <2> HIDE DEF t, v
  <2>1. QED
    BY <1>1, <1>2 DEF Places
<1>4. /\ g \in [Places(t) -> [Places(v) -> Pieces]]
      /\ \A i \in Places(t), k \in Places(v) : g[i][k] = FormatNode(g, t, v, i, k)
  <2> HIDE DEF t, v
  <2>1. QED
    BY <1>2, FormatStep
<1>5. g[Len(x.text) + 1][Len(x.values) + 1] = Formatted(r)
  <2>1. \A i \in Places(r.text) : \A k \in Places(r.values) :
          g[Len(x.text) + i][Len(x.values) + k] = Format(r.text, r.values)[i][k]
    BY <1>1, FormatShifted
  <2>2. QED
    BY <1>3, <2>1 DEF Formatted
<1>6. Followed(x, r).text = t /\ Followed(x, r).values = v
  BY PieceFields
<1>7. Formatted(Followed(x, r)) = g[1][1]
  <2> HIDE DEF t, v
  <2>1. QED
    BY <1>6 DEF Formatted
<1> HIDE DEF g
<1>8. Formatted(Followed(x, r)) = FormatNode(g, t, v, 1, 1)
  <2> HIDE DEF t, v
  <2>1. QED
    BY <1>3, <1>4, <1>7
<1>9. QED
  BY <1>4, <1>5, <1>8

LEMMA CharacterPrints ==
  ASSUME NEW c \in Chars, c # "%"
  PROVE  Prints(Text(<<c>>), Text(<<c>>))
<1> DEFINE x == Text(<<c>>)
<1>0. x \in Pieces /\ x.text = <<c>> /\ x.values = <<>>
  <2>1. <<c>> \in Seq(Chars)
    OBVIOUS
  <2>2. QED
    BY <2>1, TextFields
<1> HIDE DEF x
<1>1. ASSUME NEW r \in Pieces
      PROVE  Formatted(Followed(x, r)) = Followed(Text(<<c>>), Formatted(r))
  <2>1. PICK g, t, v :
           /\ t = x.text \o r.text /\ v = x.values \o r.values
           /\ Formatted(Followed(x, r)) = FormatNode(g, t, v, 1, 1)
           /\ g[Len(x.text) + 1][Len(x.values) + 1] = Formatted(r)
    BY <1>0, FormattedStart
  <2>2. /\ r.text \in Seq(Chars) /\ Len(x.text) = 1 /\ Len(x.values) = 0
    BY <1>0 DEF Pieces
  <2>3. t[1] = c /\ Len(t) \in Nat /\ Len(t) >= 1
    BY <1>0, <2>1, <2>2
  <2>4. g[1 + 1][1] = Formatted(r)
    BY <2>1, <2>2
  <2>5. FormatNode(g, t, v, 1, 1) = Followed(Text(<<c>>), g[1 + 1][1])
    BY <2>3 DEF FormatNode
  <2>6. QED
    BY <2>1, <2>4, <2>5
<1>2. QED
  BY <1>0, <1>1 DEF Prints, x

LEMMA PercentPrints == Prints(Text(<<"%", "%">>), Text(<<"%">>))
<1> DEFINE x == Text(<<"%", "%">>)
<1>0. /\ x \in Pieces /\ x.text = <<"%", "%">> /\ x.values = <<>>
      /\ Text(<<"%">>).text = <<"%">>
  <2>1. "%" \in Chars
    BY DEF Chars, Characters
  <2>2. <<"%", "%">> \in Seq(Chars) /\ <<"%">> \in Seq(Chars)
    BY <2>1
  <2>3. QED
    BY <2>2, TextFields
<1> HIDE DEF x
<1>1. ASSUME NEW r \in Pieces
      PROVE  Formatted(Followed(x, r)) = Followed(Text(<<"%">>), Formatted(r))
  <2>1. PICK g, t, v :
           /\ t = x.text \o r.text /\ v = x.values \o r.values
           /\ Formatted(Followed(x, r)) = FormatNode(g, t, v, 1, 1)
           /\ g[Len(x.text) + 1][Len(x.values) + 1] = Formatted(r)
    BY <1>0, FormattedStart
  <2>2. /\ r.text \in Seq(Chars) /\ Len(x.text) = 2 /\ Len(x.values) = 0
    BY <1>0 DEF Pieces
  <2>3. t[1] = "%" /\ t[1 + 1] = "%" /\ Len(t) \in Nat /\ Len(t) >= 2
    BY <1>0, <2>1, <2>2
  <2>4. g[1 + 2][1] = Formatted(r)
    BY <2>1, <2>2
  <2>5. FormatNode(g, t, v, 1, 1) = Followed(Text(<<"%">>), g[1 + 2][1])
    BY <2>3 DEF FormatNode
  <2>6. QED
    BY <2>1, <2>4, <2>5
<1>2. QED
  BY <1>0, <1>1 DEF Prints, x

LEMMA ValuePrints ==
  ASSUME NEW c \in Chars
  PROVE  Prints(Value(c, "mysql"), Value(c, "flight"))
<1> DEFINE x == Value(c, "mysql")
           y == Value(c, "flight")
<1>0. /\ x \in Pieces /\ x.text = <<"%", "s">> /\ x.values = <<c>>
      /\ y = Text(<<c>>) /\ y.text = <<c>>
  <2>1. <<c>> \in Seq(Chars)
    OBVIOUS
  <2>2. x \in Pieces
    BY FragmentPieces
  <2>3. QED
    BY <2>1, <2>2, TextFields DEF Value
<1> HIDE DEF x, y
<1>1. ASSUME NEW r \in Pieces
      PROVE  Formatted(Followed(x, r)) = Followed(Text(<<c>>), Formatted(r))
  <2>1. PICK g, t, v :
           /\ t = x.text \o r.text /\ v = x.values \o r.values
           /\ Formatted(Followed(x, r)) = FormatNode(g, t, v, 1, 1)
           /\ g[Len(x.text) + 1][Len(x.values) + 1] = Formatted(r)
    BY <1>0, FormattedStart
  <2>2. /\ r.text \in Seq(Chars) /\ Len(x.text) = 2 /\ Len(x.values) = 1
        /\ r.values \in Seq(Chars)
    BY <1>0 DEF Pieces
  <2>3. t[1] = "%" /\ t[1 + 1] = "s" /\ Len(t) \in Nat /\ Len(t) >= 2
    BY <1>0, <2>1, <2>2
  <2>4. v[1] = c /\ Len(v) \in Nat /\ Len(v) >= 1
    BY <1>0, <2>1, <2>2
  <2>5. g[1 + 2][1 + 1] = Formatted(r)
    BY <2>1, <2>2
  <2>6. FormatNode(g, t, v, 1, 1) = Followed(Text(<<c>>), g[1 + 2][1 + 1])
    BY <2>3, <2>4 DEF FormatNode
  <2>7. QED
    BY <2>1, <2>5, <2>6
<1>2. QED
  BY <1>0, <1>1 DEF Prints, x, y

LEMMA Concatenated ==
  ASSUME NEW s \in Seq(Chars), NEW t \in Seq(Chars)
  PROVE  /\ ToSet(s \o t) = ToSet(s) \cup ToSet(t)
         /\ s \o t = <<>> => s = <<>> /\ t = <<>>
<1>1. /\ s \o t \in Seq(Chars) /\ Len(s) \in Nat /\ Len(t) \in Nat
      /\ Len(s \o t) = Len(s) + Len(t)
      /\ \A i \in 1 .. Len(s) + Len(t) : (s \o t)[i] =
           IF i <= Len(s) THEN s[i] ELSE t[i - Len(s)]
  BY ConcatProperties
<1>2. DOMAIN s = 1 .. Len(s) /\ DOMAIN t = 1 .. Len(t) /\ DOMAIN (s \o t) = 1 .. Len(s) + Len(t)
  BY <1>1
<1>3. ASSUME NEW c \in ToSet(s \o t)
      PROVE  c \in ToSet(s) \cup ToSet(t)
  <2>1. PICK i \in 1 .. Len(s) + Len(t) : c = (s \o t)[i]
    BY <1>2 DEF ToSet
  <2>2. CASE i <= Len(s)
    <3>1. i \in DOMAIN s /\ c = s[i]
      BY <1>1, <1>2, <2>1, <2>2
    <3>2. QED
      BY <3>1 DEF ToSet
  <2>3. CASE i > Len(s)
    <3>1. i - Len(s) \in DOMAIN t /\ c = t[i - Len(s)]
      BY <1>1, <1>2, <2>1, <2>3
    <3>2. QED
      BY <3>1 DEF ToSet
  <2>4. QED
    BY <1>1, <2>2, <2>3
<1>4. ASSUME NEW c \in ToSet(s)
      PROVE  c \in ToSet(s \o t)
  <2>1. PICK i \in 1 .. Len(s) : c = s[i]
    BY <1>2 DEF ToSet
  <2>2. i \in 1 .. Len(s) + Len(t) /\ (s \o t)[i] = c
    BY <1>1, <2>1
  <2>3. QED
    BY <1>2, <2>2 DEF ToSet
<1>5. ASSUME NEW c \in ToSet(t)
      PROVE  c \in ToSet(s \o t)
  <2>1. PICK i \in 1 .. Len(t) : c = t[i]
    BY <1>2 DEF ToSet
  <2>2. /\ Len(s) + i \in 1 .. Len(s) + Len(t) /\ ~(Len(s) + i <= Len(s))
        /\ (Len(s) + i) - Len(s) = i
    BY <1>1, <2>1
  <2>3. (s \o t)[Len(s) + i] = c
    BY <1>1, <2>1, <2>2
  <2>4. QED
    BY <1>2, <2>2, <2>3 DEF ToSet
<1>6. ToSet(s \o t) = ToSet(s) \cup ToSet(t)
  BY <1>3, <1>4, <1>5
<1>7. s \o t = <<>> => s = <<>> /\ t = <<>>
  <2>1. s \o t = <<>> => Len(s) + Len(t) = 0
    BY <1>1
  <2>2. QED
    BY <1>1, <2>1
<1>8. QED
  BY <1>6, <1>7

LEMMA JoinedTexts ==
  ASSUME NEW s \in Seq(Chars), NEW t \in Seq(Chars)
  PROVE  /\ s \o t \in Seq(Chars)
         /\ Len(s \o t) = Len(s) + Len(t)
         /\ \A i \in 1 .. Len(s) + Len(t) :
              (s \o t)[i] = IF i <= Len(s) THEN s[i] ELSE t[i - Len(s)]
BY ConcatProperties

LEMMA SameTexts ==
  ASSUME NEW s \in Seq(Chars), NEW t \in Seq(Chars),
         Len(s) = Len(t), \A i \in 1 .. Len(s) : s[i] = t[i]
  PROVE  s = t
BY SeqEqual

LEMMA ThreeCharacters ==
  ASSUME NEW a \in Chars, NEW b \in Chars, NEW c \in Chars
  PROVE  <<a>> \o (<<b>> \o <<c>>) = <<a, b, c>>
<1> DEFINE p == <<a>>
           q == <<b>>
           r == <<c>>
           s == q \o r
           t == p \o s
           u == <<a, b, c>>
<1>1. /\ p \in Seq(Chars) /\ Len(p) = 1 /\ p[1] = a
      /\ q \in Seq(Chars) /\ Len(q) = 1 /\ q[1] = b
      /\ r \in Seq(Chars) /\ Len(r) = 1 /\ r[1] = c
      /\ u \in Seq(Chars) /\ Len(u) = 3 /\ u[1] = a /\ u[2] = b /\ u[3] = c
  OBVIOUS
<1> HIDE DEF p, q, r, u
<1>2. /\ s \in Seq(Chars) /\ Len(s) = 1 + 1
      /\ \A i \in 1 .. 1 + 1 : s[i] = IF i <= 1 THEN q[i] ELSE r[i - 1]
  <2>1. /\ s \in Seq(Chars) /\ Len(s) = Len(q) + Len(r)
        /\ \A i \in 1 .. Len(q) + Len(r) : s[i] = IF i <= Len(q) THEN q[i] ELSE r[i - Len(q)]
    BY <1>1, JoinedTexts
  <2>2. QED
    BY <1>1, <2>1
<1> HIDE DEF s
<1>3. /\ t \in Seq(Chars) /\ Len(t) = 1 + 2
      /\ \A i \in 1 .. 1 + 2 : t[i] = IF i <= 1 THEN p[i] ELSE s[i - 1]
  <2>1. /\ t \in Seq(Chars) /\ Len(t) = Len(p) + Len(s)
        /\ \A i \in 1 .. Len(p) + Len(s) : t[i] = IF i <= Len(p) THEN p[i] ELSE s[i - Len(p)]
    BY <1>1, <1>2, JoinedTexts
  <2>2. QED
    BY <1>1, <1>2, <2>1
<1> HIDE DEF t
<1>4. t[1] = a /\ t[2] = b /\ t[3] = c
  <2>1. s[1] = b /\ s[2] = c
    BY <1>1, <1>2
  <2>2. t[1] = p[1] /\ t[2] = s[1] /\ t[3] = s[2]
    BY <1>3
  <2>3. QED
    BY <1>1, <2>1, <2>2
<1>5. /\ t \in Seq(Chars) /\ u \in Seq(Chars) /\ Len(t) = Len(u)
      /\ \A i \in 1 .. Len(t) : t[i] = u[i]
  BY <1>1, <1>3, <1>4
<1>6. t = u
  BY <1>5, SameTexts
<1>7. QED
  BY <1>6 DEF p, q, r, s, t, u

(* The name that cannot be formatted. *)
LEMMA PercentBreaks == Breaks(Identifier("p"), Identifier("p"))
<1> DEFINE x == Text(<<"tick", "p", "%", "tick">>)
<1>1. "%" \in Chars /\ "p" \in Chars /\ "tick" \in Chars
  BY DEF Chars, Characters, Quotes
<1>2. /\ x \in Pieces /\ x.values = <<>>
      /\ x.text = <<"tick", "p", "%", "tick">>
  <2>1. <<"tick", "p", "%", "tick">> \in Seq(Chars)
    BY <1>1
  <2>2. QED
    BY <2>1, TextFields
<1>3. Identifier("p") = x
  BY DEF Identifier
<1> HIDE DEF x
<1>4. ASSUME NEW r \in Pieces
      PROVE  Formatted(Followed(x, r)).ok = FALSE
  <2> DEFINE t == x.text \o r.text
             v == x.values \o r.values
             g == Format(t, v)
  <2>0. r.text \in Seq(Chars) /\ r.values \in Seq(Chars)
    BY DEF Pieces
  <2>1. t \in Seq(Chars) /\ v \in Seq(Chars)
    <3>1. x.text \in Seq(Chars) /\ x.values \in Seq(Chars)
      BY <1>2 DEF Pieces
    <3>2. QED
      BY <2>0, <3>1
  <2>2. Formatted(Followed(x, r)) = g[1][1]
    <3>1. Followed(x, r).text = t /\ Followed(x, r).values = v
      BY <1>2, PieceFields
    <3> HIDE DEF t, v
    <3>2. QED
      BY <3>1 DEF Formatted
  <2>3. /\ t[1] = "tick" /\ t[2] = "p" /\ t[3] = "%" /\ t[4] = "tick"
        /\ Len(t) \in Nat /\ Len(t) >= 4
    BY <1>2, <2>0, <2>1
  <2> HIDE DEF t, v
  <2>4. Len(v) \in Nat
    BY <2>1
  <2>5. /\ 1 \in Places(t) /\ 2 \in Places(t) /\ 3 \in Places(t) /\ 1 \in Places(v)
        /\ ~(1 > Len(t)) /\ ~(2 > Len(t)) /\ ~(3 > Len(t))
        /\ 1 + 1 = 2 /\ 2 + 1 = 3 /\ 3 + 1 = 4
    BY <2>3, <2>4 DEF Places
  <2>6. /\ Formatted(Followed(x, r)) = FormatNode(g, t, v, 1, 1)
        /\ g[2][1] = FormatNode(g, t, v, 2, 1)
        /\ g[3][1] = FormatNode(g, t, v, 3, 1)
        /\ g[2][1] \in Pieces /\ g[3][1] \in Pieces
    <3>1. /\ g \in [Places(t) -> [Places(v) -> Pieces]]
          /\ \A i \in Places(t), k \in Places(v) : g[i][k] = FormatNode(g, t, v, i, k)
      BY <2>1, FormatStep
    <3> HIDE DEF g
    <3>2. QED
      BY <2>2, <2>5, <3>1
  <2> HIDE DEF g
  <2>7. g[3][1] = Raises
    BY <2>3, <2>5, <2>6 DEF FormatNode
  <2>8. g[2][1] = Followed(Text(<<"p">>), g[3][1])
    BY <2>3, <2>5, <2>6 DEF FormatNode
  <2>9. Formatted(Followed(x, r)) = Followed(Text(<<"tick">>), g[2][1])
    BY <2>3, <2>5, <2>6 DEF FormatNode
  <2>10. /\ Text(<<"p">>) \in Pieces /\ Text(<<"tick">>) \in Pieces
    <3>1. <<"p">> \in Seq(Chars) /\ <<"tick">> \in Seq(Chars)
      BY <1>1
    <3>2. QED
      BY <3>1, TextFields
  <2>11. \A l, s \in Pieces : s.ok = FALSE => Followed(l, s).ok = FALSE
    BY PieceFields
  <2>12. g[2][1].ok = FALSE
    BY <2>6, <2>7, <2>8, <2>10, <2>11, Constants
  <2>13. QED
    BY <2>6, <2>9, <2>10, <2>11, <2>12
<1>5. "p" \in ToSet(x.text)
  <2>1. x.text[2] = "p" /\ 2 \in DOMAIN x.text
    BY <1>2
  <2>2. QED
    BY <2>1 DEF ToSet
<1>6. QED
  BY <1>3, <1>4, <1>5 DEF Breaks

-------------------------------------------------------------------------------
(* What is formatted over MySQL is what Flight sends *)

Printed == {z \in Pieces \X Pieces : Prints(z[1], z[2]) \/ Breaks(z[1], z[2])}

LEMMA PrintedPair ==
  ASSUME NEW x \in Pieces, NEW y \in Pieces
  PROVE  <<x, y>> \in Printed <=> Prints(x, y) \/ Breaks(x, y)
<1> DEFINE z == <<x, y>>
<1>1. z \in Pieces \X Pieces /\ z[1] = x /\ z[2] = y
  OBVIOUS
<1> HIDE DEF z
<1>2. z \in Printed <=> Prints(z[1], z[2]) \/ Breaks(z[1], z[2])
  BY <1>1 DEF Printed
<1>3. QED
  BY <1>1, <1>2 DEF z

LEMMA PrintsFollowed ==
  ASSUME NEW a \in Pieces, NEW b \in Pieces, NEW c \in Pieces, NEW d \in Pieces,
         Prints(a, b) \/ Breaks(a, b), Prints(c, d) \/ Breaks(c, d)
  PROVE  Prints(Followed(a, c), Followed(b, d)) \/ Breaks(Followed(a, c), Followed(b, d))
<1> DEFINE y == Followed(b, d)
<1>0. /\ b.text \in Seq(Chars) /\ d.text \in Seq(Chars)
      /\ y \in Pieces /\ y.text = b.text \o d.text
      /\ ToSet(y.text) = ToSet(b.text) \cup ToSet(d.text)
  <2>1. b.text \in Seq(Chars) /\ d.text \in Seq(Chars)
    BY DEF Pieces
  <2>2. y \in Pieces /\ y.text = b.text \o d.text
    BY PieceFields
  <2>3. QED
    BY <2>1, <2>2, Concatenated
<1>1. /\ Text(b.text) \in Pieces /\ Text(d.text) \in Pieces
      /\ Followed(Text(b.text), Text(d.text)) = Text(y.text)
  <2>1. /\ Text(b.text) \in Pieces /\ Text(b.text).ok = TRUE
        /\ Text(b.text).text = b.text /\ Text(b.text).values = <<>>
    BY <1>0, TextFields
  <2>2. /\ Text(d.text) \in Pieces /\ Text(d.text).ok = TRUE
        /\ Text(d.text).text = d.text /\ Text(d.text).values = <<>>
    BY <1>0, TextFields
  <2>3. y.text \in Seq(Chars)
    BY <1>0 DEF Pieces
  <2>4. /\ Text(y.text) \in Pieces /\ Text(y.text).ok = TRUE
        /\ Text(y.text).text = y.text /\ Text(y.text).values = <<>>
    BY <2>3, TextFields
  <2> DEFINE l == Followed(Text(b.text), Text(d.text))
  <2>5. /\ l \in Pieces /\ l.ok = (Text(b.text).ok /\ Text(d.text).ok)
        /\ l.text = Text(b.text).text \o Text(d.text).text
        /\ l.values = Text(b.text).values \o Text(d.text).values
    BY <2>1, <2>2, PieceFields
  <2>6. <<>> \o <<>> = <<>>
    <3>1. <<>> \in Seq(Chars)
      OBVIOUS
    <3>2. QED
      BY <3>1, ConcatEmptySeq
  <2> HIDE DEF l, y
  <2>7. l.ok = TRUE /\ l.text = y.text /\ l.values = <<>>
    BY <1>0, <2>1, <2>2, <2>5, <2>6
  <2>8. l = Text(y.text)
    BY <2>4, <2>5, <2>7, SamePiece
  <2>9. QED
    BY <2>1, <2>2, <2>8 DEF l
<1> HIDE DEF y
<1>2. \A r \in Pieces : /\ Followed(Followed(a, c), r) = Followed(a, Followed(c, r))
                        /\ Followed(c, r) \in Pieces
  <2>1. ASSUME NEW r \in Pieces
        PROVE  /\ Followed(Followed(a, c), r) = Followed(a, Followed(c, r))
               /\ Followed(c, r) \in Pieces
    <3>1. Followed(Followed(a, c), r) = Followed(a, Followed(c, r))
      BY FollowedAssociative
    <3>2. Followed(c, r) \in Pieces
      BY PieceFields
    <3>3. QED
      BY <3>1, <3>2
  <2>2. QED
    BY <2>1
<1>3. CASE Breaks(a, b)
  <2>1. "p" \in ToSet(y.text)
    BY <1>0, <1>3 DEF Breaks
  <2>2. \A r \in Pieces : Formatted(Followed(Followed(a, c), r)).ok = FALSE
    BY <1>2, <1>3 DEF Breaks
  <2>3. QED
    BY <2>1, <2>2 DEF Breaks, y
<1>4. CASE Prints(a, b) /\ Breaks(c, d)
  <2>1. "p" \in ToSet(y.text)
    BY <1>0, <1>4 DEF Breaks
  <2>2. ASSUME NEW r \in Pieces
        PROVE  Formatted(Followed(Followed(a, c), r)).ok = FALSE
    <3> DEFINE u == Formatted(Followed(c, r))
    <3>1. Formatted(Followed(Followed(a, c), r)) = Followed(Text(b.text), u)
      BY <1>2, <1>4 DEF Prints
    <3>2. u.ok = FALSE /\ u \in Pieces
      BY <1>2, <1>4, FormattedTyped DEF Breaks
    <3> HIDE DEF u
    <3>3. b.text \in Seq(Chars)
      BY DEF Pieces
    <3>4. Text(b.text) \in Pieces
      BY <3>3, TextFields
    <3>5. Followed(Text(b.text), u).ok = (Text(b.text).ok /\ u.ok)
      BY <3>2, <3>4, PieceFields, Zenon
    <3>6. Followed(Text(b.text), u).ok = FALSE
      BY <3>2, <3>5
    <3>7. QED
      BY <3>1, <3>6
  <2>3. QED
    BY <2>1, <2>2 DEF Breaks, y
<1>5. CASE Prints(a, b) /\ Prints(c, d)
  <2>1. ASSUME NEW r \in Pieces
        PROVE  Formatted(Followed(Followed(a, c), r)) = Followed(Text(y.text), Formatted(r))
    <3> DEFINE u == Formatted(r)
    <3>1. Formatted(Followed(Followed(a, c), r))
            = Followed(Text(b.text), Formatted(Followed(c, r)))
      BY <1>2, <1>5 DEF Prints
    <3>2. Formatted(Followed(c, r)) = Followed(Text(d.text), u)
      BY <1>5 DEF Prints
    <3>3. u \in Pieces
      BY FormattedTyped
    <3> HIDE DEF u
    <3>4. Followed(Text(b.text), Followed(Text(d.text), u))
            = Followed(Followed(Text(b.text), Text(d.text)), u)
      BY <1>1, <3>3, FollowedAssociative
    <3>5. QED
      BY <1>1, <3>1, <3>2, <3>4 DEF u
  <2>2. QED
    BY <2>1 DEF Prints, y
<1>6. QED
  BY <1>3, <1>4, <1>5

(* What follows nothing is formatted alone. *)
LEMMA EmptyPrints ==
  /\ Prints(Empty, Empty) /\ Prints(Raises, Raises)
  /\ Formatted(Empty) = Empty
<1>1. \A x \in {Empty, Raises} : x \in Pieces /\ x.text = <<>> /\ x.values = <<>>
  BY Constants
<1>2. Text(<<>>) = Empty
  BY DEF Empty, NoText
<1>3. ASSUME NEW x \in {Empty, Raises}, NEW r \in Pieces
      PROVE  Formatted(Followed(x, r)) = Followed(Text(x.text), Formatted(r))
  <2>1. r.text \in Seq(Chars) /\ r.values \in Seq(Chars)
    BY DEF Pieces
  <2>2. <<>> \o r.text = r.text /\ <<>> \o r.values = r.values
    BY <2>1, ConcatEmptySeq
  <2>3. Followed(x, r).text = r.text /\ Followed(x, r).values = r.values
    <3>1. x \in Pieces /\ x.text = <<>> /\ x.values = <<>>
      BY <1>1
    <3>2. /\ Followed(x, r).text = x.text \o r.text
          /\ Followed(x, r).values = x.values \o r.values
      BY <3>1, PieceFields
    <3>3. QED
      BY <2>2, <3>1, <3>2
  <2>4. Formatted(Followed(x, r)) = Formatted(r)
    BY <2>3 DEF Formatted
  <2>5. Followed(Empty, Formatted(r)) = Formatted(r)
    BY FormattedTyped, FollowedEmpty
  <2>6. QED
    BY <1>1, <1>2, <2>4, <2>5
<1>4. Formatted(Empty) = Empty
  <2> DEFINE t == <<>>
             g == Format(t, t)
  <2>1. t \in Seq(Chars) /\ Len(t) = 0 /\ 1 \in Places(t) /\ 1 = Len(t) + 1
    BY DEF Places
  <2> HIDE DEF t
  <2>2. /\ g \in [Places(t) -> [Places(t) -> Pieces]]
        /\ \A i \in Places(t), k \in Places(t) : g[i][k] = FormatNode(g, t, t, i, k)
    BY <2>1, FormatStep
  <2>3. g[1][1] = FormatNode(g, t, t, 1, 1)
    BY <2>1, <2>2
  <2> HIDE DEF g
  <2>4. FormatNode(g, t, t, 1, 1) = Empty
    <3>1. 1 > Len(t)
      BY <2>1
    <3>2. QED
      BY <3>1 DEF FormatNode, Empty
  <2>5. Formatted(Empty) = Format(t, t)[1][1]
    BY Constants DEF Formatted, t
  <2>6. QED
    BY <2>3, <2>4, <2>5 DEF g
<1>5. QED
  BY <1>3, <1>4 DEF Prints

(* Every piece of a predicate and of a fragment is printed. *)
LEMMA PrintedCongruence == Congruence(Printed) /\ <<Raises, Raises>> \in Printed
<1>1. Printed \subseteq Pieces \X Pieces
  BY DEF Printed
<1>2. <<Empty, Empty>> \in Printed /\ <<Raises, Raises>> \in Printed
  BY Constants, EmptyPrints, PrintedPair
<1>3. ASSUME NEW a \in Pieces, NEW b \in Pieces, NEW c \in Pieces, NEW d \in Pieces,
             <<a, b>> \in Printed, <<c, d>> \in Printed
      PROVE  <<Followed(a, c), Followed(b, d)>> \in Printed
  <2>1. (Prints(a, b) \/ Breaks(a, b)) /\ (Prints(c, d) \/ Breaks(c, d))
    BY <1>3, PrintedPair
  <2>2. Prints(Followed(a, c), Followed(b, d)) \/ Breaks(Followed(a, c), Followed(b, d))
    BY <2>1, PrintsFollowed
  <2>3. Followed(a, c) \in Pieces /\ Followed(b, d) \in Pieces
    BY PieceFields
  <2>4. QED
    BY <2>2, <2>3, PrintedPair
<1>4. QED
  BY <1>1, <1>2, <1>3 DEF Congruence

LEMMA CharacterPrinted ==
  ASSUME NEW c \in Chars, c # "%"
  PROVE  Text(<<c>>) \in Pieces /\ <<Text(<<c>>), Text(<<c>>)>> \in Printed
<1>1. <<c>> \in Seq(Chars)
  OBVIOUS
<1>2. Text(<<c>>) \in Pieces
  BY <1>1, TextFields
<1>3. QED
  BY <1>2, CharacterPrints, PrintedPair

LEMMA ValuePrinted ==
  ASSUME NEW c \in Chars
  PROVE  <<Value(c, "mysql"), Value(c, "flight")>> \in Printed
<1>1. Value(c, "mysql") \in Pieces /\ Value(c, "flight") \in Pieces
  BY FragmentPieces
<1>2. QED
  BY <1>1, ValuePrints, PrintedPair

LEMMA RawPrinted ==
  ASSUME NEW c \in Characters
  PROVE  <<Raw(c, TRUE), Raw(c, FALSE)>> \in Printed
<1>1. c \in Chars
  BY DEF Chars
<1>2. CASE c # "%"
  <2>1. Raw(c, TRUE) = Text(<<c>>) /\ Raw(c, FALSE) = Text(<<c>>)
    BY <1>2 DEF Raw
  <2>2. QED
    BY <1>1, <1>2, <2>1, CharacterPrinted
<1>3. CASE c = "%"
  <2>1. Raw(c, TRUE) = Text(<<"%", "%">>) /\ Raw(c, FALSE) = Text(<<"%">>)
    BY <1>3 DEF Raw
  <2>2. <<"%", "%">> \in Seq(Chars) /\ <<"%">> \in Seq(Chars)
    BY <1>1, <1>3
  <2>3. Text(<<"%", "%">>) \in Pieces /\ Text(<<"%">>) \in Pieces
    BY <2>2, TextFields
  <2>4. QED
    BY <2>1, <2>3, PercentPrints, PrintedPair
<1>4. QED
  BY <1>2, <1>3

LEMMA IdentifierPrinted ==
  ASSUME NEW name \in Columns
  PROVE  Identifier(name) \in Pieces /\ <<Identifier(name), Identifier(name)>> \in Printed
<1>1. /\ "tick" \in Chars /\ "tick" # "%" /\ name \in Chars
      /\ "p" \in Chars /\ "%" \in Chars
  BY DEF Chars, Characters, Quotes
<1>2. CASE name = "p"
  <2>1. Identifier(name) = Text(<<"tick", "p", "%", "tick">>)
    BY <1>2 DEF Identifier
  <2>2. <<"tick", "p", "%", "tick">> \in Seq(Chars)
    BY <1>1
  <2>3. Identifier(name) \in Pieces
    BY <2>1, <2>2, TextFields
  <2>4. QED
    BY <1>2, <2>3, PercentBreaks, PrintedPair
<1>3. CASE name # "p"
  <2> DEFINE a == Text(<<"tick">>)
             b == Text(<<name>>)
             c == Text(<<"tick", name, "tick">>)
  <2>1. Identifier(name) = c
    BY <1>3 DEF Identifier
  <2>2. name # "%"
    BY ColumnAssumption
  <2>3. /\ a \in Pieces /\ <<a, a>> \in Printed
        /\ b \in Pieces /\ <<b, b>> \in Printed
    BY <1>1, <2>2, CharacterPrinted
  <2>4. <<"tick">> \in Seq(Chars) /\ <<name>> \in Seq(Chars)
        /\ <<"tick", name, "tick">> \in Seq(Chars)
    BY <1>1
  <2>5. Followed(a, Followed(b, a)) = c
    <3>1. /\ a.ok = TRUE /\ a.text = <<"tick">> /\ a.values = <<>>
          /\ b.ok = TRUE /\ b.text = <<name>> /\ b.values = <<>>
      BY <2>4, TextFields
    <3>2. /\ c \in Pieces /\ c.ok = TRUE /\ c.text = <<"tick", name, "tick">>
          /\ c.values = <<>>
      BY <2>4, TextFields
    <3>3. <<>> \o <<>> = <<>>
      <4>1. <<>> \in Seq(Chars)
        OBVIOUS
      <4>2. QED
        BY <4>1, ConcatEmptySeq
    <3>4. <<"tick">> \o (<<name>> \o <<"tick">>) = <<"tick", name, "tick">>
      BY <1>1, ThreeCharacters
    <3> HIDE DEF a, b, c
    <3> DEFINE d == Followed(b, a)
               e == Followed(a, d)
    <3>5. /\ d \in Pieces /\ d.ok = (b.ok /\ a.ok) /\ d.text = b.text \o a.text
          /\ d.values = b.values \o a.values
      BY <2>3, PieceFields
    <3> HIDE DEF d
    <3>6. /\ e \in Pieces /\ e.ok = (a.ok /\ d.ok) /\ e.text = a.text \o d.text
          /\ e.values = a.values \o d.values
      BY <2>3, <3>5, PieceFields
    <3> HIDE DEF e
    <3>7. e.ok = TRUE
      BY <3>1, <3>5, <3>6
    <3>8. e.text = c.text
      BY <3>1, <3>2, <3>4, <3>5, <3>6
    <3>9. e.values = c.values
      BY <3>1, <3>2, <3>3, <3>5, <3>6
    <3>10. e = c
      BY <3>2, <3>6, <3>7, <3>8, <3>9, SamePiece
    <3>11. QED
      BY <3>10 DEF d, e
  <2> HIDE DEF a, b, c
  <2>6. Followed(b, a) \in Pieces /\ <<Followed(b, a), Followed(b, a)>> \in Printed
    BY <2>3, PieceFields, PrintedCongruence DEF Congruence
  <2>7. <<Followed(a, Followed(b, a)), Followed(a, Followed(b, a))>> \in Printed
        /\ Followed(a, Followed(b, a)) \in Pieces
    BY <2>3, <2>6, PieceFields, PrintedCongruence DEF Congruence
  <2>8. QED
    BY <2>1, <2>5, <2>7
<1>4. QED
  BY <1>2, <1>3

LEMMA PredicatesPrinted == Renders(Printed)
<1>1. \A word \in Words : <<Text(<<word>>), Text(<<word>>)>> \in Printed
  <2>1. \A word \in Words : word \in Chars /\ word # "%"
    BY DEF Words, Chars, Comparisons, Connectives
  <2>2. QED
    BY <2>1, CharacterPrinted
<1>2. \A name \in Columns : <<Identifier(name), Identifier(name)>> \in Printed
  BY IdentifierPrinted
<1>3. \A value \in Literals : <<Value(value, "mysql"), Value(value, "flight")>> \in Printed
  <2>1. \A value \in Literals : value \in Chars
    BY DEF Chars
  <2>2. QED
    BY <2>1, ValuePrinted
<1>4. QED
  BY <1>1, <1>2, <1>3, PrintedCongruence DEF Renders

(* What printing means for a whole query. *)
LEMMA PrintedText ==
  ASSUME NEW x \in Pieces, NEW y \in Pieces, <<x, y>> \in Printed
  PROVE  \/ Formatted(x).ok = TRUE /\ Formatted(x).text = y.text
         \/ Formatted(x).ok = FALSE /\ "p" \in ToSet(y.text)
<1>1. Followed(x, Empty) = x /\ Empty \in Pieces
  BY FollowedEmpty, Constants
<1>2. CASE Prints(x, y)
  <2>1. Formatted(Followed(x, Empty)) = Followed(Text(y.text), Formatted(Empty))
    BY <1>1, <1>2 DEF Prints
  <2>2. y.text \in Seq(Chars)
    BY DEF Pieces
  <2>3. Text(y.text) \in Pieces /\ Text(y.text).ok = TRUE /\ Text(y.text).text = y.text
    BY <2>2, TextFields
  <2>4. Followed(Text(y.text), Empty) = Text(y.text)
    BY <2>3, FollowedEmpty
  <2>5. QED
    BY <1>1, <2>1, <2>3, <2>4, EmptyPrints
<1>3. CASE Breaks(x, y)
  BY <1>1, <1>3 DEF Breaks
<1>4. QED
  BY <1>2, <1>3, PrintedPair

-------------------------------------------------------------------------------
(* What both styles have in common *)

(* Of predicates and columns: nothing is left to be bound in what Flight
   sends, and what MySQL has no value for is the same text. *)
Rendered ==
    {z \in Pieces \X Pieces : /\ z[1].ok = TRUE /\ z[2].ok = TRUE /\ z[2].values = <<>>
                              /\ z[1].values = <<>> => z[1].text = z[2].text}

(* Of fragments: both raise or none, and only a value makes a value. *)
Scanned ==
    {z \in Pieces \X Pieces :
        /\ z[1].ok = z[2].ok /\ z[2].values = <<>>
        /\ z[1].values = <<>> => "value" \notin ToSet(z[2].text)}

(* Of fragments that have no values. *)
Plain == {z \in Pieces \X Pieces : z[1] = z[2] /\ z[1].values = <<>>}

LEMMA RelatedPairs ==
  ASSUME NEW x \in Pieces, NEW y \in Pieces
  PROVE  /\ <<x, y>> \in Rendered <=>
              /\ x.ok = TRUE /\ y.ok = TRUE /\ y.values = <<>>
              /\ x.values = <<>> => x.text = y.text
         /\ <<x, y>> \in Scanned <=>
              /\ x.ok = y.ok /\ y.values = <<>>
              /\ x.values = <<>> => "value" \notin ToSet(y.text)
         /\ <<x, y>> \in Plain <=> x = y /\ x.values = <<>>
<1> DEFINE z == <<x, y>>
<1>1. z \in Pieces \X Pieces /\ z[1] = x /\ z[2] = y
  OBVIOUS
<1> HIDE DEF z
<1>2. z \in Rendered <=>
        /\ x.ok = TRUE /\ y.ok = TRUE /\ y.values = <<>>
        /\ x.values = <<>> => x.text = y.text
  BY <1>1 DEF Rendered
<1>3. z \in Scanned <=>
        /\ x.ok = y.ok /\ y.values = <<>>
        /\ x.values = <<>> => "value" \notin ToSet(y.text)
  BY <1>1 DEF Scanned
<1>4. z \in Plain <=> x = y /\ x.values = <<>>
  BY <1>1 DEF Plain
<1>5. QED
  BY <1>2, <1>3, <1>4 DEF z

LEMMA FollowedParts ==
  ASSUME NEW a \in Pieces, NEW c \in Pieces
  PROVE  /\ Followed(a, c) \in Pieces
         /\ Followed(a, c).values = <<>> <=> a.values = <<>> /\ c.values = <<>>
         /\ ToSet(Followed(a, c).text) = ToSet(a.text) \cup ToSet(c.text)
<1>1. /\ a.text \in Seq(Chars) /\ c.text \in Seq(Chars)
      /\ a.values \in Seq(Chars) /\ c.values \in Seq(Chars)
  BY DEF Pieces
<1>2. /\ Followed(a, c) \in Pieces /\ Followed(a, c).text = a.text \o c.text
      /\ Followed(a, c).values = a.values \o c.values
  BY PieceFields
<1>3. a.values \o c.values = <<>> => a.values = <<>> /\ c.values = <<>>
  BY <1>1, Concatenated
<1>4. <<>> \o <<>> = <<>>
  <2>1. <<>> \in Seq(Chars)
    OBVIOUS
  <2>2. QED
    BY <2>1, ConcatEmptySeq
<1>5. Followed(a, c).values = <<>> <=> a.values = <<>> /\ c.values = <<>>
  BY <1>2, <1>3, <1>4
<1>6. ToSet(Followed(a, c).text) = ToSet(a.text) \cup ToSet(c.text)
  BY <1>1, <1>2, Concatenated
<1>7. QED
  BY <1>2, <1>5, <1>6

LEMMA Congruences ==
  /\ Congruence(Rendered)
  /\ Congruence(Scanned) /\ <<Raises, Raises>> \in Scanned
  /\ Congruence(Plain) /\ <<Raises, Raises>> \in Plain
<1>1. /\ Rendered \subseteq Pieces \X Pieces /\ Scanned \subseteq Pieces \X Pieces
      /\ Plain \subseteq Pieces \X Pieces
  BY DEF Rendered, Scanned, Plain
<1>2. "value" \notin ToSet(<<>>)
  BY DEF ToSet
<1>3. /\ <<Empty, Empty>> \in Rendered /\ <<Empty, Empty>> \in Scanned
      /\ <<Empty, Empty>> \in Plain
      /\ <<Raises, Raises>> \in Scanned /\ <<Raises, Raises>> \in Plain
  BY <1>2, Constants, RelatedPairs
<1>4. ASSUME NEW a \in Pieces, NEW b \in Pieces, NEW c \in Pieces, NEW d \in Pieces
      PROVE  /\ <<a, b>> \in Rendered /\ <<c, d>> \in Rendered
                  => <<Followed(a, c), Followed(b, d)>> \in Rendered
             /\ <<a, b>> \in Scanned /\ <<c, d>> \in Scanned
                  => <<Followed(a, c), Followed(b, d)>> \in Scanned
             /\ <<a, b>> \in Plain /\ <<c, d>> \in Plain
                  => <<Followed(a, c), Followed(b, d)>> \in Plain
  <2> DEFINE x == Followed(a, c)
             y == Followed(b, d)
  <2>1. /\ x \in Pieces /\ x.ok = (a.ok /\ c.ok) /\ x.text = a.text \o c.text
        /\ x.values = <<>> <=> a.values = <<>> /\ c.values = <<>>
    BY PieceFields, FollowedParts
  <2>2. /\ y \in Pieces /\ y.ok = (b.ok /\ d.ok) /\ y.text = b.text \o d.text
        /\ y.values = <<>> <=> b.values = <<>> /\ d.values = <<>>
        /\ ToSet(y.text) = ToSet(b.text) \cup ToSet(d.text)
    BY PieceFields, FollowedParts
  <2>3. a = b /\ c = d => x = y
    OBVIOUS
  <2> HIDE DEF x, y
  <2>4. ASSUME <<a, b>> \in Rendered, <<c, d>> \in Rendered
        PROVE  <<x, y>> \in Rendered
    <3>1. /\ a.ok = TRUE /\ b.ok = TRUE /\ b.values = <<>>
          /\ a.values = <<>> => a.text = b.text
          /\ c.ok = TRUE /\ d.ok = TRUE /\ d.values = <<>>
          /\ c.values = <<>> => c.text = d.text
      BY <2>4, RelatedPairs
    <3>2. /\ x.ok = TRUE /\ y.ok = TRUE /\ y.values = <<>>
          /\ x.values = <<>> => x.text = y.text
      BY <2>1, <2>2, <3>1
    <3>3. QED
      BY <2>1, <2>2, <3>2, RelatedPairs
  <2>5. ASSUME <<a, b>> \in Scanned, <<c, d>> \in Scanned
        PROVE  <<x, y>> \in Scanned
    <3>1. /\ a.ok = b.ok /\ b.values = <<>>
          /\ a.values = <<>> => "value" \notin ToSet(b.text)
          /\ c.ok = d.ok /\ d.values = <<>>
          /\ c.values = <<>> => "value" \notin ToSet(d.text)
      BY <2>5, RelatedPairs
    <3>2. x.ok = y.ok
      BY <2>1, <2>2, <3>1, Zenon
    <3>3. y.values = <<>>
      BY <2>2, <3>1, Zenon
    <3>4. ASSUME x.values = <<>> PROVE "value" \notin ToSet(y.text)
      <4>1. a.values = <<>> /\ c.values = <<>>
        BY <2>1, <3>4, Zenon
      <4>2. QED
        BY <2>2, <3>1, <4>1
    <3>5. QED
      BY <2>1, <2>2, <3>2, <3>3, <3>4, RelatedPairs
  <2>6. ASSUME <<a, b>> \in Plain, <<c, d>> \in Plain
        PROVE  <<x, y>> \in Plain
    <3>1. a = b /\ a.values = <<>> /\ c = d /\ c.values = <<>>
      BY <2>6, RelatedPairs
    <3>2. x = y /\ x.values = <<>>
      BY <2>1, <2>3, <3>1, Zenon
    <3>3. QED
      BY <2>1, <3>2, RelatedPairs
  <2>7. QED
    BY <2>4, <2>5, <2>6 DEF x, y
<1>5. QED
  BY <1>1, <1>3, <1>4 DEF Congruence

LEMMA PredicatesRendered == Renders(Rendered)
<1>1. \A word \in Words : <<Text(<<word>>), Text(<<word>>)>> \in Rendered
  <2>1. ASSUME NEW word \in Words
        PROVE  <<Text(<<word>>), Text(<<word>>)>> \in Rendered
    <3>1. <<word>> \in Seq(Chars)
      BY DEF Chars
    <3>2. QED
      BY <3>1, TextFields, RelatedPairs
  <2>2. QED
    BY <2>1
<1>2. \A name \in Columns : <<Identifier(name), Identifier(name)>> \in Rendered
  <2>1. ASSUME NEW name \in Columns
        PROVE  <<Identifier(name), Identifier(name)>> \in Rendered
    <3> DEFINE t == IF name = "p" THEN <<"tick", "p", "%", "tick">>
                    ELSE <<"tick", name, "tick">>
    <3>1. t \in Seq(Chars)
      <4>1. {"tick", "p", "%", name} \subseteq Chars
        BY DEF Chars, Characters, Quotes
      <4>2. /\ <<"tick", "p", "%", "tick">> \in Seq(Chars)
            /\ <<"tick", name, "tick">> \in Seq(Chars)
        BY <4>1
      <4>3. QED
        BY <4>2
    <3>2. Identifier(name) = Text(t)
      BY DEF Identifier
    <3> HIDE DEF t
    <3>3. QED
      BY <3>1, <3>2, TextFields, RelatedPairs
  <2>2. QED
    BY <2>1
<1>3. \A value \in Literals : <<Value(value, "mysql"), Value(value, "flight")>> \in Rendered
  <2>1. ASSUME NEW value \in Literals
        PROVE  <<Value(value, "mysql"), Value(value, "flight")>> \in Rendered
    <3> DEFINE x == Value(value, "mysql")
               y == Value(value, "flight")
    <3>1. value \in Chars /\ <<value>> \in Seq(Chars)
      BY DEF Chars
    <3>2. x \in Pieces /\ y \in Pieces
      BY <3>1, FragmentPieces
    <3>3. x.ok = TRUE /\ x.values = <<value>> /\ y = Text(<<value>>)
      BY DEF Value
    <3>4. y.ok = TRUE /\ y.values = <<>>
      BY <3>1, <3>3, TextFields
    <3> HIDE DEF x, y
    <3>5. x.values # <<>>
      BY <3>3
    <3>6. QED
      BY <3>2, <3>3, <3>4, <3>5, RelatedPairs DEF x, y
  <2>2. QED
    BY <2>1
<1>4. QED
  BY <1>1, <1>2, <1>3, Congruences DEF Renders

LEMMA FragmentsScanned ==
  /\ \A c \in Characters : <<Raw(c, TRUE), Raw(c, FALSE)>> \in Scanned
  /\ \A c \in Characters : <<Raw(c, FALSE), Raw(c, FALSE)>> \in Scanned
  /\ \A c \in Characters : <<Raw(c, FALSE), Raw(c, FALSE)>> \in Plain
  /\ <<Value("value", "mysql"), Value("value", "flight")>> \in Scanned
<1>1. ASSUME NEW c \in Characters
      PROVE  /\ <<Raw(c, TRUE), Raw(c, FALSE)>> \in Scanned
             /\ <<Raw(c, FALSE), Raw(c, FALSE)>> \in Scanned
             /\ <<Raw(c, FALSE), Raw(c, FALSE)>> \in Plain
  <2> DEFINE t == IF c = "%" THEN <<"%", "%">> ELSE <<c>>
             u == <<c>>
  <2>1. t \in Seq(Chars) /\ u \in Seq(Chars)
    <3>1. c \in Chars /\ "%" \in Chars
      BY DEF Chars, Characters
    <3>2. <<"%", "%">> \in Seq(Chars) /\ <<c>> \in Seq(Chars)
      BY <3>1
    <3>3. QED
      BY <3>2
  <2>2. "value" \notin ToSet(u)
    BY DEF ToSet, Characters, Quotes
  <2>3. Raw(c, TRUE) = Text(t) /\ Raw(c, FALSE) = Text(u)
    BY DEF Raw
  <2> HIDE DEF t, u
  <2>4. /\ Text(t) \in Pieces /\ Text(t).ok = TRUE
        /\ Text(u) \in Pieces /\ Text(u).ok = TRUE
        /\ Text(u).text = u /\ Text(u).values = <<>>
    BY <2>1, TextFields, Zenon
  <2>5. <<Text(t), Text(u)>> \in Scanned
    BY <2>2, <2>4, RelatedPairs
  <2>6. <<Text(u), Text(u)>> \in Scanned
    BY <2>2, <2>4, RelatedPairs
  <2>7. <<Text(u), Text(u)>> \in Plain
    BY <2>4, RelatedPairs
  <2>8. QED
    BY <2>3, <2>5, <2>6, <2>7, Zenon
<1>2. <<Value("value", "mysql"), Value("value", "flight")>> \in Scanned
  <2> DEFINE x == Value("value", "mysql")
             y == Value("value", "flight")
  <2>1. <<"value">> \in Seq(Chars)
    BY FragmentPieces
  <2>2. x \in Pieces /\ y \in Pieces
    BY FragmentPieces
  <2>3. x.ok = TRUE /\ x.values = <<"value">> /\ y = Text(<<"value">>)
    BY DEF Value
  <2>4. y.ok = TRUE /\ y.values = <<>>
    BY <2>1, <2>3, TextFields
  <2> HIDE DEF x, y
  <2>5. x.values # <<>>
    BY <2>3
  <2>6. QED
    BY <2>2, <2>3, <2>4, <2>5, RelatedPairs DEF x, y
<1>3. QED
  BY <1>1, <1>2

-------------------------------------------------------------------------------
(* What a reader sees of a fragment *)

Modes == Scanners \cup {"escaped"}

LEMMA ModeStep ==
  ASSUME NEW f \in Seq(Characters)
  PROVE  /\ Mode(f) \in [Places(f) -> Modes]
         /\ Mode(f)[1] = Outside
         /\ \A i \in 1 .. Len(f) : Mode(f)[i + 1] = Reader(Mode(f)[i], f[i])
<1> DEFINE E == Places(f)
           V == Modes
           depth == [i \in E |-> i]
           Node(mode, i) == IF i = 1 THEN Outside ELSE Reader(mode[i - 1], f[i - 1])
           Step == [mode \in [E -> V] |-> [i \in E |-> Node(mode, i)]]
<1>0. /\ Len(f) \in Nat /\ \A i \in E : i \in Nat
      /\ \A i \in E : i # 1 => i - 1 \in E /\ i - 1 < i /\ f[i - 1] \in Characters
      /\ \A i \in 1 .. Len(f) : i + 1 \in E /\ i + 1 # 1 /\ (i + 1) - 1 = i
  BY DEF Places
<1>1. depth \in [E -> Nat]
  BY <1>0
<1>2. ASSUME NEW mode \in V, NEW c \in Characters
      PROVE  Reader(mode, c) \in V
  BY DEF Reader, Modes, Scanners, Quotes, Outside
<1>3. ASSUME NEW mode \in [E -> V], NEW i \in E
      PROVE  Node(mode, i) \in V
  <2>1. CASE i = 1
    BY <2>1 DEF Modes, Scanners
  <2>2. CASE i # 1
    <3>1. mode[i - 1] \in V /\ f[i - 1] \in Characters
      BY <1>0, <2>2
    <3>2. Reader(mode[i - 1], f[i - 1]) \in V
      BY <1>2, <3>1
    <3>3. QED
      BY <2>2, <3>2
  <2>3. QED
    BY <2>1, <2>2
<1>4. ASSUME NEW g, NEW h, NEW i \in E, \A j \in E : depth[j] < depth[i] => g[j] = h[j]
      PROVE  Node(g, i) = Node(h, i)
  <2>1. i # 1 => i - 1 \in E /\ depth[i - 1] < depth[i]
    BY <1>0
  <2> HIDE DEF E, depth
  <2>2. QED
    BY <1>4, <2>1
<1>5. PICK g \in [E -> V] : g = [i \in E |-> Node(g, i)]
  <2> HIDE DEF Node, E, V, depth
  <2>1. Step \in [[E -> V] -> [E -> V]]
    BY <1>3
  <2>2. ASSUME NEW g \in [E -> V], NEW h \in [E -> V], NEW i \in E,
               \A j \in E : depth[j] < depth[i] => g[j] = h[j]
        PROVE  Step[g][i] = Step[h][i]
    BY <1>4, <2>2
  <2>3. PICK v \in V : TRUE
    <3>1. Outside \in V
      BY DEF V, Modes, Scanners
    <3>2. QED
      BY <3>1
  <2>4. \E g \in [E -> V] : g = Step[g]
    <3> HIDE DEF Step
    <3>1. \A g, h \in [E -> V] : \A i \in E :
            (\A j \in E : depth[j] < depth[i] => g[j] = h[j]) => Step[g][i] = Step[h][i]
      BY <2>2
    <3>2. Descends(E, V, depth, Step)
      BY <1>1, <2>1, <3>1 DEF Descends
    <3>3. QED
      BY <2>3, <3>2, Recursion
  <2>5. QED
    BY <2>4
<1> DEFINE h == Mode(f)
<1>6. h = [i \in E |-> Node(h, i)]
  BY <1>5 DEF Mode, Places
<1> HIDE DEF h
<1>7. \A i \in E : g[i] = h[i]
  <2> HIDE DEF Node, E, V, depth, Step
  <2>1. ASSUME NEW i \in E, \A j \in E : depth[j] < depth[i] => g[j] = h[j]
        PROVE  g[i] = h[i]
    <3>1. g[i] = Node(g, i) /\ h[i] = Node(h, i)
      BY <1>5, <1>6
    <3>2. QED
      BY <1>4, <2>1, <3>1
  <2>2. Agree(E, depth, g, h)
    BY <1>1, <2>1 DEF Agree
  <2>3. QED
    BY <2>2, SameRecursion
<1>8. h = g
  BY <1>5, <1>6, <1>7
<1>9. \A i \in E : h[i] = Node(h, i)
  BY <1>6
<1>10. 1 \in E
  BY <1>0 DEF Places
<1>11. h[1] = Outside
  BY <1>9, <1>10
<1>12. \A i \in 1 .. Len(f) : h[i + 1] = Reader(h[i], f[i])
  BY <1>0, <1>9
<1>13. QED
  BY <1>8, <1>11, <1>12 DEF h

(* A character that stands for no value and in the name of none. *)
NamedAt(f, i) == \E m \in Markers(f) : m < i /\ i <= NameEnd(f, m + 1)
MeantAt(f, i) ==
    IF i \in Markers(f) THEN <<"value">> ELSE IF NamedAt(f, i) THEN <<>> ELSE <<f[i]>>

LEMMA MeantStep ==
  ASSUME NEW f \in Seq(Characters)
  PROVE  /\ FragmentMeant(f) \in [Places(f) -> Seq(Chars)]
         /\ FragmentMeant(f)[Len(f) + 1] = <<>>
         /\ \A i \in 1 .. Len(f) :
              FragmentMeant(f)[i] = MeantAt(f, i) \o FragmentMeant(f)[i + 1]
<1> DEFINE E == Places(f)
           V == Seq(Chars)
           depth == [i \in E |-> Len(f) + 1 - i]
           Node(from, i) == IF i > Len(f) THEN <<>> ELSE MeantAt(f, i) \o from[i + 1]
           Step == [from \in [E -> V] |-> [i \in E |-> Node(from, i)]]
<1>0. /\ Len(f) \in Nat /\ \A i \in E : i \in Nat /\ Len(f) + 1 - i \in Nat
      /\ \A i \in E : ~(i > Len(f)) =>
           i + 1 \in E /\ i \in 1 .. Len(f) /\ Len(f) + 1 - (i + 1) < Len(f) + 1 - i
      /\ \A i \in 1 .. Len(f) : i \in E /\ ~(i > Len(f))
      /\ Len(f) + 1 \in E /\ Len(f) + 1 > Len(f)
  BY DEF Places
<1>1. depth \in [E -> Nat]
  BY <1>0
<1>2. ASSUME NEW i \in 1 .. Len(f)
      PROVE  MeantAt(f, i) \in V
  <2>1. f[i] \in Chars /\ "value" \in Chars
    BY DEF Chars
  <2>2. <<f[i]>> \in V /\ <<"value">> \in V /\ <<>> \in V
    BY <2>1
  <2>3. QED
    BY <2>2 DEF MeantAt
<1>3. ASSUME NEW from \in [E -> V], NEW i \in E
      PROVE  Node(from, i) \in V
  <2>1. CASE i > Len(f)
    BY <2>1
  <2>2. CASE ~(i > Len(f))
    <3>1. from[i + 1] \in V /\ MeantAt(f, i) \in V
      BY <1>0, <1>2, <2>2
    <3>2. MeantAt(f, i) \o from[i + 1] \in V
      BY <3>1
    <3>3. QED
      BY <2>2, <3>2
  <2>3. QED
    BY <2>1, <2>2
<1>4. ASSUME NEW g, NEW h, NEW i \in E, \A j \in E : depth[j] < depth[i] => g[j] = h[j]
      PROVE  Node(g, i) = Node(h, i)
  <2>1. ~(i > Len(f)) => i + 1 \in E /\ depth[i + 1] < depth[i]
    BY <1>0
  <2> HIDE DEF E, depth
  <2>2. QED
    BY <1>4, <2>1
<1>5. PICK g \in [E -> V] : g = [i \in E |-> Node(g, i)]
  <2> HIDE DEF Node, E, V, depth
  <2>1. Step \in [[E -> V] -> [E -> V]]
    BY <1>3
  <2>2. ASSUME NEW g \in [E -> V], NEW h \in [E -> V], NEW i \in E,
               \A j \in E : depth[j] < depth[i] => g[j] = h[j]
        PROVE  Step[g][i] = Step[h][i]
    BY <1>4, <2>2
  <2>3. PICK v \in V : TRUE
    <3>1. <<>> \in V
      BY DEF V
    <3>2. QED
      BY <3>1
  <2>4. \E g \in [E -> V] : g = Step[g]
    <3> HIDE DEF Step
    <3>1. \A g, h \in [E -> V] : \A i \in E :
            (\A j \in E : depth[j] < depth[i] => g[j] = h[j]) => Step[g][i] = Step[h][i]
      BY <2>2
    <3>2. Descends(E, V, depth, Step)
      BY <1>1, <2>1, <3>1 DEF Descends
    <3>3. QED
      BY <2>3, <3>2, Recursion
  <2>5. QED
    BY <2>4
<1> DEFINE h == FragmentMeant(f)
<1>6. h = [i \in E |-> Node(h, i)]
  <2>1. g = [i \in 1 .. Len(f) + 1 |-> IF i > Len(f) THEN <<>> ELSE
               (IF i \in Markers(f) THEN <<"value">>
                ELSE IF \E m \in Markers(f) : m < i /\ i <= NameEnd(f, m + 1)
                THEN <<>> ELSE <<f[i]>>) \o g[i + 1]]
    BY <1>5 DEF MeantAt, NamedAt, Places
  <2> HIDE <1>5
  <2>2. QED
    BY <2>1 DEF FragmentMeant, MeantAt, NamedAt, Places
<1> HIDE DEF h
<1>7. \A i \in E : g[i] = h[i]
  <2> HIDE DEF Node, E, V, depth, Step
  <2>1. ASSUME NEW i \in E, \A j \in E : depth[j] < depth[i] => g[j] = h[j]
        PROVE  g[i] = h[i]
    <3>1. g[i] = Node(g, i) /\ h[i] = Node(h, i)
      BY <1>5, <1>6
    <3>2. QED
      BY <1>4, <2>1, <3>1
  <2>2. Agree(E, depth, g, h)
    BY <1>1, <2>1 DEF Agree
  <2>3. QED
    BY <2>2, SameRecursion
<1>8. h = g
  BY <1>5, <1>6, <1>7
<1>9. \A i \in E : h[i] = Node(h, i)
  BY <1>6
<1>10. h[Len(f) + 1] = <<>>
  BY <1>0, <1>9
<1>11. \A i \in 1 .. Len(f) : h[i] = MeantAt(f, i) \o h[i + 1]
  BY <1>0, <1>9
<1>12. QED
  BY <1>8, <1>10, <1>11 DEF h

(* No name reaches character i. *)
Clear(f, i) == \A m \in Markers(f) : m < i => NameEnd(f, m + 1) < i

LEMMA MarkerPlaces ==
  ASSUME NEW f \in Seq(Characters), NEW m \in Markers(f)
  PROVE  /\ m \in 1 .. Len(f) /\ m + 1 \in 1 .. Len(f)
         /\ Mode(f)[m] = Outside /\ IsMarker(f, m) /\ f[m] = ":" /\ f[m + 1] = "s"
         /\ NameEnd(f, m + 1) \in m + 1 .. Len(f)
         /\ \A k \in m + 1 .. NameEnd(f, m + 1) : f[k] = "s"
<1>1. DOMAIN f = 1 .. Len(f) /\ Len(f) \in Nat
  OBVIOUS
<1>2. m \in 1 .. Len(f) /\ Mode(f)[m] = Outside /\ IsMarker(f, m)
  BY <1>1 DEF Markers
<1>3. f[m] = ":" /\ m < Len(f) /\ f[m + 1] = "s"
  BY <1>2 DEF IsMarker
<1>4. m + 1 \in 1 .. Len(f)
  BY <1>1, <1>2, <1>3
<1>5. QED
  BY <1>2, <1>3, <1>4, NameEnds

(* Past a character that is no marker. *)
LEMMA PastCharacter ==
  ASSUME NEW f \in Seq(Characters), NEW i \in 1 .. Len(f), i \notin Markers(f), Clear(f, i)
  PROVE  /\ Clear(f, i + 1)
         /\ FragmentMeant(f)[i] = <<f[i]>> \o FragmentMeant(f)[i + 1]
         /\ \A m \in Markers(f) : m >= i <=> m >= i + 1
<1>1. \A m \in Markers(f) : m \in 1 .. Len(f) /\ NameEnd(f, m + 1) \in m + 1 .. Len(f)
  BY MarkerPlaces
<1>2. \A m \in Markers(f) : m # i
  OBVIOUS
<1>3. \A m \in Markers(f) : m >= i <=> m >= i + 1
  BY <1>1, <1>2
<1>4. ASSUME NEW m \in Markers(f), m < i + 1
      PROVE  NameEnd(f, m + 1) < i + 1
  <2>1. m < i
    BY <1>1, <1>2, <1>4
  <2>2. NameEnd(f, m + 1) < i
    BY <2>1 DEF Clear
  <2>3. QED
    BY <1>1, <2>2
<1>5. ~NamedAt(f, i)
  <2>1. ASSUME NEW m \in Markers(f), m < i, i <= NameEnd(f, m + 1)
        PROVE  FALSE
    <3>1. NameEnd(f, m + 1) < i
      BY <2>1 DEF Clear
    <3>2. QED
      BY <1>1, <2>1, <3>1
  <2>2. QED
    BY <2>1 DEF NamedAt
<1>6. MeantAt(f, i) = <<f[i]>>
  BY <1>5 DEF MeantAt
<1>7. FragmentMeant(f)[i] = <<f[i]>> \o FragmentMeant(f)[i + 1]
  BY <1>6, MeantStep
<1>8. QED
  BY <1>3, <1>4, <1>7 DEF Clear

(* Past a marker and its name. *)
LEMMA PastMarker ==
  ASSUME NEW f \in Seq(Characters), NEW i \in Markers(f), Clear(f, i)
  PROVE  LET n == NameEnd(f, i + 1)
         IN  /\ n + 1 \in Places(f) /\ n + 1 > i
             /\ Mode(f)[n + 1] = Outside
             /\ Clear(f, n + 1)
             /\ FragmentMeant(f)[i] = <<"value">> \o FragmentMeant(f)[n + 1]
             /\ \A m \in Markers(f) : m >= i <=> m = i \/ m >= n + 1
<1> DEFINE n == NameEnd(f, i + 1)
<1>1. \A m \in Markers(f) : /\ m \in 1 .. Len(f)
                            /\ f[m] = ":"
                            /\ NameEnd(f, m + 1) \in m + 1 .. Len(f)
  BY MarkerPlaces
<1>2. /\ i \in 1 .. Len(f) /\ n \in i + 1 .. Len(f) /\ f[i] = ":"
      /\ Mode(f)[i] = Outside /\ \A k \in i + 1 .. n : f[k] = "s"
  BY MarkerPlaces
<1> HIDE DEF n
<1>3. Len(f) \in Nat /\ n + 1 \in Places(f) /\ n + 1 > i
  BY <1>2 DEF Places
<1>4. \A m \in Markers(f) : m \notin i + 1 .. n
  BY <1>1, <1>2
<1>5. \A m \in Markers(f) : m >= i <=> m = i \/ m >= n + 1
  BY <1>1, <1>2, <1>4
<1>6. Clear(f, n + 1)
  <2>1. ASSUME NEW m \in Markers(f), m < n + 1
        PROVE  NameEnd(f, m + 1) < n + 1
    <3>1. m < i \/ m = i
      BY <1>1, <1>2, <1>4, <2>1
    <3>2. CASE m < i
      <4>1. NameEnd(f, m + 1) < i
        BY <3>2 DEF Clear
      <4>2. QED
        BY <1>1, <1>2, <4>1
    <3>3. CASE m = i
      BY <1>2, <3>3 DEF n
    <3>4. QED
      BY <3>1, <3>2, <3>3
  <2>2. QED
    BY <2>1 DEF Clear
<1>7. Mode(f)[n + 1] = Outside
  <2> DEFINE S == {k \in Nat : i + k <= n => Mode(f)[(i + k) + 1] = Outside}
  <2>1. ASSUME NEW k \in i .. n, Mode(f)[k] = Outside
        PROVE  Mode(f)[k + 1] = Outside
    <3>1. k \in 1 .. Len(f) /\ f[k] \notin Quotes
      BY <1>2, <1>3 DEF Quotes
    <3>2. Mode(f)[k + 1] = Reader(Mode(f)[k], f[k])
      BY <3>1, ModeStep
    <3>3. QED
      BY <2>1, <3>1, <3>2 DEF Reader, Outside
  <2>2. 0 \in S
    <3>1. i + 0 = i /\ i \in i .. n
      BY <1>2
    <3>2. QED
      BY <1>2, <2>1, <3>1
  <2>3. ASSUME NEW k \in S
        PROVE  k + 1 \in S
    <3> SUFFICES ASSUME i + (k + 1) <= n PROVE Mode(f)[(i + (k + 1)) + 1] = Outside
      OBVIOUS
    <3>1. i + k <= n /\ i + (k + 1) = (i + k) + 1 /\ i + (k + 1) \in i .. n
      BY <1>2
    <3>2. Mode(f)[i + (k + 1)] = Outside
      BY <3>1
    <3>3. QED
      BY <2>1, <3>1, <3>2
  <2>4. S = Nat
    <3> HIDE DEF S
    <3>1. S \in SUBSET Nat
      BY DEF S
    <3>2. QED
      BY <2>2, <2>3, <3>1, AllNaturals
  <2>5. n - i \in Nat /\ i + (n - i) = n /\ n <= n
    BY <1>2
  <2>6. n - i \in S
    BY <2>4, <2>5
  <2>7. QED
    BY <2>5, <2>6
<1>8. FragmentMeant(f)[i] = <<"value">> \o FragmentMeant(f)[n + 1]
  <2> DEFINE S == {k \in Nat : (i + k) + 1 <= n + 1 =>
                     FragmentMeant(f)[i] = <<"value">> \o FragmentMeant(f)[(i + k) + 1]}
  <2>1. 0 \in S
    <3>1. MeantAt(f, i) = <<"value">> /\ (i + 0) + 1 = i + 1
      BY <1>2 DEF MeantAt
    <3>2. FragmentMeant(f)[i] = <<"value">> \o FragmentMeant(f)[i + 1]
      BY <1>2, <3>1, MeantStep
    <3>3. QED
      BY <3>1, <3>2
  <2>2. ASSUME NEW k \in S
        PROVE  k + 1 \in S
    <3> SUFFICES ASSUME (i + (k + 1)) + 1 <= n + 1
                 PROVE  FragmentMeant(f)[i]
                          = <<"value">> \o FragmentMeant(f)[(i + (k + 1)) + 1]
      OBVIOUS
    <3> DEFINE j == (i + k) + 1
    <3>1. j \in i + 1 .. n /\ j \in 1 .. Len(f) /\ j <= n + 1 /\ (i + (k + 1)) + 1 = j + 1
      BY <1>2, <1>3
    <3>2. FragmentMeant(f)[i] = <<"value">> \o FragmentMeant(f)[j]
      BY <3>1
    <3> HIDE DEF j
    <3>3. j \notin Markers(f)
      BY <1>4, <3>1
    <3>4. NamedAt(f, j)
      <4>1. i < j /\ j <= NameEnd(f, i + 1)
        BY <1>2, <3>1 DEF n
      <4>2. QED
        BY <4>1 DEF NamedAt
    <3>5. MeantAt(f, j) = <<>>
      BY <3>3, <3>4 DEF MeantAt
    <3>6. FragmentMeant(f)[j] = <<>> \o FragmentMeant(f)[j + 1]
      BY <3>1, <3>5, MeantStep
    <3>7. FragmentMeant(f)[j + 1] \in Seq(Chars)
      <4>1. j + 1 \in Places(f)
        BY <1>3, <3>1 DEF Places
      <4>2. QED
        BY <4>1, MeantStep
    <3>8. FragmentMeant(f)[j] = FragmentMeant(f)[j + 1]
      BY <3>6, <3>7, ConcatEmptySeq
    <3>9. QED
      BY <3>1, <3>2, <3>8
  <2>3. S = Nat
    <3> HIDE DEF S
    <3>1. S \in SUBSET Nat
      BY DEF S
    <3>2. QED
      BY <2>1, <2>2, <3>1, AllNaturals
  <2>4. n - i \in Nat /\ (i + (n - i)) + 1 = n + 1 /\ (i + (n - i)) + 1 <= n + 1
    BY <1>2
  <2>5. n - i \in S
    BY <2>3, <2>4
  <2>6. QED
    BY <2>4, <2>5
<1>9. QED
  BY <1>3, <1>5, <1>6, <1>7, <1>8 DEF n

(* What a step of the scanner does to what a reader sees. *)
LEMMA ReaderSteps ==
  ASSUME NEW f \in Seq(Characters), NEW i \in 1 .. Len(f), NEW q \in Scanners,
         Mode(f)[i] = q
  PROVE  /\ q # Outside /\ Escapes(f, i, q) =>
              /\ i + 1 \in 1 .. Len(f)
              /\ i \notin Markers(f) /\ i + 1 \notin Markers(f) /\ Mode(f)[i + 2] = q
         /\ q # Outside /\ ~Escapes(f, i, q) =>
              /\ i \notin Markers(f)
              /\ \/ Mode(f)[i + 1] = IF f[i] = q THEN Outside ELSE q
                 \/ i = Len(f) /\ Mode(f)[i + 1] = "escaped" /\ f[i] # q
         /\ q = Outside => (IsMarker(f, i) <=> i \in Markers(f))
         /\ q = Outside /\ ~IsMarker(f, i) =>
              Mode(f)[i + 1] = IF f[i] \in Quotes THEN f[i] ELSE Outside
<1>0. Len(f) \in Nat /\ DOMAIN f = 1 .. Len(f) /\ f[i] \in Characters
      /\ i \in Nat /\ i <= Len(f)
  OBVIOUS
<1>1. Mode(f)[i + 1] = Reader(q, f[i])
  BY ModeStep
<1>2. q # Outside => i \notin Markers(f)
  BY DEF Markers
<1>3. q = Outside => (IsMarker(f, i) <=> i \in Markers(f))
  BY <1>0 DEF Markers
<1>4. q = Outside => Mode(f)[i + 1] = IF f[i] \in Quotes THEN f[i] ELSE Outside
  BY <1>1 DEF Reader, Outside
<1>5. ASSUME q # Outside, Escapes(f, i, q)
      PROVE  i + 1 \in 1 .. Len(f) /\ i + 1 \notin Markers(f) /\ Mode(f)[i + 2] = q
  <2>1. i + 1 \in 1 .. Len(f) /\ (i + 1) + 1 = i + 2
    BY <1>0, <1>5 DEF Escapes
  <2>2. Mode(f)[i + 2] = Reader(Mode(f)[i + 1], f[i + 1])
    BY <2>1, ModeStep
  <2>3. CASE f[i] = "slash" /\ q # "tick"
    <3>1. q = "quote"
      BY <1>5, <2>3 DEF Scanners, Quotes
    <3>2. Mode(f)[i + 1] = "escaped"
      BY <1>1, <2>3, <3>1 DEF Reader, Outside
    <3>3. Reader("escaped", f[i + 1]) = "quote"
      BY DEF Reader, Outside
    <3>4. i + 1 \notin Markers(f)
      BY <3>2 DEF Markers, Outside
    <3>5. QED
      BY <2>1, <2>2, <3>1, <3>2, <3>3, <3>4
  <2>4. CASE f[i] = q /\ f[i + 1] = q
    <3>1. q \in Quotes
      BY <1>5 DEF Scanners
    <3>2. Mode(f)[i + 1] = Outside
      BY <1>1, <2>4, <3>1 DEF Reader, Outside, Quotes
    <3>3. Reader(Outside, f[i + 1]) = q
      BY <2>4, <3>1 DEF Reader, Outside
    <3>4. i + 1 \notin Markers(f)
      BY <2>4, <3>1 DEF Markers, IsMarker, Quotes
    <3>5. QED
      BY <2>1, <2>2, <3>2, <3>3, <3>4
  <2>5. QED
    BY <1>5, <2>3, <2>4 DEF Escapes
<1>6. ASSUME q # Outside, ~Escapes(f, i, q)
      PROVE  \/ Mode(f)[i + 1] = IF f[i] = q THEN Outside ELSE q
             \/ i = Len(f) /\ Mode(f)[i + 1] = "escaped" /\ f[i] # q
  <2>1. q \in Quotes
    BY <1>6 DEF Scanners
  <2>2. CASE q = "quote" /\ f[i] = "slash"
    <3>1. ~(i < Len(f))
      BY <1>6, <2>2 DEF Escapes
    <3>2. Mode(f)[i + 1] = "escaped"
      BY <1>1, <2>2 DEF Reader, Outside
    <3>3. i = Len(f)
      <4>1. \A l, n \in Nat : n <= l /\ ~(n < l) => n = l
        OBVIOUS
      <4>2. QED
        BY <1>0, <3>1, <4>1
    <3>4. QED
      BY <2>2, <3>2, <3>3
  <2>3. CASE ~(q = "quote" /\ f[i] = "slash")
    BY <1>1, <2>1, <2>3 DEF Reader, Outside, Quotes
  <2>4. QED
    BY <2>2, <2>3
<1>7. QED
  BY <1>2, <1>3, <1>4, <1>5, <1>6

-------------------------------------------------------------------------------
(* The scanner finds what the reader sees *)

Sound(f, i) ==
    /\ Mode(f)[Len(f) + 1] = Outside
    /\ \A m \in Markers(f) : m >= i => Name(f, m) \in scan.names

(* A piece is what is meant by the fragment from character i on, unless that
   has no meaning. *)
ReadsAs(x, f, i) ==
    /\ x.ok = TRUE <=> Sound(f, i)
    /\ x.ok = TRUE => /\ x.text = FragmentMeant(f)[i]
                      /\ "value" \in ToSet(x.text) <=> \E m \in Markers(f) : m >= i

(* A piece that raises nothing leaves it to what follows. *)
LEMMA OkFollowed ==
  ASSUME NEW l \in Pieces, NEW r \in Pieces, l.ok = TRUE
  PROVE  Followed(l, r).ok = TRUE <=> r.ok = TRUE
<1>1. Followed(l, r).ok = (l.ok /\ r.ok)
  BY PieceFields
<1>2. r.ok \in BOOLEAN
  BY DEF Pieces
<1>3. QED
  BY <1>1, <1>2

LEMMA CharacterRead ==
  ASSUME NEW f \in Seq(Characters), NEW i \in 1 .. Len(f), i \notin Markers(f), Clear(f, i),
         NEW x \in Pieces, ReadsAs(x, f, i + 1)
  PROVE  ReadsAs(Followed(Text(<<f[i]>>), x), f, i)
<1> DEFINE l == Text(<<f[i]>>)
           y == Followed(l, x)
<1>1. f[i] \in Characters /\ f[i] \in Chars /\ <<f[i]>> \in Seq(Chars)
  BY DEF Chars
<1>3. l \in Pieces /\ l.ok = TRUE /\ l.text = <<f[i]>>
  BY <1>1, TextFields
<1>4. "value" \notin ToSet(<<f[i]>>)
  BY <1>1 DEF ToSet, Characters, Quotes
<1> HIDE DEF l
<1>5. /\ y.ok = TRUE <=> x.ok = TRUE
      /\ y.text = l.text \o x.text
      /\ ToSet(y.text) = ToSet(l.text) \cup ToSet(x.text)
  <2>1. y.ok = TRUE <=> x.ok = TRUE
    BY <1>3, OkFollowed
  <2>2. y.text = l.text \o x.text
    BY <1>3, PieceFields
  <2>3. ToSet(y.text) = ToSet(l.text) \cup ToSet(x.text)
    BY <1>3, FollowedParts
  <2>4. QED
    BY <2>1, <2>2, <2>3
<1> HIDE DEF y
<1>6. /\ FragmentMeant(f)[i] = <<f[i]>> \o FragmentMeant(f)[i + 1]
      /\ \A m \in Markers(f) : m >= i <=> m >= i + 1
  BY PastCharacter
<1>7. Sound(f, i) <=> Sound(f, i + 1)
  BY <1>6 DEF Sound
<1>8. (\E m \in Markers(f) : m >= i) <=> (\E m \in Markers(f) : m >= i + 1)
  BY <1>6
<1>9. y.ok = TRUE <=> Sound(f, i)
  BY <1>5, <1>7 DEF ReadsAs
<1>10. ASSUME y.ok = TRUE
       PROVE  /\ y.text = FragmentMeant(f)[i]
              /\ "value" \in ToSet(y.text) <=> \E m \in Markers(f) : m >= i
  <2>1. /\ x.text = FragmentMeant(f)[i + 1]
        /\ "value" \in ToSet(x.text) <=> \E m \in Markers(f) : m >= i + 1
    BY <1>5, <1>10 DEF ReadsAs
  <2>2. y.text = FragmentMeant(f)[i]
    BY <1>3, <1>5, <1>6, <2>1
  <2>3. "value" \in ToSet(y.text) <=> "value" \in ToSet(x.text)
    BY <1>3, <1>4, <1>5
  <2>4. QED
    BY <1>8, <2>1, <2>2, <2>3
<1>11. QED
  BY <1>9, <1>10 DEF ReadsAs, y, l

LEMMA MarkerRead ==
  ASSUME NEW f \in Seq(Characters), NEW i \in Markers(f), Clear(f, i),
         Name(f, i) \in scan.names,
         NEW x \in Pieces, ReadsAs(x, f, NameEnd(f, i + 1) + 1)
  PROVE  ReadsAs(Followed(Value("value", "flight"), x), f, i)
<1> DEFINE n == NameEnd(f, i + 1) + 1
           l == Value("value", "flight")
           y == Followed(l, x)
<1>1. <<"value">> \in Seq(Chars)
  BY DEF Chars
<1>2. l = Text(<<"value">>)
  BY DEF Value
<1>3. l \in Pieces /\ l.ok = TRUE /\ l.text = <<"value">>
  BY <1>1, <1>2, TextFields
<1>4. "value" \in ToSet(<<"value">>)
  BY DEF ToSet
<1> HIDE DEF l
<1>5. /\ y.ok = TRUE <=> x.ok = TRUE
      /\ y.text = l.text \o x.text
      /\ ToSet(y.text) = ToSet(l.text) \cup ToSet(x.text)
  <2>1. y.ok = TRUE <=> x.ok = TRUE
    BY <1>3, OkFollowed
  <2>2. y.text = l.text \o x.text
    BY <1>3, PieceFields
  <2>3. ToSet(y.text) = ToSet(l.text) \cup ToSet(x.text)
    BY <1>3, FollowedParts
  <2>4. QED
    BY <2>1, <2>2, <2>3
<1> HIDE DEF y
<1>6. /\ FragmentMeant(f)[i] = <<"value">> \o FragmentMeant(f)[n]
      /\ \A m \in Markers(f) : m >= i <=> m = i \/ m >= n
  BY PastMarker
<1>7. i >= i
  BY MarkerPlaces
<1> HIDE DEF n
<1>8. Sound(f, i) <=> Sound(f, n)
  BY <1>6 DEF Sound
<1>9. y.ok = TRUE <=> Sound(f, i)
  BY <1>5, <1>8 DEF ReadsAs, n
<1>10. ASSUME y.ok = TRUE
       PROVE  /\ y.text = FragmentMeant(f)[i]
              /\ "value" \in ToSet(y.text) <=> \E m \in Markers(f) : m >= i
  <2>1. x.text = FragmentMeant(f)[n]
    BY <1>5, <1>10 DEF ReadsAs, n
  <2>2. y.text = FragmentMeant(f)[i]
    BY <1>3, <1>5, <1>6, <2>1
  <2>3. "value" \in ToSet(y.text)
    BY <1>3, <1>4, <1>5
  <2>4. QED
    BY <1>7, <2>2, <2>3
<1>11. QED
  BY <1>9, <1>10 DEF ReadsAs, y, l

LEMMA ScannerReads ==
  ASSUME NEW f \in Seq(Characters),
         NEW bind, \A c \in Characters : Raw(c, bind) = Text(<<c>>)
  PROVE  \A i \in Places(f) : \A q \in Scanners :
           Mode(f)[i] = q /\ Clear(f, i)
             => ReadsAs(RenderFrom(f, "flight", bind)[i][q], f, i)
<1> DEFINE g == RenderFrom(f, "flight", bind)
           Reads(i) == \A q \in Scanners : Mode(f)[i] = q /\ Clear(f, i)
                                             => ReadsAs(g[i][q], f, i)
           S == {i \in Places(f) : Reads(i)}
<1>0. /\ Len(f) \in Nat
      /\ \A i \in Places(f) : i \in Nat /\ (i = Len(f) + 1 \/ i \in 1 .. Len(f))
  BY DEF Places
<1>1. \A i \in Places(f) : \A q \in Scanners :
            g[i][q] \in Pieces /\ g[i][q] = RenderNode(g, f, i, q, "flight", bind)
  <2>1. /\ g \in [Places(f) -> [Scanners -> Pieces]]
        /\ \A i \in Places(f) : \A q \in Scanners :
             g[i][q] = RenderNode(g, f, i, q, "flight", bind)
    BY RenderFromStep
  <2> HIDE DEF g
  <2>2. QED
    BY <2>1
<1>5. \A i \in 1 .. Len(f) : f[i] \in Characters /\ Raw(f[i], bind) = Text(<<f[i]>>)
  OBVIOUS
<1> HIDE DEF g
<1>2. ASSUME NEW i \in Places(f), \A j \in Places(f) : j > i => j \in S
      PROVE  i \in S
  <2> SUFFICES ASSUME NEW q \in Scanners, Mode(f)[i] = q, Clear(f, i)
               PROVE  ReadsAs(g[i][q], f, i)
    OBVIOUS
  <2>0. \A j \in Places(f) : j > i => Reads(j)
    BY <1>2
  <2> HIDE DEF S
  <2>1. CASE i = Len(f) + 1
    <3>1. g[i][q] = IF q = Outside THEN Empty ELSE Raises
      BY <1>1, <2>1, RenderKinds
    <3>2. \A m \in Markers(f) : ~(m >= i)
      BY <1>0, <2>1, MarkerPlaces
    <3>3. Sound(f, i) <=> q = Outside
      BY <2>1, <3>2 DEF Sound
    <3>4. "value" \notin ToSet(<<>>)
      BY DEF ToSet
    <3>5. FragmentMeant(f)[i] = <<>>
      BY <2>1, MeantStep
    <3>6. QED
      BY <3>1, <3>2, <3>3, <3>4, <3>5, Constants DEF ReadsAs
  <2>2. CASE i \in 1 .. Len(f) /\ q # Outside /\ Escapes(f, i, q)
    <3>1. /\ i + 1 \in 1 .. Len(f) /\ i \notin Markers(f) /\ i + 1 \notin Markers(f)
          /\ Mode(f)[i + 2] = q
      BY <2>2, ReaderSteps
    <3>2. /\ i + 2 \in Places(f) /\ i + 2 > i /\ (i + 1) + 1 = i + 2
      BY <1>0, <3>1 DEF Places
    <3>3. Clear(f, i + 1)
      BY <2>2, <3>1, PastCharacter
    <3>4. Clear(f, (i + 1) + 1)
      BY <3>1, <3>3, PastCharacter
    <3> DEFINE x == g[i + 2][q]
               y == Followed(Text(<<f[i + 1]>>), x)
    <3>5. x \in Pieces /\ ReadsAs(x, f, (i + 1) + 1)
      BY <1>1, <2>0, <3>1, <3>2, <3>4
    <3> HIDE DEF x
    <3>6. ReadsAs(y, f, i + 1)
      BY <3>1, <3>3, <3>5, CharacterRead
    <3>7. y \in Pieces
      <4>1. f[i + 1] \in Characters
        BY <3>1
      <4>2. Text(<<f[i + 1]>>) \in Pieces
        BY <4>1, FragmentPieces
      <4>3. QED
        BY <3>5, <4>2, PieceFields
    <3> HIDE DEF y
    <3>8. ReadsAs(Followed(Text(<<f[i]>>), y), f, i)
      BY <2>2, <3>1, <3>6, <3>7, CharacterRead
    <3>9. i <= Len(f)
      BY <2>2, <1>0
    <3>10. g[i][q] = Followed(Text(<<f[i]>>), y)
      BY <1>1, <2>2, <1>5, <3>1, <3>9, RenderKinds DEF x, y
    <3>11. QED
      BY <3>8, <3>10
  <2>3. CASE i \in 1 .. Len(f) /\ q # Outside /\ ~Escapes(f, i, q)
    <3> DEFINE r == IF f[i] = q THEN Outside ELSE q
               x == g[i + 1][r]
    <3>1. /\ i \notin Markers(f)
          /\ \/ Mode(f)[i + 1] = r
             \/ i = Len(f) /\ Mode(f)[i + 1] = "escaped" /\ f[i] # q
      <4>1. i \in 1 .. Len(f) /\ Mode(f)[i] = q /\ q # Outside /\ ~Escapes(f, i, q)
        BY <2>3
      <4>2. i \notin Markers(f)
        BY <4>1, ReaderSteps
      <4>3. \/ Mode(f)[i + 1] = IF f[i] = q THEN Outside ELSE q
            \/ i = Len(f) /\ Mode(f)[i + 1] = "escaped" /\ f[i] # q
        BY <4>1, ReaderSteps
      <4>4. QED
        BY <4>2, <4>3
    <3>2. /\ i + 1 \in Places(f) /\ i + 1 > i /\ i <= Len(f)
      BY <1>0, <2>3 DEF Places
    <3>3. Clear(f, i + 1)
      BY <2>3, <3>1, PastCharacter
    <3>4. r \in Scanners
      BY DEF Scanners
    <3>5. x \in Pieces
      BY <1>1, <3>2, <3>4
    <3>6. ReadsAs(x, f, i + 1)
      <4>1. CASE Mode(f)[i + 1] = r
        BY <2>0, <3>2, <3>3, <3>4, <4>1
      <4>2. CASE i = Len(f) /\ Mode(f)[i + 1] = "escaped" /\ f[i] # q
        <5>1. r = q
          BY <4>2
        <5>2. x = Raises
          BY <1>1, <2>3, <3>2, <3>4, <4>2, <5>1, RenderKinds
        <5>3. ~Sound(f, i + 1)
          BY <4>2 DEF Sound, Outside
        <5>4. QED
          BY <5>2, <5>3, Constants DEF ReadsAs
      <4>3. QED
        BY <3>1, <4>1, <4>2
    <3>7. g[i][q] = Followed(Text(<<f[i]>>), x)
      BY <1>1, <1>5, <2>3, <3>2, RenderKinds
    <3> HIDE DEF x
    <3>8. QED
      BY <2>3, <3>1, <3>5, <3>6, <3>7, CharacterRead
  <2>4. CASE i \in 1 .. Len(f) /\ q = Outside /\ IsMarker(f, i)
    <3> DEFINE n == NameEnd(f, i + 1) + 1
               x == g[n][Outside]
    <3>1. i \in Markers(f) /\ i <= Len(f)
      BY <1>0, <2>4, ReaderSteps
    <3>2. n \in Places(f) /\ n > i /\ Mode(f)[n] = Outside /\ Clear(f, n)
      BY <3>1, PastMarker
    <3>3. g[i][q] = IF Name(f, i) \in scan.names THEN Followed(Value("value", "flight"), x)
                    ELSE Raises
      BY <1>1, <2>4, <3>1, RenderKinds
    <3>4. CASE Name(f, i) \in scan.names
      <4>1. Outside \in Scanners
        BY DEF Scanners
      <4>2. x \in Pieces /\ ReadsAs(x, f, n)
        BY <1>1, <2>0, <3>2, <4>1
      <4> HIDE DEF x
      <4>3. ReadsAs(Followed(Value("value", "flight"), x), f, i)
        BY <3>1, <3>4, <4>2, MarkerRead
      <4>4. QED
        BY <3>3, <3>4, <4>3
    <3>5. CASE Name(f, i) \notin scan.names
      <4>1. i >= i
        BY <1>0
      <4>2. ~Sound(f, i)
        BY <3>1, <3>5, <4>1 DEF Sound
      <4>3. g[i][q] = Raises
        BY <3>3, <3>5
      <4>4. QED
        BY <4>2, <4>3, Constants DEF ReadsAs
    <3>6. QED
      BY <3>4, <3>5
  <2>5. CASE i \in 1 .. Len(f) /\ q = Outside /\ ~IsMarker(f, i)
    <3> DEFINE r == IF f[i] \in Quotes THEN f[i] ELSE Outside
               x == g[i + 1][r]
    <3>1. i \notin Markers(f) /\ Mode(f)[i + 1] = r
      BY <2>5, ReaderSteps
    <3>2. /\ i + 1 \in Places(f) /\ i + 1 > i /\ i <= Len(f)
      BY <1>0, <2>5 DEF Places
    <3>3. Clear(f, i + 1)
      BY <2>5, <3>1, PastCharacter
    <3>4. r \in Scanners
      BY DEF Scanners
    <3>5. x \in Pieces /\ ReadsAs(x, f, i + 1)
      BY <1>1, <2>0, <3>1, <3>2, <3>3, <3>4
    <3>6. g[i][q] = Followed(Text(<<f[i]>>), x)
      BY <1>1, <1>5, <2>5, <3>2, RenderKinds
    <3> HIDE DEF x
    <3>7. QED
      BY <2>5, <3>1, <3>5, <3>6, CharacterRead
  <2>6. QED
    BY <1>0, <2>1, <2>2, <2>3, <2>4, <2>5
<1>3. S = Places(f)
  <2> HIDE DEF S
  <2>1. S \in SUBSET Places(f)
    BY DEF S
  <2>2. QED
    BY <1>0, <1>2, <2>1, FromTheEnd
<1>4. QED
  BY <1>3 DEF g

-------------------------------------------------------------------------------
(* The query that is built *)

LEMMA ProjectionPrinted ==
  ASSUME scan \in Scans
  PROVE  /\ Projection \in Pieces /\ Projection.ok = TRUE /\ Projection.values = <<>>
         /\ <<Projection, Projection>> \in Printed
<1> DEFINE s == [i \in DOMAIN scan.columns |-> Identifier(scan.columns[i])]
<1>1. scan.columns \in Seq(Columns)
  BY ScanAssumption
<1>2. \A name \in Columns : /\ Identifier(name) \in Pieces
                            /\ <<Identifier(name), Identifier(name)>> \in Printed
                            /\ <<Identifier(name), Identifier(name)>> \in Rendered
  BY IdentifierPrinted, PredicatesRendered DEF Renders
<1>3. \A name \in Columns : <<Identifier(name), Identifier(name)>> \in Plain
  <2>1. ASSUME NEW name \in Columns
        PROVE  Identifier(name).values = <<>>
    BY <1>2, RelatedPairs
  <2>2. QED
    BY <1>2, <2>1, RelatedPairs
<1>4. /\ s \in Seq(Pieces) /\ Len(s) = Len(scan.columns)
      /\ \A i \in 1 .. Len(s) : scan.columns[i] \in Columns /\ s[i] = Identifier(scan.columns[i])
  <2> DEFINE c == scan.columns
  <2>1. c \in Seq(Columns)
    BY <1>1
  <2> HIDE DEF c
  <2>2. /\ Len(c) \in Nat /\ DOMAIN c = 1 .. Len(c)
        /\ \A i \in 1 .. Len(c) : c[i] \in Columns
    BY <2>1
  <2>3. s = [i \in 1 .. Len(c) |-> Identifier(c[i])]
    BY <2>2 DEF c
  <2>4. \A i \in 1 .. Len(c) : Identifier(c[i]) \in Pieces
    BY <1>2, <2>2
  <2> HIDE DEF s
  <2>5. s \in Seq(Pieces) /\ Len(s) = Len(c)
    BY <2>2, <2>3, <2>4
  <2>6. \A i \in 1 .. Len(s) : c[i] \in Columns /\ s[i] = Identifier(c[i])
    BY <2>2, <2>3, <2>5
  <2>7. QED
    BY <2>5, <2>6 DEF c
<1> HIDE DEF s
<1>5. /\ \A i \in 1 .. Len(s) : <<s[i], s[i]>> \in Printed
      /\ \A i \in 1 .. Len(s) : <<s[i], s[i]>> \in Rendered
      /\ \A i \in 1 .. Len(s) : <<s[i], s[i]>> \in Plain
  BY <1>2, <1>3, <1>4
<1> DEFINE x == Concat(s)
<1>6. <<x, x>> \in Printed /\ <<x, x>> \in Rendered /\ <<x, x>> \in Plain
  BY <1>4, <1>5, ConcatRelated, PrintedCongruence, Congruences
<1>7. Projection = x
  BY DEF Projection, s
<1> HIDE DEF x
<1>8. x \in Pieces
  BY <1>6, Congruences DEF Congruence
<1>9. QED
  BY <1>6, <1>7, <1>8, RelatedPairs

(* The filter's part of the query. *)
Filtered(style) ==
    IF predicate = NoPredicate THEN Empty ELSE RenderPredicate(style)[predicate]

LEMMA FilteredPrinted ==
  ASSUME predicate = NoPredicate \/ predicate \in Predicates
  PROVE  /\ Filtered("mysql") \in Pieces /\ Filtered("flight") \in Pieces
         /\ <<Filtered("mysql"), Filtered("flight")>> \in Printed
         /\ <<Filtered("mysql"), Filtered("flight")>> \in Rendered
<1> DEFINE x == Filtered("mysql")
           y == Filtered("flight")
<1>1. <<x, y>> \in Printed /\ <<x, y>> \in Rendered
  <2>1. CASE predicate = NoPredicate
    <3>1. x = Empty /\ y = Empty
      BY <2>1 DEF Filtered
    <3>2. QED
      BY <3>1, PrintedCongruence, Congruences DEF Congruence
  <2>2. CASE predicate # NoPredicate /\ predicate \in Predicates
    <3>1. /\ x = RenderPredicate("mysql")[predicate]
          /\ y = RenderPredicate("flight")[predicate]
      BY <2>2 DEF Filtered
    <3>2. <<x, y>> \in Printed
      BY <2>2, <3>1, PredicateRelated, PredicatesPrinted
    <3>3. <<x, y>> \in Rendered
      BY <2>2, <3>1, PredicateRelated, PredicatesRendered
    <3>4. QED
      BY <3>2, <3>3
  <2>3. QED
    BY <2>1, <2>2
<1> HIDE DEF x, y
<1>2. x \in Pieces /\ y \in Pieces
  BY <1>1, Congruences DEF Congruence
<1>3. QED
  BY <1>1, <1>2 DEF x, y

(* The fragment as Flight sends it, and as MySQL sends it with and without a
   value to be bound. *)
AsFlight == RenderFrom(scan.fragment, "flight", FALSE)[1][Outside]
AsBound == RenderFrom(scan.fragment, "mysql", TRUE)[1][Outside]
AsWritten == RenderFrom(scan.fragment, "mysql", FALSE)[1][Outside]
Used == "value" \in ToSet(AsFlight.text)

LEMMA FragmentReads ==
  ASSUME scan \in Scans
  PROVE  /\ AsFlight \in Pieces /\ AsBound \in Pieces
         /\ ReadsAs(AsFlight, scan.fragment, 1)
         /\ <<AsBound, AsFlight>> \in Printed /\ <<AsBound, AsFlight>> \in Scanned
         /\ scan.names = {} => AsWritten = AsFlight
<1> DEFINE f == scan.fragment
<1>1. f \in Seq(Characters)
  BY ScanAssumption
<1> HIDE DEF f
<1>2. 1 \in Places(f) /\ Outside \in Scanners
  BY <1>1 DEF Places, Scanners
<1>3. ReadsAs(AsFlight, f, 1)
  <2>1. Mode(f)[1] = Outside
    BY <1>1, ModeStep
  <2>2. Clear(f, 1)
    <3>1. \A m \in Markers(f) : m >= 1
      BY <1>1, MarkerPlaces
    <3>2. \A m \in Markers(f) : m \in Int
      BY <1>1, MarkerPlaces
    <3>3. QED
      BY <3>1, <3>2 DEF Clear
  <2>3. \E bind : /\ \A c \in Characters : Raw(c, bind) = Text(<<c>>)
                  /\ AsFlight = RenderFrom(f, "flight", bind)[1][Outside]
    <3>1. \A c \in Characters : Raw(c, FALSE) = Text(<<c>>)
      BY DEF Raw
    <3>2. AsFlight = RenderFrom(f, "flight", FALSE)[1][Outside]
      BY DEF AsFlight, f
    <3>3. QED
      BY <3>1, <3>2, Zenon
  <2>4. PICK bind : /\ \A c \in Characters : Raw(c, bind) = Text(<<c>>)
                    /\ AsFlight = RenderFrom(f, "flight", bind)[1][Outside]
    BY <2>3
  <2>5. QED
    BY <1>1, <1>2, <2>1, <2>2, <2>4, ScannerReads
<1>4. /\ \A c \in Characters : <<Raw(c, TRUE), Raw(c, FALSE)>> \in Printed
      /\ \A c \in Characters : <<Raw(c, TRUE), Raw(c, FALSE)>> \in Scanned
      /\ \A c \in Characters : <<Raw(c, FALSE), Raw(c, FALSE)>> \in Plain
      /\ <<Value("value", "mysql"), Value("value", "flight")>> \in Printed
      /\ <<Value("value", "mysql"), Value("value", "flight")>> \in Scanned
  <2>1. <<Value("value", "mysql"), Value("value", "flight")>> \in Printed
    BY ValuePrinted, FragmentPieces
  <2>2. QED
    BY <2>1, RawPrinted, FragmentsScanned, Zenon
<1>5. <<AsBound, AsFlight>> \in Printed
  <2>1. \A i \in Places(f) : \A q \in Scanners :
          <<RenderFrom(f, "mysql", TRUE)[i][q], RenderFrom(f, "flight", FALSE)[i][q]>>
            \in Printed
    BY <1>1, <1>4, PrintedCongruence, FragmentRelated, Zenon
  <2>2. QED
    BY <1>2, <2>1, Zenon DEF AsBound, AsFlight, f
<1>6. <<AsBound, AsFlight>> \in Scanned
  <2>1. \A i \in Places(f) : \A q \in Scanners :
          <<RenderFrom(f, "mysql", TRUE)[i][q], RenderFrom(f, "flight", FALSE)[i][q]>>
            \in Scanned
    BY <1>1, <1>4, Congruences, FragmentRelated, Zenon
  <2>2. QED
    BY <1>2, <2>1, Zenon DEF AsBound, AsFlight, f
<1>7. scan.names = {} => <<AsWritten, AsFlight>> \in Plain
  <2> SUFFICES ASSUME scan.names = {} PROVE <<AsWritten, AsFlight>> \in Plain
    OBVIOUS
  <2>1. \A i \in Places(f) : \A q \in Scanners :
          <<RenderFrom(f, "mysql", FALSE)[i][q], RenderFrom(f, "flight", FALSE)[i][q]>>
            \in Plain
    BY <1>1, <1>4, Congruences, FragmentRelated, Zenon
  <2>2. QED
    BY <1>2, <2>1, Zenon DEF AsWritten, AsFlight, f
<1>8. /\ AsFlight \in Pieces /\ AsBound \in Pieces
      /\ scan.names = {} => AsWritten \in Pieces
  BY <1>5, <1>7, Congruences, PrintedCongruence DEF Congruence
<1>9. scan.names = {} => AsWritten = AsFlight
  BY <1>7, <1>8, RelatedPairs
<1>10. QED
  BY <1>3, <1>5, <1>6, <1>8, <1>9 DEF f

LEMMA FragmentMeans ==
  ASSUME scan \in Scans
  PROVE  /\ WellFormed(scan.fragment) <=>
              AsFlight.ok = TRUE /\ (scan.names # {} => Used)
         /\ AsFlight.ok = TRUE => AsFlight.text = FragmentMeant(scan.fragment)[1]
<1> DEFINE f == scan.fragment
<1>1. f \in Seq(Characters)
  BY ScanAssumption
<1>2. ReadsAs(AsFlight, f, 1)
  BY FragmentReads
<1> HIDE DEF f
<1>3. \A m \in Markers(f) : m >= 1
  BY <1>1, MarkerPlaces
<1>4. Sound(f, 1) <=> /\ Mode(f)[Len(f) + 1] = Outside
                      /\ \A m \in Markers(f) : Name(f, m) \in scan.names
  BY <1>3 DEF Sound
<1>5. (\E m \in Markers(f) : m >= 1) <=> Markers(f) # {}
  BY <1>3
<1>6. AsFlight.ok = TRUE <=> Sound(f, 1)
  BY <1>2 DEF ReadsAs
<1>7. AsFlight.ok = TRUE => /\ AsFlight.text = FragmentMeant(f)[1]
                            /\ Used <=> Markers(f) # {}
  BY <1>2, <1>5 DEF ReadsAs, Used
<1>8. WellFormed(f) <=> Sound(f, 1) /\ (scan.names # {} => Markers(f) # {})
  BY <1>4 DEF WellFormed
<1>9. QED
  BY <1>6, <1>7, <1>8 DEF f

(* What RenderFragment returns in each style. *)
LEMMA FragmentKinds ==
  ASSUME NEW rendered
  PROVE  /\ scan.names # {} /\ ~Used =>
              \A style : RenderFragment(style, rendered) = Raises
         /\ ~(scan.names # {} /\ ~Used) =>
              /\ RenderFragment("flight", rendered) = AsFlight
              /\ scan.names # {} \/ rendered.values # <<>> =>
                   RenderFragment("mysql", rendered) = AsBound
              /\ scan.names = {} /\ rendered.values = <<>> =>
                   RenderFragment("mysql", rendered) = AsWritten
<1>1. scan.names # {} /\ ~Used => \A style : RenderFragment(style, rendered) = Raises
  BY DEF RenderFragment, Used, AsFlight
<1>2. ASSUME ~(scan.names # {} /\ ~Used)
      PROVE  \A style : RenderFragment(style, rendered) =
               RenderFrom(scan.fragment, style, BindRequired(style, rendered))[1][Outside]
  BY <1>2, Zenon DEF RenderFragment, Used, AsFlight
<1>3. BindRequired("flight", rendered) = FALSE
  BY DEF BindRequired
<1>4. scan.names # {} \/ rendered.values # <<>> => BindRequired("mysql", rendered) = TRUE
  BY DEF BindRequired
<1>5. scan.names = {} /\ rendered.values = <<>> => BindRequired("mysql", rendered) = FALSE
  BY DEF BindRequired
<1>6. ASSUME ~(scan.names # {} /\ ~Used)
      PROVE  RenderFragment("flight", rendered) = AsFlight
  BY <1>2, <1>3, <1>6, Zenon DEF AsFlight
<1>7. ASSUME ~(scan.names # {} /\ ~Used), scan.names # {} \/ rendered.values # <<>>
      PROVE  RenderFragment("mysql", rendered) = AsBound
  BY <1>2, <1>4, <1>7, Zenon DEF AsBound
<1>8. ASSUME ~(scan.names # {} /\ ~Used), scan.names = {}, rendered.values = <<>>
      PROVE  RenderFragment("mysql", rendered) = AsWritten
  BY <1>2, <1>5, <1>8, Zenon DEF AsWritten
<1>9. QED
  BY <1>1, <1>6, <1>7, <1>8

(* The fragment that MySQL is sent, next to the one that Flight is sent. *)
SameFragment(x, y) ==
    /\ x \in Pieces /\ y \in Pieces
    /\ x.ok = TRUE <=> WellFormed(scan.fragment)
    /\ y.ok = TRUE <=> WellFormed(scan.fragment)
    /\ y.values = <<>>
    /\ WellFormed(scan.fragment) => y.text = FragmentMeant(scan.fragment)[1]

LEMMA FragmentBuilt ==
  ASSUME scan \in Scans, NEW rendered \in Pieces, NEW behind
  PROVE  LET x == RenderFragment("mysql", rendered)
             y == RenderFragment("flight", behind)
         IN  /\ SameFragment(x, y)
             /\ \/ <<x, y>> \in Printed /\ (x.ok = TRUE => x.values # <<>> \/ rendered.values # <<>>)
                \/ x = y /\ rendered.values = <<>>
<1> DEFINE x == RenderFragment("mysql", rendered)
           y == RenderFragment("flight", behind)
<1>1. /\ AsFlight \in Pieces /\ AsBound \in Pieces
      /\ <<AsBound, AsFlight>> \in Printed
      /\ scan.names = {} => AsWritten = AsFlight
  BY FragmentReads
<1>2. /\ AsBound.ok = AsFlight.ok /\ AsFlight.values = <<>>
      /\ AsBound.values = <<>> => ~Used
  <2>1. <<AsBound, AsFlight>> \in Scanned
    BY FragmentReads
  <2>2. /\ AsBound.ok = AsFlight.ok /\ AsFlight.values = <<>>
        /\ AsBound.values = <<>> => "value" \notin ToSet(AsFlight.text)
    BY <1>1, <2>1, RelatedPairs
  <2>3. QED
    BY <2>2 DEF Used
<1>3. /\ WellFormed(scan.fragment) <=> AsFlight.ok = TRUE /\ (scan.names # {} => Used)
      /\ AsFlight.ok = TRUE => AsFlight.text = FragmentMeant(scan.fragment)[1]
  BY FragmentMeans
<1>4. CASE scan.names # {} /\ ~Used
  <2>1. x = Raises /\ y = Raises
    BY <1>4, FragmentKinds
  <2>2. ~WellFormed(scan.fragment)
    BY <1>3, <1>4
  <2> HIDE DEF x, y
  <2>3. SameFragment(x, y)
    BY <2>1, <2>2, Constants DEF SameFragment
  <2>4. <<x, y>> \in Printed /\ x.ok = FALSE
    BY <2>1, PrintedCongruence, Constants
  <2>5. QED
    BY <2>3, <2>4 DEF x, y
<1>5. CASE ~(scan.names # {} /\ ~Used) /\ (scan.names # {} \/ rendered.values # <<>>)
  <2>1. x = AsBound /\ y = AsFlight
    BY <1>5, FragmentKinds
  <2> HIDE DEF x, y
  <2>2. SameFragment(x, y)
    BY <1>1, <1>2, <1>3, <1>5, <2>1 DEF SameFragment
  <2>3. <<x, y>> \in Printed /\ (x.values # <<>> \/ rendered.values # <<>>)
    BY <1>1, <1>2, <1>5, <2>1
  <2>4. QED
    BY <2>2, <2>3 DEF x, y
<1>6. CASE scan.names = {} /\ rendered.values = <<>>
  <2>1. x = AsWritten /\ y = AsFlight
    BY <1>6, FragmentKinds
  <2> HIDE DEF x, y
  <2>2. x = y
    BY <1>1, <1>6, <2>1
  <2>3. SameFragment(x, y)
    BY <1>1, <1>2, <1>3, <1>6, <2>1, <2>2 DEF SameFragment
  <2>4. QED
    BY <1>6, <2>2, <2>3 DEF x, y
<1>7. QED
  BY <1>4, <1>5, <1>6 DEF x, y

LEMMA NothingWellFormed ==
  ASSUME scan.fragment = NoFragment
  PROVE  /\ WellFormed(scan.fragment) <=> scan.names = {}
         /\ FragmentMeant(scan.fragment)[1] = <<>>
<1> DEFINE f == scan.fragment
<1>1. f \in Seq(Characters) /\ Len(f) = 0 /\ DOMAIN f = {}
  BY DEF NoFragment
<1> HIDE DEF f
<1>2. Len(f) + 1 = 1
  BY <1>1
<1>3. Mode(f)[Len(f) + 1] = Outside
  BY <1>1, <1>2, ModeStep
<1>4. Markers(f) = {}
  BY <1>1 DEF Markers
<1>5. WellFormed(f) <=> scan.names = {}
  BY <1>3, <1>4 DEF WellFormed
<1>6. FragmentMeant(f)[Len(f) + 1] = <<>>
  BY <1>1, MeantStep
<1>7. QED
  BY <1>2, <1>5, <1>6 DEF f

(* The text behind the fragment. *)
Behind ==
    IF predicate = NoPredicate THEN <<>>
    ELSE (IF scan.fragment = NoFragment THEN <<>> ELSE <<"and">>)
         \o RenderPredicate("flight")[predicate].text

LEMMA BehindTyped ==
  ASSUME predicate = NoPredicate \/ predicate \in Predicates
  PROVE  Behind \in Seq(Chars)
<1> DEFINE t == RenderPredicate("flight")[predicate].text
<1>1. ASSUME predicate # NoPredicate
      PROVE  t \in Seq(Chars)
  <2>1. Filtered("flight") = RenderPredicate("flight")[predicate]
    BY <1>1 DEF Filtered
  <2>2. QED
    BY <2>1, FilteredPrinted DEF Pieces
<1>2. <<"and">> \in Seq(Chars) /\ <<>> \in Seq(Chars)
  <2>1. "and" \in Chars
    BY DEF Chars, Words, Connectives
  <2>2. QED
    BY <2>1
<1> HIDE DEF t
<1>3. ASSUME predicate # NoPredicate
      PROVE  <<>> \o t \in Seq(Chars) /\ <<"and">> \o t \in Seq(Chars)
  BY <1>1, <1>2, <1>3
<1>4. QED
  BY <1>2, <1>3 DEF Behind, t

SelectClauses(style) ==
    IF scan.fragment = NoFragment
    THEN IF scan.names = {} THEN Filtered(style) ELSE Raises
    ELSE IF predicate = NoPredicate
    THEN RenderFragment(style, Filtered(style))
    ELSE Clauses(RenderFragment(style, Filtered(style)), Filtered(style))

(* What MySQL is sent, next to what Flight is sent. *)
SameText(x, y) ==
    \/ x.values = <<>> /\ x.text = y.text
    \/ x.values # <<>> /\ <<x, y>> \in Printed

LEMMA ClausesBuilt ==
  ASSUME scan \in Scans, predicate = NoPredicate \/ predicate \in Predicates
  PROVE  LET x == SelectClauses("mysql")
             y == SelectClauses("flight")
             meant == FragmentMeant(scan.fragment)[1] \o Behind
         IN  /\ x \in Pieces /\ y \in Pieces /\ y.values = <<>> /\ meant \in Seq(Chars)
             /\ x.ok = TRUE <=> WellFormed(scan.fragment)
             /\ y.ok = TRUE <=> WellFormed(scan.fragment)
             /\ WellFormed(scan.fragment) => y.text = meant /\ SameText(x, y)
<1> DEFINE x == SelectClauses("mysql")
           y == SelectClauses("flight")
           rx == Filtered("mysql")
           ry == Filtered("flight")
           fx == RenderFragment("mysql", rx)
           fy == RenderFragment("flight", ry)
           fragment == FragmentMeant(scan.fragment)[1]
           meant == fragment \o Behind
<1>1. /\ rx \in Pieces /\ ry \in Pieces
      /\ <<rx, ry>> \in Printed /\ <<rx, ry>> \in Rendered
  BY FilteredPrinted
<1>2. /\ rx.ok = TRUE /\ ry.ok = TRUE /\ ry.values = <<>>
      /\ rx.values = <<>> => rx.text = ry.text
  <2> HIDE DEF rx, ry
  <2>1. QED
    BY <1>1, RelatedPairs
<1>3. predicate = NoPredicate => rx = Empty /\ ry = Empty
  BY DEF Filtered
<1>4. predicate # NoPredicate => ry = RenderPredicate("flight")[predicate]
  BY DEF Filtered
<1>5. fragment \in Seq(Chars)
  <2>1. scan.fragment \in Seq(Characters)
    BY ScanAssumption
  <2>2. 1 \in Places(scan.fragment)
    BY <2>1 DEF Places
  <2>3. QED
    BY <2>1, <2>2, MeantStep
<1>6. /\ SameFragment(fx, fy)
      /\ \/ <<fx, fy>> \in Printed /\ (fx.ok = TRUE => fx.values # <<>> \/ rx.values # <<>>)
         \/ fx = fy /\ rx.values = <<>>
  <2> HIDE DEF rx, ry
  <2>1. QED
    BY <1>1, FragmentBuilt
<1>7. /\ x = IF scan.fragment = NoFragment
             THEN IF scan.names = {} THEN rx ELSE Raises
             ELSE IF predicate = NoPredicate THEN fx ELSE Clauses(fx, rx)
      /\ y = IF scan.fragment = NoFragment
             THEN IF scan.names = {} THEN ry ELSE Raises
             ELSE IF predicate = NoPredicate THEN fy ELSE Clauses(fy, ry)
  BY DEF SelectClauses
<1>8. /\ ry.text \in Seq(Chars) /\ <<"and">> \in Seq(Chars) /\ <<>> \in Seq(Chars)
  <2>1. "and" \in Chars
    BY DEF Chars, Words, Connectives
  <2>2. QED
    BY <1>1, <2>1 DEF Pieces
<1>9. /\ predicate = NoPredicate => Behind = <<>>
      /\ predicate # NoPredicate /\ scan.fragment = NoFragment => Behind = <<>> \o ry.text
      /\ predicate # NoPredicate /\ scan.fragment # NoFragment => Behind = <<"and">> \o ry.text
  BY <1>4 DEF Behind
<1>10. \A s \in Seq(Chars) : <<>> \o s = s /\ s \o <<>> = s
  BY ConcatEmptySeq
<1>11. Behind \in Seq(Chars) /\ meant \in Seq(Chars)
  <2> HIDE DEF fragment
  <2>1. QED
    BY <1>5, BehindTyped
<1> HIDE DEF x, y, rx, ry, fx, fy, fragment, meant
<1>12. CASE scan.fragment = NoFragment /\ scan.names = {}
  <2>1. x = rx /\ y = ry
    BY <1>7, <1>12
  <2>2. WellFormed(scan.fragment) /\ fragment = <<>>
    BY <1>12, NothingWellFormed DEF fragment
  <2>3. meant = ry.text
    <3>1. meant = Behind
      BY <1>10, <1>11, <2>2 DEF meant
    <3>2. Behind = ry.text
      BY <1>3, <1>8, <1>9, <1>10, <1>12, Constants
    <3>3. QED
      BY <3>1, <3>2
  <2>4. SameText(x, y)
    BY <1>1, <1>2, <2>1 DEF SameText
  <2>5. QED
    BY <1>1, <1>2, <1>11, <2>1, <2>2, <2>3, <2>4 DEF x, y, meant, fragment
<1>13. CASE scan.fragment = NoFragment /\ scan.names # {}
  <2>1. x = Raises /\ y = Raises
    BY <1>7, <1>13
  <2>2. ~WellFormed(scan.fragment)
    BY <1>13, NothingWellFormed
  <2>3. QED
    BY <1>11, <2>1, <2>2, Constants DEF x, y, meant, fragment
<1>14. CASE scan.fragment # NoFragment /\ predicate = NoPredicate
  <2>1. x = fx /\ y = fy
    BY <1>7, <1>14
  <2>2. rx.values = <<>>
    BY <1>3, <1>14, Constants
  <2>3. meant = fragment
    BY <1>5, <1>9, <1>10, <1>14 DEF meant
  <2>4. ASSUME WellFormed(scan.fragment)
        PROVE  SameText(x, y)
    <3>1. fx.ok = TRUE /\ fy.values = <<>>
      BY <1>6, <2>4 DEF SameFragment
    <3>2. QED
      BY <1>6, <2>1, <2>2, <3>1 DEF SameText
  <2>5. QED
    BY <1>6, <1>11, <2>1, <2>3, <2>4 DEF SameFragment, x, y, meant, fragment
<1>15. CASE scan.fragment # NoFragment /\ predicate # NoPredicate
  <2> DEFINE word == Text(<<"and">>)
             bx == Followed(word, rx)
             by == Followed(word, ry)
  <2>1. x = Followed(fx, bx) /\ y = Followed(fy, by)
    BY <1>7, <1>15 DEF Clauses
  <2>2. word \in Pieces /\ word.ok = TRUE /\ word.text = <<"and">> /\ word.values = <<>>
    BY <1>8, TextFields
  <2>3. <<word, word>> \in Printed
    <3>1. "and" \in Words
      BY DEF Words, Connectives
    <3>2. QED
      BY <3>1, PredicatesPrinted DEF Renders
  <2> HIDE DEF word
  <2>4. /\ bx \in Pieces
        /\ bx.ok = TRUE <=> rx.ok = TRUE
        /\ bx.text = word.text \o rx.text
        /\ bx.values = <<>> <=> word.values = <<>> /\ rx.values = <<>>
    BY <1>1, <2>2, OkFollowed, PieceFields, FollowedParts
  <2>5. /\ by \in Pieces
        /\ by.ok = TRUE <=> ry.ok = TRUE
        /\ by.text = word.text \o ry.text
        /\ by.values = <<>> <=> word.values = <<>> /\ ry.values = <<>>
    BY <1>1, <2>2, OkFollowed, PieceFields, FollowedParts
  <2>6. <<bx, by>> \in Printed
    BY <1>1, <2>2, <2>3, PrintedCongruence DEF Congruence
  <2> HIDE DEF bx, by
  <2>7. fx \in Pieces /\ fy \in Pieces
    BY <1>6 DEF SameFragment
  <2>8. /\ x \in Pieces /\ x.ok = (fx.ok /\ bx.ok) /\ x.text = fx.text \o bx.text
        /\ x.values = <<>> <=> fx.values = <<>> /\ bx.values = <<>>
    <3>1. /\ x \in Pieces /\ x.ok = (fx.ok /\ bx.ok)
          /\ x.text = fx.text \o bx.text
      BY <2>1, <2>4, <2>7, PieceFields
    <3>2. x.values = <<>> <=> fx.values = <<>> /\ bx.values = <<>>
      BY <2>1, <2>4, <2>7, FollowedParts
    <3>3. QED
      BY <3>1, <3>2
  <2>9. /\ y \in Pieces /\ y.ok = (fy.ok /\ by.ok) /\ y.text = fy.text \o by.text
        /\ y.values = <<>> <=> fy.values = <<>> /\ by.values = <<>>
    <3>1. /\ y \in Pieces /\ y.ok = (fy.ok /\ by.ok)
          /\ y.text = fy.text \o by.text
      BY <2>1, <2>5, <2>7, PieceFields
    <3>2. y.values = <<>> <=> fy.values = <<>> /\ by.values = <<>>
      BY <2>1, <2>5, <2>7, FollowedParts
    <3>3. QED
      BY <3>1, <3>2
  <2>10. bx.ok = TRUE /\ by.ok = TRUE
    BY <1>2, <2>4, <2>5
  <2>11. /\ x.ok = TRUE <=> WellFormed(scan.fragment)
         /\ y.ok = TRUE <=> WellFormed(scan.fragment)
    <3>1. x.ok = TRUE <=> fx.ok = TRUE
      <4>1. fx.ok \in BOOLEAN
        BY <2>7 DEF Pieces
      <4>2. QED
        BY <2>8, <2>10, <4>1
    <3>2. y.ok = TRUE <=> fy.ok = TRUE
      <4>1. fy.ok \in BOOLEAN
        BY <2>7 DEF Pieces
      <4>2. QED
        BY <2>9, <2>10, <4>1
    <3>3. QED
      BY <1>6, <3>1, <3>2 DEF SameFragment
  <2>12. y.values = <<>>
    BY <1>2, <1>6, <2>2, <2>5, <2>9 DEF SameFragment
  <2>13. ASSUME WellFormed(scan.fragment)
         PROVE  y.text = meant /\ SameText(x, y)
    <3>1. fy.text = fragment /\ fx.ok = TRUE /\ fy.values = <<>>
      BY <1>6, <2>13 DEF SameFragment, fragment
    <3>2. y.text = meant
      BY <1>9, <1>15, <2>2, <2>5, <2>9, <3>1 DEF meant
    <3>3. CASE <<fx, fy>> \in Printed /\ (fx.values # <<>> \/ rx.values # <<>>)
      <4>1. <<x, y>> \in Printed
        BY <2>1, <2>4, <2>5, <2>6, <2>7, <3>3, PrintedCongruence DEF Congruence
      <4>2. x.values # <<>>
        BY <2>4, <2>8, <3>3
      <4>3. QED
        BY <3>2, <4>1, <4>2 DEF SameText
    <3>4. CASE fx = fy /\ rx.values = <<>>
      <4>1. x.values = <<>>
        BY <2>2, <2>4, <2>8, <3>1, <3>4
      <4>2. x.text = y.text
        BY <1>2, <2>4, <2>5, <2>8, <2>9, <3>4
      <4>3. QED
        BY <3>2, <4>1, <4>2 DEF SameText
    <3>5. QED
      BY <1>6, <3>1, <3>3, <3>4
  <2>14. QED
    BY <1>11, <2>8, <2>9, <2>11, <2>12, <2>13 DEF x, y, meant, fragment
<1>16. QED
  BY <1>12, <1>13, <1>14, <1>15 DEF x, y, meant, fragment

(* The text of both queries: whether it can be built is up to the fragment,
   and Flight is sent what is meant. *)
LEMMA SelectBuilt ==
  ASSUME scan \in Scans, predicate = NoPredicate \/ predicate \in Predicates
  PROVE  LET x == BuildSelect("mysql")
             y == BuildSelect("flight")
         IN  /\ x \in Pieces /\ y \in Pieces /\ y.values = <<>>
             /\ x.ok = TRUE <=> WellFormed(scan.fragment)
             /\ y.ok = TRUE <=> WellFormed(scan.fragment)
             /\ WellFormed(scan.fragment) => y.text = Meant /\ SameText(x, y)
<1> DEFINE x == BuildSelect("mysql")
           y == BuildSelect("flight")
           cx == SelectClauses("mysql")
           cy == SelectClauses("flight")
           meant == FragmentMeant(scan.fragment)[1] \o Behind
           p == Projection
<1>1. x = Followed(p, cx) /\ y = Followed(p, cy)
  BY DEF BuildSelect, SelectClauses, Filtered, Empty
<1>2. /\ cx \in Pieces /\ cy \in Pieces /\ cy.values = <<>> /\ meant \in Seq(Chars)
      /\ cx.ok = TRUE <=> WellFormed(scan.fragment)
      /\ cy.ok = TRUE <=> WellFormed(scan.fragment)
      /\ WellFormed(scan.fragment) => cy.text = meant /\ SameText(cx, cy)
  BY ClausesBuilt
<1>3. /\ p \in Pieces /\ p.ok = TRUE /\ p.values = <<>>
      /\ <<p, p>> \in Printed
  BY ProjectionPrinted
<1>4. Meant = p.text \o meant
  <2> DEFINE s == p.text
             t == FragmentMeant(scan.fragment)[1]
             u == Behind
  <2>1. s \in Seq(Chars)
    BY <1>3 DEF Pieces
  <2>2. t \in Seq(Chars)
    <3>1. scan.fragment \in Seq(Characters)
      BY ScanAssumption
    <3>2. 1 \in Places(scan.fragment)
      BY <3>1 DEF Places
    <3>3. QED
      BY <3>1, <3>2, MeantStep
  <2>3. u \in Seq(Chars)
    BY BehindTyped
  <2>4. Meant = (s \o t) \o u
    BY DEF Meant, Behind
  <2> HIDE DEF s, t, u
  <2>5. (s \o t) \o u = s \o (t \o u)
    BY <2>1, <2>2, <2>3, ConcatAssociative
  <2>6. QED
    BY <2>4, <2>5 DEF s, t, u
<1> HIDE DEF x, y, cx, cy, meant, p
<1>5. /\ x \in Pieces /\ x.text = p.text \o cx.text
      /\ x.ok = TRUE <=> cx.ok = TRUE
      /\ x.values = <<>> <=> p.values = <<>> /\ cx.values = <<>>
  <2>1. x \in Pieces /\ x.text = p.text \o cx.text
    BY <1>1, <1>2, <1>3, PieceFields
  <2>2. x.ok = TRUE <=> cx.ok = TRUE
    BY <1>1, <1>2, <1>3, OkFollowed
  <2>3. x.values = <<>> <=> p.values = <<>> /\ cx.values = <<>>
    BY <1>1, <1>2, <1>3, FollowedParts
  <2>4. QED
    BY <2>1, <2>2, <2>3
<1>6. /\ y \in Pieces /\ y.text = p.text \o cy.text
      /\ y.ok = TRUE <=> cy.ok = TRUE
      /\ y.values = <<>> <=> p.values = <<>> /\ cy.values = <<>>
  <2>1. y \in Pieces /\ y.text = p.text \o cy.text
    BY <1>1, <1>2, <1>3, PieceFields
  <2>2. y.ok = TRUE <=> cy.ok = TRUE
    BY <1>1, <1>2, <1>3, OkFollowed
  <2>3. y.values = <<>> <=> p.values = <<>> /\ cy.values = <<>>
    BY <1>1, <1>2, <1>3, FollowedParts
  <2>4. QED
    BY <2>1, <2>2, <2>3
<1>7. ASSUME WellFormed(scan.fragment)
      PROVE  y.text = Meant /\ SameText(x, y)
  <2>1. y.text = Meant
    BY <1>2, <1>4, <1>6, <1>7
  <2>2. CASE cx.values = <<>> /\ cx.text = cy.text
    BY <1>3, <1>5, <1>6, <2>1, <2>2 DEF SameText
  <2>3. CASE cx.values # <<>> /\ <<cx, cy>> \in Printed
    <3>1. <<x, y>> \in Printed
      BY <1>1, <1>2, <1>3, <2>3, PrintedCongruence DEF Congruence
    <3>2. QED
      BY <1>5, <2>1, <2>3, <3>1 DEF SameText
  <2>4. QED
    BY <1>2, <1>7, <2>2, <2>3 DEF SameText
<1>8. QED
  BY <1>2, <1>3, <1>5, <1>6, <1>7 DEF x, y

(* What Doris gets of either query. *)
LEMMA SelectSent ==
  ASSUME scan \in Scans, predicate = NoPredicate \/ predicate \in Predicates,
         WellFormed(scan.fragment), NEW style \in Styles
  PROVE  LET text == Materialize(BuildSelect(style))
         IN  \/ text.ok = TRUE /\ text.text = Meant
             \/ text.ok = FALSE /\ NamesPercent
<1> DEFINE x == BuildSelect("mysql")
           y == BuildSelect("flight")
<1>1. /\ x \in Pieces /\ y \in Pieces /\ y.values = <<>>
      /\ x.ok = TRUE /\ y.ok = TRUE /\ y.text = Meant /\ SameText(x, y)
  BY SelectBuilt
<1> HIDE DEF x, y
<1>2. CASE style = "flight"
  <2>1. Materialize(y) = y
    BY <1>1 DEF Materialize
  <2>2. QED
    BY <1>1, <1>2, <2>1 DEF y
<1>3. CASE style = "mysql" /\ x.values = <<>>
  <2>1. Materialize(x) = x /\ x.text = y.text
    BY <1>1, <1>3 DEF Materialize, SameText
  <2>2. QED
    BY <1>1, <1>3, <2>1 DEF x
<1>4. CASE style = "mysql" /\ x.values # <<>>
  <2>1. Materialize(x) = Formatted(x) /\ <<x, y>> \in Printed
    BY <1>1, <1>4 DEF Materialize, Formatted, SameText
  <2>2. \/ Formatted(x).ok = TRUE /\ Formatted(x).text = y.text
        \/ Formatted(x).ok = FALSE /\ "p" \in ToSet(y.text)
    BY <1>1, <2>1, PrintedText
  <2>3. QED
    BY <1>1, <1>4, <2>1, <2>2 DEF x, NamesPercent
<1>5. QED
  BY <1>2, <1>3, <1>4 DEF Styles

(* A scan's filter is one of the expressions, and what was pushed down is what
   it compiled to. *)
Compiled ==
    /\ scan \in Scans
    /\ phase = "new" => predicate = NoPredicate
    /\ phase # "new" => predicate = CompileFilter(scan.filter)

LEMMA CompiledHolds == Spec => []Compiled
<1>1. Init => Compiled
  BY DEF Init, Compiled
<1>2. Compiled /\ [Next]_vars => Compiled'
  <2> SUFFICES ASSUME Compiled, [Next]_vars PROVE Compiled'
    OBVIOUS
  <2> USE DEF Compiled
  <2>1. CASE Compile
    BY <2>1 DEF Compile
  <2>2. CASE PlanQuery
    BY <2>2 DEF PlanQuery
  <2>3. CASE Build
    BY <2>3 DEF Build
  <2>4. CASE BuildRaises
    BY <2>4 DEF BuildRaises
  <2>5. CASE Send
    BY <2>5 DEF Send
  <2>6. CASE Over
    BY <2>6 DEF Over, vars
  <2>7. CASE UNCHANGED vars
    BY <2>7 DEF vars
  <2>8. QED
    BY <2>1, <2>2, <2>3, <2>4, <2>5, <2>6, <2>7 DEF Next
<1>3. QED
  BY <1>1, <1>2, PTL DEF Spec

(* Doris selects exactly the rows that Daft keeps, by every filter that is
   pushed down, however deep it nests, and for every row, the NULLs in it
   included: compile_filter (_compat.py) compiles all of a filter or
   nothing, and what it compiles is true when the filter is. *)
THEOREM FiltersAreExact == Spec => []FilterIsExact
<1>1. Compiled => FilterIsExact
  <2> SUFFICES ASSUME Compiled, predicate # NoPredicate,
                      NEW row \in [Columns -> Values \cup {NULL}]
               PROVE  Selects(row)[predicate] = "true" <=> Evaluate(row)[scan.filter] = "true"
    BY DEF FilterIsExact
  <2>1. scan.filter \in Expressions
    BY ScanAssumption DEF Compiled
  <2>2. IsPredicate(Visit[scan.filter]) /\ predicate = Visit[scan.filter]
    BY DEF Compiled, CompileFilter
  <2>3. scan.filter \in Supported
    BY <2>1, <2>2 DEF Supported
  <2>4. Selects(row)[Visit[scan.filter]] = Evaluate(row)[scan.filter]
    BY <2>3, SameTruth
  <2>5. QED
    BY <2>2, <2>4
<1>2. QED
  BY <1>1, CompiledHolds, PTL

-------------------------------------------------------------------------------
(* The text of the queries *)

(* What the steps of get_tasks leave: a query that was built is of a fragment
   that has a meaning, and what it says, unless it cannot be formatted, is what
   is meant. *)
Says(text) == \/ text.ok = TRUE /\ text.text = Meant
              \/ text.ok = FALSE /\ NamesPercent

TextIsMeant ==
    /\ phase \in {"new", "planning", "building", "built", "sent", "unsendable", "raised"}
    /\ phase \in {"building", "built", "sent", "unsendable"} /\ scan.split = "auto" =>
         planned = Meant \/ (planned = NoText /\ NamesPercent)
    /\ query.ok = TRUE /\ (scan.style = "flight" => query.values = <<>>)
    /\ phase = "built" => Says(Materialize(query))
    /\ phase \in {"built", "sent", "unsendable"} => WellFormed(scan.fragment)
    /\ phase = "raised" => ~WellFormed(scan.fragment)
    /\ phase = "sent" => sent = Meant
    /\ phase = "unsendable" => NamesPercent

TextInv == Compiled /\ TextIsMeant

LEMMA CompiledIsPredicate ==
  ASSUME Compiled
  PROVE  /\ predicate = NoPredicate \/ IsPredicate(predicate)
         /\ predicate = NoPredicate \/ predicate \in Predicates
<1>1. CASE phase = "new"
  BY <1>1 DEF Compiled
<1>2. CASE phase # "new"
  <2>1. scan.filter \in Expressions
    BY ScanAssumption DEF Compiled
  <2>2. predicate = CompileFilter(scan.filter)
    BY <1>2 DEF Compiled
  <2>3. CASE IsPredicate(Visit[scan.filter])
    <3>1. predicate = Visit[scan.filter]
      BY <2>2, <2>3 DEF CompileFilter
    <3>2. scan.filter \in Supported
      BY <2>1, <2>3 DEF Supported
    <3>3. Visit[scan.filter] \in Predicates
      BY <3>2 DEF Predicates
    <3>4. QED
      BY <2>3, <3>1, <3>3
  <2>4. CASE ~IsPredicate(Visit[scan.filter])
    BY <2>2, <2>4 DEF CompileFilter
  <2>5. QED
    BY <2>3, <2>4
<1>3. QED
  BY <1>1, <1>2

(* What is meant is up to the scan and the predicate alone. *)
LEMMA MeaningKept ==
  ASSUME scan' = scan, predicate' = predicate
  PROVE  /\ Meant' = Meant
         /\ NamesPercent' <=> NamesPercent
         /\ WellFormed(scan.fragment)' <=> WellFormed(scan.fragment)
<1>1. Projection' = Projection
  BY DEF Projection
<1>2. Meant' = Meant
  BY <1>1 DEF Meant
<1>3. NamesPercent' <=> NamesPercent
  BY <1>2 DEF NamesPercent
<1>4. WellFormed(scan.fragment)' <=> WellFormed(scan.fragment)
  BY DEF WellFormed
<1>5. QED
  BY <1>2, <1>3, <1>4

LEMMA TextInvHolds == Spec => []TextInv
<1>1. Init => TextIsMeant
  BY DEF Init, TextIsMeant
<1>2. TextInv /\ Compiled' /\ [Next]_vars => TextIsMeant'
  <2> SUFFICES ASSUME Compiled, TextIsMeant, [Next]_vars PROVE TextIsMeant'
    BY DEF TextInv
  <2>0. scan \in Scans /\ (predicate = NoPredicate \/ predicate \in Predicates)
    BY CompiledIsPredicate DEF Compiled
  <2> DEFINE wellFormed == WellFormed(scan.fragment)
  <2>1. /\ BuildSelect("mysql").ok = TRUE <=> wellFormed
        /\ BuildSelect("flight").ok = TRUE <=> wellFormed
        /\ BuildSelect("mysql").ok \in BOOLEAN /\ BuildSelect("flight").ok \in BOOLEAN
        /\ BuildSelect("flight").values = <<>>
    BY <2>0, SelectBuilt DEF Pieces
  <2>2. \A style \in Styles : wellFormed => Says(Materialize(BuildSelect(style)))
    BY <2>0, SelectSent DEF Says
  <2>3. scan.style \in Styles
    BY <2>0, ScanAssumption
  <2>4. CASE Compile
    BY <2>4 DEF Compile, TextIsMeant
  <2>5. CASE PlanQuery
    <3>1. scan' = scan /\ predicate' = predicate
      BY <2>5 DEF PlanQuery
    <3>2. wellFormed
      BY <2>1, <2>5 DEF PlanQuery
    <3>3. Says(Materialize(BuildSelect("mysql")))
      BY <2>2, <3>2 DEF Styles
    <3>4. planned' = Meant \/ (planned' = NoText /\ NamesPercent)
      BY <2>5, <3>3 DEF PlanQuery, Says
    <3>5. QED
      BY <2>5, <3>1, <3>4, MeaningKept DEF PlanQuery, TextIsMeant
  <2>6. CASE Build
    <3>1. scan' = scan /\ predicate' = predicate
      BY <2>6 DEF Build
    <3>2. wellFormed
      BY <2>1, <2>3, <2>6 DEF Build, Styles
    <3>3. Says(Materialize(BuildSelect(scan.style)))
      BY <2>2, <2>3, <3>2
    <3>4. Says(Materialize(query))'
      BY <2>6, <3>1, <3>3, MeaningKept DEF Build, Says
    <3>5. query'.ok = TRUE /\ (scan.style = "flight" => query'.values = <<>>)
      BY <2>1, <2>3, <2>6, <3>2 DEF Build, Styles
    <3>6. QED
      BY <2>6, <3>1, <3>2, <3>4, <3>5, MeaningKept DEF Build, TextIsMeant
  <2>7. CASE BuildRaises
    <3>1. scan' = scan /\ predicate' = predicate
      BY <2>7 DEF BuildRaises
    <3>2. ~wellFormed
      BY <2>1, <2>3, <2>7 DEF BuildRaises, Styles
    <3>3. QED
      BY <2>7, <3>1, <3>2, MeaningKept DEF BuildRaises, TextIsMeant
  <2>8. CASE Send
    <3>1. scan' = scan /\ predicate' = predicate
      BY <2>8 DEF Send
    <3>2. Says(Materialize(query))
      BY <2>8 DEF Send, TextIsMeant
    <3>3. /\ phase' = "sent" => sent' = Meant
          /\ phase' = "unsendable" => NamesPercent
          /\ phase' \in {"sent", "unsendable"}
      BY <2>8, <3>2 DEF Send, Says
    <3>4. QED
      BY <2>8, <3>1, <3>3, MeaningKept DEF Send, TextIsMeant
  <2>9. CASE Over \/ UNCHANGED vars
    <3>1. UNCHANGED vars
      BY <2>9 DEF Over
    <3>2. /\ scan' = scan /\ predicate' = predicate /\ phase' = phase
          /\ planned' = planned /\ query' = query /\ sent' = sent
      BY <3>1 DEF vars
    <3>3. Says(Materialize(query))' <=> Says(Materialize(query))
      BY <3>2, MeaningKept DEF Says
    <3>4. QED
      BY <3>2, <3>3, MeaningKept DEF TextIsMeant
  <2>10. QED
    BY <2>4, <2>5, <2>6, <2>7, <2>8, <2>9 DEF Next
<1>3. QED
  BY <1>1, <1>2, CompiledHolds, PTL DEF Spec, TextInv

(* Every variable keeps its type, and no value is left to be bound in a query
   for Flight (literals are rendered into it by build_select, doris/sql.py). *)
THEOREM TypesAreKept == Spec => []TypeOK
<1>1. TextInv => TypeOK
  BY CompiledIsPredicate DEF TextInv, TextIsMeant, TypeOK, Compiled
<1>2. QED
  BY <1>1, TextInvHolds, PTL

(* A query fails to be built exactly for a fragment with an open quote, a
   marker without a value or a value without a marker, however long it is and
   however its quotes and escapes nest: the scanner of _render_unsafe_fragment, which
   looks one character ahead, agrees with a reader that does not, and no
   filter that compiled and no column makes build_select raise. *)
THEOREM OnlyFragmentsRaise == Spec => []RaisesOnlyForFragments
<1>1. TextInv => RaisesOnlyForFragments
  BY DEF TextInv, TextIsMeant, RaisesOnlyForFragments
<1>2. QED
  BY <1>1, TextInvHolds, PTL

(* Doris gets what is meant over both transports, for every fragment, filter
   and projection: the percent signs that build_select doubles come back single
   from PyMySQL's formatting, and each value lands at the marker or in the
   comparison it is of. *)
THEOREM StatementsAreMeant == Spec => []StatementIsMeant
<1>1. TextInv => StatementIsMeant
  BY DEF TextInv, TextIsMeant, StatementIsMeant
<1>2. QED
  BY <1>1, TextInvHolds, PTL

(* The planning request of _tablet_plan is for the rows that the tasks read,
   whatever their transport. *)
THEOREM PlansAreOfTheRead == Spec => []PlannedAsRead
<1>1. TextInv => PlannedAsRead
  BY DEF TextInv, TextIsMeant, PlannedAsRead
<1>2. QED
  BY <1>1, TextInvHolds, PTL
===============================================================================
