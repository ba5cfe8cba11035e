---------------------------- MODULE DiscoveryProofs ----------------------------
(***************************************************************************)
(* The discoveries close what they open and keep the failure that the     *)
(* caller has to see.  The scanner reads from the text of SHOW CREATE     *)
(* TABLE the metadata of the table it was written of, whatever its names  *)
(* and comments hold.  So what a write sends has the columns that were    *)
(* described, and exactly the data that a table can take is accepted, for *)
(* every set of tables, alterations and data.                              *)
(*                                                                         *)
(* A scan is a recursive function of the position; it exists because every *)
(* call looks further on in the text (ScanExists), and walks over a part  *)
(* of the text one unit at a time: over the content of a quoted token     *)
(* (Inside), over tokens and plain words (Passed), over a list of them.   *)
(***************************************************************************)
EXTENDS Discovery, SequenceTheorems, WellFoundedInduction, TLAPS

-------------------------------------------------------------------------------
(* Recursive functions *)

(* Induction over the natural numbers, for a set instead of a predicate. *)
LEMMA AllNaturals ==
  ASSUME NEW S \in SUBSET Nat, 0 \in S, \A n \in S : n + 1 \in S
  PROVE  S = Nat
<1> DEFINE T == Nat \ S
<1> SUFFICES ASSUME T # {} PROVE FALSE
  OBVIOUS
<1>1. PICK least \in T : \A n \in T : <<n, least>> \notin OpToRel(<, Nat)
  BY NatLessThanWellFounded, WFMin
<1>2. \A n \in T : ~(n < least)
  BY <1>1 DEF OpToRel
<1>3. least - 1 \in S
  BY <1>2
<1>4. QED
  BY <1>3

(* Induction up to a bound. *)
LEMMA UpTo ==
  ASSUME NEW n \in Nat, NEW A, 0 \in A,
         \A k \in 0 .. n : k < n /\ k \in A => k + 1 \in A
  PROVE  \A k \in 0 .. n : k \in A
<1> DEFINE S == {k \in Nat : k <= n => k \in A}
<1>1. 0 \in S
  OBVIOUS
<1>2. ASSUME NEW k \in S
      PROVE  k + 1 \in S
  <2> SUFFICES ASSUME k + 1 <= n PROVE k + 1 \in A
    OBVIOUS
  <2>1. k \in 0 .. n /\ k < n /\ k \in A
    OBVIOUS
  <2>2. QED
    BY <2>1
<1>3. S = Nat
  <2> HIDE DEF S
  <2>1. S \in SUBSET Nat
    BY DEF S
  <2>2. QED
    BY <1>1, <1>2, <2>1, AllNaturals
<1>4. QED
  BY <1>3

(* The value for e depends only on the values for arguments of less depth. *)
Descends(E, V, depth, Step) ==
    /\ Step \in [[E -> V] -> [E -> V]]
    /\ \A f, g \in [E -> V] : \A e \in E :
         (\A x \in E : depth[x] < depth[e] => f[x] = g[x]) => Step[f][e] = Step[g][e]

(* Then the equation f = Step[f] defines a function. *)
LEMMA Recursion ==
  ASSUME NEW E, NEW V, NEW v \in V, NEW n \in Nat, NEW depth \in [E -> 0 .. n],
         NEW Step, Descends(E, V, depth, Step)
  PROVE  \E f \in [E -> V] : f = Step[f]
<1> DEFINE Fixed(f, k) == \A e \in E : depth[e] < k => f[e] = Step[f][e]
           A == {k \in Nat : \E f \in [E -> V] : Fixed(f, k)}
<1>1. 0 \in A
  <2>1. [e \in E |-> v] \in [E -> V] /\ Fixed([e \in E |-> v], 0)
    OBVIOUS
  <2>2. QED
    BY <2>1
<1>2. ASSUME NEW k \in A
      PROVE  k + 1 \in A
  <2>1. PICK f \in [E -> V] : Fixed(f, k)
    OBVIOUS
  <2> DEFINE g == Step[f]
  <2>2. g \in [E -> V]
    BY DEF Descends
  <2>3. ASSUME NEW e \in E, depth[e] < k + 1
        PROVE  g[e] = Step[g][e]
    <3>1. \A x \in E : depth[x] < depth[e] => g[x] = f[x]
      BY <2>1, <2>3
    <3>2. Step[g][e] = Step[f][e]
      BY <2>2, <3>1 DEF Descends
    <3>3. QED
      BY <3>2
  <2>4. QED
    BY <2>2, <2>3
<1>3. A = Nat
  <2> HIDE DEF A
  <2>1. A \in SUBSET Nat
    BY DEF A
  <2>2. QED
    BY <1>1, <1>2, <2>1, AllNaturals
<1>4. PICK f \in [E -> V] : Fixed(f, n + 1)
  <2>1. n + 1 \in A
    BY <1>3
  <2>2. QED
    BY <2>1
<1>5. Step[f] \in [E -> V] /\ \A e \in E : f[e] = Step[f][e]
  <2>1. \A e \in E : depth[e] < n + 1
    OBVIOUS
  <2>2. QED
    BY <1>4, <2>1 DEF Descends
<1>6. QED
  BY <1>5

-------------------------------------------------------------------------------
(* Texts and their parts *)

Words == Quotes \cup Models \cup
    {"slash", " ", ",", "=", "(", ")", "CREATE TABLE", "TYPE", "1", "COMMENT", "ENGINE",
     "HASH", "PROPERTIES", "replication_num", "enable_unique_key_merge_on_write",
     "false", "true"}

Characters == STRING \cup Words

Texts == Seq(Characters)

(* The empty text. *)
LEMMA EmptyText == <<>> \in Texts /\ Len(<<>>) = 0
BY DEF Texts

(* The places of a text. *)
LEMMA Numbers ==
  ASSUME NEW text \in Texts
  PROVE  /\ Len(text) \in Nat /\ Malformed(text) = Len(text) + 2
         /\ Places(text) = 1 .. Len(text) + 2 /\ 1 \in Places(text)
BY DEF Texts, Malformed, Places

(* Short tuples are sequences. *)
LEMMA Tuples ==
  ASSUME NEW S, NEW c \in S, NEW d \in S
  PROVE  <<>> \in Seq(S) /\ <<c>> \in Seq(S) /\ <<c, d>> \in Seq(S)
OBVIOUS

(* A text of one character. *)
LEMMA Singles ==
  ASSUME NEW c \in Characters
  PROVE  <<c>> \in Texts /\ Len(<<c>>) = 1 /\ <<c>>[1] = c
<1>1. <<c>> \in Seq(Characters)
  BY Tuples
<1>2. Len(<<c>>) = 1 /\ <<c>>[1] = c
  OBVIOUS
<1>3. QED
  BY <1>1, <1>2 DEF Texts

(* A text of two characters. *)
LEMMA Pairs ==
  ASSUME NEW c \in Characters, NEW d \in Characters
  PROVE  /\ <<c, d>> \in Texts /\ Len(<<c, d>>) = 2
         /\ <<c, d>>[1] = c /\ <<c, d>>[2] = d
<1>1. <<c, d>> \in Seq(Characters)
  BY Tuples
<1>2. Len(<<c, d>>) = 2 /\ <<c, d>>[1] = c /\ <<c, d>>[2] = d
  OBVIOUS
<1>3. QED
  BY <1>1, <1>2 DEF Texts

(* What a scan finds from a place on depends on the places behind it. *)
Ahead(text, V, Step) ==
    /\ Step \in [[Places(text) -> V] -> [Places(text) -> V]]
    /\ \A f, g \in [Places(text) -> V] : \A i \in Places(text) :
         (\A j \in Places(text) : j > i => f[j] = g[j]) => Step[f][i] = Step[g][i]

(* A function that is defined from the places further on exists. *)
LEMMA ScanExists ==
  ASSUME NEW text \in Texts, NEW V, NEW v \in V, NEW Step, Ahead(text, V, Step)
  PROVE  \E f \in [Places(text) -> V] : f = Step[f]
<1> DEFINE n == Malformed(text)
           depth == [i \in Places(text) |-> n - i]
<1>1. n \in Nat /\ depth \in [Places(text) -> 0 .. n]
  BY Numbers
<1>2. \A i, j \in Places(text) : depth[j] < depth[i] <=> j > i
  BY Numbers
<1> HIDE DEF depth, n
<1>3. Descends(Places(text), V, depth, Step)
  <2>1. ASSUME NEW f \in [Places(text) -> V], NEW g \in [Places(text) -> V],
               NEW i \in Places(text),
               \A x \in Places(text) : depth[x] < depth[i] => f[x] = g[x]
        PROVE  Step[f][i] = Step[g][i]
    BY <1>2, <2>1 DEF Ahead
  <2>2. QED
    BY <2>1 DEF Ahead, Descends
<1>4. QED
  BY <1>1, <1>3, Recursion

(* Induction over the places of a scan, from its end. *)
LEMMA FromTheEnd ==
  ASSUME NEW text \in Texts, NEW A,
         \A i \in Places(text) : (\A j \in Places(text) : j > i => j \in A) => i \in A
  PROVE  \A i \in Places(text) : i \in A
<1> DEFINE n == Malformed(text)
           S == {k \in Nat : \A i \in Places(text) : n - i < k => i \in A}
<1>1. 0 \in S
  BY Numbers
<1>2. ASSUME NEW k \in S
      PROVE  k + 1 \in S
  <2>1. ASSUME NEW i \in Places(text), n - i < k + 1
        PROVE  i \in A
    <3>1. \A j \in Places(text) : j > i => n - j < k
      BY <2>1, Numbers
    <3>2. QED
      BY <3>1
  <2>2. QED
    BY <2>1
<1>3. S = Nat
  <2> HIDE DEF S
  <2>1. S \in SUBSET Nat
    BY DEF S
  <2>2. QED
    BY <1>1, <1>2, <2>1, AllNaturals
<1>4. n \in S
  BY <1>3, Numbers
<1>5. QED
  BY <1>4, Numbers

(* The text s is in the text t from the place p on. *)
At(t, p, s) ==
    /\ p \in 1 .. Len(t) + 1 /\ p + Len(s) <= Len(t) + 1
    /\ \A k \in 1 .. Len(s) : t[p + k - 1] = s[k]

(* A text is at its own start. *)
LEMMA AtWhole ==
  ASSUME NEW t \in Texts
  PROVE  At(t, 1, t)
BY DEF At, Texts

(* A concatenation is where its parts are, one behind the other. *)
LEMMA AtConcat ==
  ASSUME NEW t \in Texts, NEW p, NEW a \in Texts, NEW b \in Texts
  PROVE  At(t, p, a \o b) <=> At(t, p, a) /\ At(t, p + Len(a), b)
<1> DEFINE ab == a \o b
<1>1. /\ Len(a) \in Nat /\ Len(b) \in Nat /\ Len(t) \in Nat
      /\ Len(ab) = Len(a) + Len(b)
      /\ \A k \in 1 .. Len(a) : ab[k] = a[k]
      /\ \A k \in 1 .. Len(b) : ab[Len(a) + k] = b[k]
  BY ConcatProperties DEF Texts
<1> HIDE DEF ab
<1>2. ASSUME At(t, p, ab)
      PROVE  At(t, p, a) /\ At(t, p + Len(a), b)
  <2>1. p \in Nat \ {0} /\ p + Len(a) + Len(b) <= Len(t) + 1
    BY <1>1, <1>2 DEF At
  <2>2. \A k \in 1 .. Len(a) : t[p + k - 1] = a[k]
    BY <1>1, <1>2 DEF At
  <2>3. ASSUME NEW k \in 1 .. Len(b)
        PROVE  t[(p + Len(a)) + k - 1] = b[k]
    <3>1. Len(a) + k \in 1 .. Len(ab) /\ p + (Len(a) + k) - 1 = (p + Len(a)) + k - 1
      BY <1>1, <2>1
    <3>2. t[p + (Len(a) + k) - 1] = ab[Len(a) + k]
      BY <1>2, <3>1 DEF At
    <3>3. QED
      BY <1>1, <3>1, <3>2
  <2>4. QED
    BY <1>1, <2>1, <2>2, <2>3 DEF At
<1>3. ASSUME At(t, p, a), At(t, p + Len(a), b)
      PROVE  At(t, p, ab)
  <2>1. p \in Nat \ {0} /\ p + Len(a) + Len(b) <= Len(t) + 1
    BY <1>1, <1>3 DEF At
  <2>2. ASSUME NEW k \in 1 .. Len(ab)
        PROVE  t[p + k - 1] = ab[k]
    <3>1. CASE k \in 1 .. Len(a)
      BY <1>1, <1>3, <3>1 DEF At
    <3>2. CASE k - Len(a) \in 1 .. Len(b)
      <4>1. (p + Len(a)) + (k - Len(a)) - 1 = p + k - 1 /\ Len(a) + (k - Len(a)) = k
        BY <1>1, <2>1
      <4>2. t[(p + Len(a)) + (k - Len(a)) - 1] = b[k - Len(a)]
        BY <1>3, <3>2 DEF At
      <4>3. ab[Len(a) + (k - Len(a))] = b[k - Len(a)]
        BY <1>1, <3>2
      <4>4. QED
        BY <4>1, <4>2, <4>3
    <3>3. QED
      BY <1>1, <3>1, <3>2
  <2>3. QED
    BY <1>1, <2>1, <2>2 DEF At
<1>4. QED
  BY <1>2, <1>3 DEF ab

(* The part that is there can be cut out. *)
LEMMA AtCut ==
  ASSUME NEW t \in Texts, NEW p, NEW s \in Texts, At(t, p, s)
  PROVE  SubSeq(t, p, p + Len(s) - 1) = s
<1>1. Len(s) \in Nat /\ Len(t) \in Nat /\ p \in Nat \ {0} /\ p + Len(s) <= Len(t) + 1
  BY DEF At, Texts
<1> DEFINE cut == SubSeq(t, p, p + Len(s) - 1)
<1>2. /\ cut \in Texts /\ Len(cut) = Len(s)
      /\ \A k \in 1 .. Len(s) : cut[k] = t[p + k - 1]
  BY <1>1, SubSeqProperties DEF Texts
<1> HIDE DEF cut
<1>3. \A k \in 1 .. Len(s) : cut[k] = s[k]
  BY <1>2 DEF At
<1>4. cut = s
  BY <1>2, <1>3, SeqEqual DEF Texts
<1>5. QED
  BY <1>4 DEF cut

-------------------------------------------------------------------------------
(* The scans of the parser, one step at a time *)

EndNode(text, quote, end, i) ==
    IF i > Len(text)                                  THEN Malformed(text)
    ELSE IF text[i] = "slash" /\ quote # "tick"       THEN end[i + 2]
    ELSE IF text[i] # quote                           THEN end[i + 1]
    ELSE IF i < Len(text) /\ text[i + 1] = quote      THEN end[i + 2]
    ELSE i + 1

(* The end of a quoted token is found from place to place. *)
LEMMA QuotedScan ==
  ASSUME NEW text \in Texts, NEW start \in 1 .. Len(text)
  PROVE  \E end \in [Places(text) -> Places(text)] :
           /\ \A i \in Places(text) : end[i] = EndNode(text, text[start], end, i)
           /\ QuotedEnd(text, start) = end[start + 1]
<1> DEFINE V == Places(text)
           Node(f, i) == EndNode(text, text[start], f, i)
           g == CHOOSE end : end = [i \in Places(text) |-> Node(end, i)]
           Step == [f \in [Places(text) -> V] |-> [i \in Places(text) |-> Node(f, i)]]
<1>1. 1 \in V
  BY Numbers DEF Texts
<1>2. ASSUME NEW f \in [Places(text) -> V], NEW i \in Places(text)
      PROVE  Node(f, i) \in V
  BY Numbers DEF EndNode
<1>3. ASSUME NEW f, NEW h, NEW i \in Places(text),
             \A j \in Places(text) : j > i => f[j] = h[j]
      PROVE  Node(f, i) = Node(h, i)
  BY <1>3, Numbers DEF EndNode
<1>4. QuotedEnd(text, start) = g[start + 1]
  BY DEF QuotedEnd, EndNode
<1> HIDE DEF g, Node
<1>5. \E f \in [Places(text) -> V] : f = [i \in Places(text) |-> Node(f, i)]
  <2> HIDE DEF V
  <2>1. Ahead(text, V, Step)
    BY <1>2, <1>3 DEF Ahead
  <2>2. \E f \in [Places(text) -> V] : f = Step[f]
    <3> HIDE DEF Step
    <3>1. 1 \in V
      BY <1>1
    <3>2. QED
      BY <2>1, <3>1, ScanExists
  <2>3. QED
    BY <2>2
<1>6. PICK f \in [Places(text) -> V] : f = [i \in Places(text) |-> Node(f, i)]
  BY <1>5
<1>7. g = [i \in Places(text) |-> Node(g, i)]
  BY <1>5 DEF g
<1>8. \A i \in Places(text) : g[i] = f[i]
  <2> DEFINE A == {i \in Places(text) : g[i] = f[i]}
  <2>1. ASSUME NEW i \in Places(text), \A j \in Places(text) : j > i => j \in A
        PROVE  i \in A
    <3>1. Node(g, i) = Node(f, i)
      BY <1>3, <2>1
    <3>2. QED
      BY <1>6, <1>7, <3>1
  <2>2. \A i \in Places(text) : i \in A
    <3> HIDE DEF A
    <3>1. QED
      BY <2>1, FromTheEnd
  <2>3. QED
    BY <2>2
<1>9. g \in [Places(text) -> V] /\ \A i \in Places(text) : g[i] = Node(g, i)
  BY <1>6, <1>7, <1>8
<1>10. QED
  BY <1>4, <1>9 DEF Node

(* A quoted token ends behind its start. *)
LEMMA QuotedEnds ==
  ASSUME NEW text \in Texts, NEW start \in 1 .. Len(text)
  PROVE  QuotedEnd(text, start) \in Places(text) /\ QuotedEnd(text, start) > start
<1>1. PICK end \in [Places(text) -> Places(text)] :
        /\ \A i \in Places(text) : end[i] = EndNode(text, text[start], end, i)
        /\ QuotedEnd(text, start) = end[start + 1]
  BY QuotedScan
<1> DEFINE A == {i \in Places(text) : end[i] >= i}
<1>2. ASSUME NEW i \in Places(text), \A j \in Places(text) : j > i => j \in A
      PROVE  i \in A
  <2>1. CASE i > Len(text)
    BY <1>1, <2>1, Numbers DEF EndNode
  <2>2. CASE i <= Len(text)
    <3>1. i + 1 \in A /\ i + 2 \in A
      BY <1>2, <2>2, Numbers
    <3>2. end[i] \in {i + 1, end[i + 1], end[i + 2]}
      BY <1>1, <2>2, Numbers DEF EndNode
    <3>3. QED
      BY <3>1, <3>2, Numbers
  <2>3. QED
    BY <2>1, <2>2, Numbers
<1>3. start + 1 \in A
  <2> HIDE DEF A
  <2>1. \A i \in Places(text) : i \in A
    BY <1>2, FromTheEnd
  <2>2. QED
    BY <2>1, Numbers
<1>4. QED
  BY <1>1, <1>3, Numbers

FindNode(text, quotes, words, find, i) ==
    IF i > Len(text)           THEN i
    ELSE IF text[i] \in quotes THEN find[QuotedEnd(text, i)]
    ELSE IF text[i] \in words  THEN i
    ELSE find[i + 1]

(* A search goes from place to place, forwards. *)
LEMMA FindScan ==
  ASSUME NEW text \in Texts, NEW quotes, NEW words
  PROVE  \E find \in [Places(text) -> Places(text)] :
           \A i \in Places(text) :
              /\ find[i] = FindNode(text, quotes, words, find, i)
              /\ find[i] >= i
              /\ FindOutside(text, i, quotes, words) = find[i]
<1> DEFINE V == Places(text)
           Node(f, i) == FindNode(text, quotes, words, f, i)
           g == CHOOSE find : find = [i \in Places(text) |-> Node(find, i)]
           Step == [f \in [Places(text) -> V] |-> [i \in Places(text) |-> Node(f, i)]]
<1>1. 1 \in V
  BY Numbers DEF Texts
<1>2. ASSUME NEW f \in [Places(text) -> V], NEW i \in Places(text)
      PROVE  Node(f, i) \in V
  <2>1. i <= Len(text) => /\ QuotedEnd(text, i) \in Places(text) /\ QuotedEnd(text, i) > i
                          /\ i + 1 \in Places(text)
    BY QuotedEnds, Numbers
  <2>2. QED
    BY <2>1, Numbers DEF FindNode
<1>3. ASSUME NEW f, NEW h, NEW i \in Places(text),
             \A j \in Places(text) : j > i => f[j] = h[j]
      PROVE  Node(f, i) = Node(h, i)
  <2>1. i <= Len(text) => /\ QuotedEnd(text, i) \in Places(text) /\ QuotedEnd(text, i) > i
                          /\ i + 1 \in Places(text)
    BY QuotedEnds, Numbers
  <2>2. QED
    BY <1>3, <2>1, Numbers DEF FindNode
<1>4. \A i \in Places(text) : FindOutside(text, i, quotes, words) = g[i]
  BY DEF FindOutside, FindNode
<1> HIDE DEF g, Node
<1>5. \E f \in [Places(text) -> V] : f = [i \in Places(text) |-> Node(f, i)]
  <2> HIDE DEF V
  <2>1. Ahead(text, V, Step)
    BY <1>2, <1>3 DEF Ahead
  <2>2. \E f \in [Places(text) -> V] : f = Step[f]
    <3> HIDE DEF Step
    <3>1. 1 \in V
      BY <1>1
    <3>2. QED
      BY <2>1, <3>1, ScanExists
  <2>3. QED
    BY <2>2
<1>6. PICK f \in [Places(text) -> V] : f = [i \in Places(text) |-> Node(f, i)]
  BY <1>5
<1>7. g = [i \in Places(text) |-> Node(g, i)]
  BY <1>5 DEF g
<1>8. \A i \in Places(text) : g[i] = f[i]
  <2> DEFINE A == {i \in Places(text) : g[i] = f[i]}
  <2>1. ASSUME NEW i \in Places(text), \A j \in Places(text) : j > i => j \in A
        PROVE  i \in A
    <3>1. Node(g, i) = Node(f, i)
      BY <1>3, <2>1
    <3>2. QED
      BY <1>6, <1>7, <3>1
  <2>2. \A i \in Places(text) : i \in A
    <3> HIDE DEF A
    <3>1. QED
      BY <2>1, FromTheEnd
  <2>3. QED
    BY <2>2
<1>9. g \in [Places(text) -> V] /\ \A i \in Places(text) : g[i] = Node(g, i)
  BY <1>6, <1>7, <1>8
<1>10. \A i \in Places(text) : g[i] >= i
  <2> DEFINE A == {i \in Places(text) : g[i] >= i}
  <2>1. ASSUME NEW i \in Places(text), \A j \in Places(text) : j > i => j \in A
        PROVE  i \in A
    <3>1. CASE i > Len(text)
      BY <1>9, <3>1, Numbers DEF Node, FindNode
    <3>2. CASE i <= Len(text)
      <4>1. QuotedEnd(text, i) \in A /\ QuotedEnd(text, i) > i /\ i + 1 \in A
        BY <2>1, <3>2, QuotedEnds, Numbers
      <4>2. g[i] \in {i, g[QuotedEnd(text, i)], g[i + 1]}
        BY <1>9 DEF Node, FindNode
      <4>3. /\ i \in Int /\ QuotedEnd(text, i) \in Int /\ g[i] \in Int
            /\ g[QuotedEnd(text, i)] \in Int /\ g[i + 1] \in Int
            /\ g[QuotedEnd(text, i)] >= QuotedEnd(text, i) /\ g[i + 1] >= i + 1
        <5>1. \A j \in A : j \in Int /\ g[j] \in Int /\ g[j] >= j
          BY <1>9, Numbers
        <5>2. i \in Int /\ g[i] \in Int
          BY <1>9, Numbers
        <5> HIDE DEF A
        <5>3. QED
          BY <4>1, <5>1, <5>2
      <4>4. QED
        BY <4>1, <4>2, <4>3
    <3>3. QED
      BY <3>1, <3>2, Numbers
  <2>2. QED
    <3> HIDE DEF A
    <3>1. \A i \in Places(text) : i \in A
      BY <2>1, FromTheEnd
    <3>2. QED
      BY <3>1 DEF A
<1>11. QED
  BY <1>4, <1>9, <1>10 DEF Node

SkipNode(text, characters, skip, i) ==
    IF i <= Len(text) /\ text[i] \in characters THEN skip[i + 1] ELSE i

(* So does the skipping of characters, *)
LEMMA SkipScan ==
  ASSUME NEW text \in Texts, NEW characters
  PROVE  \E skip \in [Places(text) -> Places(text)] :
           \A i \in Places(text) :
              /\ skip[i] = SkipNode(text, characters, skip, i)
              /\ skip[i] >= i
              /\ SkipOver(text, i, characters) = skip[i]
<1> DEFINE V == Places(text)
           Node(f, i) == SkipNode(text, characters, f, i)
           g == CHOOSE skip : skip = [i \in Places(text) |-> Node(skip, i)]
           Step == [f \in [Places(text) -> V] |-> [i \in Places(text) |-> Node(f, i)]]
<1>1. 1 \in V
  BY Numbers DEF Texts
<1>2. ASSUME NEW f \in [Places(text) -> V], NEW i \in Places(text)
      PROVE  Node(f, i) \in V
  BY Numbers DEF SkipNode
<1>3. ASSUME NEW f, NEW h, NEW i \in Places(text),
             \A j \in Places(text) : j > i => f[j] = h[j]
      PROVE  Node(f, i) = Node(h, i)
  BY <1>3, Numbers DEF SkipNode
<1>4. \A i \in Places(text) : SkipOver(text, i, characters) = g[i]
  BY DEF SkipOver, SkipNode
<1> HIDE DEF g, Node
<1>5. \E f \in [Places(text) -> V] : f = [i \in Places(text) |-> Node(f, i)]
  <2> HIDE DEF V
  <2>1. Ahead(text, V, Step)
    BY <1>2, <1>3 DEF Ahead
  <2>2. \E f \in [Places(text) -> V] : f = Step[f]
    <3> HIDE DEF Step
    <3>1. 1 \in V
      BY <1>1
    <3>2. QED
      BY <2>1, <3>1, ScanExists
  <2>3. QED
    BY <2>2
<1>6. PICK f \in [Places(text) -> V] : f = [i \in Places(text) |-> Node(f, i)]
  BY <1>5
<1>7. g = [i \in Places(text) |-> Node(g, i)]
  BY <1>5 DEF g
<1>8. \A i \in Places(text) : g[i] = f[i]
  <2> DEFINE A == {i \in Places(text) : g[i] = f[i]}
  <2>1. ASSUME NEW i \in Places(text), \A j \in Places(text) : j > i => j \in A
        PROVE  i \in A
    <3>1. Node(g, i) = Node(f, i)
      BY <1>3, <2>1
    <3>2. QED
      BY <1>6, <1>7, <3>1
  <2>2. \A i \in Places(text) : i \in A
    <3> HIDE DEF A
    <3>1. QED
      BY <2>1, FromTheEnd
  <2>3. QED
    BY <2>2
<1>9. g \in [Places(text) -> V] /\ \A i \in Places(text) : g[i] = Node(g, i)
  BY <1>6, <1>7, <1>8
<1>10. \A i \in Places(text) : g[i] >= i
  <2> DEFINE A == {i \in Places(text) : g[i] >= i}
  <2>1. ASSUME NEW i \in Places(text), \A j \in Places(text) : j > i => j \in A
        PROVE  i \in A
    <3>1. i <= Len(text) => i + 1 \in A
      BY <2>1, Numbers
    <3>2. QED
      BY <1>9, <3>1, Numbers DEF Node, SkipNode
  <2>2. QED
    <3> HIDE DEF A
    <3>1. \A i \in Places(text) : i \in A
      BY <2>1, FromTheEnd
    <3>2. QED
      BY <3>1 DEF A
<1>11. QED
  BY <1>4, <1>9, <1>10 DEF Node

CloseNode(text, close, i) ==
    [depth \in Nat \ {0} |->
       IF i > Len(text)                   THEN Malformed(text)
       ELSE IF text[i] \in Quotes         THEN close[QuotedEnd(text, i)][depth]
       ELSE IF text[i] = "("              THEN close[i + 1][depth + 1]
       ELSE IF text[i] # ")"              THEN close[i + 1][depth]
       ELSE IF depth > 1                  THEN close[i + 1][depth - 1]
       ELSE i]

(* The content of a clause that opens at a place. *)
Content(text, close, open) ==
    IF open > Len(text) \/ text[open] # "(" \/ close[open + 1][1] > Len(text) THEN {}
    ELSE {SubSeq(text, open + 1, close[open + 1][1] - 1)}

(* and the search for the parenthesis that closes a clause. *)
LEMMA CloseScan ==
  ASSUME NEW text \in Texts
  PROVE  \E close \in [Places(text) -> [Nat \ {0} -> Places(text)]] :
           /\ \A i \in Places(text) : close[i] = CloseNode(text, close, i)
           /\ \A start \in Places(text) :
                Clause(text, start) = Content(text, close, SkipSpace(text, start))
<1> DEFINE V == [Nat \ {0} -> Places(text)]
           v == [depth \in Nat \ {0} |-> 1]
           Node(f, i) == CloseNode(text, f, i)
           g == CHOOSE close : close = [i \in Places(text) |-> Node(close, i)]
           Step == [f \in [Places(text) -> V] |-> [i \in Places(text) |-> Node(f, i)]]
<1>1. v \in V
  BY Numbers DEF Texts
<1>2. ASSUME NEW f \in [Places(text) -> V], NEW i \in Places(text)
      PROVE  Node(f, i) \in V
  <2>1. CASE i > Len(text)
    <3>1. Malformed(text) \in Places(text)
      BY Numbers
    <3>2. QED
      BY <2>1, <3>1 DEF CloseNode
  <2>2. CASE i <= Len(text)
    <3>1. f[QuotedEnd(text, i)] \in V /\ f[i + 1] \in V
      <4> HIDE DEF V
      <4>1. QuotedEnd(text, i) \in Places(text) /\ i + 1 \in Places(text)
        BY <2>2, QuotedEnds, Numbers
      <4>2. QED
        BY <4>1
    <3> DEFINE a == f[QuotedEnd(text, i)]
               b == f[i + 1]
    <3>2. a \in [Nat \ {0} -> Places(text)] /\ b \in [Nat \ {0} -> Places(text)]
      BY <3>1
    <3>3. ~(i > Len(text))
      BY <2>2, Numbers
    <3>4. Node(f, i) = [depth \in Nat \ {0} |->
            IF text[i] \in Quotes         THEN a[depth]
            ELSE IF text[i] = "("         THEN b[depth + 1]
            ELSE IF text[i] # ")"         THEN b[depth]
            ELSE IF depth > 1             THEN b[depth - 1]
            ELSE i]
      BY <3>3 DEF CloseNode
    <3> HIDE DEF a, b, Node
    <3>5. QED
      BY <3>2, <3>4
  <2>3. i > Len(text) \/ i <= Len(text)
    BY Numbers
  <2>4. QED
    BY <2>1, <2>2, <2>3
<1>3. ASSUME NEW f, NEW h, NEW i \in Places(text),
             \A j \in Places(text) : j > i => f[j] = h[j]
      PROVE  Node(f, i) = Node(h, i)
  <2>1. CASE i > Len(text)
    BY <2>1 DEF CloseNode
  <2>2. CASE i <= Len(text)
    <3>1. f[QuotedEnd(text, i)] = h[QuotedEnd(text, i)] /\ f[i + 1] = h[i + 1]
      BY <1>3, <2>2, QuotedEnds, Numbers
    <3>2. QED
      BY <3>1 DEF CloseNode
  <2>3. QED
    BY <2>1, <2>2, Numbers
<1>4. \A start \in Places(text) : Clause(text, start) = Content(text, g, SkipSpace(text, start))
  BY DEF Clause, Content, CloseNode
<1> HIDE DEF g, Node
<1>5. \E f \in [Places(text) -> V] : f = [i \in Places(text) |-> Node(f, i)]
  <2> HIDE DEF V
  <2>1. Ahead(text, V, Step)
    BY <1>2, <1>3 DEF Ahead
  <2>2. \E f \in [Places(text) -> V] : f = Step[f]
    <3> HIDE DEF Step
    <3>1. v \in V
      BY <1>1
    <3>2. QED
      BY <2>1, <3>1, ScanExists
  <2>3. QED
    BY <2>2
<1>6. PICK f \in [Places(text) -> V] : f = [i \in Places(text) |-> Node(f, i)]
  BY <1>5
<1>7. g = [i \in Places(text) |-> Node(g, i)]
  BY <1>5 DEF g
<1>8. \A i \in Places(text) : g[i] = f[i]
  <2> DEFINE A == {i \in Places(text) : g[i] = f[i]}
  <2>1. ASSUME NEW i \in Places(text), \A j \in Places(text) : j > i => j \in A
        PROVE  i \in A
    <3>1. Node(g, i) = Node(f, i)
      BY <1>3, <2>1
    <3>2. QED
      BY <1>6, <1>7, <3>1
  <2>2. \A i \in Places(text) : i \in A
    <3> HIDE DEF A
    <3>1. QED
      BY <2>1, FromTheEnd
  <2>3. QED
    BY <2>2
<1>9. g \in [Places(text) -> V] /\ \A i \in Places(text) : g[i] = Node(g, i)
  BY <1>6, <1>7, <1>8
<1>10. QED
  BY <1>4, <1>9 DEF Node

(* What is found is not before the start. *)
LEMMA FoundBehind ==
  ASSUME NEW text \in Texts, NEW quotes, NEW words, NEW start \in Places(text)
  PROVE  /\ FindOutside(text, start, quotes, words) \in Places(text)
         /\ FindOutside(text, start, quotes, words) >= start
<1>1. PICK find \in [Places(text) -> Places(text)] :
        \A i \in Places(text) :
           /\ find[i] = FindNode(text, quotes, words, find, i)
           /\ find[i] >= i
           /\ FindOutside(text, i, quotes, words) = find[i]
  BY FindScan
<1>2. QED
  BY <1>1

SplitNode(text, split, from) ==
    LET comma == FindOutside(text, from, {"tick"}, {","})
    IN  IF comma <= Len(text) THEN <<SubSeq(text, from, comma - 1)>> \o split[comma + 1]
        ELSE IF comma = Malformed(text) THEN <<<<>>>>
        ELSE <<SubSeq(text, from, Len(text))>>

(* A cut of a text is a text. *)
LEMMA CutIsText ==
  ASSUME NEW text \in Texts, NEW m \in Nat \ {0}, NEW n \in Int, n <= Len(text)
  PROVE  SubSeq(text, m, n) \in Texts
<1>1. \A i \in m .. n : text[i] \in Characters
  BY DEF Texts
<1>2. QED
  BY <1>1, SubSeqProperties DEF Texts

(* The key columns are split from comma to comma. *)
LEMMA SplitScan ==
  ASSUME NEW text \in Texts
  PROVE  \E split \in [Places(text) -> Seq(Texts)] :
           /\ \A i \in Places(text) : split[i] = SplitNode(text, split, i)
           /\ SplitKeys(text) = split[1]
<1> DEFINE V == Seq(Texts)
           v == <<>>
           Comma(i) == FindOutside(text, i, {"tick"}, {","})
           Node(f, i) == SplitNode(text, f, i)
           g == CHOOSE split : split = [i \in Places(text) |-> Node(split, i)]
           Step == [f \in [Places(text) -> V] |-> [i \in Places(text) |-> Node(f, i)]]
<1>1. v \in V
  BY Numbers DEF Texts
<1>0. \A i \in Places(text) : Comma(i) \in Places(text) /\ Comma(i) >= i
  BY FoundBehind
<1>2. ASSUME NEW f \in [Places(text) -> V], NEW i \in Places(text)
      PROVE  Node(f, i) \in V
  <2>1. Comma(i) \in Places(text) /\ Comma(i) >= i
    BY <1>0
  <2>2. /\ Comma(i) <= Len(text) => SubSeq(text, i, Comma(i) - 1) \in Texts
        /\ SubSeq(text, i, Len(text)) \in Texts /\ <<>> \in Texts
    <3> HIDE DEF Comma
    <3>1. i \in Nat \ {0} /\ Comma(i) - 1 \in Int /\ Len(text) \in Int
      BY <2>1, Numbers
    <3>2. Comma(i) <= Len(text) => Comma(i) - 1 <= Len(text)
      BY <2>1, Numbers
    <3>3. QED
      BY <3>1, <3>2, CutIsText DEF Texts
  <2> HIDE DEF Comma
  <2>3. Comma(i) <= Len(text) => f[Comma(i) + 1] \in Seq(Texts)
    BY <2>1, Numbers
  <2>4. CASE Comma(i) <= Len(text)
    <3>1. <<SubSeq(text, i, Comma(i) - 1)>> \in Seq(Texts)
      BY <2>2, <2>4
    <3>2. <<SubSeq(text, i, Comma(i) - 1)>> \o f[Comma(i) + 1] \in Seq(Texts)
      BY <2>3, <2>4, <3>1, ConcatProperties
    <3>3. QED
      BY <2>4, <3>2 DEF SplitNode, Comma
  <2>5. CASE ~(Comma(i) <= Len(text))
    <3>1. <<<<>>>> \in Seq(Texts) /\ <<SubSeq(text, i, Len(text))>> \in Seq(Texts)
      BY <2>2
    <3>2. QED
      BY <2>5, <3>1 DEF SplitNode, Comma
  <2>6. QED
    BY <2>4, <2>5
<1>3. ASSUME NEW f, NEW h, NEW i \in Places(text),
             \A j \in Places(text) : j > i => f[j] = h[j]
      PROVE  Node(f, i) = Node(h, i)
  <2>1. Comma(i) \in Places(text) /\ Comma(i) >= i
    BY <1>0
  <2>2. Comma(i) <= Len(text) => f[Comma(i) + 1] = h[Comma(i) + 1]
    <3> HIDE DEF Comma
    <3>1. QED
      BY <1>3, <2>1, Numbers
  <2>3. QED
    BY <2>2 DEF SplitNode
<1>4. SplitKeys(text) = g[1]
  BY DEF SplitKeys, SplitNode
<1> HIDE DEF g, Node
<1>5. \E f \in [Places(text) -> V] : f = [i \in Places(text) |-> Node(f, i)]
  <2> HIDE DEF V
  <2>1. Ahead(text, V, Step)
    BY <1>2, <1>3 DEF Ahead
  <2>2. \E f \in [Places(text) -> V] : f = Step[f]
    <3> HIDE DEF Step
    <3>1. v \in V
      BY <1>1
    <3>2. QED
      BY <2>1, <3>1, ScanExists
  <2>3. QED
    BY <2>2
<1>6. PICK f \in [Places(text) -> V] : f = [i \in Places(text) |-> Node(f, i)]
  BY <1>5
<1>7. g = [i \in Places(text) |-> Node(g, i)]
  BY <1>5 DEF g
<1>8. \A i \in Places(text) : g[i] = f[i]
  <2> DEFINE A == {i \in Places(text) : g[i] = f[i]}
  <2>1. ASSUME NEW i \in Places(text), \A j \in Places(text) : j > i => j \in A
        PROVE  i \in A
    <3>1. Node(g, i) = Node(f, i)
      BY <1>3, <2>1
    <3>2. QED
      BY <1>6, <1>7, <3>1
  <2>2. \A i \in Places(text) : i \in A
    <3> HIDE DEF A
    <3>1. QED
      BY <2>1, FromTheEnd
  <2>3. QED
    BY <2>2
<1>9. g \in [Places(text) -> V] /\ \A i \in Places(text) : g[i] = Node(g, i)
  BY <1>6, <1>7, <1>8
<1>10. QED
  BY <1>4, <1>9 DEF Node

SingleNode(text, quote, single, i) ==
    IF i > Len(text) THEN <<>>
    ELSE IF text[i] = quote /\ i < Len(text) /\ text[i + 1] = quote
         THEN <<quote>> \o single[i + 2]
    ELSE <<text[i]>> \o single[i + 1]

(* Doubled quotes are replaced from place to place. *)
LEMMA UndoubleScan ==
  ASSUME NEW text \in Texts, NEW quote \in Characters
  PROVE  \E single \in [Places(text) -> Texts] :
           /\ \A i \in Places(text) : single[i] = SingleNode(text, quote, single, i)
           /\ Undouble(text, quote) = single[1]
<1> DEFINE V == Texts
           v == <<>>
           Node(f, i) == SingleNode(text, quote, f, i)
           g == CHOOSE single : single = [i \in Places(text) |-> Node(single, i)]
           Step == [f \in [Places(text) -> V] |-> [i \in Places(text) |-> Node(f, i)]]
<1>1. v \in V
  BY Numbers DEF Texts
<1>2. ASSUME NEW f \in [Places(text) -> V], NEW i \in Places(text)
      PROVE  Node(f, i) \in V
  <2>1. CASE i > Len(text)
    BY <2>1 DEF SingleNode, Texts
  <2>2. CASE i <= Len(text)
    <3>1. i + 1 \in Places(text) /\ i + 2 \in Places(text) /\ i \in 1 .. Len(text)
      BY <2>2, Numbers
    <3>2. f[i + 1] \in Seq(Characters) /\ f[i + 2] \in Seq(Characters)
      BY <3>1 DEF Texts
    <3>3. text[i] \in Characters
      BY <3>1 DEF Texts
    <3>4. <<text[i]>> \in Seq(Characters) /\ <<quote>> \in Seq(Characters)
      BY <3>3, Singles DEF Texts
    <3>5. <<quote>> \o f[i + 2] \in Seq(Characters) /\ <<text[i]>> \o f[i + 1] \in Seq(Characters)
      BY <3>2, <3>4, ConcatProperties
    <3>6. ~(i > Len(text))
      BY <2>2, Numbers
    <3>7. QED
      BY <3>5, <3>6 DEF SingleNode, Texts
  <2>3. i > Len(text) \/ i <= Len(text)
    BY Numbers
  <2>4. QED
    BY <2>1, <2>2, <2>3
<1>3. ASSUME NEW f, NEW h, NEW i \in Places(text),
             \A j \in Places(text) : j > i => f[j] = h[j]
      PROVE  Node(f, i) = Node(h, i)
  <2>1. i <= Len(text) => f[i + 1] = h[i + 1] /\ f[i + 2] = h[i + 2]
    BY <1>3, Numbers
  <2>2. i > Len(text) \/ i <= Len(text)
    BY Numbers
  <2>3. QED
    BY <2>1, <2>2 DEF SingleNode
<1>4. Undouble(text, quote) = g[1]
  BY DEF Undouble, SingleNode
<1> HIDE DEF g, Node
<1>5. \E f \in [Places(text) -> V] : f = [i \in Places(text) |-> Node(f, i)]
  <2> HIDE DEF V
  <2>1. Ahead(text, V, Step)
    BY <1>2, <1>3 DEF Ahead
  <2>2. \E f \in [Places(text) -> V] : f = Step[f]
    <3> HIDE DEF Step
    <3>1. v \in V
      BY <1>1
    <3>2. QED
      BY <2>1, <3>1, ScanExists
  <2>3. QED
    BY <2>2
<1>6. PICK f \in [Places(text) -> V] : f = [i \in Places(text) |-> Node(f, i)]
  BY <1>5
<1>7. g = [i \in Places(text) |-> Node(g, i)]
  BY <1>5 DEF g
<1>8. \A i \in Places(text) : g[i] = f[i]
  <2> DEFINE A == {i \in Places(text) : g[i] = f[i]}
  <2>1. ASSUME NEW i \in Places(text), \A j \in Places(text) : j > i => j \in A
        PROVE  i \in A
    <3>1. Node(g, i) = Node(f, i)
      BY <1>3, <2>1
    <3>2. QED
      BY <1>6, <1>7, <3>1
  <2>2. \A i \in Places(text) : i \in A
    <3> HIDE DEF A
    <3>1. QED
      BY <2>1, FromTheEnd
  <2>3. QED
    BY <2>2
<1>9. g \in [Places(text) -> V] /\ \A i \in Places(text) : g[i] = Node(g, i)
  BY <1>6, <1>7, <1>8
<1>10. QED
  BY <1>4, <1>9, Numbers DEF Node

-------------------------------------------------------------------------------
(* What texts are put together of *)

LEMMA ConcatTexts ==
  ASSUME NEW a \in Texts, NEW b \in Texts
  PROVE  /\ a \o b \in Texts /\ Len(a \o b) = Len(a) + Len(b)
         /\ Len(a) \in Nat /\ Len(b) \in Nat
         /\ a \o <<>> = a /\ <<>> \o a = a
<1>1. a \in Seq(Characters) /\ b \in Seq(Characters)
  BY DEF Texts
<1>2. a \o b \in Seq(Characters) /\ Len(a \o b) = Len(a) + Len(b)
  BY <1>1, ConcatProperties
<1>3. a \o <<>> = a /\ <<>> \o a = a
  BY <1>1, ConcatEmptySeq
<1>4. QED
  BY <1>2, <1>3, Numbers DEF Texts

(* Concatenation is associative. *)
LEMMA Associative ==
  ASSUME NEW a \in Texts, NEW b \in Texts, NEW c \in Texts
  PROVE  a \o (b \o c) = a \o b \o c
<1>1. a \in Seq(Characters) /\ b \in Seq(Characters) /\ c \in Seq(Characters)
  BY DEF Texts
<1>2. QED
  BY <1>1, ConcatAssociative

(* A sequence of texts is joined from the left. *)
LEMMA Joined ==
  ASSUME NEW s \in Seq(Texts)
  PROVE  \E f \in [0 .. Len(s) -> Texts] :
           /\ f[0] = <<>>
           /\ \A i \in 1 .. Len(s) : f[i] = f[i - 1] \o s[i]
           /\ FlattenSeq(s) = f[Len(s)]
<1> DEFINE n == Len(s)
           E == 1 .. n
           depth == [i \in E |-> i]
           Node(f, i) == IF i = 1 THEN s[i] ELSE f[i - 1] \o s[i]
           Step == [f \in [E -> Texts] |-> [i \in E |-> Node(f, i)]]
           g == CHOOSE flatten : flatten = [i \in E |-> Node(flatten, i)]
           joined == [i \in 0 .. n |-> IF i = 0 THEN <<>> ELSE g[i]]
<1>1. n \in Nat /\ \A i \in E : s[i] \in Texts /\ (i # 1 => i - 1 \in E)
  OBVIOUS
<1>2. <<>> \in Texts
  BY EmptyText
<1>3. CASE n = 0
  <2>1. s = <<>>
    BY <1>3, EmptySeq
  <2>2. FlattenSeq(s) = <<>>
    BY <1>3, <2>1 DEF FlattenSeq
  <2> DEFINE f == [i \in 0 .. n |-> <<>>]
  <2>3. f \in [0 .. n -> Texts] /\ f[0] = <<>> /\ f[n] = <<>> /\ 1 .. n = {}
    BY <1>2, <1>3
  <2> HIDE DEF f
  <2>4. QED
    BY <2>2, <2>3
<1>4. CASE n # 0
  <2>1. FlattenSeq(s) = g[n]
    BY <1>4 DEF FlattenSeq
  <2>2. ASSUME NEW f \in [E -> Texts], NEW i \in E
        PROVE  Node(f, i) \in Texts
    BY <1>1, ConcatTexts
  <2>3. ASSUME NEW f, NEW h, NEW i \in E, \A j \in E : depth[j] < depth[i] => f[j] = h[j]
        PROVE  Node(f, i) = Node(h, i)
    BY <1>1, <2>3
  <2> HIDE DEF Node, g
  <2>4. \E f \in [E -> Texts] : f = [i \in E |-> Node(f, i)]
    <3>1. depth \in [E -> 0 .. n]
      BY <1>1
    <3> HIDE DEF E, depth
    <3>2. Descends(E, Texts, depth, Step)
      BY <2>2, <2>3 DEF Descends
    <3>3. \E f \in [E -> Texts] : f = Step[f]
      <4> HIDE DEF Step, n
      <4>1. QED
        BY <1>1, <1>2, <3>1, <3>2, Recursion
    <3>4. QED
      BY <3>3
  <2>5. \A i \in E : g[i] = Node(g, i)
    BY <2>4 DEF g
  <2>6. \A i \in E : g[i] \in Texts
    <3> DEFINE A == {i \in 0 .. n : i # 0 => g[i] \in Texts}
    <3>1. 0 \in A
      BY <1>1
    <3>2. ASSUME NEW k \in 0 .. n, k < n, k \in A
          PROVE  k + 1 \in A
      <4>1. k + 1 \in E /\ (k + 1) - 1 = k
        BY <1>1, <3>2
      <4>2. g[k + 1] = IF k = 0 THEN s[k + 1] ELSE g[k] \o s[k + 1]
        BY <2>5, <4>1 DEF Node
      <4>3. s[k + 1] \in Texts
        BY <1>1, <4>1
      <4> HIDE DEF E, n
      <4>4. g[k + 1] \in Texts
        BY <3>2, <4>2, <4>3, ConcatTexts
      <4>5. QED
        BY <4>1, <4>4 DEF E, n
    <3>3. \A k \in 0 .. n : k \in A
      <4> HIDE DEF A, n
      <4>1. QED
        BY <1>1, <3>1, <3>2, UpTo
    <3>4. QED
      BY <1>1, <3>3
  <2>7. joined \in [0 .. n -> Texts] /\ joined[0] = <<>> /\ joined[n] = g[n]
    BY <1>1, <1>2, <1>4, <2>6
  <2>8. ASSUME NEW i \in E
        PROVE  joined[i] = joined[i - 1] \o s[i]
    <3>1. joined[i] = g[i] /\ (i # 1 => joined[i - 1] = g[i - 1]) /\ (i = 1 => joined[i - 1] = <<>>)
      BY <1>1
    <3>2. g[i] = IF i = 1 THEN s[i] ELSE g[i - 1] \o s[i]
      BY <2>5 DEF Node
    <3>3. s[i] \in Texts /\ <<>> \o s[i] = s[i]
      BY <1>1, ConcatTexts
    <3> HIDE DEF joined, E
    <3>4. QED
      BY <3>1, <3>2, <3>3
  <2> HIDE DEF joined
  <2>9. QED
    BY <2>1, <2>7, <2>8
<1>5. QED
  BY <1>3, <1>4

(* What the parts have, and what keeps to joined parts, the whole has. *)
LEMMA JoinedIn ==
  ASSUME NEW s \in Seq(Texts), NEW A, <<>> \in A,
         \A i \in 1 .. Len(s), a \in A \cap Texts : (i = 1 => a = <<>>) => a \o s[i] \in A
  PROVE  FlattenSeq(s) \in A \cap Texts
<1> DEFINE n == Len(s)
<1>1. PICK f \in [0 .. n -> Texts] :
        /\ f[0] = <<>>
        /\ \A i \in 1 .. n : f[i] = f[i - 1] \o s[i]
        /\ FlattenSeq(s) = f[n]
  BY Joined
<1>2. n \in Nat
  OBVIOUS
<1> DEFINE B == {i \in 0 .. n : f[i] \in A}
<1>3. 0 \in B
  BY <1>1, <1>2
<1>4. ASSUME NEW k \in 0 .. n, k < n, k \in B
      PROVE  k + 1 \in B
  <2>1. k + 1 \in 1 .. n /\ (k + 1) - 1 = k
    BY <1>2, <1>4
  <2>2. f[k + 1] = f[k] \o s[k + 1]
    BY <1>1, <2>1
  <2>3. f[k + 1] \in A
    <3>1. f[k] \in A \cap Texts /\ (k + 1 = 1 => f[k] = <<>>)
      BY <1>1, <1>2, <1>4
    <3>2. QED
      BY <2>1, <2>2, <3>1
  <2>4. QED
    BY <2>1, <2>3
<1>5. n \in B
  <2> HIDE DEF B, n
  <2>1. \A k \in 0 .. n : k \in B
    BY <1>2, <1>3, <1>4, UpTo
  <2>2. QED
    BY <1>2, <2>1
<1>6. QED
  BY <1>1, <1>2, <1>5

-------------------------------------------------------------------------------
(* Quoted tokens *)

EndWalk(t, quote, end) == \A i \in Places(t) : end[i] = EndNode(t, quote, end, i)

(* What a token may contain. *)
Inside(quote) ==
    {s \in Texts : \A t \in Texts : \A p, end :
        At(t, p, s) /\ EndWalk(t, quote, end) => end[p] = end[p + Len(s)]}

(* What may be inside quotes may be so together. *)
LEMMA InsideConcat ==
  ASSUME NEW quote, NEW a \in Inside(quote), NEW b \in Inside(quote)
  PROVE  a \o b \in Inside(quote)
<1>1. a \in Texts /\ b \in Texts
  BY DEF Inside
<1>2. /\ a \o b \in Texts /\ Len(a \o b) = Len(a) + Len(b)
      /\ Len(a) \in Nat /\ Len(b) \in Nat
  BY <1>1, ConcatTexts
<1>3. ASSUME NEW t \in Texts, NEW p, NEW end, At(t, p, a \o b), EndWalk(t, quote, end)
      PROVE  end[p] = end[p + Len(a \o b)]
  <2>1. At(t, p, a) /\ At(t, p + Len(a), b)
    BY <1>1, <1>3, AtConcat
  <2>2. end[p] = end[p + Len(a)] /\ end[p + Len(a)] = end[p + Len(a) + Len(b)]
    BY <1>3, <2>1 DEF Inside
  <2>3. p \in Nat
    BY <2>1 DEF At
  <2>4. p + Len(a) + Len(b) = p + Len(a \o b)
    BY <1>2, <2>3
  <2>5. QED
    BY <2>2, <2>4
<1>4. QED
  BY <1>2, <1>3 DEF Inside

(* Other characters, a doubled quote and an escaped character may be inside
   quotes. *)
LEMMA InsideUnits ==
  ASSUME NEW quote \in Quotes, NEW c \in Characters
  PROVE  /\ <<>> \in Inside(quote)
         /\ c # quote /\ (quote = "tick" \/ c # "slash") => <<c>> \in Inside(quote)
         /\ <<quote, quote>> \in Inside(quote)
         /\ quote # "tick" => <<"slash", c>> \in Inside(quote)
<1>0. quote \in Characters /\ quote # "slash" /\ "slash" \in Characters
  <2>1. quote \in Words /\ "slash" \in Words
    BY DEF Words
  <2>2. QED
    BY <2>1 DEF Quotes, Characters
<1>1. <<>> \in Inside(quote)
  <2>1. ASSUME NEW t \in Texts, NEW p, NEW end, At(t, p, <<>>)
        PROVE  end[p] = end[p + Len(<<>>)]
    BY <2>1, EmptyText, Numbers DEF At
  <2>2. QED
    BY <2>1, EmptyText DEF Inside
<1>2. ASSUME c # quote, quote = "tick" \/ c # "slash"
      PROVE  <<c>> \in Inside(quote)
  <2>1. ASSUME NEW t \in Texts, NEW p, NEW end, At(t, p, <<c>>), EndWalk(t, quote, end)
        PROVE  end[p] = end[p + Len(<<c>>)]
    <3>1. p \in 1 .. Len(t) /\ t[p] = c
      BY <1>0, <2>1, Singles, Numbers DEF At
    <3>2. p \in Places(t) /\ ~(p > Len(t))
      BY <3>1, Numbers
    <3>3. end[p] = EndNode(t, quote, end, p)
      BY <2>1, <3>2 DEF EndWalk
    <3>4. end[p] = end[p + 1]
      BY <1>0, <1>2, <3>1, <3>2, <3>3 DEF EndNode
    <3>5. QED
      BY <1>0, <3>4, Singles
  <2>2. <<c>> \in Texts
    BY <1>0, Singles
  <2>3. QED
    BY <2>1, <2>2 DEF Inside
<1>3. <<quote, quote>> \in Inside(quote)
  <2>1. ASSUME NEW t \in Texts, NEW p, NEW end, At(t, p, <<quote, quote>>), EndWalk(t, quote, end)
        PROVE  end[p] = end[p + Len(<<quote, quote>>)]
    <3>1. p \in 1 .. Len(t) /\ p < Len(t) /\ t[p] = quote /\ t[p + 1] = quote
      BY <1>0, <2>1, Pairs, Numbers DEF At
    <3>2. p \in Places(t) /\ ~(p > Len(t))
      BY <3>1, Numbers
    <3>3. end[p] = EndNode(t, quote, end, p)
      BY <2>1, <3>2 DEF EndWalk
    <3>4. end[p] = end[p + 2]
      BY <1>0, <3>1, <3>2, <3>3 DEF EndNode
    <3>5. QED
      BY <1>0, <3>4, Pairs
  <2>2. <<quote, quote>> \in Texts
    BY <1>0, Pairs
  <2>3. QED
    BY <2>1, <2>2 DEF Inside
<1>4. ASSUME quote # "tick"
      PROVE  <<"slash", c>> \in Inside(quote)
  <2>1. ASSUME NEW t \in Texts, NEW p, NEW end, At(t, p, <<"slash", c>>), EndWalk(t, quote, end)
        PROVE  end[p] = end[p + Len(<<"slash", c>>)]
    <3>1. p \in 1 .. Len(t) /\ t[p] = "slash"
      BY <1>0, <2>1, Pairs, Numbers DEF At
    <3>2. p \in Places(t) /\ ~(p > Len(t))
      BY <3>1, Numbers
    <3>3. end[p] = EndNode(t, quote, end, p)
      BY <2>1, <3>2 DEF EndWalk
    <3>4. end[p] = end[p + 2]
      BY <1>0, <1>4, <3>1, <3>2, <3>3 DEF EndNode
    <3>5. QED
      BY <1>0, <3>4, Pairs
  <2>2. <<"slash", c>> \in Texts
    BY <1>0, Pairs
  <2>3. QED
    BY <2>1, <2>2 DEF Inside
<1>5. QED
  BY <1>1, <1>2, <1>3, <1>4

(* A token ends with its quote, if no other follows it. *)
LEMMA TokenEnds ==
  ASSUME NEW quote \in Quotes, NEW s \in Inside(quote), NEW t \in Texts, NEW p,
         At(t, p, <<quote>> \o s \o <<quote>>),
         p + Len(s) + 2 <= Len(t) => t[p + Len(s) + 2] # quote
  PROVE  QuotedEnd(t, p) = p + Len(s) + 2
<1>0. quote \in Characters /\ quote # "slash"
  BY DEF Quotes, Characters, Words
<1>1. /\ s \in Texts /\ <<quote>> \in Texts /\ Len(<<quote>>) = 1 /\ <<quote>>[1] = quote
      /\ <<quote>> \o s \in Texts /\ Len(<<quote>> \o s) = 1 + Len(s) /\ Len(s) \in Nat
  <2>1. s \in Texts /\ <<quote>> \in Texts /\ Len(<<quote>>) = 1 /\ <<quote>>[1] = quote
    BY <1>0, Singles DEF Inside
  <2>2. QED
    BY <2>1, ConcatTexts
<1>2. /\ At(t, p, <<quote>>) /\ At(t, p + 1, s) /\ At(t, p + (1 + Len(s)), <<quote>>)
  BY <1>1, AtConcat
<1>3. /\ p \in 1 .. Len(t) /\ t[p] = quote /\ Len(t) \in Nat
      /\ p + 1 + Len(s) \in 1 .. Len(t) /\ t[p + 1 + Len(s)] = quote
  BY <1>1, <1>2, Numbers DEF At
<1>4. PICK end \in [Places(t) -> Places(t)] :
        /\ \A i \in Places(t) : end[i] = EndNode(t, t[p], end, i)
        /\ QuotedEnd(t, p) = end[p + 1]
  BY <1>3, QuotedScan
<1>5. end[p + 1] = end[p + 1 + Len(s)]
  <2>1. EndWalk(t, quote, end)
    BY <1>3, <1>4 DEF EndWalk
  <2>2. \A r, e : At(t, r, s) /\ EndWalk(t, quote, e) => e[r] = e[r + Len(s)]
    BY DEF Inside
  <2>3. QED
    BY <1>2, <2>1, <2>2
<1>6. end[p + 1 + Len(s)] = p + Len(s) + 2
  <2> DEFINE i == p + 1 + Len(s)
  <2>0. p \in Nat /\ Len(t) \in Nat /\ Len(s) \in Nat /\ i \in 1 .. Len(t)
    BY <1>1, <1>3
  <2>1. /\ i \in Places(t) /\ i <= Len(t) /\ i + 1 = p + Len(s) + 2
        /\ ~(i > Len(t)) /\ (i < Len(t) => p + Len(s) + 2 <= Len(t))
    BY <2>0, Numbers
  <2>2. ~(i < Len(t) /\ t[i + 1] = quote)
    BY <2>1
  <2> HIDE DEF i
  <2>3. end[i] = i + 1
    BY <1>0, <1>3, <1>4, <2>1, <2>2 DEF EndNode, i
  <2>4. QED
    BY <2>1, <2>3 DEF i
<1>7. QED
  BY <1>4, <1>5, <1>6

-------------------------------------------------------------------------------
(* What a search passes *)

(* F is the same behind a token, and behind a character that is none of S. *)
Walk(t, Q, S, F) ==
    \A i \in 1 .. Len(t) :
        /\ t[i] \in Q => F[i] = F[QuotedEnd(t, i)]
        /\ t[i] \notin Q \cup S => F[i] = F[i + 1]

Clear(t, p) == p <= Len(t) => t[p] \notin Quotes

Passed(Q, S) ==
    {s \in Texts : \A t \in Texts : \A p, F :
        At(t, p, s) /\ Walk(t, Q, S, F) /\ Clear(t, p + Len(s)) => F[p] = F[p + Len(s)]}

Plain(S) == {w \in Texts : \A k \in 1 .. Len(w) : w[k] \notin Quotes \cup S}

(* A search passes a part, by definition, *)
LEMMA PassedOver ==
  ASSUME NEW Q, NEW S, NEW s \in Passed(Q, S), NEW t \in Texts, NEW p, NEW F,
         At(t, p, s), Walk(t, Q, S, F), Clear(t, p + Len(s))
  PROVE  F[p] = F[p + Len(s)]
BY DEF Passed

(* and plain words whatever follows them. *)
LEMMA PlainPassedOver ==
  ASSUME NEW Q \in SUBSET Quotes, NEW S, NEW w \in Plain(S), NEW t \in Texts, NEW p,
         NEW F, At(t, p, w), Walk(t, Q, S, F)
  PROVE  F[p] = F[p + Len(w)]
<1> DEFINE n == Len(w)
           A == {k \in 0 .. n : F[p] = F[p + k]}
<1>1. /\ w \in Texts /\ n \in Nat /\ Len(t) \in Nat
      /\ p \in Nat \ {0} /\ p + n <= Len(t) + 1
      /\ \A k \in 1 .. n : t[p + k - 1] = w[k] /\ w[k] \notin Quotes \cup S
  <2>1. w \in Texts /\ \A k \in 1 .. n : w[k] \notin Quotes \cup S
    BY DEF Plain
  <2>2. QED
    BY <2>1, Numbers DEF At
<1>2. 0 \in A
  BY <1>1
<1>3. ASSUME NEW k \in 0 .. n, k < n, k \in A
      PROVE  k + 1 \in A
  <2>1. /\ k + 1 \in 1 .. n /\ p + (k + 1) - 1 = p + k /\ p + k \in 1 .. Len(t)
        /\ (p + k) + 1 = p + (k + 1)
    BY <1>1, <1>3
  <2>2. t[p + k] \notin Quotes \cup S
    BY <1>1, <2>1
  <2>3. F[p + k] = F[(p + k) + 1]
    BY <2>1, <2>2 DEF Walk
  <2>4. QED
    BY <1>3, <2>1, <2>3
<1>4. n \in A
  <2> HIDE DEF A, n
  <2>1. \A k \in 0 .. n : k \in A
    BY <1>1, <1>2, <1>3, UpTo
  <2>2. QED
    BY <1>1, <2>1
<1>5. QED
  BY <1>4

(* It passes nothing at all, *)
LEMMA EmptyPassed ==
  ASSUME NEW Q, NEW S
  PROVE  <<>> \in Passed(Q, S)
<1>1. ASSUME NEW t \in Texts, NEW p, NEW F, At(t, p, <<>>)
      PROVE  F[p] = F[p + Len(<<>>)]
  BY <1>1, EmptyText, Numbers DEF At
<1>2. QED
  BY <1>1, EmptyText DEF Passed

(* a quoted token, *)
LEMMA TokenPassed ==
  ASSUME NEW Q \in SUBSET Quotes, NEW S, NEW quote \in Q, NEW s \in Inside(quote)
  PROVE  <<quote>> \o s \o <<quote>> \in Passed(Q, S)
<1> DEFINE token == <<quote>> \o s \o <<quote>>
<1>1. /\ s \in Texts /\ <<quote>> \in Texts /\ Len(<<quote>>) = 1 /\ <<quote>>[1] = quote
      /\ quote \in Quotes
  <2>1. quote \in Quotes /\ quote \in Characters /\ s \in Texts
    BY DEF Characters, Words, Inside
  <2>2. QED
    BY <2>1, Singles
<1>2. /\ <<quote>> \o s \in Texts /\ Len(<<quote>> \o s) = 1 + Len(s) /\ Len(s) \in Nat
      /\ token \in Texts /\ Len(token) = Len(s) + 2
  <2>1. /\ <<quote>> \o s \in Texts /\ Len(<<quote>> \o s) = 1 + Len(s) /\ Len(s) \in Nat
    BY <1>1, ConcatTexts
  <2>2. token \in Texts /\ Len(token) = (1 + Len(s)) + 1
    BY <1>1, <2>1, ConcatTexts
  <2>3. QED
    BY <2>1, <2>2
<1>3. ASSUME NEW t \in Texts, NEW p, NEW F, At(t, p, token), Walk(t, Q, S, F),
             Clear(t, p + Len(token))
      PROVE  F[p] = F[p + Len(token)]
  <2>1. At(t, p, <<quote>>) /\ p \in Nat
    BY <1>1, <1>2, <1>3, AtConcat DEF At
  <2>2. p \in 1 .. Len(t) /\ t[p] = quote
    BY <1>1, <2>1, Numbers DEF At
  <2>3. p + Len(s) + 2 = p + Len(token)
    BY <1>2, <2>1
  <2>4. QuotedEnd(t, p) = p + Len(token)
    <3>1. p + Len(s) + 2 <= Len(t) => t[p + Len(s) + 2] # quote
      BY <1>1, <1>3, <2>3 DEF Clear
    <3>2. QED
      BY <1>1, <1>3, <2>3, <3>1, TokenEnds
  <2>5. QED
    BY <1>3, <2>2, <2>4 DEF Walk
<1>4. QED
  <2> HIDE DEF token
  <2>1. token \in Passed(Q, S)
    BY <1>2, <1>3 DEF Passed
  <2>2. QED
    BY <2>1 DEF token

(* Plain words separate what is passed. *)
LEMMA WordsPassed ==
  ASSUME NEW Q \in SUBSET Quotes, NEW S, NEW a \in Passed(Q, S), NEW b \in Passed(Q, S),
         NEW w \in Plain(S), w # <<>>
  PROVE  a \o w \o b \in Passed(Q, S)
<1> DEFINE aw == a \o w
           s == aw \o b
<1>1. a \in Texts /\ b \in Texts /\ w \in Texts /\ Len(w) \in Nat \ {0}
  <2>1. a \in Texts /\ b \in Texts /\ w \in Texts
    BY DEF Passed, Plain
  <2>2. QED
    BY <2>1, EmptySeq, Numbers DEF Texts
<1>2. /\ aw \in Texts /\ Len(aw) = Len(a) + Len(w) /\ Len(a) \in Nat
      /\ s \in Texts /\ Len(s) = Len(aw) + Len(b) /\ Len(b) \in Nat
  BY <1>1, ConcatTexts
<1>3. ASSUME NEW t \in Texts, NEW p, NEW F, At(t, p, s), Walk(t, Q, S, F),
             Clear(t, p + Len(s))
      PROVE  F[p] = F[p + Len(s)]
  <2>1. At(t, p, aw) /\ At(t, p + Len(aw), b)
    BY <1>1, <1>2, <1>3, AtConcat
  <2>2. At(t, p, a) /\ At(t, p + Len(a), w) /\ p \in Nat
    <3>1. At(t, p, a) /\ At(t, p + Len(a), w)
      BY <1>1, <2>1, AtConcat
    <3>2. QED
      BY <2>1, <3>1 DEF At
  <2> HIDE DEF aw, s
  <2>3. p + Len(a) + Len(w) = p + Len(aw) /\ p + Len(aw) + Len(b) = p + Len(s)
    BY <1>1, <1>2, <2>2
  <2>4. Clear(t, p + Len(a))
    <3>1. t[p + Len(a)] = w[1]
      <4>1. 1 \in 1 .. Len(w) /\ p + Len(a) + 1 - 1 = p + Len(a)
        BY <1>1, <1>2, <2>2
      <4>2. QED
        BY <2>2, <4>1 DEF At
    <3>2. w[1] \notin Quotes
      BY <1>1 DEF Plain
    <3>3. QED
      BY <3>1, <3>2 DEF Clear
  <2>5. F[p] = F[p + Len(a)]
    BY <1>3, <2>2, <2>4 DEF Passed
  <2>6. F[p + Len(a)] = F[p + Len(aw)]
    BY <1>3, <2>2, <2>3, PlainPassedOver
  <2>7. F[p + Len(aw)] = F[p + Len(s)]
    BY <1>3, <2>1, <2>3, PassedOver
  <2>8. QED
    BY <2>5, <2>6, <2>7
<1>4. QED
  <2> HIDE DEF s
  <2>1. s \in Passed(Q, S)
    BY <1>2, <1>3 DEF Passed
  <2>2. QED
    BY <2>1 DEF s

Separator == <<",", " ">>

(* and a list of parts that it passes. *)
LEMMA SeparatedPassed ==
  ASSUME NEW Q \in SUBSET Quotes, NEW S, Separator \in Plain(S),
         NEW items \in Seq(Texts), \A i \in 1 .. Len(items) : items[i] \in Passed(Q, S)
  PROVE  Separated(items) \in Passed(Q, S)
<1> DEFINE s == [i \in 1 .. Len(items) |-> IF i = 1 THEN items[i] ELSE Separator \o items[i]]
           A == Passed(Q, S)
<1>1. Separator \in Texts /\ Separator # <<>>
  BY DEF Separator, Plain
<1>2. s \in Seq(Texts) /\ Len(s) = Len(items)
  <2>1. \A i \in 1 .. Len(items) : items[i] \in Texts /\ Separator \o items[i] \in Texts
    BY <1>1, ConcatTexts
  <2>2. Len(items) \in Nat
    OBVIOUS
  <2>3. QED
    BY <2>1, <2>2
<1>3. ASSUME NEW i \in 1 .. Len(s), NEW a \in A \cap Texts, i = 1 => a = <<>>
      PROVE  a \o s[i] \in A
  <2>1. i \in 1 .. Len(items) /\ items[i] \in A /\ items[i] \in Texts
    BY <1>2
  <2>2. CASE i = 1
    <3>1. a \o s[i] = items[i]
      BY <1>3, <2>1, <2>2, ConcatTexts
    <3>2. QED
      BY <2>1, <3>1
  <2>3. CASE i # 1
    <3>1. s[i] = Separator \o items[i]
      BY <2>1, <2>3
    <3>2. a \o (Separator \o items[i]) = a \o Separator \o items[i]
      BY <1>1, <1>3, <2>1, Associative
    <3>3. a \o Separator \o items[i] \in A
      BY <1>1, <2>1, WordsPassed
    <3>4. QED
      BY <3>1, <3>2, <3>3
  <2>4. QED
    BY <2>2, <2>3
<1>4. FlattenSeq(s) \in A
  <2>1. <<>> \in A
    BY EmptyPassed
  <2> HIDE DEF s, A
  <2>2. QED
    BY <1>2, <1>3, <2>1, JoinedIn
<1>5. QED
  BY <1>4 DEF Separated, Separator

-------------------------------------------------------------------------------
(* The searches of the parser *)

Search(t, Q, S, find) ==
    /\ Walk(t, Q, S, find)
    /\ \A i \in 1 .. Len(t) : t[i] \in S \ Q => find[i] = i
    /\ find[Len(t) + 1] = Len(t) + 1
    /\ \A i \in Places(t) : FindOutside(t, i, Q, S) = find[i]

(* A search, as a function of where it starts. *)
LEMMA Finds ==
  ASSUME NEW t \in Texts, NEW Q, NEW S
  PROVE  \E find : Search(t, Q, S, find)
<1>1. PICK find \in [Places(t) -> Places(t)] :
        \A i \in Places(t) :
           /\ find[i] = FindNode(t, Q, S, find, i)
           /\ find[i] >= i
           /\ FindOutside(t, i, Q, S) = find[i]
  BY FindScan
<1>2. ASSUME NEW i \in 1 .. Len(t)
      PROVE  /\ t[i] \in Q => find[i] = find[QuotedEnd(t, i)]
             /\ t[i] \notin Q \cup S => find[i] = find[i + 1]
             /\ t[i] \in S \ Q => find[i] = i
  <2>1. i \in Places(t) /\ ~(i > Len(t))
    BY Numbers
  <2>2. find[i] = FindNode(t, Q, S, find, i)
    BY <1>1, <2>1
  <2>3. QED
    BY <2>1, <2>2 DEF FindNode
<1>3. find[Len(t) + 1] = Len(t) + 1
  <2>1. Len(t) + 1 \in Places(t) /\ Len(t) + 1 > Len(t)
    BY Numbers
  <2>2. QED
    BY <1>1, <2>1 DEF FindNode
<1>4. Walk(t, Q, S, find)
  BY <1>2 DEF Walk
<1>5. Search(t, Q, S, find)
  BY <1>1, <1>2, <1>3, <1>4 DEF Search
<1>6. QED
  BY <1>5

(* Skipping characters stops at the first other one. *)
LEMMA Skips ==
  ASSUME NEW t \in Texts, NEW i \in Places(t), NEW characters
  PROVE  /\ SkipOver(t, i, characters) \in Places(t)
         /\ SkipOver(t, i, characters) >= i
         /\ i <= Len(t) /\ t[i] \in characters =>
              SkipOver(t, i, characters) = SkipOver(t, i + 1, characters)
         /\ (i <= Len(t) => t[i] \notin characters) => SkipOver(t, i, characters) = i
<1>1. PICK skip \in [Places(t) -> Places(t)] :
        \A j \in Places(t) :
           /\ skip[j] = SkipNode(t, characters, skip, j)
           /\ skip[j] >= j
           /\ SkipOver(t, j, characters) = skip[j]
  BY SkipScan
<1>2. i <= Len(t) => i + 1 \in Places(t)
  BY Numbers
<1>3. QED
  BY <1>1, <1>2 DEF SkipNode

Opening == "("
Closing == ")"
Parentheses == {Opening, Closing}

(* Parentheses are no quotes. *)
LEMMA AboutParentheses ==
  /\ Opening \in Characters /\ Closing \in Characters /\ Opening # Closing
  /\ Opening \notin Quotes /\ Closing \notin Quotes
BY DEF Opening, Closing, Quotes, Characters, Words

Parenthesized(s) == <<Opening>> \o s \o <<Closing>>

(* Where the parts of a parenthesized text are. *)
LEMMA ParenthesesAt ==
  ASSUME NEW t \in Texts, NEW s \in Texts, NEW open, At(t, open, Parenthesized(s))
  PROVE  /\ At(t, open + 1, s)
         /\ Len(s) \in Nat /\ Len(t) \in Nat /\ open \in Nat \ {0}
         /\ open + 1 + Len(s) <= Len(t)
         /\ t[open] = Opening /\ t[open + 1 + Len(s)] = Closing
         /\ Parenthesized(s) \in Texts /\ Len(Parenthesized(s)) = 2 + Len(s)
<1> DEFINE a == <<Opening>>
           b == <<Closing>>
<1>1. /\ a \in Texts /\ Len(a) = 1 /\ a[1] = Opening
      /\ b \in Texts /\ Len(b) = 1 /\ b[1] = Closing
  BY Singles, AboutParentheses
<1> HIDE DEF a, b
<1>2. /\ a \o s \in Texts /\ Len(a \o s) = 1 + Len(s) /\ Len(s) \in Nat
  <2>1. a \o s \in Texts /\ Len(a \o s) = Len(a) + Len(s) /\ Len(s) \in Nat
    BY <1>1, ConcatTexts
  <2>2. QED
    BY <1>1, <2>1
<1>3. /\ a \o s \o b \in Texts /\ Len(a \o s \o b) = 1 + Len(s) + 1
  BY <1>1, <1>2, ConcatTexts
<1>4. Parenthesized(s) = a \o s \o b
  BY DEF Parenthesized, a, b
<1>5. /\ At(t, open, a) /\ At(t, open + 1, s) /\ At(t, open + (1 + Len(s)), b)
  <2>1. At(t, open, a \o s \o b)
    BY <1>4
  <2>2. At(t, open, a \o s) /\ At(t, open + Len(a \o s), b)
    BY <1>1, <1>2, <2>1, AtConcat
  <2>3. At(t, open, a) /\ At(t, open + Len(a), s)
    BY <1>1, <2>2, AtConcat
  <2>4. QED
    BY <1>1, <1>2, <2>2, <2>3
<1>6. Len(t) \in Nat /\ open \in 1 .. Len(t) /\ t[open] = Opening
  BY <1>1, <1>5, Numbers DEF At
<1>7. open + (1 + Len(s)) \in 1 .. Len(t) /\ t[open + (1 + Len(s))] = Closing
  <2> DEFINE j == open + (1 + Len(s))
  <2>1. j \in Nat
    BY <1>2, <1>6
  <2>2. At(t, j, b)
    BY <1>5
  <2> HIDE DEF j
  <2>3. j \in 1 .. Len(t) /\ t[j] = Closing
    BY <1>1, <1>6, <2>1, <2>2 DEF At
  <2>4. QED
    BY <2>3 DEF j
<1>8. open + (1 + Len(s)) = open + 1 + Len(s)
  BY <1>2, <1>6
<1>9. QED
  BY <1>2, <1>3, <1>4, <1>5, <1>6, <1>7, <1>8

(* The places of the characters of a text. *)
LEMMA Within ==
  ASSUME NEW t \in Texts, NEW i \in 1 .. Len(t)
  PROVE  i \in Places(t) /\ i + 1 \in Places(t) /\ ~(i > Len(t))
BY Numbers

Closes(t, close) ==
    /\ close \in [Places(t) -> [Nat \ {0} -> Places(t)]]
    /\ \A i \in Places(t) : close[i] = CloseNode(t, close, i)

(* A clause closes behind what has no parenthesis in it. *)
LEMMA ClauseCloses ==
  ASSUME NEW t \in Texts, NEW close, Closes(t, close),
         NEW s \in Passed(Quotes, Parentheses), NEW from \in 1 .. Len(t), NEW end \in 1 .. Len(t),
         At(t, from, s), from + Len(s) = end, t[end] = Closing
  PROVE  close[from][1] = end
<1> DEFINE F == [i \in Places(t) |-> close[i][1]]
<1>1. \A i \in 1 .. Len(t) : i \in Places(t) /\ i + 1 \in Places(t) /\ ~(i > Len(t))
  BY Within
<1>2. Walk(t, Quotes, Parentheses, F)
  <2>1. ASSUME NEW i \in 1 .. Len(t)
        PROVE  /\ t[i] \in Quotes => F[i] = F[QuotedEnd(t, i)]
               /\ t[i] \notin Quotes \cup Parentheses => F[i] = F[i + 1]
    <3>1. QuotedEnd(t, i) \in Places(t)
      BY QuotedEnds
    <3>2. /\ F[i] = close[i][1] /\ F[i + 1] = close[i + 1][1]
          /\ F[QuotedEnd(t, i)] = close[QuotedEnd(t, i)][1]
      BY <1>1, <3>1
    <3>3. close[i] = CloseNode(t, close, i)
      BY <1>1 DEF Closes
    <3> HIDE DEF F
    <3>4. close[i][1] = IF t[i] \in Quotes THEN close[QuotedEnd(t, i)][1]
                        ELSE IF t[i] = Opening THEN close[i + 1][1 + 1]
                        ELSE IF t[i] # Closing THEN close[i + 1][1]
                        ELSE i
      BY <1>1, <3>3 DEF CloseNode, Opening, Closing
    <3>5. QED
      BY <3>2, <3>4 DEF Parentheses
  <2> HIDE DEF F
  <2>2. QED
    BY <2>1 DEF Walk
<1>3. F[from] = close[from][1] /\ F[end] = close[end][1]
  BY <1>1
<1> HIDE DEF F
<1>4. F[from] = F[end]
  <2>1. t[end] \notin Quotes
    BY AboutParentheses
  <2>2. Clear(t, from + Len(s))
    BY <2>1 DEF Clear
  <2>3. \A p : At(t, p, s) /\ Clear(t, p + Len(s)) => F[p] = F[p + Len(s)]
    BY <1>2, PassedOver
  <2>4. QED
    BY <2>2, <2>3
<1>5. close[end][1] = end
  <2>1. close[end] = CloseNode(t, close, end) /\ ~(end > Len(t))
    BY <1>1 DEF Closes
  <2>2. t[end] # Opening /\ t[end] \notin Quotes
    BY AboutParentheses
  <2>3. QED
    BY <2>1, <2>2 DEF CloseNode, Opening, Closing
<1>6. QED
  BY <1>3, <1>4, <1>5

(* A clause is read to its end, if nothing in it is a parenthesis. *)
LEMMA ClauseRead ==
  ASSUME NEW t \in Texts, NEW start \in Places(t), NEW s \in Passed(Quotes, Parentheses),
         At(t, SkipSpace(t, start), Parenthesized(s))
  PROVE  Clause(t, start) = {s}
<1>1. PICK close : /\ Closes(t, close)
                   /\ Clause(t, start) = Content(t, close, SkipSpace(t, start))
  BY CloseScan DEF Closes
<1> DEFINE open == SkipSpace(t, start)
           from == open + 1
           end == from + Len(s)
<1>2. s \in Texts
  BY DEF Passed
<1>3. /\ At(t, from, s)
      /\ Len(s) \in Nat /\ Len(t) \in Nat /\ open \in Nat \ {0}
      /\ end <= Len(t)
      /\ t[open] = Opening /\ t[end] = Closing
  BY <1>2, ParenthesesAt
<1>4. /\ end - 1 = from + Len(s) - 1
      /\ from \in 1 .. Len(t) /\ end \in 1 .. Len(t) /\ ~(end > Len(t)) /\ ~(open > Len(t))
  <2> HIDE DEF open
  <2>1. QED
    BY <1>3
<1>5. close[from][1] = end
  <2>1. from + Len(s) = end
    OBVIOUS
  <2> HIDE DEF from, end
  <2>2. QED
    BY <1>1, <1>3, <1>4, <2>1, ClauseCloses
<1>6. SubSeq(t, from, end - 1) = s
  <2>1. \A q : At(t, q, s) => SubSeq(t, q, q + Len(s) - 1) = s
    BY <1>2, AtCut
  <2>2. At(t, from, s) /\ end - 1 = from + Len(s) - 1
    BY <1>3, <1>4
  <2> HIDE DEF from, end
  <2>3. QED
    BY <2>1, <2>2
<1>7. Content(t, close, open) = {s}
  <2>1. t[open] = "("
    BY <1>3 DEF Opening
  <2>2. close[open + 1][1] = end
    BY <1>5
  <2>3. SubSeq(t, open + 1, end - 1) = s
    BY <1>6
  <2> HIDE DEF open, end
  <2>4. QED
    BY <1>4, <2>1, <2>2, <2>3 DEF Content
<1>8. QED
  BY <1>1, <1>7

-------------------------------------------------------------------------------
(* The key columns are read back *)

(* Where the parts of a joined text are. *)
PartsAt(t, p, s, m) ==
    /\ m \in [0 .. Len(s) -> 1 .. Len(t) + 1]
    /\ m[0] = p /\ m[Len(s)] = p + Len(FlattenSeq(s))
    /\ \A i \in 1 .. Len(s) : At(t, m[i - 1], s[i]) /\ m[i] = m[i - 1] + Len(s[i])

(* The parts of a joined text are one behind the other. *)
LEMMA JoinedAt ==
  ASSUME NEW t \in Texts, NEW p, NEW s \in Seq(Texts), At(t, p, FlattenSeq(s))
  PROVE  \E m : PartsAt(t, p, s, m)
<1> DEFINE n == Len(s)
<1>1. PICK f \in [0 .. n -> Texts] :
        /\ f[0] = <<>>
        /\ \A i \in 1 .. n : f[i] = f[i - 1] \o s[i]
        /\ FlattenSeq(s) = f[n]
  BY Joined
<1>2. n \in Nat /\ \A i \in 1 .. n : s[i] \in Texts
  OBVIOUS
<1> DEFINE B == {k \in 0 .. n : At(t, p, f[n - k])}
           m == [i \in 0 .. n |-> p + Len(f[i])]
<1>3. 0 \in B
  <2>1. n - 0 = n /\ 0 \in 0 .. n
    BY <1>2
  <2>2. QED
    BY <1>1, <2>1
<1>4. \A i \in 1 .. n : At(t, p, f[i]) => At(t, p, f[i - 1]) /\ At(t, p + Len(f[i - 1]), s[i])
  <2>1. ASSUME NEW i \in 1 .. n
        PROVE  i - 1 \in 0 .. n /\ f[i - 1] \in Texts /\ s[i] \in Texts /\ f[i] = f[i - 1] \o s[i]
    BY <1>1, <1>2
  <2>2. \A a, b \in Texts : At(t, p, a \o b) => At(t, p, a) /\ At(t, p + Len(a), b)
    BY AtConcat
  <2>3. QED
    BY <2>1, <2>2
<1>5. ASSUME NEW k \in 0 .. n, k < n, k \in B
      PROVE  k + 1 \in B
  <2>1. n - k \in 1 .. n /\ (n - k) - 1 = n - (k + 1) /\ k + 1 \in 0 .. n
    BY <1>2, <1>5
  <2>2. QED
    BY <1>4, <1>5, <2>1
<1>6. \A i \in 0 .. n : At(t, p, f[i])
  <2>1. \A k \in 0 .. n : k \in B
    <3> HIDE DEF B, n
    <3>1. QED
      BY <1>2, <1>3, <1>5, UpTo
  <2>2. \A i \in 0 .. n : n - i \in 0 .. n /\ n - (n - i) = i
    BY <1>2
  <2>3. QED
    BY <2>1, <2>2
<1>7. \A i \in 0 .. n : Len(f[i]) \in Nat /\ m[i] \in 1 .. Len(t) + 1 /\ m[i] = p + Len(f[i])
  <2>1. ASSUME NEW i \in 0 .. n
        PROVE  Len(f[i]) \in Nat /\ m[i] \in 1 .. Len(t) + 1 /\ m[i] = p + Len(f[i])
    <3>1. f[i] \in Texts /\ At(t, p, f[i])
      BY <1>1, <1>6
    <3>2. Len(f[i]) \in Nat /\ Len(t) \in Nat
      BY <3>1, Numbers
    <3>3. m[i] = p + Len(f[i])
      OBVIOUS
    <3> HIDE DEF m
    <3>4. QED
      BY <3>1, <3>2, <3>3 DEF At
  <2>2. QED
    BY <2>1
<1>8. p \in Nat
  BY <1>2, <1>6 DEF At
<1>9. ASSUME NEW i \in 1 .. n
      PROVE  At(t, m[i - 1], s[i]) /\ m[i] = m[i - 1] + Len(s[i])
  <2>1. i - 1 \in 0 .. n /\ i \in 0 .. n
    BY <1>2
  <2>2. f[i - 1] \in Texts /\ s[i] \in Texts /\ f[i] = f[i - 1] \o s[i]
    BY <1>1, <1>2, <2>1
  <2>3. Len(f[i]) = Len(f[i - 1]) + Len(s[i]) /\ Len(f[i - 1]) \in Nat /\ Len(s[i]) \in Nat
    BY <2>2, ConcatTexts
  <2>4. m[i] = p + Len(f[i]) /\ m[i - 1] = p + Len(f[i - 1])
    BY <1>7, <2>1
  <2>5. At(t, m[i - 1], s[i])
    BY <1>4, <1>6, <2>1, <2>4
  <2> HIDE DEF m
  <2>6. QED
    BY <1>8, <2>3, <2>4, <2>5
<1>10. m[0] = p /\ m[n] = p + Len(FlattenSeq(s))
  <2>1. m[0] = p + 0
    BY <1>1, <1>2, EmptyText
  <2>2. QED
    BY <1>1, <1>2, <1>8, <2>1
<1>11. m \in [0 .. n -> 1 .. Len(t) + 1]
  BY <1>7
<1>12. PartsAt(t, p, s, m)
  <2> HIDE DEF m
  <2>1. QED
    BY <1>9, <1>10, <1>11 DEF PartsAt
<1>13. QED
  BY <1>12

(* A cut from the start grows by one character at a time. *)
LEMMA CutGrows ==
  ASSUME NEW S, NEW s \in Seq(S)
  PROVE  /\ SubSeq(s, 1, 0) = <<>> /\ SubSeq(s, 1, Len(s)) = s
         /\ \A i \in 0 .. Len(s) : SubSeq(s, 1, i) \in Seq(S)
         /\ \A i \in 0 .. Len(s) : i < Len(s) =>
              SubSeq(s, 1, i) \o <<s[i + 1]>> = SubSeq(s, 1, i + 1)
<1>1. Len(s) \in Nat /\ \A i \in 1 .. Len(s) : s[i] \in S
  OBVIOUS
<1> DEFINE c(i) == SubSeq(s, 1, i)
<1>2. ASSUME NEW i \in 0 .. Len(s)
      PROVE  c(i) \in Seq(S) /\ Len(c(i)) = i /\ \A j \in 1 .. i : c(i)[j] = s[j]
  <2>1. /\ i \in Int /\ 1 \in Int /\ \A j \in 1 .. i : s[j] \in S
        /\ i - 1 + 1 = i /\ \A j \in 1 .. i : 1 + j - 1 = j
        /\ (IF 1 <= i THEN i - 1 + 1 ELSE 0) = i
    BY <1>1
  <2>2. /\ c(i) \in Seq(S) /\ Len(c(i)) = IF 1 <= i THEN i - 1 + 1 ELSE 0
        /\ \A j \in 1 .. i - 1 + 1 : c(i)[j] = s[1 + j - 1]
    BY <2>1, SubSeqProperties
  <2> HIDE DEF c
  <2>3. QED
    BY <2>1, <2>2
<1> HIDE DEF c
<1>3. c(0) = <<>>
  BY <1>1, <1>2, EmptySeq
<1>4. c(Len(s)) = s
  <2>1. Len(s) \in 0 .. Len(s)
    BY <1>1
  <2>2. QED
    BY <1>2, <2>1, SeqEqual
<1>5. ASSUME NEW i \in 0 .. Len(s), i < Len(s)
      PROVE  c(i) \o <<s[i + 1]>> = c(i + 1)
  <2> DEFINE a == c(i)
             b == <<s[i + 1]>>
             cb == a \o b
  <2>1. i + 1 \in 0 .. Len(s) /\ s[i + 1] \in S
    BY <1>1, <1>5
  <2>2. b \in Seq(S) /\ Len(b) = 1 /\ b[1] = s[i + 1]
    BY <2>1
  <2>0. a \in Seq(S) /\ Len(a) = i /\ \A j \in 1 .. i : a[j] = s[j]
    BY <1>2
  <2> HIDE DEF a, b
  <2>3. /\ cb \in Seq(S) /\ Len(cb) = Len(a) + Len(b)
        /\ \A j \in 1 .. Len(a) : cb[j] = a[j]
        /\ \A j \in 1 .. Len(b) : cb[Len(a) + j] = b[j]
    <3>1. a \in Seq(S) /\ b \in Seq(S)
      BY <2>0, <2>2
    <3>2. QED
      BY <3>1, ConcatProperties
  <2> HIDE DEF cb
  <2>4. /\ Len(cb) = i + 1 /\ \A j \in 1 .. i : cb[j] = s[j]
        /\ cb[i + 1] = s[i + 1]
    BY <2>0, <2>2, <2>3
  <2>5. c(i + 1) \in Seq(S) /\ Len(c(i + 1)) = i + 1 /\ \A j \in 1 .. i + 1 : c(i + 1)[j] = s[j]
    BY <1>2, <2>1
  <2>6. \A j \in 1 .. i + 1 : cb[j] = c(i + 1)[j]
    <3>1. \A j \in 1 .. i + 1 : j \in 1 .. i \/ j = i + 1
      OBVIOUS
    <3>2. i + 1 \in 1 .. i + 1
      OBVIOUS
    <3>3. QED
      BY <2>4, <2>5, <3>1, <3>2
  <2>7. cb = c(i + 1)
    BY <2>3, <2>4, <2>5, <2>6, SeqEqual
  <2>8. QED
    BY <2>7 DEF cb, a, b
<1>6. QED
  BY <1>2, <1>3, <1>4, <1>5 DEF c

Tick == "tick"
Unit(c) == IF c = Tick THEN <<Tick, Tick>> ELSE <<c>>

(* A backtick is a quote. *)
LEMMA AboutTicks == Tick \in Quotes /\ Tick \in Characters
BY DEF Tick, Quotes, Characters, Words

(* What a character of a name becomes in an identifier. *)
LEMMA Units ==
  ASSUME NEW c \in Characters
  PROVE  /\ Unit(c) \in Texts /\ Unit(c) \in Inside(Tick)
         /\ Len(Unit(c)) \in {1, 2} /\ Unit(c)[1] = c
         /\ c = Tick <=> Len(Unit(c)) = 2
         /\ c = Tick => Unit(c)[2] = c
<1>1. /\ <<Tick, Tick>> \in Inside(Tick)
      /\ c # Tick => <<c>> \in Inside(Tick)
  BY AboutTicks, InsideUnits DEF Tick
<1>2. CASE c = Tick
  <2>1. Unit(c) = <<Tick, Tick>>
    BY <1>2 DEF Unit
  <2>2. /\ <<Tick, Tick>> \in Texts /\ Len(<<Tick, Tick>>) = 2
        /\ <<Tick, Tick>>[1] = Tick /\ <<Tick, Tick>>[2] = Tick
    BY AboutTicks, Pairs
  <2>3. QED
    BY <1>1, <1>2, <2>1, <2>2
<1>3. CASE c # Tick
  <2>1. Unit(c) = <<c>>
    BY <1>3 DEF Unit
  <2>2. <<c>> \in Texts /\ Len(<<c>>) = 1 /\ <<c>>[1] = c
    BY Singles
  <2>3. QED
    BY <1>1, <1>3, <2>1, <2>2
<1>4. QED
  BY <1>2, <1>3

(* An escaped name fits into backticks, and unescaped it is the name. *)
LEMMA DoubledRead ==
  ASSUME NEW name \in Texts
  PROVE  /\ Doubled(name) \in Texts /\ Doubled(name) \in Inside(Tick)
         /\ Undouble(Doubled(name), Tick) = name
         /\ name # <<>> => Len(Doubled(name)) > 0
<1> DEFINE n == Len(name)
           s == [i \in 1 .. n |-> Unit(name[i])]
           d == FlattenSeq(s)
<1>1. n \in Nat /\ \A i \in 1 .. n : name[i] \in Characters
  BY DEF Texts
<1>2. s \in Seq(Texts) /\ Len(s) = n /\ \A i \in 1 .. n : s[i] = Unit(name[i])
  <2>1. \A i \in 1 .. n : Unit(name[i]) \in Texts
    BY <1>1, Units
  <2>2. QED
    BY <1>1, <2>1
<1>3. Doubled(name) = d
  BY DEF Doubled, Unit, Tick
<1> HIDE DEF s
<1>4. d \in Texts /\ d \in Inside(Tick)
  <2> DEFINE A == Inside(Tick)
  <2>1. \A i \in 1 .. Len(s) : s[i] \in A
    BY <1>1, <1>2, Units
  <2>2. <<>> \in A
    BY AboutTicks, InsideUnits
  <2>3. ASSUME NEW i \in 1 .. Len(s), NEW a \in A \cap Texts
        PROVE  a \o s[i] \in A
    BY <2>1, InsideConcat
  <2> HIDE DEF A
  <2>4. FlattenSeq(s) \in A \cap Texts
    BY <1>2, <2>2, <2>3, JoinedIn
  <2>5. QED
    BY <2>4 DEF A
<1>5. PICK m : PartsAt(d, 1, s, m)
  BY <1>2, <1>4, AtWhole, JoinedAt
<1> HIDE DEF d
<1>6. /\ m \in [0 .. n -> 1 .. Len(d) + 1] /\ m[0] = 1 /\ m[n] = Len(d) + 1
      /\ \A i \in 1 .. n : /\ At(d, m[i - 1], Unit(name[i]))
                           /\ m[i] = m[i - 1] + Len(Unit(name[i]))
      /\ Len(d) \in Nat
  <2>1. Len(d) \in Nat
    BY <1>4, Numbers
  <2>2. QED
    BY <1>2, <1>5, <2>1 DEF PartsAt, d
<1>7. PICK single \in [Places(d) -> Texts] :
        /\ \A i \in Places(d) : single[i] = SingleNode(d, Tick, single, i)
        /\ Undouble(d, Tick) = single[1]
  BY <1>4, AboutTicks, UndoubleScan
<1>8. ASSUME NEW i \in 1 .. n
      PROVE  single[m[i - 1]] = <<name[i]>> \o single[m[i]]
  <2> DEFINE p == m[i - 1]
             c == name[i]
             u == Unit(c)
  <2>1. /\ c \in Characters /\ u \in Texts /\ Len(u) \in {1, 2} /\ u[1] = c
        /\ c = Tick <=> Len(u) = 2
        /\ c = Tick => u[2] = c
    BY <1>1, Units
  <2>2. At(d, p, u) /\ m[i] = p + Len(u)
    BY <1>6
  <2> HIDE DEF p, u, c
  <2>3. /\ p \in 1 .. Len(d) /\ d[p] = c /\ p + Len(u) <= Len(d) + 1
        /\ Len(u) = 2 => d[p + 1] = u[2]
    <3>1. /\ p \in 1 .. Len(d) + 1 /\ p + Len(u) <= Len(d) + 1
          /\ \A k \in 1 .. Len(u) : d[p + k - 1] = u[k]
      BY <2>2 DEF At
    <3>2. p + 1 - 1 = p /\ p + 2 - 1 = p + 1
      BY <3>1
    <3>3. 1 \in 1 .. Len(u) /\ (Len(u) = 2 => 2 \in 1 .. Len(u))
      BY <2>1
    <3>4. QED
      BY <1>6, <2>1, <3>1, <3>2, <3>3
  <2>4. single[p] = SingleNode(d, Tick, single, p) /\ ~(p > Len(d))
    <3>1. p \in Places(d) /\ ~(p > Len(d))
      BY <1>4, <2>3, Within
    <3>2. QED
      BY <1>7, <3>1
  <2>5. CASE c = Tick
    <3>1. d[p] = Tick /\ p < Len(d) /\ d[p + 1] = Tick
      <4>1. Len(u) = 2 /\ u[2] = Tick
        BY <2>1, <2>5
      <4>2. Len(d) \in Nat
        BY <1>6
      <4>3. p < Len(d)
        BY <2>3, <4>1, <4>2
      <4>4. QED
        BY <2>3, <2>5, <4>1, <4>3
    <3>2. single[p] = <<Tick>> \o single[p + 2]
      BY <2>4, <3>1 DEF SingleNode
    <3>3. QED
      BY <2>1, <2>2, <2>5, <3>2 DEF p, c
  <2>6. CASE c # Tick
    <3>1. single[p] = <<d[p]>> \o single[p + 1]
      BY <2>3, <2>4, <2>6 DEF SingleNode
    <3>2. Len(u) = 1
      BY <2>1, <2>6
    <3>3. QED
      BY <2>2, <2>3, <3>1, <3>2 DEF p, c
  <2>7. QED
    BY <2>5, <2>6
<1>9. \A i \in 0 .. n : single[m[i]] \in Texts
  <2>1. \A i \in 0 .. n : m[i] \in Places(d)
    <3>1. 1 .. Len(d) + 1 \subseteq Places(d)
      BY <1>4, Numbers
    <3>2. QED
      BY <1>6, <3>1
  <2>2. QED
    BY <1>7, <2>1
<1> DEFINE A == {i \in 0 .. n : single[1] = SubSeq(name, 1, i) \o single[m[i]]}
<1>10. 0 \in A
  <2>1. SubSeq(name, 1, 0) = <<>>
    BY CutGrows DEF Texts
  <2>2. 0 \in 0 .. n /\ <<>> \o single[m[0]] = single[m[0]]
    BY <1>1, <1>9, ConcatTexts
  <2>3. QED
    BY <1>6, <2>1, <2>2
<1>11. ASSUME NEW k \in 0 .. n, k < n, k \in A
       PROVE  k + 1 \in A
  <2>1. k + 1 \in 1 .. n /\ (k + 1) - 1 = k /\ k + 1 \in 0 .. n
    BY <1>1, <1>11
  <2> DEFINE a == SubSeq(name, 1, k)
             b == <<name[k + 1]>>
             c == single[m[k + 1]]
  <2>2. a \in Texts /\ a \o b = SubSeq(name, 1, k + 1)
    BY <1>11, CutGrows DEF Texts
  <2>3. b \in Texts /\ c \in Texts
    BY <1>1, <1>9, <2>1, Singles
  <2>4. single[1] = a \o (b \o c)
    BY <1>8, <1>11, <2>1
  <2>5. a \o (b \o c) = a \o b \o c
    <3> HIDE DEF a, b, c
    <3>1. QED
      BY <2>2, <2>3, Associative
  <2>6. QED
    BY <2>1, <2>2, <2>4, <2>5
<1>12. n \in A
  <2> HIDE DEF A, n
  <2>1. \A k \in 0 .. n : k \in A
    BY <1>1, <1>10, <1>11, UpTo
  <2>2. QED
    BY <1>1, <2>1
<1>13. Undouble(d, Tick) = name
  <2>1. single[Len(d) + 1] = <<>>
    <3>1. Len(d) + 1 \in Places(d) /\ Len(d) + 1 > Len(d)
      BY <1>4, Numbers
    <3>2. QED
      BY <1>7, <3>1 DEF SingleNode
  <2>2. SubSeq(name, 1, n) = name
    BY CutGrows DEF Texts
  <2>3. name \o <<>> = name
    BY ConcatTexts, EmptyText
  <2>4. QED
    BY <1>6, <1>7, <1>12, <2>1, <2>2, <2>3
<1>14. ASSUME name # <<>>
       PROVE  Len(d) > 0
  <2>1. n # 0
    BY <1>14, EmptySeq DEF Texts
  <2>2. 1 \in 1 .. n /\ 1 - 1 = 0
    BY <1>1, <2>1
  <2>3. At(d, m[0], Unit(name[1])) /\ Len(Unit(name[1])) \in {1, 2}
    BY <1>1, <1>6, <2>2, Units
  <2>4. m[0] + Len(Unit(name[1])) <= Len(d) + 1
    BY <2>3 DEF At
  <2>5. m[0] = 1 /\ Len(d) \in Nat
    BY <1>6
  <2>6. \A l \in {1, 2}, x \in Nat : 1 + l <= x + 1 => x > 0
    OBVIOUS
  <2>7. QED
    BY <2>3, <2>4, <2>5, <2>6
<1>15. QED
  BY <1>3, <1>4, <1>13, <1>14

Token(quote, s) == <<quote>> \o s \o <<quote>>

(* Where the content of a token is. *)
LEMMA TokenAt ==
  ASSUME NEW t \in Texts, NEW quote \in Characters, NEW s \in Texts, NEW p,
         At(t, p, Token(quote, s))
  PROVE  /\ At(t, p + 1, s)
         /\ Len(s) \in Nat /\ Len(t) \in Nat /\ p \in Nat \ {0}
         /\ p + 1 + Len(s) <= Len(t)
         /\ t[p] = quote /\ t[p + 1 + Len(s)] = quote
<1> DEFINE a == <<quote>>
<1>1. a \in Texts /\ Len(a) = 1 /\ a[1] = quote
  BY Singles
<1> HIDE DEF a
<1>2. /\ a \o s \in Texts /\ Len(a \o s) = 1 + Len(s) /\ Len(s) \in Nat
  BY <1>1, ConcatTexts
<1>3. /\ At(t, p, a) /\ At(t, p + 1, s) /\ At(t, p + (1 + Len(s)), a)
  <2>1. At(t, p, a \o s \o a)
    BY DEF Token, a
  <2>2. At(t, p, a \o s) /\ At(t, p + Len(a \o s), a)
    BY <1>1, <1>2, <2>1, AtConcat
  <2>3. At(t, p, a) /\ At(t, p + Len(a), s)
    BY <1>1, <2>2, AtConcat
  <2>4. QED
    BY <1>1, <1>2, <2>2, <2>3
<1>4. Len(t) \in Nat /\ p \in 1 .. Len(t) /\ t[p] = quote
  <2>1. Len(t) \in Nat
    BY Numbers
  <2>2. At(t, p, a)
    BY <1>3
  <2>3. QED
    BY <1>1, <2>1, <2>2 DEF At
<1>5. p + (1 + Len(s)) \in 1 .. Len(t) /\ t[p + (1 + Len(s))] = quote
  <2> DEFINE j == p + (1 + Len(s))
  <2>1. j \in Nat
    BY <1>2, <1>4
  <2>2. At(t, j, a)
    BY <1>3
  <2> HIDE DEF j
  <2>3. j \in 1 .. Len(t) /\ t[j] = quote
    BY <1>1, <1>4, <2>1, <2>2 DEF At
  <2>4. QED
    BY <2>3 DEF j
<1>6. p + (1 + Len(s)) = p + 1 + Len(s)
  BY <1>2, <1>4
<1>7. QED
  BY <1>2, <1>3, <1>4, <1>5, <1>6

(* A token is a text. *)
LEMMA TokenText ==
  ASSUME NEW quote \in Characters, NEW s \in Texts
  PROVE  Token(quote, s) \in Texts /\ Len(Token(quote, s)) = Len(s) + 2 /\ Len(s) \in Nat
<1> DEFINE a == <<quote>>
<1>1. a \in Texts /\ Len(a) = 1
  BY Singles
<1> HIDE DEF a
<1>2. /\ a \o s \in Texts /\ Len(a \o s) = 1 + Len(s) /\ Len(s) \in Nat
  BY <1>1, ConcatTexts
<1>3. a \o s \o a \in Texts /\ Len(a \o s \o a) = (1 + Len(s)) + 1
  BY <1>1, <1>2, ConcatTexts
<1>4. (1 + Len(s)) + 1 = Len(s) + 2
  BY <1>2
<1>5. QED
  BY <1>2, <1>3, <1>4 DEF Token, a

Space == {" "}

(* A backtick is no space. *)
LEMMA TickIsNoSpace == Tick \notin Space
BY DEF Tick, Space

(* A part that ends with a backtick is stripped on its left. *)
LEMMA StripToken ==
  ASSUME NEW part \in Texts, NEW s \in Texts, NEW first \in Nat \ {0},
         SkipSpace(part, 1) = first, At(part, first, Token(Tick, s)),
         first + Len(s) + 1 = Len(part)
  PROVE  Strip(part) = Token(Tick, s)
<1> DEFINE token == Token(Tick, s)
           back == Reverse(part)
<1>1. token \in Texts /\ Len(token) = Len(s) + 2 /\ Len(s) \in Nat
  BY TokenText, AboutTicks
<1>2. Len(part) \in Nat /\ part[first + 1 + Len(s)] = Tick
  BY TokenAt, AboutTicks
<1>3. first + 1 + Len(s) = Len(part) /\ first <= Len(part) /\ Len(part) \in 1 .. Len(part)
  BY <1>1, <1>2
<1>4. /\ back \in Texts /\ Len(back) = Len(part)
      /\ back[1] = Tick
  <2>1. back = [i \in 1 .. Len(part) |-> part[(Len(part) - i) + 1]]
    BY DEF Reverse
  <2>2. \A i \in 1 .. Len(part) : (Len(part) - i) + 1 \in 1 .. Len(part)
    BY <1>2
  <2>3. \A i \in 1 .. Len(part) : part[i] \in Characters
    BY DEF Texts
  <2>4. back \in Seq(Characters) /\ Len(back) = Len(part)
    BY <1>2, <2>1, <2>2, <2>3
  <2>5. back[1] = part[Len(part)]
    <3>1. 1 \in 1 .. Len(part) /\ (Len(part) - 1) + 1 = Len(part)
      BY <1>2, <1>3
    <3>2. QED
      BY <2>1, <3>1
  <2>6. QED
    BY <1>2, <1>3, <2>4, <2>5 DEF Texts
<1>5. SkipSpace(back, 1) = 1
  <2>1. back[1] \notin Space
    BY <1>4, TickIsNoSpace
  <2>2. 1 \in Places(back)
    BY <1>4, Numbers
  <2> HIDE DEF back
  <2>3. SkipOver(back, 1, Space) = 1
    BY <1>4, <2>1, <2>2, Skips
  <2>4. QED
    BY <2>3 DEF SkipSpace, Space
<1>6. SubSeq(part, first, Len(part)) = token
  <2>1. \A q : At(part, q, token) => SubSeq(part, q, q + Len(token) - 1) = token
    BY <1>1, AtCut
  <2>2. first + Len(token) - 1 = Len(part)
    BY <1>1, <1>2
  <2>3. QED
    BY <2>1, <2>2
<1>7. Strip(part) = IF first > Len(part) THEN <<>> ELSE SubSeq(part, first, Len(part) + 1 - 1)
  <2> HIDE DEF back
  <2>1. Strip(part) = IF SkipSpace(part, 1) > Len(part) THEN <<>>
                      ELSE SubSeq(part, SkipSpace(part, 1), Len(part) + 1 - SkipSpace(back, 1))
    BY DEF Strip, back
  <2>2. QED
    BY <1>5, <2>1
<1>8. Len(part) + 1 - 1 = Len(part) /\ ~(first > Len(part))
  BY <1>2, <1>3
<1>9. QED
  BY <1>6, <1>7, <1>8

(* The name is read back from its identifier. *)
LEMMA IdentifierParsed ==
  ASSUME NEW name \in Texts, name # <<>>, NEW part,
         Strip(part) = Token(Tick, Doubled(name))
  PROVE  ParseIdentifier(part) = {name}
<1> DEFINE d == Doubled(name)
           token == Token(Tick, d)
<1>1. d \in Texts /\ d \in Inside(Tick) /\ Undouble(d, Tick) = name /\ Len(d) > 0
  BY DoubledRead
<1> HIDE DEF d
<1>2. token \in Texts /\ Len(token) = Len(d) + 2 /\ Len(d) \in Nat
  BY <1>1, TokenText, AboutTicks
<1>3. At(token, 1, Token(Tick, d))
  BY <1>2, AtWhole
<1>4. token[1] = Tick /\ At(token, 1 + 1, d)
  BY <1>1, <1>2, <1>3, TokenAt, AboutTicks
<1>5. token # <<>>
  BY <1>2, EmptyText
<1>6. QuotedEnd(token, 1) = Len(token) + 1
  <2>1. ~(1 + Len(d) + 2 <= Len(token)) /\ 1 + Len(d) + 2 = Len(token) + 1
    BY <1>2
  <2>2. At(token, 1, <<Tick>> \o d \o <<Tick>>)
    BY <1>3 DEF Token
  <2> HIDE DEF token
  <2>3. QuotedEnd(token, 1) = 1 + Len(d) + 2
    BY <1>1, <1>2, <2>1, <2>2, AboutTicks, TokenEnds
  <2>4. QED
    BY <2>1, <2>3
<1>7. Len(token) # 2
  BY <1>1, <1>2
<1>8. SubSeq(token, 2, Len(token) - 1) = d
  <2>1. SubSeq(token, 1 + 1, 1 + 1 + Len(d) - 1) = d
    BY <1>1, <1>2, <1>4, AtCut
  <2>2. 1 + 1 + Len(d) - 1 = Len(token) - 1 /\ 1 + 1 = 2
    BY <1>2
  <2>3. QED
    BY <2>1, <2>2
<1>9. Strip(part) = token
  BY DEF d
<1> HIDE DEF token
<1>10. ParseIdentifier(part) = {Undouble(SubSeq(token, 2, Len(token) - 1), Tick)}
  BY <1>4, <1>5, <1>6, <1>7, <1>9 DEF ParseIdentifier, Tick
<1>11. QED
  BY <1>1, <1>8, <1>10

Comma == ","
Blank == " "

(* Commas and spaces are no quotes. *)
LEMMA AboutSeparators ==
  /\ Comma \in Characters /\ Blank \in Characters /\ Comma # Blank
  /\ Comma \notin Quotes /\ Blank \notin Quotes /\ Separator = <<Comma, Blank>>
BY DEF Comma, Blank, Separator, Quotes, Characters, Words

(* Where a single character is. *)
LEMMA AtOne ==
  ASSUME NEW t \in Texts, NEW c \in Characters, NEW p
  PROVE  At(t, p, <<c>>) <=> p \in 1 .. Len(t) /\ t[p] = c
<1> DEFINE a == <<c>>
<1>1. a \in Texts /\ Len(a) = 1 /\ a[1] = c /\ Len(t) \in Nat
  BY Singles, Numbers
<1> HIDE DEF a
<1>2. At(t, p, a) <=> p \in 1 .. Len(t) /\ t[p] = c
  <2>1. ASSUME At(t, p, a)
        PROVE  p \in 1 .. Len(t) /\ t[p] = c
    BY <1>1, <2>1 DEF At
  <2>2. ASSUME p \in 1 .. Len(t), t[p] = c
        PROVE  At(t, p, a)
    <3>1. \A k \in 1 .. Len(a) : k = 1 /\ p + k - 1 = p
      BY <1>1, <2>2
    <3>2. QED
      BY <1>1, <2>2, <3>1 DEF At
  <2>3. QED
    BY <2>1, <2>2
<1>3. QED
  BY <1>2 DEF a

(* Where two characters are. *)
LEMMA AtTwo ==
  ASSUME NEW t \in Texts, NEW c \in Characters, NEW d \in Characters, NEW p,
         At(t, p, <<c, d>>)
  PROVE  At(t, p, <<c>>) /\ At(t, p + 1, <<d>>)
<1> DEFINE a == <<c, d>>
<1>1. Len(a) = 2 /\ a[1] = c /\ a[2] = d /\ Len(t) \in Nat /\ At(t, p, a)
  BY Pairs, Numbers
<1> HIDE DEF a
<1>2. p \in 1 .. Len(t) /\ t[p] = c /\ p + 1 \in 1 .. Len(t) /\ t[p + 1] = d
  <2>1. /\ p \in 1 .. Len(t) + 1 /\ p + 2 <= Len(t) + 1
        /\ \A k \in 1 .. 2 : t[p + k - 1] = a[k]
    BY <1>1 DEF At
  <2>2. p + 1 - 1 = p /\ p + 2 - 1 = p + 1 /\ 1 \in 1 .. 2 /\ 2 \in 1 .. 2
    BY <2>1
  <2>3. QED
    BY <1>1, <2>1, <2>2
<1>3. QED
  BY <1>2, AtOne

(* The written key and its parts. *)
Named(names) == names \in Seq(Texts \ {<<>>}) /\ Len(names) > 0
Ids(names) == [i \in 1 .. Len(names) |-> Token(Tick, Doubled(names[i]))]
Parts(names) == [i \in 1 .. Len(names) |->
                   IF i = 1 THEN Ids(names)[i] ELSE <<Blank>> \o Ids(names)[i]]

(* The identifiers of the keys, and the parts between the commas. *)
LEMMA AboutParts ==
  ASSUME NEW names, Named(names)
  PROVE  /\ Len(names) \in Nat \ {0} /\ 1 \in 1 .. Len(names)
         /\ Ids(names) \in Seq(Texts) /\ Len(Ids(names)) = Len(names)
         /\ Parts(names) \in Seq(Texts) /\ Len(Parts(names)) = Len(names)
         /\ \A i \in 1 .. Len(names) :
              /\ names[i] \in Texts /\ names[i] # <<>>
              /\ Ids(names)[i] \in Texts /\ Ids(names)[i] = Token(Tick, Doubled(names[i]))
              /\ \A Q \in SUBSET Quotes : \A S : Tick \in Q => Ids(names)[i] \in Passed(Q, S)
              /\ Parts(names)[i] \in Texts
              /\ i = 1 => Parts(names)[i] = Ids(names)[i]
              /\ i # 1 => Parts(names)[i] = <<Blank>> \o Ids(names)[i]
              /\ Len(Ids(names)[i]) \in Nat \ {0}
<1> DEFINE n == Len(names)
           ids == Ids(names)
           parts == Parts(names)
<1>1. n \in Nat \ {0} /\ 1 \in 1 .. n /\ \A i \in 1 .. n : names[i] \in Texts /\ names[i] # <<>>
  BY DEF Named
<1>2. ASSUME NEW i \in 1 .. n
      PROVE  /\ ids[i] \in Texts /\ ids[i] = Token(Tick, Doubled(names[i]))
             /\ Len(ids[i]) \in Nat \ {0}
             /\ \A Q \in SUBSET Quotes : \A S : Tick \in Q => ids[i] \in Passed(Q, S)
  <2> DEFINE d == Doubled(names[i])
  <2>1. d \in Texts /\ d \in Inside(Tick)
    BY <1>1, DoubledRead
  <2>2. ids[i] = Token(Tick, d)
    BY DEF Ids
  <2> HIDE DEF d
  <2>3. Token(Tick, d) \in Texts /\ Len(Token(Tick, d)) = Len(d) + 2 /\ Len(d) \in Nat
    BY <2>1, AboutTicks, TokenText
  <2>4. ASSUME NEW Q \in SUBSET Quotes, NEW S, Tick \in Q
        PROVE  Token(Tick, d) \in Passed(Q, S)
    BY <2>1, <2>4, TokenPassed DEF Token
  <2>5. QED
    BY <2>2, <2>3, <2>4 DEF d
<1> DEFINE b == <<Blank>>
<1>3. b \in Texts /\ Len(b) = 1
  BY AboutSeparators, Singles
<1> HIDE DEF b
<1>4. ASSUME NEW i \in 1 .. n
      PROVE  /\ parts[i] \in Texts
             /\ i = 1 => parts[i] = ids[i]
             /\ i # 1 => parts[i] = b \o ids[i]
  <2>1. parts[i] = IF i = 1 THEN ids[i] ELSE b \o ids[i]
    BY DEF Parts, b
  <2> HIDE DEF ids, parts
  <2>2. ids[i] \in Texts /\ b \o ids[i] \in Texts
    BY <1>2, <1>3, ConcatTexts
  <2>3. QED
    BY <2>1, <2>2
<1>5. /\ ids \in Seq(Texts) /\ Len(ids) = n
      /\ parts \in Seq(Texts) /\ Len(parts) = n
  <2>1. ids = [i \in 1 .. n |-> ids[i]] /\ parts = [i \in 1 .. n |-> parts[i]]
    BY DEF Ids, Parts
  <2> HIDE DEF ids, parts
  <2>2. [i \in 1 .. n |-> ids[i]] \in Seq(Texts) /\ [i \in 1 .. n |-> parts[i]] \in Seq(Texts)
    BY <1>1, <1>2, <1>4
  <2>3. Len([i \in 1 .. n |-> ids[i]]) = n /\ Len([i \in 1 .. n |-> parts[i]]) = n
    BY <1>1
  <2>4. QED
    BY <2>1, <2>2, <2>3
<1>6. QED
  BY <1>1, <1>2, <1>4, <1>5 DEF b

(* Each part has its place, and the search for the next comma ends behind it. *)
LEMMA PartsFound ==
  ASSUME NEW names, Named(names)
  PROVE  LET n == Len(names)
             parts == Parts(names)
             raw == Separated(Ids(names))
         IN  /\ raw \in Texts
             /\ \E q \in [1 .. n -> Nat \ {0}] :
                  /\ q[1] = 1
                  /\ \A i \in 1 .. n : /\ At(raw, q[i], parts[i])
                                       /\ FindOutside(raw, q[i], {Tick}, {Comma})
                                            = q[i] + Len(parts[i])
                  /\ \A i \in 1 .. n - 1 : /\ q[i + 1] = q[i] + Len(parts[i]) + 1
                                           /\ q[i] + Len(parts[i]) <= Len(raw)
                  /\ q[n] + Len(parts[n]) = Len(raw) + 1
<1> DEFINE n == Len(names)
           ids == Ids(names)
           parts == Parts(names)
           s == [i \in 1 .. n |-> IF i = 1 THEN ids[i] ELSE Separator \o ids[i]]
           raw == FlattenSeq(s)
<1>1. /\ n \in Nat \ {0} /\ 1 \in 1 .. n
      /\ Len(ids) = n /\ ids \in Seq(Texts)
      /\ \A i \in 1 .. n : /\ ids[i] \in Texts /\ Len(ids[i]) \in Nat \ {0}
                           /\ ids[i] \in Passed({Tick}, {Comma})
                           /\ parts[i] \in Texts
                           /\ i = 1 => parts[i] = ids[i]
                           /\ i # 1 => /\ parts[i] = <<Blank>> \o ids[i]
                                       /\ Len(parts[i]) = 1 + Len(ids[i])
  <2>1. {Tick} \in SUBSET Quotes /\ Tick \in {Tick}
    BY AboutTicks
  <2>2. \A i \in 1 .. n : \A Q \in SUBSET Quotes : \A S : Tick \in Q => ids[i] \in Passed(Q, S)
    BY AboutParts
  <2>3. \A i \in 1 .. n : ids[i] \in Passed({Tick}, {Comma})
    BY <2>1, <2>2
  <2>4. n \in Nat \ {0} /\ 1 \in 1 .. n /\ Len(ids) = n /\ ids \in Seq(Texts)
    BY AboutParts
  <2>5. \A i \in 1 .. n : /\ ids[i] \in Texts /\ Len(ids[i]) \in Nat \ {0}
                          /\ parts[i] \in Texts
                          /\ i = 1 => parts[i] = ids[i]
                          /\ i # 1 => /\ parts[i] = <<Blank>> \o ids[i]
                                      /\ Len(parts[i]) = 1 + Len(ids[i])
    <3>1. ASSUME NEW i \in 1 .. n
          PROVE  /\ ids[i] \in Texts /\ Len(ids[i]) \in Nat \ {0}
                 /\ parts[i] \in Texts
                 /\ i = 1 => parts[i] = ids[i]
                 /\ i # 1 => /\ parts[i] = <<Blank>> \o ids[i]
                             /\ Len(parts[i]) = 1 + Len(ids[i])
      <4>1. ids[i] \in Texts /\ Len(ids[i]) \in Nat \ {0} /\ parts[i] \in Texts
        BY AboutParts
      <4>2. i = 1 => parts[i] = ids[i]
        BY AboutParts
      <4>3. i # 1 => parts[i] = <<Blank>> \o ids[i]
        BY DEF Parts
      <4>4. Len(<<Blank>> \o ids[i]) = 1 + Len(ids[i])
        BY <4>1, AboutSeparators, Singles, ConcatTexts
      <4>5. QED
        BY <4>1, <4>2, <4>3, <4>4
    <3>2. QED
      BY <3>1
  <2> HIDE DEF n, ids, parts
  <2>6. QED
    BY <2>3, <2>4, <2>5
<1> HIDE DEF n, ids, parts
<1>2. Separator \in Texts /\ Len(Separator) = 2
  BY AboutSeparators, Pairs
<1>3. /\ s \in Seq(Texts) /\ Len(s) = n
      /\ \A i \in 1 .. n : s[i] = IF i = 1 THEN ids[i] ELSE Separator \o ids[i]
  <2> DEFINE item(i) == IF i = 1 THEN ids[i] ELSE Separator \o ids[i]
  <2>1. \A i \in 1 .. n : ids[i] \in Texts /\ Separator \o ids[i] \in Texts
    BY <1>1, <1>2, ConcatTexts
  <2>2. \A i \in 1 .. n : item(i) \in Texts
    BY <2>1
  <2>3. s = [i \in 1 .. n |-> item(i)] /\ n \in Nat
    BY <1>1
  <2> HIDE DEF item, s
  <2>4. s \in [1 .. n -> Texts] /\ \A i \in 1 .. n : s[i] = item(i)
    BY <2>2, <2>3
  <2>5. s \in Seq(Texts) /\ Len(s) = n
    BY <2>3, <2>4
  <2>6. QED
    BY <2>4, <2>5 DEF item
<1>4. Separated(ids) = raw
  BY <1>1 DEF Separated, Separator
<1> HIDE DEF s
<1>5. raw \in Texts
  <2>1. \A i \in 1 .. Len(s), a \in Texts : a \o s[i] \in Texts
    <3>1. \A i \in 1 .. Len(s) : s[i] \in Texts
      BY <1>3
    <3>2. QED
      BY <3>1, ConcatTexts
  <2>2. FlattenSeq(s) \in Texts \cap Texts
    BY <1>3, <2>1, EmptyText, JoinedIn
  <2>3. QED
    BY <2>2
<1>6. PICK m : PartsAt(raw, 1, s, m)
  BY <1>3, <1>5, AtWhole, JoinedAt
<1> HIDE DEF raw
<1>7. /\ m \in [0 .. n -> 1 .. Len(raw) + 1] /\ m[0] = 1 /\ m[n] = Len(raw) + 1
      /\ \A i \in 1 .. n : At(raw, m[i - 1], s[i]) /\ m[i] = m[i - 1] + Len(s[i])
      /\ Len(raw) \in Nat
  <2>1. Len(raw) \in Nat
    BY <1>5, Numbers
  <2>2. QED
    BY <1>3, <1>6, <2>1 DEF PartsAt, raw
<1> DEFINE q == [i \in 1 .. n |-> IF i = 1 THEN 1 ELSE m[i - 1] + 1]
<1>8. ASSUME NEW i \in 1 .. n, i # 1
      PROVE  /\ m[i - 1] \in 1 .. Len(raw) /\ raw[m[i - 1]] = Comma
             /\ At(raw, m[i - 1] + 1, parts[i])
             /\ (m[i - 1] + 1) + Len(parts[i]) = m[i]
  <2> DEFINE p == m[i - 1]
             id == ids[i]
  <2>1. /\ s[i] = Separator \o id /\ id \in Texts /\ Len(id) \in Nat
        /\ parts[i] = <<Blank>> \o id /\ Len(parts[i]) = 1 + Len(id)
        /\ At(raw, p, s[i]) /\ m[i] = p + Len(s[i])
    BY <1>1, <1>3, <1>7, <1>8
  <2> HIDE DEF p, id
  <2>2. /\ At(raw, p, Separator) /\ At(raw, p + 2, id) /\ Len(s[i]) = 2 + Len(id)
    <3>1. At(raw, p, Separator \o id)
      BY <2>1
    <3>2. At(raw, p, Separator) /\ At(raw, p + Len(Separator), id)
      BY <1>2, <1>5, <2>1, <3>1, AtConcat
    <3>3. Len(Separator \o id) = Len(Separator) + Len(id)
      BY <1>2, <2>1, ConcatTexts
    <3>4. QED
      BY <1>2, <2>1, <3>2, <3>3
  <2>3. At(raw, p, <<Comma>>) /\ At(raw, p + 1, <<Blank>>)
    <3>1. At(raw, p, <<Comma, Blank>>)
      BY <2>2, AboutSeparators
    <3>2. QED
      BY <1>5, <3>1, AboutSeparators, AtTwo
  <2>4. p \in 1 .. Len(raw) /\ raw[p] = Comma
    BY <1>5, <2>3, AboutSeparators, AtOne
  <2>5. At(raw, p + 1, parts[i])
    <3> DEFINE b == <<Blank>>
    <3>1. b \in Texts /\ Len(b) = 1 /\ At(raw, p + 1, b) /\ parts[i] = b \o id
      BY <2>1, <2>3, AboutSeparators, Singles
    <3> HIDE DEF b
    <3>2. p + 1 + Len(b) = p + 2
      BY <2>4, <3>1
    <3>3. At(raw, p + 1 + Len(b), id)
      BY <2>2, <3>2
    <3>4. At(raw, p + 1, b \o id)
      BY <1>5, <2>1, <3>1, <3>3, AtConcat
    <3>5. QED
      BY <3>1, <3>4
  <2>6. (p + 1) + Len(parts[i]) = m[i]
    BY <2>1, <2>2, <2>4
  <2>7. QED
    BY <2>4, <2>5, <2>6 DEF p
<1>9. \A i \in 1 .. n : /\ q[i] \in Nat \ {0} /\ At(raw, q[i], parts[i])
                        /\ q[i] + Len(parts[i]) = m[i]
  <2>1. ASSUME NEW i \in 1 .. n
        PROVE  /\ q[i] \in Nat \ {0} /\ At(raw, q[i], parts[i])
               /\ q[i] + Len(parts[i]) = m[i]
    <3>1. CASE i = 1
      <4>1. q[i] = m[0] /\ m[0] = 1 /\ i - 1 = 0
        BY <1>7, <3>1
      <4>2. s[i] = parts[i]
        BY <1>1, <1>3, <3>1
      <4> HIDE DEF q
      <4>3. At(raw, m[i - 1], s[i]) /\ m[i] = m[i - 1] + Len(s[i])
        BY <1>7
      <4>4. QED
        BY <4>1, <4>2, <4>3
    <3>2. CASE i # 1
      <4>1. q[i] = m[i - 1] + 1
        BY <3>2
      <4>2. m[i - 1] \in 1 .. Len(raw) /\ Len(raw) \in Nat
        BY <1>7, <1>8, <3>2
      <4> HIDE DEF q
      <4>3. QED
        BY <1>8, <3>2, <4>1, <4>2
    <3>3. QED
      BY <3>1, <3>2
  <2>2. QED
    BY <2>1
<1>10. \A i \in 1 .. n - 1 : q[i + 1] = m[i] + 1 /\ m[i] \in 1 .. Len(raw) /\ raw[m[i]] = Comma
  <2>1. ASSUME NEW i \in 1 .. n - 1
        PROVE  q[i + 1] = m[i] + 1 /\ m[i] \in 1 .. Len(raw) /\ raw[m[i]] = Comma
    <3>1. i + 1 \in 1 .. n /\ i + 1 # 1 /\ (i + 1) - 1 = i
      BY <1>1
    <3>2. QED
      BY <1>8, <3>1
  <2>2. QED
    BY <2>1
<1>a. PICK find : Search(raw, {Tick}, {Comma}, find)
  BY <1>5, Finds
<1>11. /\ Walk(raw, {Tick}, {Comma}, find)
       /\ \A i \in 1 .. Len(raw) : raw[i] \in {Comma} \ {Tick} => find[i] = i
       /\ find[Len(raw) + 1] = Len(raw) + 1
       /\ \A i \in Places(raw) : FindOutside(raw, i, {Tick}, {Comma}) = find[i]
  BY <1>a DEF Search
<1>12. \A i \in 1 .. n : find[m[i]] = m[i] /\ Clear(raw, m[i])
  <2>1. ASSUME NEW i \in 1 .. n
        PROVE  find[m[i]] = m[i] /\ Clear(raw, m[i])
    <3>1. CASE i = n
      <4>1. m[i] = Len(raw) + 1
        BY <1>7, <3>1
      <4>2. ~(m[i] <= Len(raw))
        BY <1>7, <4>1
      <4>3. QED
        BY <1>11, <4>1, <4>2 DEF Clear
    <3>2. CASE i # n
      <4>1. i \in 1 .. n - 1
        BY <1>1, <3>2
      <4>2. m[i] \in 1 .. Len(raw) /\ raw[m[i]] = Comma
        BY <1>10, <4>1
      <4>3. Comma # Tick
        BY AboutTicks, AboutSeparators
      <4>4. QED
        BY <1>11, <4>2, <4>3, AboutSeparators DEF Clear
    <3>3. QED
      BY <3>1, <3>2
  <2>2. QED
    BY <2>1
<1>13. \A i \in 1 .. n : parts[i] \in Passed({Tick}, {Comma})
  <2>1. ASSUME NEW i \in 1 .. n, i # 1
        PROVE  <<Blank>> \o ids[i] \in Passed({Tick}, {Comma})
    <3> DEFINE b == <<Blank>>
               A == Passed({Tick}, {Comma})
    <3>1. b \in Texts /\ Len(b) = 1 /\ b[1] = Blank
      BY AboutSeparators, Singles
    <3>2. b \in Plain({Comma}) /\ b # <<>>
      <4>1. \A k \in 1 .. Len(b) : b[k] = Blank
        BY <3>1
      <4>2. Blank \notin Quotes \cup {Comma}
        BY AboutSeparators
      <4> HIDE DEF b
      <4>3. b \in Plain({Comma})
        BY <3>1, <4>1, <4>2 DEF Plain
      <4>4. QED
        BY <3>1, <4>3, EmptyText
    <3> HIDE DEF b
    <3>3. <<>> \in A /\ ids[i] \in A /\ {Tick} \in SUBSET Quotes
      BY <1>1, AboutTicks, EmptyPassed
    <3>4. <<>> \o b \o ids[i] \in A
      BY <3>2, <3>3, WordsPassed
    <3>5. <<>> \o b = b
      BY <3>1, ConcatTexts
    <3>6. QED
      BY <3>4, <3>5 DEF b
  <2>2. QED
    BY <1>1, <2>1
<1> HIDE DEF q
<1>14. \A i \in 1 .. n : FindOutside(raw, q[i], {Tick}, {Comma}) = q[i] + Len(parts[i])
  <2>1. ASSUME NEW i \in 1 .. n
        PROVE  FindOutside(raw, q[i], {Tick}, {Comma}) = q[i] + Len(parts[i])
    <3>1. At(raw, q[i], parts[i]) /\ Clear(raw, q[i] + Len(parts[i]))
      BY <1>9, <1>12
    <3>2. parts[i] \in Passed({Tick}, {Comma})
      BY <1>13
    <3>3. find[q[i]] = find[q[i] + Len(parts[i])]
      BY <1>5, <1>11, <3>1, <3>2, PassedOver
    <3>4. find[q[i]] = q[i] + Len(parts[i])
      BY <1>9, <1>12, <3>3
    <3>5. q[i] \in Places(raw)
      <4>1. q[i] \in 1 .. Len(raw) + 1
        BY <3>1 DEF At
      <4>2. 1 .. Len(raw) + 1 \subseteq Places(raw)
        BY <1>5, Numbers
      <4>3. QED
        BY <4>1, <4>2
    <3>6. QED
      BY <1>11, <3>4, <3>5
  <2>2. QED
    BY <2>1
<1>15. \A i \in 1 .. n - 1 : /\ q[i + 1] = q[i] + Len(parts[i]) + 1
                             /\ q[i] + Len(parts[i]) <= Len(raw)
  <2>1. ASSUME NEW i \in 1 .. n - 1
        PROVE  q[i + 1] = m[i] + 1 /\ m[i] <= Len(raw) /\ m[i] = q[i] + Len(parts[i])
    <3>1. i \in 1 .. n
      BY <1>1
    <3>2. m[i] \in 1 .. Len(raw) /\ Len(raw) \in Nat
      BY <1>7, <1>10
    <3>3. QED
      BY <1>9, <1>10, <3>1, <3>2
  <2>2. QED
    BY <2>1
<1>16. q[n] + Len(parts[n]) = Len(raw) + 1
  <2>1. n \in 1 .. n
    BY <1>1
  <2>2. QED
    BY <1>7, <1>9, <2>1
<1>17. q \in [1 .. n -> Nat \ {0}] /\ q[1] = 1
  BY <1>1, <1>9 DEF q
<1>18. QED
  BY <1>4, <1>5, <1>9, <1>14, <1>15, <1>16, <1>17 DEF n, ids, parts

(* The list of identifiers is split at its commas. *)
LEMMA KeysSplit ==
  ASSUME NEW names, Named(names)
  PROVE  SplitKeys(Separated(Ids(names))) = Parts(names)
<1> DEFINE n == Len(names)
           parts == Parts(names)
           raw == Separated(Ids(names))
<1>1. raw \in Texts
  BY PartsFound
<1>2. PICK q \in [1 .. n -> Nat \ {0}] :
        /\ q[1] = 1
        /\ \A i \in 1 .. n : /\ At(raw, q[i], parts[i])
                             /\ FindOutside(raw, q[i], {Tick}, {Comma}) = q[i] + Len(parts[i])
        /\ \A i \in 1 .. n - 1 : /\ q[i + 1] = q[i] + Len(parts[i]) + 1
                                 /\ q[i] + Len(parts[i]) <= Len(raw)
        /\ q[n] + Len(parts[n]) = Len(raw) + 1
  BY PartsFound
<1>3. n \in Nat \ {0} /\ parts \in Seq(Texts) /\ Len(parts) = n /\ Len(raw) \in Nat
  BY <1>1, AboutParts, Numbers
<1> HIDE DEF n, parts, raw
<1>4. PICK split \in [Places(raw) -> Seq(Texts)] :
        /\ \A i \in Places(raw) : split[i] = SplitNode(raw, split, i)
        /\ SplitKeys(raw) = split[1]
  BY <1>1, SplitScan
<1>5. ASSUME NEW i \in 1 .. n
      PROVE  /\ q[i] \in Places(raw) /\ parts[i] \in Texts /\ Len(parts[i]) \in Nat
             /\ split[q[i]] = LET comma == q[i] + Len(parts[i])
                              IN  IF comma <= Len(raw) THEN <<parts[i]>> \o split[comma + 1]
                                  ELSE IF comma = Malformed(raw) THEN <<<<>>>>
                                  ELSE <<SubSeq(raw, q[i], Len(raw))>>
             /\ At(raw, q[i], parts[i])
  <2> DEFINE p == q[i]
             part == parts[i]
             comma == p + Len(part)
  <2>1. /\ part \in Texts /\ At(raw, p, part) /\ p \in Nat
        /\ FindOutside(raw, p, {Tick}, {Comma}) = comma
    <3>1. part \in Texts
      BY <1>3
    <3>2. At(raw, p, part) /\ p \in Nat /\ FindOutside(raw, p, {Tick}, {Comma}) = comma
      BY <1>2
    <3>3. QED
      BY <3>1, <3>2
  <2> HIDE DEF p, part
  <2>2. Len(part) \in Nat
    BY <2>1, Numbers
  <2>3. p \in Places(raw)
    <3>1. p \in 1 .. Len(raw) + 1
      BY <2>1 DEF At
    <3>2. 1 .. Len(raw) + 1 \subseteq Places(raw)
      BY <1>1, Numbers
    <3>3. QED
      BY <3>1, <3>2
  <2>4. split[p] = SplitNode(raw, split, p)
    BY <1>4, <2>3
  <2>5. SubSeq(raw, p, comma - 1) = part
    <3>1. comma - 1 = p + Len(part) - 1
      BY <2>1, <2>2
    <3>2. QED
      BY <1>1, <2>1, <3>1, AtCut
  <2>6. FindOutside(raw, p, {"tick"}, {","}) = comma
    BY <2>1 DEF Tick, Comma
  <2> HIDE DEF comma
  <2>7. split[p] = IF comma <= Len(raw) THEN <<part>> \o split[comma + 1]
                   ELSE IF comma = Malformed(raw) THEN <<<<>>>>
                   ELSE <<SubSeq(raw, p, Len(raw))>>
    BY <2>4, <2>5, <2>6 DEF SplitNode
  <2>8. QED
    BY <2>1, <2>2, <2>3, <2>7 DEF p, part, comma
<1>6. ASSUME NEW i \in 1 .. n - 1
      PROVE  split[q[i]] = <<parts[i]>> \o split[q[i + 1]]
  <2>1. i \in 1 .. n
    BY <1>3
  <2>2. q[i + 1] = q[i] + Len(parts[i]) + 1 /\ q[i] + Len(parts[i]) <= Len(raw)
    BY <1>2
  <2>3. QED
    BY <1>5, <2>1, <2>2
<1>7. split[q[n]] = <<parts[n]>>
  <2>1. n \in 1 .. n
    BY <1>3
  <2> DEFINE p == q[n]
             part == parts[n]
             comma == p + Len(part)
  <2>2. /\ p \in Nat \ {0} /\ part \in Texts /\ Len(part) \in Nat /\ comma = Len(raw) + 1
        /\ At(raw, p, part)
    BY <1>2, <1>5, <2>1
  <2>3. split[p] = IF comma <= Len(raw) THEN <<part>> \o split[comma + 1]
                   ELSE IF comma = Malformed(raw) THEN <<<<>>>>
                   ELSE <<SubSeq(raw, p, Len(raw))>>
    BY <1>5, <2>1
  <2>4. SubSeq(raw, p, p + Len(part) - 1) = part
    <3> HIDE DEF p, part, comma
    <3>1. QED
      BY <1>1, <2>2, AtCut
  <2>5. p + Len(part) - 1 = Len(raw)
    <3>1. p + Len(part) = Len(raw) + 1
      BY <2>2
    <3> HIDE DEF p, part, comma
    <3>2. QED
      BY <1>3, <2>2, <3>1
  <2> HIDE DEF p, part, comma
  <2>6. ~(comma <= Len(raw)) /\ comma # Malformed(raw)
    <3>1. Malformed(raw) = Len(raw) + 2
      BY <1>1, Numbers
    <3>2. QED
      BY <1>3, <2>2, <3>1
  <2>7. split[p] = <<part>>
    BY <2>3, <2>4, <2>5, <2>6
  <2>8. QED
    BY <2>7 DEF p, part
<1> DEFINE A == {i \in 0 .. n - 1 : split[1] = SubSeq(parts, 1, i) \o split[q[i + 1]]}
<1>8. 0 \in A
  <2>1. SubSeq(parts, 1, 0) = <<>>
    BY <1>3, CutGrows
  <2>2. split[q[1]] \in Seq(Texts) /\ q[1] = 1
    <3>1. 1 \in Places(raw)
      BY <1>1, Numbers
    <3>2. QED
      BY <1>2, <1>4, <3>1
  <2>3. <<>> \o split[q[1]] = split[q[1]]
    BY <2>2, ConcatEmptySeq
  <2>4. 0 \in 0 .. n - 1 /\ 0 + 1 = 1
    BY <1>3
  <2>5. QED
    BY <2>1, <2>2, <2>3, <2>4
<1>9. ASSUME NEW k \in 0 .. n - 1, k < n - 1, k \in A
      PROVE  k + 1 \in A
  <2>1. /\ k + 1 \in 1 .. n - 1 /\ k + 1 \in 1 .. n /\ (k + 1) + 1 \in 1 .. n
        /\ k + 1 \in 0 .. n - 1 /\ k \in 0 .. Len(parts) /\ k < Len(parts)
    BY <1>3, <1>9
  <2> DEFINE a == SubSeq(parts, 1, k)
             b == <<parts[k + 1]>>
             c == split[q[(k + 1) + 1]]
  <2>2. a \in Seq(Texts) /\ a \o b = SubSeq(parts, 1, k + 1)
    BY <1>3, <2>1, CutGrows
  <2>3. b \in Seq(Texts) /\ c \in Seq(Texts)
    <3>1. parts[k + 1] \in Texts /\ q[(k + 1) + 1] \in Places(raw)
      BY <1>5, <2>1
    <3>2. QED
      BY <1>4, <3>1
  <2>4. split[1] = a \o (b \o c)
    BY <1>6, <1>9, <2>1
  <2>5. a \o (b \o c) = a \o b \o c
    <3>1. a \in Seq(Texts) /\ b \in Seq(Texts) /\ c \in Seq(Texts)
      BY <2>2, <2>3
    <3> HIDE DEF a, b, c
    <3>2. QED
      BY <3>1, ConcatAssociative
  <2>6. QED
    BY <2>1, <2>2, <2>4, <2>5
<1>10. n - 1 \in A
  <2> HIDE DEF A
  <2>1. n - 1 \in Nat /\ n - 1 \in 0 .. n - 1
    BY <1>3
  <2>2. \A k \in 0 .. n - 1 : k \in A
    BY <1>8, <1>9, <2>1, UpTo
  <2>3. QED
    BY <2>1, <2>2
<1>11. split[1] = parts
  <2>1. /\ (n - 1) + 1 = n /\ n - 1 \in 0 .. Len(parts) /\ n - 1 < Len(parts)
    BY <1>3
  <2>2. split[1] = SubSeq(parts, 1, n - 1) \o <<parts[n]>>
    BY <1>7, <1>10, <2>1
  <2>3. SubSeq(parts, 1, n - 1) \o <<parts[(n - 1) + 1]>> = SubSeq(parts, 1, (n - 1) + 1)
    BY <1>3, <2>1, CutGrows
  <2>4. SubSeq(parts, 1, n) = parts
    BY <1>3, CutGrows
  <2>5. QED
    BY <2>1, <2>2, <2>3, <2>4
<1>12. QED
  BY <1>4, <1>11 DEF raw, parts

(* A space before an identifier is stripped. *)
LEMMA TokenStripped ==
  ASSUME NEW s \in Texts, NEW part, part \in {Token(Tick, s), <<Blank>> \o Token(Tick, s)}
  PROVE  Strip(part) = Token(Tick, s)
<1> DEFINE token == Token(Tick, s)
<1>1. token \in Texts /\ Len(token) = Len(s) + 2 /\ Len(s) \in Nat
  BY TokenText, AboutTicks
<1> HIDE DEF token
<1>2. \A t \in Texts : \A p : At(t, p, token) => p \in 1 .. Len(t) /\ t[p] = Tick
  <2>1. ASSUME NEW t \in Texts, NEW p, At(t, p, Token(Tick, s))
        PROVE  p \in 1 .. Len(t) /\ t[p] = Tick
    <3>1. Len(t) \in Nat /\ p \in 1 .. Len(t) + 1 /\ p + Len(token) <= Len(t) + 1
      BY <2>1, Numbers DEF At, token
    <3>2. p \in 1 .. Len(t)
      BY <1>1, <3>1
    <3>3. t[p] = Tick
      BY <2>1, TokenAt, AboutTicks
    <3>4. QED
      BY <3>2, <3>3
  <2>2. QED
    BY <2>1 DEF token
<1>3. \A t \in Texts : \A p : At(t, p, token) => SkipSpace(t, p) = p
  <2>1. ASSUME NEW t \in Texts, NEW p, At(t, p, token)
        PROVE  SkipSpace(t, p) = p
    <3>1. p \in 1 .. Len(t) /\ t[p] \notin Space
      BY <1>2, <2>1, TickIsNoSpace
    <3>2. p \in Places(t)
      BY <3>1, Within
    <3>3. SkipOver(t, p, Space) = p
      BY <3>1, <3>2, Skips
    <3>4. QED
      BY <3>3 DEF SkipSpace, Space
  <2>2. QED
    BY <2>1
<1>4. CASE part = token
  <2>1. At(part, 1, token) /\ part \in Texts
    BY <1>1, <1>4, AtWhole
  <2>2. SkipSpace(part, 1) = 1
    BY <1>3, <2>1
  <2>3. 1 + Len(s) + 1 = Len(part)
    BY <1>1, <1>4
  <2>4. QED
    BY <2>1, <2>2, <2>3, StripToken DEF token
<1>5. CASE part = <<Blank>> \o token
  <2> DEFINE b == <<Blank>>
  <2>1. b \in Texts /\ Len(b) = 1 /\ b[1] = Blank /\ part = b \o token
    BY <1>5, AboutSeparators, Singles
  <2> HIDE DEF b
  <2>2. part \in Texts /\ Len(part) = 1 + Len(token)
    BY <1>1, <2>1, ConcatTexts
  <2>3. At(part, 1, b) /\ At(part, 1 + Len(b), token)
    <3>1. At(part, 1, b \o token)
      BY <2>1, <2>2, AtWhole
    <3>2. QED
      BY <1>1, <2>1, <2>2, <3>1, AtConcat
  <2>4. 1 \in 1 .. Len(part) /\ part[1] = Blank /\ At(part, 2, token)
    <3>1. At(part, 1, <<Blank>>)
      BY <2>3 DEF b
    <3>2. 1 \in 1 .. Len(part) /\ part[1] = Blank
      BY <2>2, <3>1, AboutSeparators, AtOne
    <3>3. 1 + Len(b) = 2
      BY <2>1
    <3>4. QED
      BY <2>3, <3>2, <3>3
  <2>5. SkipSpace(part, 2) = 2
    BY <1>3, <2>2, <2>4
  <2>6. SkipSpace(part, 1) = 2
    <3>1. part[1] \in Space /\ 1 \in Places(part) /\ 1 <= Len(part)
      <4>1. part[1] \in Space
        BY <2>4 DEF Space, Blank
      <4>2. 1 \in Places(part)
        BY <2>2, Numbers
      <4>3. 1 <= Len(part)
        BY <2>4
      <4>4. QED
        BY <4>1, <4>2, <4>3
    <3>2. SkipOver(part, 1, Space) = SkipOver(part, 1 + 1, Space)
      BY <2>2, <3>1, Skips
    <3>3. SkipOver(part, 2, Space) = 2
      BY <2>5 DEF SkipSpace, Space
    <3>4. SkipOver(part, 1, Space) = 2
      <4>1. 1 + 1 = 2
        OBVIOUS
      <4>2. QED
        BY <3>2, <3>3, <4>1
    <3>5. QED
      BY <3>4 DEF SkipSpace, Space
  <2>7. 2 + Len(s) + 1 = Len(part)
    BY <1>1, <2>2
  <2>8. QED
    BY <2>2, <2>4, <2>6, <2>7, StripToken DEF token
<1>6. QED
  BY <1>4, <1>5 DEF token

(* What the parser makes of a written key. *)
LEMMA KeysRead ==
  ASSUME NEW names, Named(names)
  PROVE  KeyColumns(Separated(Ids(names))) = {names}
<1> DEFINE n == Len(names)
           parts == Parts(names)
           raw == Separated(Ids(names))
<1>1. /\ n \in Nat \ {0} /\ parts \in Seq(Texts) /\ Len(parts) = n
      /\ \A i \in 1 .. n : names[i] \in Texts /\ names[i] # <<>>
  BY AboutParts
<1>2. SplitKeys(raw) = parts
  BY KeysSplit
<1>3. ASSUME NEW i \in 1 .. n
      PROVE  ParseIdentifier(parts[i]) = {names[i]}
  <2> DEFINE d == Doubled(names[i])
  <2>1. names[i] \in Texts /\ names[i] # <<>> /\ d \in Texts
    BY <1>1, DoubledRead
  <2>2. parts[i] = IF i = 1 THEN Token(Tick, d) ELSE <<Blank>> \o Token(Tick, d)
    BY DEF Parts, Ids
  <2>3. Strip(parts[i]) = Token(Tick, d)
    <3> HIDE DEF parts, d
    <3>1. parts[i] \in {Token(Tick, d), <<Blank>> \o Token(Tick, d)}
      BY <2>2
    <3>2. QED
      BY <2>1, <3>1, TokenStripped
  <2> HIDE DEF parts
  <2>4. QED
    BY <2>1, <2>3, IdentifierParsed
<1> HIDE DEF n, parts, raw
<1>4. \A part \in ToSet(parts) : ParseIdentifier(part) # {}
  <2>1. ASSUME NEW part \in ToSet(parts)
        PROVE  ParseIdentifier(part) # {}
    <3>1. PICK i \in 1 .. n : part = parts[i]
      BY <1>1 DEF ToSet
    <3>2. QED
      BY <1>3, <3>1
  <2>2. QED
    BY <2>1
<1>5. KeyColumns(raw) = {[i \in 1 .. Len(parts) |->
                            CHOOSE name \in ParseIdentifier(parts[i]) : TRUE]}
  BY <1>2, <1>4 DEF KeyColumns
<1>6. \A i \in 1 .. n : (CHOOSE name \in ParseIdentifier(parts[i]) : TRUE) = names[i]
  BY <1>3
<1>7. [i \in 1 .. n |-> CHOOSE name \in ParseIdentifier(parts[i]) : TRUE]
        = [i \in 1 .. n |-> names[i]]
  BY <1>6
<1>8. [i \in 1 .. n |-> names[i]] = names
  BY DEF Named, n
<1>9. KeyColumns(raw) = {names}
  BY <1>1, <1>5, <1>7, <1>8
<1>10. QED
  BY <1>9 DEF raw

-------------------------------------------------------------------------------
(* The properties are read back *)

Quote == "quote"
Double == "double"
Slash == "slash"

(* The other quotes, and the backslash. *)
LEMMA AboutQuotes ==
  /\ Quote \in Quotes /\ Double \in Quotes /\ Quote # Tick /\ Double # Tick
  /\ Quote \in Characters /\ Double \in Characters /\ Slash \in Characters
  /\ Slash \notin Quotes
BY DEF Quote, Double, Slash, Tick, Quotes, Characters, Words

Escape(c) == IF c \in {Quote, Slash} THEN <<Slash, c>> ELSE <<c>>

(* A search passes a literal, whatever its content. *)
LEMMA LiteralPassed ==
  ASSUME NEW content \in Texts, NEW S
  PROVE  Literal(content) \in Texts /\ Literal(content) \in Passed(Quotes, S)
<1> DEFINE n == Len(content)
           s == [i \in 1 .. n |-> Escape(content[i])]
           A == Inside(Quote)
<1>1. n \in Nat /\ \A i \in 1 .. n : content[i] \in Characters
  BY DEF Texts
<1>2. ASSUME NEW c \in Characters
      PROVE  Escape(c) \in Texts /\ Escape(c) \in A
  <2>1. <<Slash, c>> \in Texts /\ <<c>> \in Texts
    BY AboutQuotes, Singles, Pairs
  <2>2. <<Slash, c>> \in A
    BY AboutQuotes, InsideUnits DEF Slash, Tick
  <2>3. c \notin {Quote, Slash} => <<c>> \in A
    BY AboutQuotes, InsideUnits DEF Slash
  <2> HIDE DEF A
  <2>4. QED
    BY <2>1, <2>2, <2>3 DEF Escape
<1>3. s \in Seq(Texts) /\ Len(s) = n /\ \A i \in 1 .. n : s[i] = Escape(content[i])
  <2>1. \A i \in 1 .. n : Escape(content[i]) \in Texts
    BY <1>1, <1>2
  <2>2. QED
    BY <1>1, <2>1
<1>4. Literal(content) = Token(Quote, FlattenSeq(s))
  BY DEF Literal, Token, Escape, Quote, Slash
<1> HIDE DEF s, n
<1>5. FlattenSeq(s) \in A \cap Texts
  <2>1. \A i \in 1 .. Len(s) : s[i] \in A
    BY <1>1, <1>2, <1>3
  <2>2. <<>> \in A
    BY AboutQuotes, InsideUnits
  <2>3. ASSUME NEW i \in 1 .. Len(s), NEW a \in A \cap Texts
        PROVE  a \o s[i] \in A
    BY <2>1, InsideConcat
  <2> HIDE DEF A
  <2>4. QED
    BY <1>3, <2>2, <2>3, JoinedIn
<1>6. Token(Quote, FlattenSeq(s)) \in Texts
  BY <1>5, AboutQuotes, TokenText
<1>7. Token(Quote, FlattenSeq(s)) \in Passed(Quotes, S)
  <2>1. FlattenSeq(s) \in Inside(Quote) /\ Quotes \in SUBSET Quotes
    BY <1>5
  <2>2. QED
    BY <2>1, AboutQuotes, TokenPassed DEF Token
<1>8. QED
  BY <1>4, <1>6, <1>7

Equal == "="
Equation == <<" ", "=", " ">>

(* The sign between a key and a value. *)
LEMMA AboutEquations ==
  /\ Equation \in Texts /\ Len(Equation) = 3
  /\ Equation[1] = Blank /\ Equation[2] = Equal /\ Equation[3] = Blank
  /\ Equal \in Characters /\ Equal \notin Quotes /\ Equal # Blank
<1>1. Equal \in Characters /\ Equal \notin Quotes /\ Equal # Blank
  BY DEF Equal, Blank, Quotes, Characters, Words
<1>2. Equation = <<Blank, Equal, Blank>>
  BY DEF Equation, Blank, Equal
<1>3. <<Blank, Equal, Blank>> \in Seq(Characters)
  BY <1>1, AboutSeparators
<1>4. QED
  BY <1>1, <1>2, <1>3 DEF Texts

(* Words that the parser does not know. *)
Ordinaries == {"replication_num", "enable_unique_key_merge_on_write", "1", "false", "true"}

(* The words of the properties may be inside double quotes. *)
LEMMA AboutOrdinaries ==
  ASSUME NEW w \in Ordinaries
  PROVE  /\ w \in Characters /\ w # Double /\ w # Slash
         /\ <<w>> \in Texts /\ Len(<<w>>) = 1 /\ <<w>>[1] = w
         /\ <<w>> \in Inside(Double)
<1>1. w \in Characters /\ w # Double /\ w # Slash
  BY DEF Ordinaries, Double, Slash, Characters, Words
<1>2. <<w>> \in Inside(Double)
  BY <1>1, AboutQuotes, InsideUnits DEF Slash
<1>3. QED
  BY <1>1, <1>2, Singles

(* A property is two tokens with an equals sign between them. *)
LEMMA PropertyIs ==
  ASSUME NEW k \in Ordinaries, NEW v \in Ordinaries
  PROVE  LET key == Token(Double, <<k>>)
             value == Token(Double, <<v>>)
         IN  /\ Property(<<k>>, <<v>>) = key \o Equation \o value
             /\ key \in Texts /\ Len(key) = 3 /\ value \in Texts /\ Len(value) = 3
             /\ key \o Equation \in Texts /\ Len(key \o Equation) = 6
             /\ Property(<<k>>, <<v>>) \in Texts /\ Len(Property(<<k>>, <<v>>)) = 9
             /\ \A S : Equation \in Plain(S) => Property(<<k>>, <<v>>) \in Passed(Quotes, S)
<1> DEFINE key == Token(Double, <<k>>)
           value == Token(Double, <<v>>)
           property == Property(<<k>>, <<v>>)
<1>1. property = key \o Equation \o value
  BY DEF Property, Token, Double, Equation
<1>2. key \in Texts /\ Len(key) = 3 /\ value \in Texts /\ Len(value) = 3
  <2>1. \A w \in Ordinaries : Token(Double, <<w>>) \in Texts /\ Len(Token(Double, <<w>>)) = 1 + 2
    BY AboutOrdinaries, AboutQuotes, TokenText
  <2>2. QED
    BY <2>1
<1>3. \A S : key \in Passed(Quotes, S) /\ value \in Passed(Quotes, S)
  <2>1. ASSUME NEW w \in Ordinaries, NEW S
        PROVE  Token(Double, <<w>>) \in Passed(Quotes, S)
    <3>1. <<w>> \in Inside(Double) /\ Quotes \in SUBSET Quotes
      BY AboutOrdinaries
    <3>2. QED
      BY <3>1, AboutQuotes, TokenPassed DEF Token
  <2>2. QED
    BY <2>1
<1> HIDE DEF key, value
<1>4. key \o Equation \in Texts /\ Len(key \o Equation) = 6
  <2>1. Equation \in Texts /\ Len(Equation) = 3
    BY AboutEquations
  <2>2. key \o Equation \in Texts /\ Len(key \o Equation) = Len(key) + Len(Equation)
    BY <1>2, <2>1, ConcatTexts
  <2>3. QED
    BY <1>2, <2>1, <2>2
<1>5. property \in Texts /\ Len(property) = 9
  <2> DEFINE front == key \o Equation
  <2>1. front \in Texts /\ Len(front) = 6 /\ property = front \o value
    BY <1>1, <1>4
  <2> HIDE DEF front, property
  <2>2. front \o value \in Texts /\ Len(front \o value) = Len(front) + Len(value)
    BY <1>2, <2>1, ConcatTexts
  <2>3. QED
    BY <1>2, <2>1, <2>2
<1>6. ASSUME NEW S, Equation \in Plain(S)
      PROVE  property \in Passed(Quotes, S)
  <2>1. Quotes \in SUBSET Quotes /\ Equation # <<>>
    BY AboutEquations, EmptyText
  <2>2. key \o Equation \o value \in Passed(Quotes, S)
    BY <1>3, <1>6, <2>1, WordsPassed
  <2>3. QED
    BY <1>1, <2>2
<1>7. QED
  BY <1>1, <1>2, <1>4, <1>5, <1>6 DEF key, value

(* Skipping spaces stops at the first other character. *)
LEMMA SkipSpaceAt ==
  ASSUME NEW t \in Texts, NEW i \in Places(t)
  PROVE  /\ SkipSpace(t, i) \in Places(t) /\ SkipSpace(t, i) >= i
         /\ i <= Len(t) /\ t[i] = Blank => SkipSpace(t, i) = SkipSpace(t, i + 1)
         /\ (i <= Len(t) => t[i] # Blank) => SkipSpace(t, i) = i
<1>1. \A j : SkipSpace(t, j) = SkipOver(t, j, Space)
  BY DEF SkipSpace, Space
<1>2. \A c : c \in Space <=> c = Blank
  BY DEF Space, Blank
<1>3. QED
  BY <1>1, <1>2, Skips

(* A token is behind where it is looked for. *)
LEMMA TokenLater ==
  ASSUME NEW t \in Texts, NEW start \in Places(t), NEW token \in PropertyToken(t, start)
  PROVE  token.end \in Places(t) /\ token.end > start
<1> DEFINE i == SkipSpace(t, start)
           end == IF t[i] \in Quotes THEN QuotedEnd(t, i)
                  ELSE FindOutside(t, i, {}, {" ", "=", ","})
<1>1. i \in Places(t) /\ i >= start
  BY SkipSpaceAt
<1>2. ~(i > Len(t)) /\ token.end = end /\ end # i
  <2> DEFINE word == SubSeq(t, i, end - 1)
             value == SubSeq(t, i + 1, end - 2)
             content == IF t[i] = "tick" THEN value ELSE Undouble(value, t[i])
  <2>1. token \in IF i > Len(t) THEN {}
                  ELSE IF end \in {Malformed(t), i} THEN {}
                  ELSE IF t[i] \notin Quotes THEN {[value |-> word, end |-> end]}
                  ELSE {[value |-> content, end |-> end]}
    BY DEF PropertyToken
  <2> HIDE DEF i, end, word, content
  <2>2. QED
    BY <2>1
<1> HIDE DEF i
<1>3. i \in 1 .. Len(t)
  <2>1. Len(t) \in Nat /\ Places(t) = 1 .. Len(t) + 2
    BY Numbers
  <2> HIDE DEF end
  <2>2. QED
    BY <1>1, <1>2, <2>1
<1>4. QuotedEnd(t, i) \in Places(t) /\ QuotedEnd(t, i) > i
  BY <1>3, QuotedEnds
<1> DEFINE found == FindOutside(t, i, {}, {" ", "=", ","})
<1>5. found \in Places(t) /\ found >= i
  BY <1>1, FoundBehind
<1> HIDE DEF found
<1>6. end \in Places(t) /\ end >= i
  <2>1. end = IF t[i] \in Quotes THEN QuotedEnd(t, i) ELSE found
    BY DEF found
  <2> HIDE DEF end
  <2>2. CASE t[i] \in Quotes
    BY <1>3, <1>4, <2>1, <2>2, Numbers
  <2>3. CASE t[i] \notin Quotes
    BY <1>5, <2>1, <2>3
  <2>4. QED
    BY <2>2, <2>3
<1> HIDE DEF end
<1>7. QED
  BY <1>1, <1>2, <1>6, Numbers

(* What follows a property is behind where it is looked for. *)
LEMMA PropertyLater ==
  ASSUME NEW t \in Texts, NEW start \in Places(t), NEW p \in PropertyAt(t, start)
  PROVE  p.mow \in BOOLEAN /\ p.after \in Places(t) /\ p.after > start
<1>1. PICK key \in PropertyToken(t, start) :
        /\ ~(SkipSpace(t, key.end) > Len(t))
        /\ \E value \in PropertyToken(t, SkipSpace(t, key.end) + 1) :
             p = [mow |-> key.value = MowProperty /\ value.value = <<"true">>,
                  after |-> SkipSpace(t, value.end)]
  BY DEF PropertyAt
<1>2. PICK value \in PropertyToken(t, SkipSpace(t, key.end) + 1) :
        p = [mow |-> key.value = MowProperty /\ value.value = <<"true">>,
             after |-> SkipSpace(t, value.end)]
  BY <1>1
<1>3. key.end \in Places(t) /\ key.end > start
  BY TokenLater
<1> DEFINE equal == SkipSpace(t, key.end)
<1>4. equal \in Places(t) /\ equal >= key.end
  BY <1>3, SkipSpaceAt
<1>5. equal + 1 \in Places(t)
  <2> HIDE DEF equal
  <2>1. ~(equal > Len(t))
    BY <1>1 DEF equal
  <2>2. QED
    BY <1>4, <2>1, Numbers
<1>6. value.end \in Places(t) /\ value.end > equal + 1
  BY <1>2, <1>5, TokenLater
<1>7. SkipSpace(t, value.end) \in Places(t) /\ SkipSpace(t, value.end) >= value.end
  BY <1>6, SkipSpaceAt
<1>8. p.mow \in BOOLEAN /\ p.after = SkipSpace(t, value.end)
  BY <1>2
<1> DEFINE after == p.after
           ke == key.end
           ve == value.end
<1> HIDE DEF equal
<1>9. /\ start \in Int /\ ke \in Int /\ equal \in Int /\ ve \in Int /\ after \in Int
      /\ ke > start /\ equal >= ke /\ ve > equal + 1 /\ after >= ve
  BY <1>3, <1>4, <1>6, <1>7, <1>8, Numbers DEF equal
<1>10. after > start
  <2> HIDE DEF after, ke, ve
  <2>1. QED
    BY <1>9
<1>11. QED
  BY <1>7, <1>8, <1>10

MowNode(text, scan, i) ==
    LET start == SkipOver(text, i, {" ", ","})
    IN  IF start > Len(text) THEN {FALSE}
        ELSE UNION {IF p.after <= Len(text) /\ text[p.after] # "," THEN {}
                    ELSE {p.mow \/ found : found \in scan[p.after]}
                    : p \in PropertyAt(text, start)}

(* The properties are looked at one after the other. *)
LEMMA MowScan ==
  ASSUME NEW text \in Texts
  PROVE  \E scan \in [Places(text) -> SUBSET BOOLEAN] :
           /\ \A i \in Places(text) : scan[i] = MowNode(text, scan, i)
           /\ TrueMow(text) = scan[1]
<1> DEFINE V == SUBSET BOOLEAN
           v == {}
           Node(f, i) == MowNode(text, f, i)
           g == CHOOSE scan : scan = [i \in Places(text) |-> Node(scan, i)]
           Step == [f \in [Places(text) -> V] |-> [i \in Places(text) |-> Node(f, i)]]
<1>1. v \in V
  OBVIOUS
<1>2. \A i \in Places(text) : \A p : p \in PropertyAt(text, SkipOver(text, i, {" ", ","})) =>
        p.mow \in BOOLEAN /\ p.after \in Places(text) /\ p.after > i
  <2> DEFINE S == {" ", ","}
  <2> HIDE DEF S
  <2>1. ASSUME NEW i \in Places(text), NEW p \in PropertyAt(text, SkipOver(text, i, S))
        PROVE  p.mow \in BOOLEAN /\ p.after \in Places(text) /\ p.after > i
    <3> DEFINE start == SkipOver(text, i, S)
               after == p.after
    <3>1. start \in Places(text) /\ start >= i
      BY Skips
    <3>2. p.mow \in BOOLEAN /\ after \in Places(text) /\ after > start
      BY <3>1, PropertyLater
    <3> HIDE DEF start, after
    <3>3. after > i
      BY <3>1, <3>2, Numbers
    <3>4. QED
      BY <3>2, <3>3 DEF after
  <2>2. QED
    BY <2>1 DEF S
<1>3. ASSUME NEW f \in [Places(text) -> V], NEW i \in Places(text)
      PROVE  Node(f, i) \in V
  <2>1. \A p \in PropertyAt(text, SkipOver(text, i, {" ", ","})) :
          {p.mow \/ found : found \in f[p.after]} \in V
    BY <1>2
  <2>2. QED
    BY <2>1 DEF MowNode
<1>4. ASSUME NEW f, NEW h, NEW i \in Places(text),
             \A j \in Places(text) : j > i => f[j] = h[j]
      PROVE  Node(f, i) = Node(h, i)
  <2> DEFINE P == PropertyAt(text, SkipOver(text, i, {" ", ","}))
             Set(k, p) == IF p.after <= Len(text) /\ text[p.after] # "," THEN {}
                          ELSE {p.mow \/ found : found \in k[p.after]}
  <2>1. \A p \in P : f[p.after] = h[p.after]
    BY <1>2, <1>4
  <2>2. \A p \in P : Set(f, p) = Set(h, p)
    BY <2>1
  <2>3. {Set(f, p) : p \in P} = {Set(h, p) : p \in P}
    <3> HIDE DEF Set, P
    <3>1. QED
      BY <2>2
  <2>4. QED
    BY <2>3 DEF MowNode
<1> HIDE DEF Node, g
<1>5. Ahead(text, V, Step)
  <2>1. Step \in [[Places(text) -> V] -> [Places(text) -> V]]
    BY <1>3
  <2>2. ASSUME NEW f \in [Places(text) -> V], NEW h \in [Places(text) -> V], NEW i \in Places(text),
               \A j \in Places(text) : j > i => f[j] = h[j]
        PROVE  Step[f][i] = Step[h][i]
    <3>1. Step[f][i] = Node(f, i) /\ Step[h][i] = Node(h, i)
      OBVIOUS
    <3>2. QED
      BY <1>4, <2>2, <3>1
  <2> HIDE DEF Step, V
  <2>3. QED
    BY <2>1, <2>2 DEF Ahead
<1>6. PICK f \in [Places(text) -> V] : f = [i \in Places(text) |-> Node(f, i)]
  <2>1. \E f \in [Places(text) -> V] : f = Step[f]
    <3> HIDE DEF Step, V, v
    <3>1. QED
      BY <1>1, <1>5, ScanExists
  <2>2. QED
    BY <2>1
<1>7. g = [i \in Places(text) |-> Node(g, i)]
  BY <1>6 DEF g
<1>8. \A i \in Places(text) : g[i] \in V
  <2> DEFINE A == {i \in Places(text) : g[i] \in V}
             Cut == [i \in Places(text) |-> IF g[i] \in V THEN g[i] ELSE v]
  <2>1. ASSUME NEW i \in Places(text), \A j \in Places(text) : j > i => j \in A
        PROVE  i \in A
    <3>1. Cut \in [Places(text) -> V]
      BY <1>1
    <3>2. \A j \in Places(text) : j > i => Cut[j] = g[j]
      BY <2>1
    <3> HIDE DEF Cut
    <3>3. Node(Cut, i) = Node(g, i) /\ Node(Cut, i) \in V
      BY <1>3, <1>4, <3>1, <3>2
    <3>4. QED
      BY <1>7, <3>3
  <2>2. \A i \in Places(text) : i \in A
    <3> HIDE DEF A
    <3>1. QED
      BY <2>1, FromTheEnd
  <2>3. QED
    BY <2>2
<1>9. g \in [Places(text) -> V] /\ \A i \in Places(text) : g[i] = Node(g, i)
  BY <1>7, <1>8
<1>10. TrueMow(text) = g[1]
  BY DEF TrueMow, g, Node, MowNode
<1>11. QED
  BY <1>9, <1>10 DEF Node

(* A word has no quote to replace. *)
LEMMA WordUndoubled ==
  ASSUME NEW w \in Ordinaries
  PROVE  Undouble(<<w>>, Double) = <<w>>
<1> DEFINE s == <<w>>
<1>1. s \in Texts /\ Len(s) = 1 /\ s[1] = w /\ w # Double /\ w \in Characters
  BY AboutOrdinaries
<1> HIDE DEF s
<1>2. PICK single \in [Places(s) -> Texts] :
        /\ \A i \in Places(s) : single[i] = SingleNode(s, Double, single, i)
        /\ Undouble(s, Double) = single[1]
  BY <1>1, AboutQuotes, UndoubleScan
<1>3. 1 \in Places(s) /\ 2 \in Places(s)
  BY <1>1, Numbers
<1>4. single[2] = <<>>
  <2>1. single[2] = SingleNode(s, Double, single, 2) /\ 2 > Len(s)
    BY <1>1, <1>2, <1>3
  <2>2. QED
    BY <2>1 DEF SingleNode
<1>5. single[1] = <<w>> \o single[2]
  <2>1. single[1] = SingleNode(s, Double, single, 1) /\ ~(1 > Len(s)) /\ 1 + 1 = 2
    BY <1>1, <1>2, <1>3
  <2>2. QED
    BY <1>1, <2>1 DEF SingleNode
<1>6. <<w>> \o <<>> = <<w>>
  BY <1>1, ConcatTexts DEF s
<1>7. QED
  BY <1>2, <1>4, <1>5, <1>6 DEF s

(* Where the word in a token is. *)
LEMMA DoubleAt ==
  ASSUME NEW t \in Texts, NEW w \in Ordinaries, NEW p, At(t, p, Token(Double, <<w>>))
  PROVE  /\ At(t, p + 1, <<w>>) /\ Len(t) \in Nat /\ p \in Nat \ {0}
         /\ p + 1 + 1 <= Len(t) /\ t[p] = Double
<1> DEFINE s == <<w>>
<1>1. s \in Texts /\ Len(s) = 1 /\ At(t, p, Token(Double, s))
  BY AboutOrdinaries
<1>2. Double \in Characters
  BY AboutQuotes
<1> HIDE DEF s
<1>3. /\ At(t, p + 1, s) /\ Len(t) \in Nat /\ p \in Nat \ {0}
      /\ p + 1 + Len(s) <= Len(t) /\ t[p] = Double
  <2>1. At(t, p + 1, s)
    BY <1>1, <1>2, TokenAt
  <2>2. Len(t) \in Nat
    BY <1>1, <1>2, TokenAt
  <2>3. p \in Nat \ {0}
    BY <1>1, <1>2, TokenAt
  <2>4. p + 1 + Len(s) <= Len(t)
    BY <1>1, <1>2, TokenAt
  <2>5. t[p] = Double
    BY <1>1, <1>2, TokenAt
  <2>6. QED
    BY <2>1, <2>2, <2>3, <2>4, <2>5
<1>4. p + 1 + 1 <= Len(t)
  BY <1>1, <1>3
<1>5. QED
  BY <1>3, <1>4 DEF s

(* A word is read back from its token, *)
LEMMA TokenRead ==
  ASSUME NEW t \in Texts, NEW w \in Ordinaries, NEW p, At(t, p, Token(Double, <<w>>)),
         p + 3 <= Len(t) => t[p + 3] # Double,
         NEW start, SkipSpace(t, start) = p
  PROVE  PropertyToken(t, start) = {[value |-> <<w>>, end |-> p + 3]}
<1> DEFINE s == <<w>>
           end == p + 3
<1>1. s \in Texts /\ Len(s) = 1 /\ s \in Inside(Double) /\ Undouble(s, Double) = s
  BY AboutOrdinaries, WordUndoubled
<1>2. At(t, p, Token(Double, s))
  OBVIOUS
<1> HIDE DEF s
<1>3. /\ At(t, p + 1, s) /\ Len(t) \in Nat /\ p \in Nat \ {0}
      /\ p + 1 + 1 <= Len(t) /\ t[p] = Double
  BY DoubleAt DEF s
<1>4. QuotedEnd(t, p) = end
  <2>1. p + Len(s) + 2 = end
    BY <1>1, <1>3
  <2> HIDE DEF end
  <2>2. At(t, p, <<Double>> \o s \o <<Double>>)
    BY <1>2 DEF Token
  <2>3. p + Len(s) + 2 <= Len(t) => t[p + Len(s) + 2] # Double
    BY <2>1 DEF end
  <2>4. Double \in Quotes /\ s \in Inside(Double)
    BY <1>1, AboutQuotes
  <2>5. QuotedEnd(t, p) = p + Len(s) + 2
    BY <2>2, <2>3, <2>4, TokenEnds
  <2>6. QED
    BY <2>1, <2>5
<1>5. SubSeq(t, p + 1, end - 2) = s
  <2>1. SubSeq(t, p + 1, p + 1 + Len(s) - 1) = s
    BY <1>1, <1>3, AtCut
  <2>2. p + 1 + Len(s) - 1 = end - 2
    BY <1>1, <1>3
  <2>3. QED
    BY <2>1, <2>2
<1>6. ~(p > Len(t)) /\ end \notin {Malformed(t), p}
  <2>1. Malformed(t) = Len(t) + 2
    BY Numbers
  <2>2. QED
    BY <1>3, <2>1
<1> HIDE DEF end
<1>7. t[p] \in Quotes /\ t[p] # "tick"
  BY <1>3, AboutQuotes DEF Tick
<1>8. PropertyToken(t, start) = {[value |-> Undouble(SubSeq(t, p + 1, end - 2), t[p]), end |-> end]}
  BY <1>4, <1>6, <1>7 DEF PropertyToken
<1>9. QED
  BY <1>1, <1>3, <1>5, <1>8 DEF s, end

(* and a property from its tokens. *)
LEMMA PropertyRead ==
  ASSUME NEW t \in Texts, NEW k \in Ordinaries, NEW v \in Ordinaries, NEW p,
         At(t, p, Property(<<k>>, <<v>>)), p + 9 <= Len(t) => t[p + 9] = Comma
  PROVE  /\ PropertyAt(t, p) = {[mow |-> <<k>> = MowProperty /\ <<v>> = <<"true">>,
                                 after |-> p + 9]}
         /\ p \in 1 .. Len(t) /\ t[p] = Double /\ p + 9 <= Len(t) + 1
<1> DEFINE key == Token(Double, <<k>>)
           value == Token(Double, <<v>>)
           front == key \o Equation
<1>1. /\ Property(<<k>>, <<v>>) = front \o value
      /\ key \in Texts /\ Len(key) = 3 /\ value \in Texts /\ Len(value) = 3
      /\ front \in Texts /\ Len(front) = 6
  BY PropertyIs
<1>2. At(t, p, front) /\ At(t, p + 6, value)
  <2> HIDE DEF front, value
  <2>1. At(t, p, front \o value)
    BY <1>1
  <2>2. At(t, p, front) /\ At(t, p + Len(front), value)
    BY <1>1, <2>1, AtConcat
  <2>3. QED
    BY <1>1, <2>2
<1>3. At(t, p, key) /\ At(t, p + 3, Equation)
  <2> HIDE DEF key
  <2>1. At(t, p, key) /\ At(t, p + Len(key), Equation)
    BY <1>1, <1>2, AboutEquations, AtConcat
  <2>2. QED
    BY <1>1, <2>1
<1>4. \A q, w : w \in Ordinaries /\ At(t, q, Token(Double, <<w>>)) =>
        /\ q \in 1 .. Len(t) /\ q + 3 <= Len(t) + 1 /\ t[q] = Double
        /\ SkipSpace(t, q) = q /\ q \in Places(t)
  <2>1. ASSUME NEW q, NEW w \in Ordinaries, At(t, q, Token(Double, <<w>>))
        PROVE  /\ q \in 1 .. Len(t) /\ q + 3 <= Len(t) + 1 /\ t[q] = Double
               /\ SkipSpace(t, q) = q /\ q \in Places(t)
    <3>2. Len(t) \in Nat /\ q \in Nat \ {0} /\ q + 1 + 1 <= Len(t) /\ t[q] = Double
      BY <2>1, DoubleAt
    <3>3. q \in 1 .. Len(t) /\ q + 3 <= Len(t) + 1
      BY <3>2
    <3>4. q \in Places(t) /\ t[q] # Blank
      BY <3>2, <3>3, Within, AboutQuotes, AboutSeparators
    <3>5. SkipSpace(t, q) = q
      BY <3>4, SkipSpaceAt
    <3>6. QED
      BY <3>2, <3>3, <3>4, <3>5
  <2>2. QED
    BY <2>1
<1>5. /\ p \in 1 .. Len(t) /\ t[p] = Double /\ SkipSpace(t, p) = p
      /\ p + 6 \in 1 .. Len(t) /\ p + 6 + 3 <= Len(t) + 1 /\ t[p + 6] = Double
      /\ SkipSpace(t, p + 6) = p + 6 /\ p + 6 \in Places(t)
  BY <1>2, <1>3, <1>4
<1>6. t[p + 3] = Blank /\ t[p + 4] = Equal /\ t[p + 5] = Blank
  <2>1. \A j \in 1 .. 3 : t[(p + 3) + j - 1] = Equation[j]
    BY <1>3, AboutEquations DEF At
  <2>2. (p + 3) + 1 - 1 = p + 3 /\ (p + 3) + 2 - 1 = p + 4 /\ (p + 3) + 3 - 1 = p + 5
    BY <1>5
  <2>3. 1 \in 1 .. 3 /\ 2 \in 1 .. 3 /\ 3 \in 1 .. 3
    OBVIOUS
  <2>4. QED
    BY <2>1, <2>2, <2>3, AboutEquations
<1>7. /\ p + 3 \in 1 .. Len(t) /\ p + 4 \in 1 .. Len(t) /\ p + 5 \in 1 .. Len(t)
      /\ (p + 3) + 1 = p + 4 /\ (p + 4) + 1 = p + 5 /\ (p + 5) + 1 = p + 6 /\ p + 6 + 3 = p + 9
      /\ Len(t) \in Nat /\ p \in Nat
  <2>1. Len(t) \in Nat
    BY Numbers
  <2>2. QED
    BY <1>5, <2>1
<1>8. SkipSpace(t, p + 3) = p + 4
  <2>1. p + 3 \in Places(t) /\ p + 4 \in Places(t) /\ p + 3 <= Len(t)
    BY <1>7, Within
  <2>2. SkipSpace(t, p + 3) = SkipSpace(t, p + 4)
    BY <1>6, <1>7, <2>1, SkipSpaceAt
  <2>3. SkipSpace(t, p + 4) = p + 4
    BY <1>6, <2>1, AboutEquations, SkipSpaceAt
  <2>4. QED
    BY <2>2, <2>3
<1>9. SkipSpace(t, p + 5) = p + 6
  <2>1. p + 5 \in Places(t) /\ p + 5 <= Len(t)
    BY <1>7, Within
  <2>2. SkipSpace(t, p + 5) = SkipSpace(t, p + 6)
    BY <1>6, <1>7, <2>1, SkipSpaceAt
  <2>3. QED
    BY <1>5, <2>2
<1>10. SkipSpace(t, p + 9) = p + 9
  <2>1. p + 9 \in Places(t)
    <3>1. p + 9 \in 1 .. Len(t) + 2
      BY <1>5, <1>7
    <3>2. QED
      BY <3>1, Numbers
  <2>2. p + 9 <= Len(t) => t[p + 9] # Blank
    BY AboutSeparators
  <2>3. QED
    BY <2>1, <2>2, SkipSpaceAt
<1>11. PropertyToken(t, p) = {[value |-> <<k>>, end |-> p + 3]}
  <2>1. t[p + 3] # Double
    BY <1>6, AboutQuotes, AboutSeparators
  <2>2. QED
    BY <1>3, <1>5, <2>1, TokenRead
<1>12. PropertyToken(t, p + 5) = {[value |-> <<v>>, end |-> p + 9]}
  <2> DEFINE q == p + 6
  <2>1. At(t, q, Token(Double, <<v>>)) /\ q + 3 = p + 9 /\ SkipSpace(t, p + 5) = q
    BY <1>2, <1>7, <1>9
  <2>2. q + 3 <= Len(t) => t[q + 3] # Double
    BY <2>1, AboutQuotes, AboutSeparators
  <2> HIDE DEF q
  <2>3. PropertyToken(t, p + 5) = {[value |-> <<v>>, end |-> q + 3]}
    BY <2>1, <2>2, TokenRead
  <2>4. QED
    BY <2>1, <2>3
<1>13. PropertyAt(t, p) = {[mow |-> <<k>> = MowProperty /\ <<v>> = <<"true">>, after |-> p + 9]}
  <2>1. ~(p + 4 > Len(t)) /\ t[p + 4] = "="
    BY <1>6, <1>7 DEF Equal
  <2> DEFINE mow == <<k>> = MowProperty /\ <<v>> = <<"true">>
             K == [value |-> <<k>>, end |-> p + 3]
             V == [value |-> <<v>>, end |-> p + 9]
  <2>2. PropertyAt(t, p) =
          UNION {LET equal == SkipSpace(t, kk.end)
                 IN  IF equal > Len(t) \/ t[equal] # "=" THEN {}
                     ELSE {[mow |-> kk.value = MowProperty /\ vv.value = <<"true">>,
                            after |-> SkipSpace(t, vv.end)]
                           : vv \in PropertyToken(t, equal + 1)}
                 : kk \in {K}}
    BY <1>11 DEF PropertyAt
  <2>3. PropertyAt(t, p) =
          LET equal == SkipSpace(t, K.end)
          IN  IF equal > Len(t) \/ t[equal] # "=" THEN {}
              ELSE {[mow |-> K.value = MowProperty /\ vv.value = <<"true">>,
                     after |-> SkipSpace(t, vv.end)]
                    : vv \in PropertyToken(t, equal + 1)}
    <3> HIDE DEF K
    <3>1. QED
      BY <2>2
  <2>4. SkipSpace(t, K.end) = p + 4 /\ PropertyToken(t, (p + 4) + 1) = {V}
    BY <1>7, <1>8, <1>12
  <2>5. PropertyAt(t, p) = {[mow |-> K.value = MowProperty /\ vv.value = <<"true">>,
                             after |-> SkipSpace(t, vv.end)] : vv \in {V}}
    <3> HIDE DEF K, V
    <3>1. QED
      BY <2>1, <2>3, <2>4
  <2>6. PropertyAt(t, p) = {[mow |-> K.value = MowProperty /\ V.value = <<"true">>,
                             after |-> SkipSpace(t, V.end)]}
    <3> HIDE DEF K, V
    <3>1. QED
      BY <2>5
  <2>7. K.value = <<k>> /\ V.value = <<v>> /\ SkipSpace(t, V.end) = p + 9
    BY <1>10
  <2> HIDE DEF K, V
  <2>8. QED
    BY <2>6, <2>7
<1>14. QED
  BY <1>5, <1>7, <1>13

(* A list of one part, and of two. *)
LEMMA SeparatedItems ==
  ASSUME NEW a \in Texts, NEW b \in Texts
  PROVE  /\ Separated(<<a>>) = a
         /\ Separated(<<a, b>>) = a \o (Separator \o b)
<1>0. Separator \in Texts /\ Separator \o b \in Texts
  BY AboutSeparators, Pairs, ConcatTexts
<1>1. Separated(<<a>>) = a
  <2> DEFINE s == [i \in 1 .. Len(<<a>>) |-> IF i = 1 THEN <<a>>[i] ELSE Separator \o <<a>>[i]]
  <2>1. Separated(<<a>>) = FlattenSeq(s)
    BY DEF Separated, Separator
  <2>2. s = <<a>>
    OBVIOUS
  <2>3. s \in Seq(Texts) /\ Len(s) = 1 /\ s[1] = a
    BY <2>2
  <2> HIDE DEF s
  <2>4. PICK f \in [0 .. Len(s) -> Texts] :
          /\ f[0] = <<>>
          /\ \A i \in 1 .. Len(s) : f[i] = f[i - 1] \o s[i]
          /\ FlattenSeq(s) = f[Len(s)]
    BY <2>3, Joined
  <2>5. f[1] = f[0] \o s[1]
    <3>1. 1 \in 1 .. Len(s) /\ 1 - 1 = 0
      BY <2>3
    <3>2. QED
      BY <2>4, <3>1
  <2>6. <<>> \o a = a
    BY ConcatTexts
  <2>7. QED
    BY <2>1, <2>3, <2>4, <2>5, <2>6
<1>2. Separated(<<a, b>>) = a \o (Separator \o b)
  <2> DEFINE s == [i \in 1 .. Len(<<a, b>>) |->
                     IF i = 1 THEN <<a, b>>[i] ELSE Separator \o <<a, b>>[i]]
             c == Separator \o b
  <2>1. Separated(<<a, b>>) = FlattenSeq(s)
    BY DEF Separated, Separator
  <2>2. s = <<a, c>>
    OBVIOUS
  <2> HIDE DEF c
  <2>3. s \in Seq(Texts) /\ Len(s) = 2 /\ s[1] = a /\ s[2] = c
    <3>1. c \in Texts
      BY <1>0 DEF c
    <3> HIDE DEF s
    <3>2. QED
      BY <2>2, <3>1
  <2> HIDE DEF s
  <2>4. PICK f \in [0 .. Len(s) -> Texts] :
          /\ f[0] = <<>>
          /\ \A i \in 1 .. Len(s) : f[i] = f[i - 1] \o s[i]
          /\ FlattenSeq(s) = f[Len(s)]
    BY <2>3, Joined
  <2>5. f[1] = f[0] \o s[1] /\ f[2] = f[1] \o s[2]
    <3>1. 1 \in 1 .. Len(s) /\ 1 - 1 = 0 /\ 2 \in 1 .. Len(s) /\ 2 - 1 = 1
      BY <2>3
    <3>2. QED
      BY <2>4, <3>1
  <2>6. <<>> \o a = a
    BY ConcatTexts
  <2>7. QED
    BY <2>1, <2>3, <2>4, <2>5, <2>6 DEF c
<1>3. QED
  BY <1>1, <1>2

Separators == {" ", ","}

Scans(t, scan) == \A i \in Places(t) : scan[i] = MowNode(t, scan, i)

(* There is no Merge-on-Write property at the end. *)
LEMMA MowEnd ==
  ASSUME NEW t \in Texts, NEW scan, Scans(t, scan), NEW i \in Places(t), i > Len(t)
  PROVE  scan[i] = {FALSE}
<1>1. SkipOver(t, i, Separators) = i
  <2>1. ~(i <= Len(t))
    BY Numbers
  <2>2. QED
    BY <2>1, Skips
<1>2. SkipOver(t, i, {" ", ","}) = i
  BY <1>1 DEF Separators
<1>3. QED
  BY <1>2 DEF MowNode, Scans

(* One step of the scan of the properties. *)
LEMMA MowStep ==
  ASSUME NEW t \in Texts, NEW scan, Scans(t, scan), NEW i \in Places(t),
         NEW k \in Ordinaries, NEW v \in Ordinaries, NEW p,
         SkipOver(t, i, Separators) = p, At(t, p, Property(<<k>>, <<v>>)),
         p + 9 <= Len(t) => t[p + 9] = Comma
  PROVE  scan[i] = {(<<k>> = MowProperty /\ <<v>> = <<"true">>) \/ found
                    : found \in scan[p + 9]}
<1> DEFINE after == p + 9
           mow == <<k>> = MowProperty /\ <<v>> = <<"true">>
           P == [mow |-> mow, after |-> after]
<1>1. PropertyAt(t, p) = {P} /\ p \in 1 .. Len(t)
  BY PropertyRead
<1>2. ~(p > Len(t))
  BY <1>1, Within
<1>3. ~(after <= Len(t) /\ t[after] # ",")
  BY DEF Comma
<1>4. P.mow = mow /\ P.after = after
  OBVIOUS
<1> HIDE DEF P, mow, after
<1>5. SkipOver(t, i, {" ", ","}) = p
  BY DEF Separators
<1>6. scan[i] = UNION {IF q.after <= Len(t) /\ t[q.after] # "," THEN {}
                       ELSE {q.mow \/ found : found \in scan[q.after]} : q \in {P}}
  BY <1>1, <1>2, <1>5 DEF MowNode, Scans
<1> DEFINE S(m, a) == IF a <= Len(t) /\ t[a] # "," THEN {}
                      ELSE {m \/ found : found \in scan[a]}
<1>7. scan[i] = S(mow, after)
  <2>1. scan[i] = UNION {S(q.mow, q.after) : q \in {P}}
    BY <1>6
  <2> HIDE DEF S
  <2>2. UNION {S(q.mow, q.after) : q \in {P}} = S(P.mow, P.after)
    OBVIOUS
  <2>3. QED
    BY <1>4, <2>1, <2>2
<1>8. scan[i] = {mow \/ found : found \in scan[after]}
  BY <1>3, <1>7
<1>9. QED
  BY <1>8 DEF mow, after

Number == "replication_num"
MergeOnWriteKey == "enable_unique_key_merge_on_write"
True == "true"

(* The keys of the properties. *)
LEMMA AboutProperties ==
  /\ Number \in Ordinaries /\ "1" \in Ordinaries /\ MergeOnWriteKey \in Ordinaries
  /\ <<Number>> # MowProperty /\ MowProperty = <<MergeOnWriteKey>>
  /\ Equation \in Plain(Parentheses) /\ Separator \in Plain(Parentheses)
<1>1. /\ Number \in Ordinaries /\ "1" \in Ordinaries /\ MergeOnWriteKey \in Ordinaries
      /\ <<Number>> # MowProperty /\ MowProperty = <<MergeOnWriteKey>>
  BY DEF Number, MergeOnWriteKey, Ordinaries, MowProperty
<1>2. Blank \notin Parentheses /\ Comma \notin Parentheses /\ Equal \notin Parentheses
  BY DEF Blank, Comma, Equal, Parentheses, Opening, Closing
<1>3. Equation \in Plain(Parentheses)
  <2>1. \A k \in 1 .. 3 : Equation[k] \in {Blank, Equal}
    BY AboutEquations
  <2>2. QED
    BY <1>2, <2>1, AboutEquations, AboutSeparators DEF Plain
<1>4. Separator \in Plain(Parentheses)
  <2>1. Separator \in Texts /\ Len(Separator) = 2 /\ Separator[1] = Comma /\ Separator[2] = Blank
    BY AboutSeparators, Pairs
  <2>2. \A k \in 1 .. 2 : Separator[k] \in {Comma, Blank}
    BY <2>1
  <2>3. QED
    BY <1>2, <2>1, <2>2, AboutSeparators DEF Plain
<1>5. QED
  BY <1>1, <1>3, <1>4

One == Property(<<Number>>, <<"1">>)
Two(v) == Property(<<MergeOnWriteKey>>, <<v>>)

(* A search passes a property. *)
LEMMA AboutOne ==
  /\ One \in Texts /\ Len(One) = 9 /\ One \in Passed(Quotes, Parentheses)
  /\ \A v \in Ordinaries : /\ Two(v) \in Texts /\ Len(Two(v)) = 9
                           /\ Two(v) \in Passed(Quotes, Parentheses)
BY AboutProperties, PropertyIs DEF One, Two

(* A property begins with its quote. *)
LEMMA NoSeparatorBefore ==
  ASSUME NEW t \in Texts, NEW p \in 1 .. Len(t), t[p] = Double
  PROVE  SkipOver(t, p, Separators) = p /\ p \in Places(t)
<1>1. Double \notin Separators
  BY DEF Double, Separators
<1>2. p \in Places(t) /\ t[p] \notin Separators
  BY <1>1, Within
<1>3. QED
  BY <1>2, Skips

(* A table without the property is not Merge-on-Write. *)
LEMMA MowOfOne == TrueMow(One) = {FALSE}
<1> DEFINE r == One
<1>1. r \in Texts /\ Len(r) = 9
  BY AboutOne
<1>2. At(r, 1, Property(<<Number>>, <<"1">>))
  BY <1>1, AtWhole DEF One
<1> HIDE DEF r
<1>3. PICK scan : Scans(r, scan) /\ TrueMow(r) = scan[1]
  BY <1>1, MowScan DEF Scans
<1>4. 1 \in Places(r) /\ 10 \in Places(r) /\ 10 > Len(r) /\ 1 + 9 = 10 /\ ~(1 + 9 <= Len(r))
  <2>1. Places(r) = 1 .. Len(r) + 2
    BY <1>1, Numbers
  <2>2. QED
    BY <1>1, <2>1
<1>5. scan[10] = {FALSE}
  <2> DEFINE i == 10
  <2>1. i \in Places(r) /\ i > Len(r)
    BY <1>4
  <2> HIDE DEF i
  <2>2. scan[i] = {FALSE}
    BY <1>1, <1>3, <2>1, MowEnd
  <2>3. QED
    BY <2>2 DEF i
<1>6. SkipOver(r, 1, Separators) = 1
  <2>1. 1 \in 1 .. Len(r) /\ r[1] = Double
    BY <1>1, <1>2, <1>4, AboutProperties, PropertyRead
  <2>2. QED
    BY <1>1, <2>1, NoSeparatorBefore
<1> DEFINE mow == <<Number>> = MowProperty /\ <<"1">> = <<"true">>
<1>7. scan[1] = {mow \/ found : found \in scan[1 + 9]}
  BY <1>1, <1>2, <1>3, <1>4, <1>6, AboutProperties, MowStep
<1>8. mow = FALSE
  BY AboutProperties
<1>9. scan[1] = {FALSE}
  <2> HIDE DEF mow
  <2>1. scan[1] = {FALSE \/ found : found \in {FALSE}}
    BY <1>4, <1>5, <1>7, <1>8
  <2>2. QED
    BY <2>1
<1>10. QED
  BY <1>3, <1>9 DEF r

(* With the property it is what the value says. *)
LEMMA MowOfTwo ==
  ASSUME NEW v \in Ordinaries
  PROVE  TrueMow(One \o (Separator \o Two(v))) = {v = True}
<1> DEFINE back == Separator \o Two(v)
           r == One \o back
<1>1. v \in Ordinaries
  OBVIOUS
<1>2. Separator \in Texts /\ Len(Separator) = 2 /\ Separator[1] = Comma /\ Separator[2] = Blank
  BY AboutSeparators, Pairs
<1>3. /\ One \in Texts /\ Len(One) = 9 /\ Two(v) \in Texts /\ Len(Two(v)) = 9
  BY <1>1, AboutOne
<1>4. back \in Texts /\ Len(back) = 11
  <2>1. back \in Texts /\ Len(back) = Len(Separator) + Len(Two(v))
    BY <1>2, <1>3, ConcatTexts
  <2>2. QED
    BY <1>2, <1>3, <2>1
<1>5. r \in Texts /\ Len(r) = 20 /\ At(r, 1, One) /\ At(r, 10, Separator) /\ At(r, 12, Two(v))
  <2> HIDE DEF back
  <2>1. r \in Texts /\ Len(r) = Len(One) + Len(back)
    BY <1>3, <1>4, ConcatTexts
  <2>2. At(r, 1, One \o back)
    BY <2>1, AtWhole
  <2> HIDE DEF r
  <2>3. At(r, 1, One) /\ At(r, 1 + Len(One), back)
    BY <1>3, <1>4, <2>1, <2>2, AtConcat
  <2>4. At(r, 10, Separator \o Two(v))
    <3>1. 1 + Len(One) = 10
      BY <1>3
    <3>2. QED
      BY <2>3, <3>1 DEF back
  <2>5. At(r, 10, Separator) /\ At(r, 10 + Len(Separator), Two(v))
    BY <1>2, <1>3, <2>1, <2>4, AtConcat
  <2>6. 10 + Len(Separator) = 12 /\ Len(r) = 20
    BY <1>2, <1>3, <1>4, <2>1
  <2>7. QED
    BY <2>1, <2>3, <2>5, <2>6
<1>6. At(r, 1, Property(<<Number>>, <<"1">>)) /\ At(r, 12, Property(<<MergeOnWriteKey>>, <<v>>))
  BY <1>5 DEF One, Two
<1> HIDE DEF r, back
<1>7. r[10] = Comma /\ r[11] = Blank
  <2>1. \A k \in 1 .. 2 : r[10 + k - 1] = Separator[k]
    BY <1>2, <1>5 DEF At
  <2>2. 10 + 1 - 1 = 10 /\ 10 + 2 - 1 = 11 /\ 1 \in 1 .. 2 /\ 2 \in 1 .. 2
    OBVIOUS
  <2>3. QED
    BY <1>2, <2>1, <2>2
<1>8. PICK scan : Scans(r, scan) /\ TrueMow(r) = scan[1]
  BY <1>5, MowScan DEF Scans
<1>9. r \in Texts
  BY <1>5
<1>10. Scans(r, scan)
  BY <1>8
<1>11. /\ 1 \in Places(r) /\ 10 \in Places(r) /\ 11 \in Places(r) /\ 21 \in Places(r)
      /\ 12 \in Places(r)
      /\ 21 > Len(r) /\ 1 + 9 = 10 /\ 12 + 9 = 21 /\ ~(12 + 9 <= Len(r))
      /\ 1 \in 1 .. Len(r) /\ 12 \in 1 .. Len(r) /\ 10 <= Len(r) /\ 11 <= Len(r)
      /\ 10 + 1 = 11 /\ 11 + 1 = 12
  <2>1. Places(r) = 1 .. Len(r) + 2
    BY <1>5, Numbers
  <2>2. QED
    BY <1>5, <2>1
<1>12. scan[21] = {FALSE}
  <2> DEFINE i == 21
  <2>1. i \in Places(r) /\ i > Len(r)
    BY <1>11
  <2> HIDE DEF i
  <2>2. scan[i] = {FALSE}
    BY <1>9, <1>10, <2>1, MowEnd
  <2>3. QED
    BY <2>2 DEF i
<1>13. r[1] = Double /\ r[12] = Double
  <2>1. 1 + 9 <= Len(r) => r[1 + 9] = Comma
    BY <1>7, <1>11
  <2>2. r[1] = Double
    BY <1>5, <1>6, <2>1, AboutProperties, PropertyRead
  <2>3. r[12] = Double
    <3> DEFINE p == 12
    <3>1. MergeOnWriteKey \in Ordinaries /\ v \in Ordinaries
      BY <1>1, AboutProperties
    <3>2. At(r, p, Property(<<MergeOnWriteKey>>, <<v>>)) /\ (p + 9 <= Len(r) => r[p + 9] = Comma)
      BY <1>6, <1>11
    <3> HIDE DEF p
    <3>3. r[p] = Double
      BY <1>9, <3>1, <3>2, PropertyRead
    <3>4. QED
      BY <3>3 DEF p
  <2>4. QED
    BY <2>2, <2>3
<1>14. SkipOver(r, 1, Separators) = 1 /\ SkipOver(r, 12, Separators) = 12
  BY <1>5, <1>11, <1>13, NoSeparatorBefore
<1>15. SkipOver(r, 10, Separators) = 12
  <2>1. r[10] \in Separators /\ r[11] \in Separators
    BY <1>7 DEF Separators, Comma, Blank
  <2>2. SkipOver(r, 10, Separators) = SkipOver(r, 10 + 1, Separators)
    BY <1>5, <1>11, <2>1, Skips
  <2>3. SkipOver(r, 11, Separators) = SkipOver(r, 11 + 1, Separators)
    BY <1>5, <1>11, <2>1, Skips
  <2>4. QED
    BY <1>11, <1>14, <2>2, <2>3
<1> DEFINE mow1 == <<Number>> = MowProperty /\ <<"1">> = <<"true">>
           mow2 == <<MergeOnWriteKey>> = MowProperty /\ <<v>> = <<"true">>
<1>16. scan[1] = {mow1 \/ found : found \in scan[1 + 9]}
  <2>1. 1 + 9 <= Len(r) => r[1 + 9] = Comma
    BY <1>7, <1>11
  <2>2. Number \in Ordinaries /\ "1" \in Ordinaries
    BY AboutProperties
  <2> DEFINE p == 1
             w == "1"
  <2>3. /\ 1 \in Places(r) /\ SkipOver(r, 1, Separators) = p
        /\ At(r, p, Property(<<Number>>, <<w>>)) /\ w \in Ordinaries
        /\ p + 9 <= Len(r) => r[p + 9] = Comma
    BY <1>6, <1>11, <1>14, <2>1, <2>2
  <2> HIDE DEF p, w
  <2>4. scan[1] = {(<<Number>> = MowProperty /\ <<w>> = <<"true">>) \/ found
                   : found \in scan[p + 9]}
    BY <1>9, <1>10, <2>2, <2>3, MowStep
  <2>5. QED
    BY <2>4 DEF p, w
<1>17. scan[10] = {mow2 \/ found : found \in scan[12 + 9]}
  <2> DEFINE i == 10
             p == 12
  <2>1. /\ i \in Places(r) /\ SkipOver(r, i, Separators) = p
        /\ At(r, p, Property(<<MergeOnWriteKey>>, <<v>>))
        /\ p + 9 <= Len(r) => r[p + 9] = Comma
    BY <1>6, <1>11, <1>15
  <2> HIDE DEF i, p
  <2>2. MergeOnWriteKey \in Ordinaries
    BY AboutProperties
  <2>3. scan[i] = {(<<MergeOnWriteKey>> = MowProperty /\ <<v>> = <<"true">>) \/ found
                   : found \in scan[p + 9]}
    BY <1>1, <1>9, <1>10, <2>1, <2>2, MowStep
  <2>4. QED
    BY <2>3 DEF i, p
<1>18. mow1 = FALSE
  BY AboutProperties
<1>19. mow2 = (v = True)
  BY AboutProperties DEF True
<1>20. scan[1] = {v = True}
  <2> HIDE DEF mow1, mow2
  <2>1. scan[10] = {mow2 \/ found : found \in {FALSE}}
    BY <1>11, <1>12, <1>17
  <2>2. scan[10] = {mow2 \/ FALSE}
    BY <2>1
  <2>3. scan[1] = {mow1 \/ found : found \in {mow2 \/ FALSE}}
    BY <1>11, <1>16, <2>2
  <2>4. scan[1] = {mow1 \/ (mow2 \/ FALSE)}
    BY <2>3
  <2>5. (mow1 \/ (mow2 \/ FALSE)) = (v = True)
    BY <1>18, <1>19
  <2>6. QED
    BY <2>4, <2>5
<1>21. QED
  BY <1>8, <1>20 DEF r, back

-------------------------------------------------------------------------------
(* What Doris writes of a table *)

(* A name without backticks is written as it is. *)
LEMMA NotDoubled ==
  ASSUME NEW name \in Texts, \A i \in 1 .. Len(name) : name[i] # Tick
  PROVE  Doubled(name) = name
<1> DEFINE n == Len(name)
           s == [i \in 1 .. n |-> <<name[i]>>]
           A == {i \in 0 .. n : SubSeq(name, 1, i) \in Texts}
<1>1. n \in Nat /\ \A i \in 1 .. n : name[i] \in Characters
  BY Numbers DEF Texts
<1>2. Doubled(name) = FlattenSeq(s)
  BY DEF Doubled, Tick
<1>3. \A i \in 1 .. n : <<name[i]>> \in Texts
  BY <1>1, Singles
<1>4. s \in Seq(Texts) /\ Len(s) = n /\ \A i \in 1 .. n : s[i] = <<name[i]>>
  <2>1. s \in [1 .. n -> Texts] /\ \A i \in 1 .. n : s[i] = <<name[i]>>
    BY <1>3
  <2> HIDE DEF s
  <2>2. QED
    BY <1>1, <2>1
<1> HIDE DEF s
<1>5. PICK f \in [0 .. n -> Texts] :
        /\ f[0] = <<>>
        /\ \A i \in 1 .. n : f[i] = f[i - 1] \o s[i]
        /\ FlattenSeq(s) = f[n]
  BY <1>4, Joined
<1> DEFINE B == {i \in 0 .. n : f[i] = SubSeq(name, 1, i)}
<1>6. 0 \in B
  BY <1>1, <1>5, CutGrows DEF Texts
<1>7. \A k \in 0 .. n : k < n /\ k \in B => k + 1 \in B
  <2>1. ASSUME NEW k \in 0 .. n, k < n, k \in B
        PROVE  k + 1 \in B
    <3>1. k + 1 \in 1 .. n /\ (k + 1) - 1 = k /\ k + 1 \in 0 .. n
      BY <1>1, <2>1
    <3>2. f[k + 1] = SubSeq(name, 1, k) \o <<name[k + 1]>>
      BY <1>4, <1>5, <2>1, <3>1
    <3>3. SubSeq(name, 1, k) \o <<name[k + 1]>> = SubSeq(name, 1, k + 1)
      BY <2>1, CutGrows DEF Texts
    <3>4. QED
      BY <3>1, <3>2, <3>3
  <2>2. QED
    BY <2>1
<1>8. n \in B
  <2> HIDE DEF B
  <2>1. \A k \in 0 .. n : k \in B
    BY <1>1, <1>6, <1>7, UpTo
  <2>2. QED
    BY <1>1, <2>1
<1>9. QED
  BY <1>2, <1>5, <1>8, CutGrows DEF Texts

(* Names and comments are texts. *)
LEMMA StringsAreTexts == \A s \in Seq(STRING) : s \in Texts
<1>1. STRING \subseteq Characters
  BY DEF Characters
<1>2. QED
  BY <1>1, SeqMonotonic DEF Texts

(* A table as the scanner sees it. *)
LEMMA TableTexts ==
  ASSUME NEW t \in Tables
  PROVE  LET n == Len(t.columns)
         IN  /\ n \in Nat \ {0} /\ Names(t.columns) \in Seq(Texts) /\ Len(Names(t.columns)) = n
             /\ \A i \in 1 .. n : /\ Names(t.columns)[i] = t.columns[i].name
                                  /\ t.columns[i].name \in Texts /\ t.columns[i].name # <<>>
             /\ t.keys \in 1 .. n /\ t.comment \in Texts
<1> DEFINE n == Len(t.columns)
           names == Names(t.columns)
<1>1. n \in Nat \ {0} /\ t.keys \in 1 .. n
  BY TablesAssumption
<1>2. ASSUME NEW i \in 1 .. n
      PROVE  t.columns[i].name \in Texts /\ t.columns[i].name # <<>>
  BY TablesAssumption, StringsAreTexts
<1>3. t.comment \in Texts
  BY TablesAssumption, StringsAreTexts
<1>4. names = [i \in 1 .. n |-> t.columns[i].name]
  BY <1>1, TablesAssumption DEF Names
<1> HIDE DEF names
<1>5. names \in [1 .. n -> Texts] /\ \A i \in 1 .. n : names[i] = t.columns[i].name
  BY <1>2, <1>4
<1>6. names \in Seq(Texts) /\ Len(names) = n
  <2> HIDE DEF n
  <2>1. QED
    BY <1>1, <1>5
<1>7. QED
  BY <1>1, <1>2, <1>3, <1>5, <1>6 DEF names

(* The first names of a table are its keys. *)
LEMMA KeysNamed ==
  ASSUME NEW t \in Tables
  PROVE  /\ Named(Keys(t)) /\ Len(Keys(t)) = t.keys
         /\ \A i \in 1 .. t.keys : Keys(t)[i] = t.columns[i].name
<1> DEFINE names == Names(t.columns)
           n == Len(names)
           keys == Keys(t)
           k == t.keys
<1>1. names \in Seq(Texts) /\ n = Len(t.columns) /\ n \in Nat \ {0} /\ k \in 1 .. n
  BY TableTexts
<1>2. \A i \in 1 .. n : names[i] = t.columns[i].name /\ names[i] \in Texts \ {<<>>}
  BY TableTexts
<1>3. keys = SubSeq(names, 1, k)
  BY DEF Keys
<1> HIDE DEF names, n, keys, k
<1>4. /\ k \in Int /\ 1 \in Int /\ \A j \in 1 .. k : names[j] \in Texts \ {<<>>}
      /\ k - 1 + 1 = k /\ \A j \in 1 .. k : 1 + j - 1 = j /\ j \in 1 .. n
      /\ (IF 1 <= k THEN k - 1 + 1 ELSE 0) = k /\ k > 0
  BY <1>1, <1>2
<1>5. \A j \in 1 .. k : names[j] = t.columns[j].name
  BY <1>2, <1>4
<1> DEFINE S == Texts \ {<<>>}
<1>6. /\ keys \in Seq(S) /\ Len(keys) = IF 1 <= k THEN k - 1 + 1 ELSE 0
      /\ \A j \in 1 .. k - 1 + 1 : keys[j] = names[1 + j - 1]
  <2>1. \A j \in 1 .. k : names[j] \in S
    BY <1>4
  <2> HIDE DEF S
  <2>2. QED
    BY <1>3, <1>4, <2>1, SubSeqProperties
<1>7. keys \in Seq(S) /\ Len(keys) = k /\ \A j \in 1 .. k : keys[j] = names[j]
  BY <1>4, <1>6
<1>8. Named(keys)
  BY <1>4, <1>7 DEF Named
<1>9. QED
  BY <1>5, <1>7, <1>8 DEF k, keys
-------------------------------------------------------------------------------
(* The words of the text *)

Heading == <<"CREATE TABLE", " ", "(">>
Kind == <<" ", "TYPE", "(", "1", ")", " ", "COMMENT", " ">>
Engine == <<")", "ENGINE", " ">>
Remark == <<")", "COMMENT", " ">>
Hash == <<"HASH", "(">>
PropertiesWord == "PROPERTIES"
Wanted == {PropertiesWord}
ClosingText == <<Closing>>
OpeningText == <<Opening>>

WordSet == {"CREATE TABLE", " ", "(", "TYPE", "1", ")", "COMMENT", "ENGINE", "HASH"}

(* The words around the parts are no quotes, and nothing the scanner looks for.
   *)
LEMMA WordSetIsPlain ==
  /\ WordSet \subseteq Characters
  /\ WordSet \cap Quotes = {} /\ WordSet \cap Models = {} /\ WordSet \cap Wanted = {}
<1>1. WordSet \subseteq Characters
  BY DEF WordSet, Characters, Words
<1>2. WordSet \cap Quotes = {}
  BY DEF WordSet, Quotes
<1>3. WordSet \cap Models = {}
  BY DEF WordSet, Models
<1>4. WordSet \cap Wanted = {}
  BY DEF WordSet, Wanted, PropertiesWord
<1>5. QED
  BY <1>1, <1>2, <1>3, <1>4

(* A search passes them. *)
LEMMA WordsArePlain ==
  ASSUME NEW w \in Seq(WordSet), NEW S \in {Models, Wanted}
  PROVE  w \in Plain(S) /\ w \in Texts
<1>1. w \in Texts
  BY WordSetIsPlain, SeqMonotonic DEF Texts
<1>2. \A k \in 1 .. Len(w) : w[k] \in WordSet
  OBVIOUS
<1>3. \A k \in 1 .. Len(w) : w[k] \notin Quotes \cup S
  BY <1>2, WordSetIsPlain
<1>4. QED
  BY <1>1, <1>3 DEF Plain

(* How long they are. *)
LEMMA AboutWords ==
  /\ Heading \in Seq(WordSet) /\ Len(Heading) = 3
  /\ Kind \in Seq(WordSet) /\ Len(Kind) = 8
  /\ Engine \in Seq(WordSet) /\ Len(Engine) = 3 /\ Engine[1] = Closing
  /\ Remark \in Seq(WordSet) /\ Len(Remark) = 3 /\ Remark[1] = Closing
  /\ Hash \in Seq(WordSet) /\ Len(Hash) = 2 /\ Hash[1] \in WordSet
  /\ ClosingText \in Seq(WordSet) /\ OpeningText \in Seq(WordSet)
<1>1. Heading \in Seq(WordSet) /\ Len(Heading) = 3
  BY DEF Heading, WordSet
<1>2. Kind \in Seq(WordSet) /\ Len(Kind) = 8
  BY DEF Kind, WordSet
<1>3. Engine \in Seq(WordSet) /\ Len(Engine) = 3 /\ Engine[1] = Closing
  BY DEF Engine, WordSet, Closing
<1>4. Remark \in Seq(WordSet) /\ Len(Remark) = 3 /\ Remark[1] = Closing
  BY DEF Remark, WordSet, Closing
<1>5. Hash \in Seq(WordSet) /\ Len(Hash) = 2 /\ Hash[1] \in WordSet
  BY DEF Hash, WordSet
<1>6. ClosingText \in Seq(WordSet) /\ OpeningText \in Seq(WordSet)
  BY DEF ClosingText, OpeningText, Closing, Opening, WordSet
<1>7. QED
  BY <1>1, <1>2, <1>3, <1>4, <1>5, <1>6

(* A text of three characters. *)
LEMMA Triples ==
  ASSUME NEW c \in Characters, NEW d \in Characters, NEW e \in Characters
  PROVE  /\ <<c, d, e>> \in Texts /\ Len(<<c, d, e>>) = 3
         /\ <<c, d, e>>[1] = c /\ <<c, d, e>>[2] = d /\ <<c, d, e>>[3] = e
<1>1. <<c, d, e>> \in Seq(Characters)
  <2> HIDE DEF Characters
  <2>1. QED
    OBVIOUS
<1>2. QED
  BY <1>1 DEF Texts

(* The text of a table, by its parts. *)
Segments(columns, model, keys, comment, name, properties) ==
    <<Heading, columns, Engine, <<model, Opening>>, keys, Remark, comment, Hash,
      name, ClosingText, <<PropertiesWord, Blank, Opening>>, properties, ClosingText>>

(* A tuple of thirteen. *)
LEMMA Thirteen ==
  ASSUME NEW S, NEW a \in S, NEW b \in S, NEW c \in S, NEW d \in S, NEW e \in S, NEW f \in S,
         NEW g \in S, NEW h \in S, NEW i \in S, NEW j \in S, NEW k \in S, NEW l \in S, NEW m \in S
  PROVE  LET s == <<a, b, c, d, e, f, g, h, i, j, k, l, m>>
         IN  /\ s \in Seq(S) /\ Len(s) = 13
             /\ s[1] = a /\ s[2] = b /\ s[3] = c /\ s[4] = d /\ s[5] = e /\ s[6] = f
             /\ s[7] = g /\ s[8] = h /\ s[9] = i /\ s[10] = j /\ s[11] = k /\ s[12] = l
             /\ s[13] = m
OBVIOUS
-------------------------------------------------------------------------------
(* What the scanner finds in the text of a table *)

LEMMA FirstAt ==
  ASSUME NEW t \in Texts, NEW p, NEW w \in Texts, At(t, p, w), Len(w) > 0
  PROVE  p \in 1 .. Len(t) /\ t[p] = w[1]
<1>1. Len(t) \in Nat /\ Len(w) \in Nat
  BY Numbers
<1>2. /\ p \in 1 .. Len(t) + 1 /\ p + Len(w) <= Len(t) + 1
      /\ \A k \in 1 .. Len(w) : t[p + k - 1] = w[k]
  BY DEF At
<1>3. p \in 1 .. Len(t) /\ 1 \in 1 .. Len(w) /\ p + 1 - 1 = p
  BY <1>1, <1>2
<1>4. QED
  BY <1>2, <1>3

(* A part and the words behind it. *)
Pair(t, p, a, w, r) ==
    At(t, p, a) /\ At(t, p + Len(a), w) /\ r = p + Len(a) + Len(w)

(* A search passes a part with words behind it. *)
LEMMA PairPassed ==
  ASSUME NEW t \in Texts, NEW S, NEW find, Walk(t, Quotes, S, find),
         NEW a \in Passed(Quotes, S), NEW w \in Plain(S), Len(w) > 0,
         NEW p, NEW r, Pair(t, p, a, w, r)
  PROVE  find[p] = find[r]
<1> DEFINE q == p + Len(a)
<1>1. At(t, p, a) /\ At(t, q, w) /\ r = q + Len(w)
  BY DEF Pair
<1> HIDE DEF q
<1>2. w \in Texts /\ \A k \in 1 .. Len(w) : w[k] \notin Quotes
  BY DEF Plain
<1>3. t[q] = w[1]
  BY <1>1, <1>2, FirstAt
<1>4. 1 \in 1 .. Len(w)
  BY <1>2, Numbers
<1>5. Clear(t, q)
  BY <1>2, <1>3, <1>4 DEF Clear
<1>6. find[p] = find[q]
  BY <1>1, <1>5, PassedOver DEF q
<1>7. find[q] = find[r]
  BY <1>1, PlainPassedOver
<1>8. QED
  BY <1>6, <1>7

(* The first model outside quotes is that of the table. *)
LEMMA ModelFound ==
  ASSUME NEW t \in Texts, NEW columns \in Passed(Quotes, Models), NEW model \in Models,
         At(t, 1, Heading), NEW q, q = 1 + Len(Heading), NEW u,
         Pair(t, q, columns, Engine, u), u \in 1 .. Len(t), t[u] = model
  PROVE  FindOutside(t, 1, Quotes, Models) = u
<1>1. PICK find : Search(t, Quotes, Models, find)
  BY Finds
<1>2. Walk(t, Quotes, Models, find) /\ 1 \in Places(t)
  BY <1>1, Numbers DEF Search
<1>3. Heading \in Plain(Models) /\ Engine \in Plain(Models) /\ Len(Engine) > 0
  BY AboutWords, WordsArePlain
<1>4. find[1] = find[q]
  BY <1>2, <1>3, PlainPassedOver
<1>5. find[q] = find[u]
  BY <1>2, <1>3, PairPassed
<1>6. find[u] = u
  <2>1. model \notin Quotes
    BY DEF Models, Quotes
  <2>2. QED
    BY <1>1, <2>1 DEF Search
<1>7. FindOutside(t, 1, Quotes, Models) = find[1]
  BY <1>1, <1>2 DEF Search
<1>8. QED
  BY <1>4, <1>5, <1>6, <1>7

(* The closing parenthesis as a text. *)
LEMMA AboutClosing ==
  ClosingText \in Texts /\ Len(ClosingText) = 1 /\ ClosingText[1] = Closing
BY AboutParentheses, Singles DEF ClosingText

(* The first PROPERTIES behind the keys is that of the table. *)
LEMMA PropertiesFound ==
  ASSUME NEW t \in Texts, NEW keys \in Passed(Quotes, Wanted),
         NEW comment \in Passed(Quotes, Wanted), NEW name \in Passed(Quotes, Wanted),
         NEW p \in Places(t), NEW q, NEW r, NEW u, NEW y,
         At(t, p, OpeningText), q = p + Len(OpeningText), Pair(t, q, keys, Remark, r),
         Pair(t, r, comment, Hash, u), Pair(t, u, name, ClosingText, y),
         y \in 1 .. Len(t), t[y] = PropertiesWord
  PROVE  FindOutside(t, p, Quotes, Wanted) = y
<1>1. PICK find : Search(t, Quotes, Wanted, find)
  BY Finds
<1>2. Walk(t, Quotes, Wanted, find)
  BY <1>1 DEF Search
<1>3. /\ OpeningText \in Plain(Wanted)
      /\ Remark \in Plain(Wanted) /\ Len(Remark) > 0
      /\ Hash \in Plain(Wanted) /\ Len(Hash) > 0
      /\ ClosingText \in Plain(Wanted) /\ Len(ClosingText) > 0
  BY AboutWords, AboutClosing, WordsArePlain
<1>4. find[p] = find[q]
  <2>1. OpeningText \in Plain(Wanted) /\ Quotes \in SUBSET Quotes
    BY <1>3
  <2>2. QED
    BY <1>2, <2>1, PlainPassedOver
<1>5. find[q] = find[r]
  BY <1>2, <1>3, PairPassed
<1>6. find[r] = find[u]
  BY <1>2, <1>3, PairPassed
<1>7. find[u] = find[y]
  BY <1>2, <1>3, PairPassed
<1>8. find[y] = y
  <2>1. PropertiesWord \in Wanted \ Quotes
    BY DEF Wanted, PropertiesWord, Quotes
  <2>2. QED
    BY <1>1, <2>1 DEF Search
<1>9. FindOutside(t, p, Quotes, Wanted) = find[p]
  BY <1>1 DEF Search
<1>10. QED
  BY <1>4, <1>5, <1>6, <1>7, <1>8, <1>9

(* A clause right after the place, or after a space. *)
LEMMA ClauseAt ==
  ASSUME NEW t \in Texts, NEW p \in Nat \ {0}, NEW s \in Passed(Quotes, Parentheses),
         At(t, p, OpeningText), At(t, p + 1, s), At(t, p + 1 + Len(s), ClosingText)
  PROVE  /\ p \in Places(t) /\ Clause(t, p) = {s}
         /\ \A b \in Places(t) : b <= Len(t) /\ t[b] = Blank /\ b + 1 = p => Clause(t, b) = {s}
<1>1. s \in Texts /\ OpeningText \in Texts /\ ClosingText \in Texts /\ Len(OpeningText) = 1
      /\ OpeningText[1] = Opening
  BY AboutParentheses, Singles DEF Passed, OpeningText, ClosingText
<1>2. OpeningText \o s \in Texts /\ Len(OpeningText \o s) = 1 + Len(s) /\ Len(s) \in Nat
  <2>1. OpeningText \in Texts /\ s \in Texts /\ Len(OpeningText) = 1
    BY <1>1
  <2>2. /\ OpeningText \o s \in Texts /\ Len(OpeningText \o s) = Len(OpeningText) + Len(s)
        /\ Len(s) \in Nat
    BY <2>1, ConcatTexts
  <2>3. QED
    BY <2>1, <2>2
<1>3. At(t, p, OpeningText \o s)
  BY <1>1, AtConcat
<1>4. At(t, p, Parenthesized(s))
  <2> DEFINE a == OpeningText \o s
  <2>1. p + (1 + Len(s)) = p + 1 + Len(s)
    BY <1>2
  <2>2. At(t, p + Len(a), ClosingText)
    BY <1>2, <2>1
  <2>3. a \in Texts /\ At(t, p, a)
    BY <1>2, <1>3
  <2> HIDE DEF a
  <2>4. At(t, p, a \o ClosingText)
    BY <1>1, <2>2, <2>3, AtConcat
  <2>5. QED
    BY <2>4 DEF a, Parenthesized, OpeningText, ClosingText
<1>5. p \in 1 .. Len(t) /\ t[p] = Opening
  BY <1>1, FirstAt
<1>6. p \in Places(t)
  BY <1>5, Within
<1>7. SkipSpace(t, p) = p
  <2>1. Opening # Blank
    BY DEF Opening, Blank
  <2>2. QED
    BY <1>5, <1>6, <2>1, SkipSpaceAt
<1>8. Clause(t, p) = {s}
  BY <1>4, <1>6, <1>7, ClauseRead
<1>9. ASSUME NEW b \in Places(t), b <= Len(t), t[b] = Blank, b + 1 = p
      PROVE  Clause(t, b) = {s}
  <2>1. SkipSpace(t, b) = p
    BY <1>7, <1>9, SkipSpaceAt
  <2>2. QED
    BY <1>4, <2>1, ClauseRead
<1>10. QED
  BY <1>6, <1>8, <1>9
PropertiesHead == <<PropertiesWord, Blank, Opening>>

(* Where the parts of the text of a table are. *)
Layout(t, columns, model, keys, comment, name, properties, q, u, k, r, v, y, z) ==
    /\ At(t, 1, Heading) /\ q = 1 + Len(Heading) /\ Pair(t, q, columns, Engine, u)
    /\ At(t, u, <<model, Opening>>) /\ k = u + 2 /\ Pair(t, k, keys, Remark, r)
    /\ Pair(t, r, comment, Hash, v) /\ Pair(t, v, name, ClosingText, y)
    /\ At(t, y, PropertiesHead) /\ z = y + 3
    /\ At(t, z, properties) /\ At(t, z + Len(properties), ClosingText)

(* The parts of the text of a table are one behind the other. *)
LEMMA LaidOut ==
  ASSUME NEW columns \in Texts, NEW model \in Characters, NEW keys \in Texts,
         NEW comment \in Texts, NEW name \in Texts, NEW properties \in Texts
  PROVE  LET t == FlattenSeq(Segments(columns, model, keys, comment, name, properties))
         IN  /\ t \in Texts
             /\ \E q, u, k, r, v, y, z :
                  Layout(t, columns, model, keys, comment, name, properties,
                         q, u, k, r, v, y, z)
<1> DEFINE s == Segments(columns, model, keys, comment, name, properties)
           t == FlattenSeq(s)
           mw == <<model, Opening>>
<1>1. /\ Heading \in Texts /\ Engine \in Texts /\ Remark \in Texts /\ Hash \in Texts
      /\ ClosingText \in Texts
  BY AboutWords, WordsArePlain
<1>2. mw \in Texts /\ Len(mw) = 2
  BY AboutParentheses, Pairs
<1>3. PropertiesHead \in Texts /\ Len(PropertiesHead) = 3
  <2>1. PropertiesWord \in Characters
    BY DEF PropertiesWord, Characters, Words
  <2>2. QED
    BY <2>1, AboutParentheses, AboutSeparators, Triples DEF PropertiesHead
<1> HIDE DEF mw
<1>4. /\ s \in Seq(Texts) /\ Len(s) = 13
      /\ s[1] = Heading /\ s[2] = columns /\ s[3] = Engine /\ s[4] = mw /\ s[5] = keys
      /\ s[6] = Remark /\ s[7] = comment /\ s[8] = Hash /\ s[9] = name /\ s[10] = ClosingText
      /\ s[11] = PropertiesHead /\ s[12] = properties /\ s[13] = ClosingText
  <2>1. s = <<Heading, columns, Engine, mw, keys, Remark, comment, Hash, name, ClosingText,
              PropertiesHead, properties, ClosingText>>
    BY DEF Segments, mw, PropertiesHead
  <2> HIDE DEF s
  <2>2. QED
    BY <1>1, <1>2, <1>3, <2>1, Thirteen
<1> HIDE DEF s
<1>5. t \in Texts
  <2>1. PICK f \in [0 .. Len(s) -> Texts] : FlattenSeq(s) = f[Len(s)]
    BY <1>4, Joined
  <2>2. Len(s) \in 0 .. Len(s)
    BY <1>4
  <2>3. QED
    BY <2>1, <2>2
<1>6. At(t, 1, t)
  BY <1>5, AtWhole
<1>7. PICK m : PartsAt(t, 1, s, m)
  BY <1>4, <1>5, <1>6, JoinedAt
<1> HIDE DEF t
<1>8. \A i \in 1 .. 13 : At(t, m[i - 1], s[i]) /\ m[i] = m[i - 1] + Len(s[i])
  BY <1>4, <1>7 DEF PartsAt
<1>9. m[0] = 1
  BY <1>7 DEF PartsAt
<1>10. ASSUME NEW i \in 1 .. 13, NEW h, h = i - 1
       PROVE  At(t, m[h], s[i]) /\ m[i] = m[h] + Len(s[i])
  BY <1>8, <1>10
<1>11. At(t, 1, Heading) /\ m[1] = 1 + Len(Heading)
  <2>1. 1 \in 1 .. 13 /\ 0 = 1 - 1
    OBVIOUS
  <2>2. QED
    BY <1>4, <1>9, <1>10, <2>1
<1>12. Pair(t, m[1], columns, Engine, m[3])
  <2>1. 2 \in 1 .. 13 /\ 1 = 2 - 1 /\ 3 \in 1 .. 13 /\ 2 = 3 - 1
    OBVIOUS
  <2>2. At(t, m[1], s[2]) /\ m[2] = m[1] + Len(s[2])
    BY <1>10, <2>1
  <2>3. At(t, m[2], s[3]) /\ m[3] = m[2] + Len(s[3])
    BY <1>10, <2>1
  <2>4. QED
    BY <1>4, <2>2, <2>3 DEF Pair
<1>13. At(t, m[3], mw) /\ m[4] = m[3] + 2
  <2>1. 4 \in 1 .. 13 /\ 3 = 4 - 1
    OBVIOUS
  <2>2. QED
    BY <1>2, <1>4, <1>10, <2>1
<1>14. Pair(t, m[4], keys, Remark, m[6])
  <2>1. 5 \in 1 .. 13 /\ 4 = 5 - 1 /\ 6 \in 1 .. 13 /\ 5 = 6 - 1
    OBVIOUS
  <2>2. At(t, m[4], s[5]) /\ m[5] = m[4] + Len(s[5])
    BY <1>10, <2>1
  <2>3. At(t, m[5], s[6]) /\ m[6] = m[5] + Len(s[6])
    BY <1>10, <2>1
  <2>4. QED
    BY <1>4, <2>2, <2>3 DEF Pair
<1>15. Pair(t, m[6], comment, Hash, m[8])
  <2>1. 7 \in 1 .. 13 /\ 6 = 7 - 1 /\ 8 \in 1 .. 13 /\ 7 = 8 - 1
    OBVIOUS
  <2>2. At(t, m[6], s[7]) /\ m[7] = m[6] + Len(s[7])
    BY <1>10, <2>1
  <2>3. At(t, m[7], s[8]) /\ m[8] = m[7] + Len(s[8])
    BY <1>10, <2>1
  <2>4. QED
    BY <1>4, <2>2, <2>3 DEF Pair
<1>16. Pair(t, m[8], name, ClosingText, m[10])
  <2>1. 9 \in 1 .. 13 /\ 8 = 9 - 1 /\ 10 \in 1 .. 13 /\ 9 = 10 - 1
    OBVIOUS
  <2>2. At(t, m[8], s[9]) /\ m[9] = m[8] + Len(s[9])
    BY <1>10, <2>1
  <2>3. At(t, m[9], s[10]) /\ m[10] = m[9] + Len(s[10])
    BY <1>10, <2>1
  <2>4. QED
    BY <1>4, <2>2, <2>3 DEF Pair
<1>17. At(t, m[10], PropertiesHead) /\ m[11] = m[10] + 3
  <2>1. 11 \in 1 .. 13 /\ 10 = 11 - 1
    OBVIOUS
  <2>2. QED
    BY <1>3, <1>4, <1>10, <2>1
<1>18. At(t, m[11], properties) /\ At(t, m[11] + Len(properties), ClosingText)
  <2>1. 12 \in 1 .. 13 /\ 11 = 12 - 1 /\ 13 \in 1 .. 13 /\ 12 = 13 - 1
    OBVIOUS
  <2>2. At(t, m[11], s[12]) /\ m[12] = m[11] + Len(s[12])
    BY <1>10, <2>1
  <2>3. At(t, m[12], s[13])
    BY <1>10, <2>1
  <2>4. QED
    BY <1>4, <2>2, <2>3
<1>19. Layout(t, columns, model, keys, comment, name, properties,
              m[1], m[3], m[4], m[6], m[8], m[10], m[11])
  BY <1>11, <1>12, <1>13, <1>14, <1>15, <1>16, <1>17, <1>18 DEF Layout, mw
<1>20. QED
  BY <1>5, <1>19 DEF t, s

(* The metadata of a text that is laid out so. *)
LEMMA TextParsed ==
  ASSUME NEW columns \in Passed(Quotes, Models), NEW model \in Models,
         NEW names, Named(names), NEW comment \in Passed(Quotes, Wanted),
         NEW name \in Passed(Quotes, Wanted), NEW properties \in Passed(Quotes, Parentheses),
         Separated(Ids(names)) \in Passed(Quotes, Wanted) \cap Passed(Quotes, Parentheses)
  PROVE  ParseCreateTable(FlattenSeq(Segments(columns, model, Separated(Ids(names)),
                                              comment, name, properties)))
           = {[model |-> model, keys |-> names, mow |-> mow] : mow \in TrueMow(properties)}
<1> DEFINE keys == Separated(Ids(names))
           t == FlattenSeq(Segments(columns, model, keys, comment, name, properties))
<1>0. /\ columns \in Texts /\ keys \in Texts /\ comment \in Texts /\ name \in Texts
      /\ properties \in Texts
      /\ keys \in Passed(Quotes, Wanted) /\ keys \in Passed(Quotes, Parentheses)
  BY DEF Passed
<1>1. model \in Characters /\ model \notin Quotes
  BY DEF Models, Characters, Words, Quotes
<1>2. KeyColumns(keys) = {names}
  BY KeysRead
<1> HIDE DEF keys
<1>3. /\ t \in Texts
      /\ \E q, u, k, r, v, y, z :
           Layout(t, columns, model, keys, comment, name, properties, q, u, k, r, v, y, z)
  BY <1>0, <1>1, LaidOut
<1>4. PICK q, u, k, r, v, y, z :
        Layout(t, columns, model, keys, comment, name, properties, q, u, k, r, v, y, z)
  BY <1>3
<1> HIDE DEF t
<1>5. At(t, 1, Heading) /\ q = 1 + Len(Heading) /\ Pair(t, q, columns, Engine, u)
  BY <1>4 DEF Layout
<1>6. At(t, u, <<model, Opening>>) /\ k = u + 2 /\ Pair(t, k, keys, Remark, r)
  BY <1>4 DEF Layout
<1>7. Pair(t, r, comment, Hash, v) /\ Pair(t, v, name, ClosingText, y)
  BY <1>4 DEF Layout
<1>8. /\ At(t, y, PropertiesHead) /\ z = y + 3
      /\ At(t, z, properties) /\ At(t, z + Len(properties), ClosingText)
  BY <1>4 DEF Layout
<1>9. /\ u \in 1 .. Len(t) /\ t[u] = model
      /\ At(t, u + 1, OpeningText) /\ u + 1 \in 1 .. Len(t) /\ t[u + 1] = Opening
  <2>1. At(t, u, <<model>>) /\ At(t, u + 1, <<Opening>>)
    BY <1>1, <1>3, <1>6, AboutParentheses, AtTwo
  <2>2. QED
    BY <1>1, <1>3, <2>1, AboutParentheses, AtOne DEF OpeningText
<1>10. u + 1 \in Nat \ {0} /\ (u + 1) + 1 = k /\ u + 1 \in Places(t)
  <2>1. Len(t) \in Nat
    BY <1>3, Numbers
  <2>2. u + 1 \in Nat \ {0} /\ (u + 1) + 1 = k
    BY <1>6, <1>9, <2>1
  <2>3. QED
    BY <1>3, <1>9, <2>2, Within
<1>11. FindOutside(t, 1, Quotes, Models) = u
  BY <1>3, <1>5, <1>9, ModelFound
<1>12. Clause(t, u + 1) = {keys}
  <2>1. At(t, k, keys) /\ At(t, k + Len(keys), Remark)
    BY <1>6 DEF Pair
  <2>2. At(t, k + Len(keys), ClosingText)
    <3>1. Remark \in Texts /\ Len(Remark) > 0 /\ Remark[1] = Closing
      BY AboutWords, WordsArePlain
    <3> DEFINE e == k + Len(keys)
    <3>2. At(t, e, Remark)
      BY <2>1
    <3> HIDE DEF e
    <3>3. e \in 1 .. Len(t) /\ t[e] = Closing
      BY <1>3, <3>1, <3>2, FirstAt
    <3>4. At(t, e, ClosingText)
      BY <1>3, <3>3, AboutParentheses, AtOne DEF ClosingText
    <3>5. QED
      BY <3>4 DEF e
  <2> DEFINE p == u + 1
  <2>3. At(t, p, OpeningText) /\ At(t, p + 1, keys) /\ At(t, p + 1 + Len(keys), ClosingText)
        /\ p \in Nat \ {0}
    BY <1>9, <1>10, <2>1, <2>2
  <2> HIDE DEF p
  <2>4. Clause(t, p) = {keys}
    BY <1>0, <1>3, <2>3, ClauseAt
  <2>5. QED
    BY <2>4 DEF p
<1>13. /\ y \in 1 .. Len(t) /\ t[y] = PropertiesWord
       /\ y + 1 \in 1 .. Len(t) /\ t[y + 1] = Blank /\ y + 1 \in Places(t)
       /\ At(t, y + 2, OpeningText) /\ y + 2 \in Nat \ {0} /\ (y + 1) + 1 = y + 2
       /\ (y + 2) + 1 = z
  <2>1. PropertiesWord \in Characters
    BY DEF PropertiesWord, Characters, Words
  <2>2. /\ PropertiesHead \in Texts /\ Len(PropertiesHead) = 3
        /\ PropertiesHead[1] = PropertiesWord /\ PropertiesHead[2] = Blank
        /\ PropertiesHead[3] = Opening
    BY <2>1, AboutParentheses, AboutSeparators, Triples DEF PropertiesHead
  <2>3. /\ y \in 1 .. Len(t) + 1 /\ y + 3 <= Len(t) + 1
        /\ \A j \in 1 .. 3 : t[y + j - 1] = PropertiesHead[j]
    BY <1>8, <2>2 DEF At
  <2>4. Len(t) \in Nat /\ Places(t) = 1 .. Len(t) + 2
    BY <1>3, Numbers
  <2>5. /\ y + 1 - 1 = y /\ y + 2 - 1 = y + 1 /\ y + 3 - 1 = y + 2
        /\ 1 \in 1 .. 3 /\ 2 \in 1 .. 3 /\ 3 \in 1 .. 3
        /\ y \in 1 .. Len(t) /\ y + 1 \in 1 .. Len(t) /\ y + 1 \in 1 .. Len(t) + 2
        /\ y + 2 \in 1 .. Len(t) /\ y + 2 \in Nat \ {0}
        /\ (y + 1) + 1 = y + 2 /\ (y + 2) + 1 = y + 3
    BY <2>3, <2>4
  <2>6. t[y] = PropertiesWord /\ t[y + 1] = Blank /\ t[y + 2] = Opening
    BY <2>2, <2>3, <2>5
  <2>7. At(t, y + 2, OpeningText)
    BY <1>3, <2>5, <2>6, AboutParentheses, AtOne DEF OpeningText
  <2>8. QED
    BY <1>8, <2>4, <2>5, <2>6, <2>7
<1>14. FindOutside(t, u + 1, Quotes, Wanted) = y
  <2> DEFINE p == u + 1
  <2>1. At(t, p, OpeningText) /\ p \in Places(t) /\ k = p + Len(OpeningText)
    <3>1. Len(OpeningText) = 1
      BY AboutParentheses, Singles DEF OpeningText
    <3>2. QED
      BY <1>9, <1>10, <3>1
  <2> HIDE DEF p
  <2>2. Pair(t, k, keys, Remark, r)
    BY <1>6
  <2>3. y \in 1 .. Len(t) /\ t[y] = PropertiesWord
    BY <1>13
  <2>4. FindOutside(t, p, Quotes, Wanted) = y
    BY <1>0, <1>3, <1>7, <2>1, <2>2, <2>3, PropertiesFound
  <2>5. QED
    BY <2>4 DEF p
<1>15. Clause(t, y + 1) = {properties}
  <2> DEFINE p == y + 2
             b == y + 1
  <2>1. At(t, p, OpeningText) /\ At(t, p + 1, properties)
        /\ At(t, p + 1 + Len(properties), ClosingText) /\ p \in Nat \ {0}
    BY <1>8, <1>13
  <2>2. b \in Places(t) /\ b <= Len(t) /\ t[b] = Blank /\ b + 1 = p
    BY <1>13
  <2> HIDE DEF p, b
  <2>3. Clause(t, b) = {properties}
    BY <1>3, <2>1, <2>2, ClauseAt
  <2>4. QED
    BY <2>3 DEF b
<1>16. MergeOnWrite(t, u + 1) = TrueMow(properties)
  <2>1. ~(y > Len(t)) /\ y # Malformed(t)
    <3>1. Len(t) \in Nat /\ Malformed(t) = Len(t) + 2
      BY <1>3, Numbers
    <3>2. QED
      BY <1>13, <3>1
  <2>2. FindOutside(t, u + 1, Quotes, {"PROPERTIES"}) = y
    BY <1>14 DEF Wanted, PropertiesWord
  <2>3. MergeOnWrite(t, u + 1) = UNION {TrueMow(s) : s \in {properties}}
    BY <1>15, <2>1, <2>2 DEF MergeOnWrite
  <2>4. QED
    BY <2>3
<1>17. ~(u > Len(t))
  BY <1>3, <1>9, Within
<1>18. UNION {KeyColumns(raw) : raw \in Clause(t, u + 1)} = {names}
  BY <1>2, <1>12
<1>19. ParseCreateTable(t) = {[model |-> t[u], keys |-> ks, mow |-> mow]
                              : ks \in {names}, mow \in TrueMow(properties)}
  BY <1>11, <1>16, <1>17, <1>18 DEF ParseCreateTable
<1>20. ParseCreateTable(t) = {[model |-> model, keys |-> names, mow |-> mow]
                              : mow \in TrueMow(properties)}
  BY <1>9, <1>19
<1>21. QED
  BY <1>20 DEF t, keys
-------------------------------------------------------------------------------
(* The text that Doris writes of a table *)

WrittenNames(t) == [i \in 1 .. Len(t.columns) |-> Identifier(t.columns[i].name, escaped)]
WrittenColumns(t) == [i \in 1 .. Len(WrittenNames(t)) |-> WrittenNames(t)[i] \o Kind \o Literal(t.comment)]
WrittenProperties(t) == <<Property(<<"replication_num">>, <<"1">>)>>
                 \o IF t.mow = "unset" THEN <<>> ELSE <<Property(MowProperty, <<t.mow>>)>>

(* Where the text says where names end, a name is written with its backticks
   doubled. *)
LEMMA IdentifierWritten ==
  ASSUME NEW t \in Tables, Legible(t), NEW i \in 1 .. Len(t.columns)
  PROVE  /\ WrittenNames(t)[i] = Token(Tick, Doubled(t.columns[i].name))
         /\ WrittenNames(t)[i] \in Texts
         /\ \A S : WrittenNames(t)[i] \in Passed(Quotes, S)
<1> DEFINE name == t.columns[i].name
<1>1. name \in Texts
  BY TableTexts
<1>2. ~escaped => Doubled(name) = name
  <2>1. name \in ToSet(Names(t.columns))
    BY TableTexts DEF ToSet
  <2>2. ~escaped => \A j \in 1 .. Len(name) : name[j] # Tick
    <3>1. ~escaped => Tick \notin ToSet(name)
      BY <2>1 DEF Legible, Tick
    <3>2. DOMAIN name = 1 .. Len(name)
      BY <1>1 DEF Texts
    <3>3. \A j \in 1 .. Len(name) : name[j] \in ToSet(name)
      BY <3>2 DEF ToSet
    <3>4. QED
      BY <3>1, <3>3
  <2>3. QED
    BY <1>1, <2>2, NotDoubled
<1>3. WrittenNames(t)[i] = Identifier(name, escaped)
  BY DEF WrittenNames
<1>4. Identifier(name, escaped) = Token(Tick, Doubled(name))
  BY <1>2 DEF Identifier, Token, Tick
<1>5. Doubled(name) \in Texts /\ Doubled(name) \in Inside(Tick)
  BY <1>1, DoubledRead
<1>6. Token(Tick, Doubled(name)) \in Texts
  BY <1>5, AboutTicks, TokenText
<1>7. \A S : Token(Tick, Doubled(name)) \in Passed(Quotes, S)
  BY <1>5, AboutTicks, TokenPassed DEF Token
<1>8. QED
  BY <1>3, <1>4, <1>6, <1>7

(* A search for the model passes the columns. *)
LEMMA ColumnsPassed ==
  ASSUME NEW t \in Tables, Legible(t)
  PROVE  Separated(WrittenColumns(t)) \in Passed(Quotes, Models)
<1> DEFINE n == Len(t.columns)
           c == WrittenColumns(t)
<1>1. n \in Nat
  BY TableTexts
<1>2. Len(WrittenNames(t)) = n
  BY <1>1 DEF WrittenNames
<1>3. ASSUME NEW i \in 1 .. n
      PROVE  c[i] \in Texts /\ c[i] \in Passed(Quotes, Models)
  <2>1. c[i] = WrittenNames(t)[i] \o Kind \o Literal(t.comment)
    BY <1>2 DEF WrittenColumns
  <2>2. WrittenNames(t)[i] \in Passed(Quotes, Models)
    BY IdentifierWritten
  <2>3. Literal(t.comment) \in Passed(Quotes, Models)
    BY TableTexts, LiteralPassed
  <2>4. Kind \in Plain(Models) /\ Kind # <<>>
    <3>1. Len(Kind) = 8 /\ Len(<<>>) = 0
      BY AboutWords, EmptyText
    <3>2. Kind # <<>>
      BY <3>1
    <3>3. QED
      BY <3>2, AboutWords, WordsArePlain
  <2>5. c[i] \in Passed(Quotes, Models)
    BY <2>1, <2>2, <2>3, <2>4, WordsPassed
  <2>6. QED
    BY <2>5 DEF Passed
<1>4. c \in Seq(Texts) /\ Len(c) = n
  <2>1. c = [i \in 1 .. n |-> c[i]]
    BY <1>2 DEF WrittenColumns
  <2>2. c \in [1 .. n -> Texts]
    <3> HIDE DEF c
    <3>1. QED
      BY <1>3, <2>1
  <2> HIDE DEF c, n
  <2>3. QED
    BY <1>1, <2>2
<1>5. Separator \in Plain(Models)
  <2>1. Comma \notin Models /\ Blank \notin Models
    BY DEF Comma, Blank, Models
  <2>2. Separator \in Texts /\ Len(Separator) = 2 /\ Separator[1] = Comma /\ Separator[2] = Blank
    BY AboutSeparators, Pairs
  <2>3. \A k \in 1 .. 2 : Separator[k] \in {Comma, Blank}
    BY <2>2
  <2>4. QED
    BY <2>1, <2>2, <2>3, AboutSeparators DEF Plain
<1>6. \A i \in 1 .. Len(c) : c[i] \in Passed(Quotes, Models)
  BY <1>3, <1>4
<1>7. QED
  <2> HIDE DEF c
  <2>1. Separated(c) \in Passed(Quotes, Models)
    BY <1>4, <1>5, <1>6, SeparatedPassed
  <2>2. QED
    BY <2>1 DEF c

(* A search for PROPERTIES passes the keys, and so does one for their end. *)
LEMMA KeysPassed ==
  ASSUME NEW names, Named(names), NEW S \in {Wanted, Parentheses}
  PROVE  Separated(Ids(names)) \in Passed(Quotes, S)
<1> DEFINE s == Ids(names)
<1>1. s \in Seq(Texts) /\ Len(s) = Len(names)
  BY AboutParts
<1>2. \A i \in 1 .. Len(names) : s[i] \in Passed(Quotes, S)
  BY AboutParts, AboutTicks
<1>3. Separator \in Plain(S)
  <2>1. Comma \notin S /\ Blank \notin S
    BY DEF Comma, Blank, Wanted, PropertiesWord, Parentheses, Opening, Closing
  <2>2. Separator \in Texts /\ Len(Separator) = 2 /\ Separator[1] = Comma /\ Separator[2] = Blank
    BY AboutSeparators, Pairs
  <2>3. \A k \in 1 .. 2 : Separator[k] \in {Comma, Blank}
    BY <2>2
  <2>4. QED
    BY <2>1, <2>2, <2>3, AboutSeparators DEF Plain
<1> HIDE DEF s
<1>4. Separated(s) \in Passed(Quotes, S)
  BY <1>1, <1>2, <1>3, SeparatedPassed
<1>5. QED
  BY <1>4 DEF s

(* The identifiers of the keys are the first ones. *)
LEMMA KeyIdentifiers ==
  ASSUME NEW t \in Tables, Legible(t)
  PROVE  SubSeq(WrittenNames(t), 1, t.keys) = Ids(Keys(t))
<1> DEFINE n == Len(t.columns)
           k == t.keys
           ided == WrittenNames(t)
           cut == SubSeq(ided, 1, k)
           ids == Ids(Keys(t))
<1>1. n \in Nat \ {0} /\ k \in 1 .. n
  BY TableTexts
<1>2. \A i \in 1 .. n : ided[i] \in Texts
  BY IdentifierWritten
<1>3. Named(Keys(t)) /\ Len(Keys(t)) = k
  BY KeysNamed
<1>4. ids \in Seq(Texts) /\ Len(ids) = k
  BY <1>3, AboutParts
<1>5. \A i \in 1 .. k : ids[i] = ided[i]
  <2>1. ASSUME NEW i \in 1 .. k
        PROVE  ids[i] = ided[i]
    <3>1. ids[i] = Token(Tick, Doubled(Keys(t)[i]))
      BY <1>3, AboutParts
    <3>2. Keys(t)[i] = t.columns[i].name
      BY KeysNamed
    <3>3. i \in 1 .. n
      BY <1>1
    <3>4. ided[i] = Token(Tick, Doubled(t.columns[i].name))
      BY <3>3, IdentifierWritten
    <3>5. QED
      BY <3>1, <3>2, <3>4
  <2>2. QED
    BY <2>1
<1> HIDE DEF n, k, ided, ids
<1>6. /\ k \in Int /\ 1 \in Int /\ \A j \in 1 .. k : ided[j] \in Texts
      /\ k - 1 + 1 = k /\ \A j \in 1 .. k : 1 + j - 1 = j
      /\ (IF 1 <= k THEN k - 1 + 1 ELSE 0) = k
  BY <1>1, <1>2
<1>7. /\ cut \in Seq(Texts) /\ Len(cut) = IF 1 <= k THEN k - 1 + 1 ELSE 0
      /\ \A j \in 1 .. k - 1 + 1 : cut[j] = ided[1 + j - 1]
  BY <1>6, SubSeqProperties
<1> HIDE DEF cut
<1>8. cut \in Seq(Texts) /\ Len(cut) = k /\ \A j \in 1 .. k : cut[j] = ided[j]
  BY <1>6, <1>7
<1>9. cut = ids
  BY <1>4, <1>5, <1>8, SeqEqual
<1>10. QED
  BY <1>9 DEF cut, ids, ided, k

(* The properties of a table, by its Merge-on-Write property. *)
LEMMA PropertiesWritten ==
  ASSUME NEW t \in Tables
  PROVE  /\ Separated(WrittenProperties(t)) \in Passed(Quotes, Parentheses)
         /\ TrueMow(Separated(WrittenProperties(t))) = {t.mow = "true"}
<1> DEFINE p == WrittenProperties(t)
<1>1. Property(<<"replication_num">>, <<"1">>) = One
  BY DEF One, Number
<1>2. One \in Texts /\ One \in Passed(Quotes, Parentheses)
  BY AboutOne
<1> HIDE DEF p
<1>3. CASE t.mow = "unset"
  <2>1. p = <<One>>
    <3>1. p = <<One>> \o <<>>
      BY <1>1, <1>3 DEF WrittenProperties, p
    <3>2. QED
      BY <1>2, <3>1
  <2>2. Separated(p) = One
    BY <1>2, <2>1, SeparatedItems
  <2>3. TrueMow(One) = {FALSE} /\ (t.mow = "true") = FALSE
    BY <1>3, MowOfOne
  <2>4. QED
    BY <1>2, <2>2, <2>3 DEF p
<1>4. CASE t.mow # "unset"
  <2> DEFINE v == t.mow
             two == Two(v)
  <2>1. v \in Ordinaries
    BY <1>4, TablesAssumption DEF Ordinaries
  <2>2. Property(MowProperty, <<v>>) = two
    BY AboutProperties DEF Two
  <2>3. two \in Texts /\ two \in Passed(Quotes, Parentheses)
    BY <2>1, AboutOne
  <2>4. p = <<One, two>>
    <3>1. p = <<One>> \o <<two>>
      BY <1>1, <1>4, <2>2 DEF WrittenProperties, p
    <3> DEFINE a == <<One>>
               b == <<two>>
               d == <<One, two>>
    <3> HIDE DEF two
    <3>2. /\ a \in Seq(Texts) /\ Len(a) = 1 /\ a[1] = One
          /\ b \in Seq(Texts) /\ Len(b) = 1 /\ b[1] = two
          /\ d \in Seq(Texts) /\ Len(d) = 2 /\ d[1] = One /\ d[2] = two
      BY <1>2, <2>3
    <3>3. p = a \o b
      BY <3>1
    <3> HIDE DEF a, b, d
    <3>4. /\ p \in Seq(Texts) /\ Len(p) = Len(a) + Len(b)
          /\ \A i \in 1 .. Len(a) : p[i] = a[i]
          /\ \A i \in 1 .. Len(b) : p[Len(a) + i] = b[i]
      BY <3>2, <3>3, ConcatProperties
    <3>5. p[1] = One /\ p[1 + 1] = two /\ Len(p) = 2
      BY <3>2, <3>4
    <3>6. \A i \in 1 .. 2 : p[i] = d[i]
      BY <3>2, <3>5
    <3>7. p = d
      BY <3>2, <3>4, <3>5, <3>6, SeqEqual
    <3>8. QED
      BY <3>7 DEF d
  <2> HIDE DEF two
  <2>5. Separated(p) = One \o (Separator \o two)
    BY <1>2, <2>3, <2>4, SeparatedItems
  <2>6. Separated(p) \in Passed(Quotes, Parentheses)
    <3>1. p \in Seq(Texts) /\ Len(p) = 2 /\ p[1] = One /\ p[2] = two
      BY <1>2, <2>3, <2>4
    <3>2. \A i \in 1 .. Len(p) : p[i] \in Passed(Quotes, Parentheses)
      BY <1>2, <2>3, <3>1
    <3>3. Separator \in Plain(Parentheses)
      BY AboutProperties
    <3>4. QED
      BY <3>1, <3>2, <3>3, SeparatedPassed
  <2>7. TrueMow(One \o (Separator \o two)) = {v = True}
    BY <2>1, MowOfTwo DEF two
  <2>8. TrueMow(Separated(p)) = {t.mow = "true"}
    BY <2>5, <2>7 DEF True
  <2>9. QED
    BY <2>6, <2>8 DEF p
<1>5. QED
  BY <1>3, <1>4

(* The text of a table has the parts that the scanner reads. *)
LEMMA Written ==
  ASSUME NEW t \in Tables, Legible(t)
  PROVE  ShowCreate(t, escaped)
           = FlattenSeq(Segments(Separated(WrittenColumns(t)), t.model,
                                 Separated(Ids(Keys(t))), Literal(t.comment),
                                 WrittenNames(t)[1], Separated(WrittenProperties(t))))
<1>1. ShowCreate(t, escaped)
        = FlattenSeq(<<
            <<"CREATE TABLE", " ", "(">>, Separated(WrittenColumns(t)), <<")", "ENGINE", " ">>,
            <<t.model, "(">>, Separated(SubSeq(WrittenNames(t), 1, t.keys)),
            <<")", "COMMENT", " ">>, Literal(t.comment),
            <<"HASH", "(">>, WrittenNames(t)[1], <<")">>,
            <<"PROPERTIES", " ", "(">>, Separated(WrittenProperties(t)), <<")">> >>)
  BY DEF ShowCreate, WrittenNames, WrittenColumns, WrittenProperties, Kind
<1>2. SubSeq(WrittenNames(t), 1, t.keys) = Ids(Keys(t))
  BY KeyIdentifiers
<1>3. Segments(Separated(WrittenColumns(t)), t.model, Separated(Ids(Keys(t))),
               Literal(t.comment), WrittenNames(t)[1], Separated(WrittenProperties(t)))
        = <<
            <<"CREATE TABLE", " ", "(">>, Separated(WrittenColumns(t)), <<")", "ENGINE", " ">>,
            <<t.model, "(">>, Separated(Ids(Keys(t))),
            <<")", "COMMENT", " ">>, Literal(t.comment),
            <<"HASH", "(">>, WrittenNames(t)[1], <<")">>,
            <<"PROPERTIES", " ", "(">>, Separated(WrittenProperties(t)), <<")">> >>
  BY DEF Segments, Heading, Engine, Remark, Hash, ClosingText, PropertiesWord, Blank,
         Opening, Closing
<1>4. QED
  BY <1>1, <1>2, <1>3

(* The scanner reads the metadata of a table in the text that Doris writes
   of it. *)
LEMMA TextIsTrue ==
  ASSUME NEW t \in Tables, Legible(t)
  PROVE  ParseCreateTable(ShowCreate(t, escaped))
           = {[model |-> t.model, keys |-> Keys(t), mow |-> t.mow = "true"]}
<1> DEFINE columns == Separated(WrittenColumns(t))
           names == Keys(t)
           comment == Literal(t.comment)
           name == WrittenNames(t)[1]
           properties == Separated(WrittenProperties(t))
<1>1. columns \in Passed(Quotes, Models)
  BY ColumnsPassed
<1>2. t.model \in Models
  BY TablesAssumption
<1>3. Named(names)
  BY KeysNamed
<1>4. comment \in Passed(Quotes, Wanted)
  BY TableTexts, LiteralPassed
<1>5. name \in Passed(Quotes, Wanted)
  <2>1. 1 \in 1 .. Len(t.columns)
    BY TableTexts
  <2>2. QED
    BY <2>1, IdentifierWritten
<1>6. properties \in Passed(Quotes, Parentheses) /\ TrueMow(properties) = {t.mow = "true"}
  BY PropertiesWritten
<1>7. Separated(Ids(names)) \in Passed(Quotes, Wanted) \cap Passed(Quotes, Parentheses)
  BY <1>3, KeysPassed
<1>8. ShowCreate(t, escaped)
        = FlattenSeq(Segments(columns, t.model, Separated(Ids(names)), comment, name,
                              properties))
  BY Written
<1> HIDE DEF columns, names, comment, name, properties
<1>9. ParseCreateTable(ShowCreate(t, escaped))
        = {[model |-> t.model, keys |-> names, mow |-> mow] : mow \in TrueMow(properties)}
  BY <1>1, <1>2, <1>3, <1>4, <1>5, <1>6, <1>7, <1>8, TextParsed
<1>10. QED
  BY <1>6, <1>9 DEF names

-------------------------------------------------------------------------------
(* The place in the procedure, and what is known there. *)
Placed ==
    /\ step = "connect" => client = "none"
    /\ step \in {"connect", "cursor", "show", "describe", "mogrify"} => failure = "none"
    /\ failure \in DriverErrors \cup {"none", "dependency", "configuration",
                                      "metadata", "schema", "compatibility"}
    /\ step \notin {"ended", "validated"} => outcome = "none"
    /\ step # "validated" => write = {}

(* The columns as they are described. *)
ColumnsOf(t) ==
    [i \in 1 .. Len(t.columns) |->
       [name |-> t.columns[i].name, type |-> t.columns[i].type,
        nullable |-> (IF t.columns[i].nullable THEN "YES" ELSE "NO") = "YES"]]

(* The metadata has the columns of the table that was described. *)
Described ==
    /\ step \in {"connect", "cursor", "show", "describe"} => described = {}
    /\ \A t \in described, m \in metadata : m.columns = ColumnsOf(t)

Inv == TypeOK /\ Placed /\ Described /\ EndsCleanly /\ SentHasColumns

-------------------------------------------------------------------------------
(* Lemmas about the operators *)

(* A Doris type has one Arrow type at most. *)
LEMMA OneArrowType ==
  ASSUME NEW type, NEW a \in ArrowType(type)
  PROVE  ArrowType(type) = {a}
BY DEF ArrowType

(* What DESCRIBE says of a table is read as it is, and nothing else is. *)
LEMMA ReadAsDescribed ==
  ASSUME table \in Tables, NEW rows \in {Rows} \cup BadRows,
         NEW c \in ParseDescribeRows(rows)
  PROVE  c = ColumnsOf(table)
<1> DEFINE row(column) == [name |-> column.name, type |-> column.type,
                            null |-> IF column.nullable THEN "YES" ELSE "NO"]
           n == Len(table.columns)
<1>1. n \in Nat \ {0} /\ DOMAIN table.columns = 1 .. n
  BY TablesAssumption
<1>2. Rows = [i \in 1 .. n |-> row(table.columns[i])]
  BY DEF Rows
<1>3. CASE rows = Rows
  <2>1. Len(Rows) = n
    BY <1>1, <1>2
  <2>2. QED
    BY <1>2, <1>3, <2>1 DEF ParseDescribeRows, ColumnsOf
<1>4. CASE rows = <<>>
  BY <1>4 DEF ParseDescribeRows
<1>5. CASE rows = Rows \o Rows
  <2>1. PICK S : Rows \in Seq(S) /\ Len(Rows) = n
    <3> DEFINE S == {row(table.columns[i]) : i \in 1 .. n}
    <3>1. Rows \in [1 .. n -> S]
      BY <1>2
    <3>2. Rows \in Seq(S) /\ Len(Rows) = n
      <4> HIDE DEF S
      <4> QED BY <1>1, <3>1
    <3>3. QED
      BY <3>2
  <2> HIDE DEF n
  <2>2. Len(rows) = n + n /\ rows[1] = Rows[1] /\ rows[n + 1] = Rows[1]
    <3>1. /\ Len(Rows \o Rows) = n + n
          /\ (Rows \o Rows)[1] = Rows[1] /\ (Rows \o Rows)[n + 1] = Rows[1]
      BY <1>1, <2>1
    <3>2. QED
      BY <1>5, <3>1
  <2>3. /\ DOMAIN Names(rows) = 1 .. n + n
        /\ Names(rows)[1] = Names(rows)[n + 1]
    BY <1>1, <2>2 DEF Names
  <2>4. ~ IsInjective(Names(rows))
    BY <1>1, <2>3 DEF IsInjective
  <2>5. QED
    BY <2>4 DEF ParseDescribeRows
<1>6. CASE rows = <<[Rows[1] EXCEPT !.null = "MAYBE"]>>
  <2>1. Rows[1] = row(table.columns[1])
    BY <1>1, <1>2
  <2>2. rows[1].null = "MAYBE" /\ rows[1] \in ToSet(rows)
    BY <1>6, <2>1 DEF ToSet
  <2>3. QED
    BY <2>2 DEF ParseDescribeRows
<1>7. CASE rows = <<[Rows[1] EXCEPT !.name = <<>>]>>
  <2>1. Rows[1] = row(table.columns[1])
    BY <1>1, <1>2
  <2>2. rows[1].name = <<>> /\ rows[1] \in ToSet(rows)
    BY <1>7, <2>1 DEF ToSet
  <2>3. QED
    BY <2>2 DEF ParseDescribeRows
<1>8. QED
  BY <1>3, <1>4, <1>5, <1>6, <1>7 DEF BadRows

(* A row of data whose columns are validated against those of a table has
   columns of the table. *)
LEMMA ValidatedHasColumns ==
  ASSUME NEW t \in Tables, NEW data \in Data, NEW m,
         NEW operation \in {"load", "upsert", "partial_update"},
         m.columns = ColumnsOf(t), Validates(m, operation, data)
  PROVE  HasColumns(operation, t, data)
<1> DEFINE n == Len(data)
           k == Len(t.columns)
           Matched(i, j) == /\ data[i].name = t.columns[j].name
                            /\ operation # "partial_update" => i = j /\ n = k
<1>1. /\ n \in Nat /\ DOMAIN data = 1 .. n
      /\ k \in Nat /\ DOMAIN t.columns = 1 .. k
  BY DataAssumption, TablesAssumption
<1>2. Len(m.columns) = k /\ DOMAIN m.columns = 1 .. k
  BY <1>1 DEF ColumnsOf
<1>3. /\ Names(data) = [i \in 1 .. n |-> data[i].name]
      /\ Names(m.columns) = [j \in 1 .. k |-> t.columns[j].name]
  BY <1>1, <1>2 DEF Names, ColumnsOf
<1>4. ASSUME NEW i \in 1 .. n, NEW j \in 1 .. n, data[i].name = data[j].name
      PROVE  i = j
  BY <1>3, <1>4 DEF Validates, IsInjective
<1>5. ASSUME NEW i \in 1 .. n
      PROVE  \E j \in 1 .. k : Matched(i, j)
  <2>1. CASE operation = "partial_update"
    <3>1. Names(data)[i] \in ToSet(Names(m.columns))
      BY <1>3, <2>1 DEF Validates, Matches, ToSet
    <3>2. QED
      BY <1>3, <2>1, <3>1 DEF ToSet
  <2>2. CASE operation # "partial_update"
    <3>1. Names(data) = Names(m.columns)
      BY <2>2 DEF Validates, Matches
    <3>2. 1 .. n = 1 .. k
      BY <1>3, <3>1
    <3>3. n = k
      BY <1>1, <3>2
    <3>4. QED
      BY <1>3, <3>1, <3>3
  <2>3. QED
    BY <2>1, <2>2
<1>6. ASSUME NEW i \in 1 .. n, NEW j \in 1 .. k, Matched(i, j)
      PROVE  Storable(operation, t.columns[j], data[i])
  <2>1. /\ data[i] \in ToSet(data) /\ m.columns[j] \in ToSet(m.columns)
        /\ m.columns[j].name = data[i].name
        /\ m.columns[j].type = t.columns[j].type
        /\ m.columns[j].nullable => t.columns[j].nullable
    <3>1. m.columns[j] = [name |-> t.columns[j].name, type |-> t.columns[j].type,
              nullable |-> (IF t.columns[j].nullable THEN "YES" ELSE "NO") = "YES"]
      BY DEF ColumnsOf
    <3>2. /\ m.columns[j].name = data[i].name
          /\ m.columns[j].type = t.columns[j].type
      BY <1>6, <3>1
    <3>3. m.columns[j].nullable => t.columns[j].nullable
      BY <1>1, <3>1, TablesAssumption
    <3>4. data[i] \in ToSet(data) /\ m.columns[j] \in ToSet(m.columns)
      BY <1>1, <1>2 DEF ToSet
    <3>5. QED
      BY <3>2, <3>3, <3>4
  <2>2. Prepares(operation, data[i], m.columns[j])
    BY <2>1 DEF Validates
  <2>3. QED
    BY <2>1, <2>2, OneArrowType DEF Prepares, Castable, Storable
<1>7. \A i \in 1 .. n : data[i].type # <<"timestamp[us, tz]">>
  BY <1>1 DEF Validates, ToSet
<1>8. ASSUME NEW i \in 1 .. n
      PROVE  \E j \in 1 .. k :
                /\ Matched(i, j)
                /\ Storable(operation, t.columns[j], data[i])
                /\ data[i].type # <<"timestamp[us, tz]">>
  <2> HIDE DEF Matched
  <2>1. PICK j \in 1 .. k : Matched(i, j)
    BY <1>5
  <2>2. Storable(operation, t.columns[j], data[i])
    BY <1>6, <2>1
  <2>3. QED
    BY <1>7, <2>1, <2>2
<1>9. QED
  BY <1>4, <1>8 DEF HasColumns

-------------------------------------------------------------------------------
(* The invariant *)

(* Nothing is open and nothing is known when a procedure begins. *)
LEMMA Initially == Init => Inv
BY DEF Init, Inv, TypeOK, Placed, Described, EndsCleanly, SentHasColumns,
       LetsThrough, DriverErrors, Translated

(* A procedure that raises, or goes on, knows what it did. *)
LEMMA ConnectKeeps ==
  ASSUME Inv, Connect \/ ConnectFails
  PROVE  Inv'
BY DEF Connect, ConnectFails, Raise, Goto, Inv, TypeOK, Placed, Described,
       EndsCleanly, SentHasColumns, DriverErrors, LetsThrough, asked

(* A failed call is what the caller has to see. *)
LEMMA CallKeeps ==
  ASSUME Inv, OpenCursor \/ CallFails \/ Mogrify \/ ShowsNothing \/ Incompatible
  PROVE  Inv'
<1> USE DEF Inv, TypeOK, Placed, Described, EndsCleanly, SentHasColumns, Goto, asked
<1>1. CASE OpenCursor
  BY <1>1 DEF OpenCursor
<1>2. CASE CallFails
  BY <1>2 DEF CallFails, Raise, DriverErrors
<1>3. CASE Mogrify
  BY <1>3 DEF Mogrify
<1>4. CASE ShowsNothing
  BY <1>4 DEF ShowsNothing, Raise
<1>5. CASE Incompatible
  BY <1>5 DEF Incompatible, Raise
<1>6. QED
  BY <1>1, <1>2, <1>3, <1>4, <1>5

(* Whatever the text says, it says nothing about the columns. *)
LEMMA ShowKeeps ==
  ASSUME Inv, Show
  PROVE  Inv'
BY DEF Show, Raise, Goto, Inv, TypeOK, Placed, Described, EndsCleanly,
       SentHasColumns, DriverErrors, LetsThrough

(* An alteration leaves what was found alone. *)
LEMMA AlterKeeps ==
  ASSUME Inv, Alter
  PROVE  Inv'
BY AlterationsAssumption DEF Alter, Inv, TypeOK, Placed, Described, EndsCleanly,
       SentHasColumns, asked

(* Whichever rows DESCRIBE returns, the columns taken from them are those of
   the table. *)
LEMMA DescribeKeeps ==
  ASSUME Inv, Describe
  PROVE  Inv'
<1> USE DEF Inv
<1>1. PICK rows \in {Rows} \cup BadRows :
        LET columns == ParseDescribeRows(rows)
        IN  IF columns = {} \/ (/\ procedure = "schema"
                                /\ \A c \in columns : CanonicalSchema(c) = {})
            THEN Raise("schema") /\ UNCHANGED asked
            ELSE /\ Goto("finally") /\ UNCHANGED <<failure, shown>>
                 /\ described' = {table}
                 /\ metadata' = {[model |-> m.model, keys |-> m.keys, mow |-> m.mow,
                                  columns |-> c] : m \in metadata, c \in columns}
  BY DEF Describe
<1>2. UNCHANGED <<client, cursor>> /\ step = "describe"
  BY DEF Describe
<1>3. CASE Raise("schema") /\ UNCHANGED asked
  BY <1>2, <1>3 DEF Raise, Goto, TypeOK, Placed, Described, EndsCleanly,
     SentHasColumns, LetsThrough, asked
<1>4. CASE /\ Goto("finally") /\ UNCHANGED <<failure, shown>>
           /\ described' = {table}
           /\ metadata' = {[model |-> m.model, keys |-> m.keys, mow |-> m.mow,
                            columns |-> c] : m \in metadata, c \in ParseDescribeRows(rows)}
  <2>1. TypeOK' /\ Placed' /\ EndsCleanly' /\ SentHasColumns'
    BY <1>2, <1>4 DEF Goto, TypeOK, Placed, EndsCleanly, SentHasColumns, LetsThrough
  <2>2. table \in Tables /\ table' = table /\ step' = "finally"
    BY <1>4 DEF Goto, TypeOK
  <2>3. ASSUME NEW m \in metadata'
        PROVE  m.columns = ColumnsOf(table)
    <3>1. PICK c \in ParseDescribeRows(rows) : m.columns = c
      BY <1>4
    <3>2. QED
      BY <2>2, <3>1, ReadAsDescribed
  <2>4. Described'
    BY <1>4, <2>2, <2>3 DEF Described
  <2>5. QED
    BY <2>1, <2>4
<1>5. QED
  BY <1>1, <1>3, <1>4

(* The end closes both resources, and replaces a failure only where the
   except clauses say so. *)
LEMMA FinallyKeeps ==
  ASSUME Inv, Finally
  PROVE  Inv'
<1> USE DEF Inv
<1>1. PICK failed \in BOOLEAN :
        /\ CloseResources(failed)
        /\ outcome' = IF failure # "none" THEN Leaves
                      ELSE IF failed /\ procedure # "write" THEN "close" ELSE "returned"
  BY DEF Finally
<1>2. {client', cursor'} \subseteq {"none", "closed"}
  BY <1>1 DEF CloseResources, Closed, TypeOK
<1>3. failure # "none" => Leaves \in {"metadata", "schema", "discovery",
                                      "compatibility", "configuration"} \cup Translated
  BY DEF Leaves, Becomes, LetsThrough, Placed, TypeOK, DriverErrors, Translated
<1>4. failure \in Translated => Leaves = failure
  BY DEF Leaves, LetsThrough, TypeOK
<1>5. TypeOK'
  BY <1>1, <1>2, <1>3 DEF Finally, TypeOK, asked
<1>6. Placed' /\ Described' /\ SentHasColumns'
  BY DEF Finally, Placed, Described, SentHasColumns, asked
<1>7. EndsCleanly'
  BY <1>1, <1>2, <1>3, <1>4 DEF Finally, EndsCleanly, Translated
<1>8. QED
  BY <1>5, <1>6, <1>7

(* A write is accepted only with columns of the table. *)
LEMMA ValidateKeeps ==
  ASSUME Inv, Validate
  PROVE  Inv'
<1> USE DEF Inv
<1>1. PICK operation \in {"load", "upsert", "partial_update"}, data \in Data, m \in metadata :
        write' = {[operation |-> operation, data |-> data,
                   accepted |-> Validates(m, operation, data)]}
  BY DEF Validate
<1>2. TypeOK' /\ Placed' /\ Described' /\ EndsCleanly'
  BY <1>1 DEF Validate, TypeOK, Placed, Described, EndsCleanly, asked
<1>3. ASSUME NEW t \in described, Validates(m, operation, data)
      PROVE  HasColumns(operation, t, data)
  BY <1>3, ValidatedHasColumns DEF Described, TypeOK
<1>4. SentHasColumns'
  BY <1>1, <1>3 DEF Validate, SentHasColumns, asked
<1>5. QED
  BY <1>2, <1>4

(* The invariant is kept by every step. *)
LEMMA Inductive == Inv /\ [Next]_vars => Inv'
<1> SUFFICES ASSUME Inv, [Next]_vars PROVE Inv'
  OBVIOUS
<1>1. CASE UNCHANGED vars
  BY <1>1 DEF vars, asked, Inv, TypeOK, Placed, Described, EndsCleanly, SentHasColumns
<1>2. CASE Next
  BY <1>1, <1>2, ConnectKeeps, CallKeeps, ShowKeeps, AlterKeeps, DescribeKeeps,
     FinallyKeeps, ValidateKeeps DEF Next, Over
<1>3. QED
  BY <1>1, <1>2

(* The variables of the procedures keep their types, and every error that
   leaves one is of the connector or the interrupt. *)
THEOREM DiscoveryTyped == Spec => []TypeOK
<1>1. Inv => TypeOK
  BY DEF Inv
<1>2. QED
  BY <1>1, Initially, Inductive, PTL DEF Spec

(* Connections and cursors are closed whatever fails, and the first failure
   is not hidden. *)
THEOREM CleanEnds == Spec => []EndsCleanly
<1>1. Inv => EndsCleanly
  BY DEF Inv
<1>2. QED
  BY <1>1, Initially, Inductive, PTL DEF Spec

(* Data that is accepted has columns of the table that was described,
   whatever the text of the table said and however it was altered. *)
THEOREM AcceptedHasColumns == Spec => []SentHasColumns
<1>1. Inv => SentHasColumns
  BY DEF Inv
<1>2. QED
  BY <1>1, Initially, Inductive, PTL DEF Spec

-------------------------------------------------------------------------------
(* What is accepted *)

(* The names of a table that was described are distinct. *)
Distinct == \A t \in described : IsInjective(Names(t.columns))

TrueInv == Inv /\ MetadataIsTrue /\ Distinct /\ AcceptsWhatFits

(* The metadata of a table. *)
IsTrue(m, t) ==
    /\ m.model = t.model /\ m.keys = Keys(t) /\ m.mow = (t.mow = "true")
    /\ m.columns = ColumnsOf(t)

(* Data that is validated against true metadata has the keys and the model. *)
LEMMA ValidatedHasModel ==
  ASSUME NEW t \in Tables, NEW data \in Data, NEW m, IsTrue(m, t),
         NEW operation \in {"load", "upsert", "partial_update"},
         Validates(m, operation, data)
  PROVE  HasModel(operation, t, data)
<1>1. DOMAIN data = 1 .. Len(data) /\ Names(data) = [i \in 1 .. Len(data) |-> data[i].name]
  BY DataAssumption DEF Names
<1>2. ASSUME NEW i \in 1 .. t.keys
      PROVE  \E d \in ToSet(data) : d.name = t.columns[i].name
  <2>1. Keys(t)[i] = t.columns[i].name /\ i \in DOMAIN Keys(t)
    <3>1. Named(Keys(t)) /\ Len(Keys(t)) = t.keys
      BY KeysNamed
    <3>2. QED
      BY <3>1, KeysNamed DEF Named
  <2>2. t.columns[i].name \in ToSet(Names(data))
    <3>1. Keys(t)[i] \in ToSet(m.keys)
      BY <2>1 DEF IsTrue, ToSet
    <3>2. QED
      BY <2>1, <3>1 DEF Validates
  <2>3. PICK j \in 1 .. Len(data) : data[j].name = t.columns[i].name
    BY <1>1, <2>2 DEF ToSet
  <2>4. QED
    BY <1>1, <2>3 DEF ToSet
<1>3. Takes(m, operation)
  BY DEF Validates
<1>4. QED
  BY <1>2, <1>3 DEF HasModel, Takes, IsTrue

(* Data that a table can take is validated. *)
LEMMA FittingIsValidated ==
  ASSUME NEW t \in Tables, NEW data \in Data, NEW m, IsTrue(m, t),
         NEW operation \in {"load", "upsert", "partial_update"},
         IsInjective(Names(t.columns)),
         HasColumns(operation, t, data), HasModel(operation, t, data)
  PROVE  Validates(m, operation, data)
<1> DEFINE n == Len(data)
           k == Len(t.columns)
<1>1. /\ n \in Nat /\ DOMAIN data = 1 .. n /\ Names(data) = [i \in 1 .. n |-> data[i].name]
      /\ ToSet(data) = {data[i] : i \in 1 .. n}
  BY DataAssumption DEF Names, ToSet
<1>2. k \in Nat /\ DOMAIN t.columns = 1 .. k /\ t.keys \in 1 .. k
  BY TablesAssumption
<1>3. /\ Len(m.columns) = k /\ DOMAIN m.columns = 1 .. k
      /\ \A j \in 1 .. k : /\ m.columns[j].name = t.columns[j].name
                           /\ m.columns[j].type = t.columns[j].type
                           /\ t.columns[j].nullable => m.columns[j].nullable
      /\ Names(m.columns) = [j \in 1 .. k |-> t.columns[j].name]
  <2> DEFINE columns == m.columns
  <2>1. columns = [j \in 1 .. k |->
                     [name |-> t.columns[j].name, type |-> t.columns[j].type,
                      nullable |-> (IF t.columns[j].nullable THEN "YES" ELSE "NO") = "YES"]]
    BY DEF IsTrue, ColumnsOf
  <2>2. \A j \in 1 .. k : /\ columns[j].name = t.columns[j].name
                          /\ columns[j].type = t.columns[j].type
                          /\ t.columns[j].nullable => columns[j].nullable
    <3>1. ASSUME NEW j \in 1 .. k
          PROVE  /\ columns[j].name = t.columns[j].name
                 /\ columns[j].type = t.columns[j].type
                 /\ t.columns[j].nullable => columns[j].nullable
      <4> DEFINE nullable == (IF t.columns[j].nullable THEN "YES" ELSE "NO") = "YES"
      <4>1. columns[j] = [name |-> t.columns[j].name, type |-> t.columns[j].type,
                          nullable |-> nullable]
        BY <2>1
      <4>2. t.columns[j].nullable => nullable
        OBVIOUS
      <4> HIDE DEF nullable, columns
      <4>3. /\ columns[j].name = t.columns[j].name
            /\ columns[j].type = t.columns[j].type
            /\ columns[j].nullable = nullable
        BY <4>1
      <4>4. QED
        BY <4>2, <4>3
    <3> HIDE DEF columns, k
    <3>2. QED
      BY <3>1
  <2>3. Len(columns) = k /\ DOMAIN columns = 1 .. k
    BY <1>2, <2>1
  <2> HIDE DEF columns, k
  <2>4. Names(columns) = [j \in 1 .. k |-> t.columns[j].name]
    BY <2>2, <2>3 DEF Names
  <2>5. QED
    BY <2>2, <2>3, <2>4 DEF columns
<1>4. ASSUME NEW i \in 1 .. n
      PROVE  \E j \in 1 .. k :
               /\ data[i].name = t.columns[j].name
               /\ Storable(operation, t.columns[j], data[i])
               /\ data[i].type # <<"timestamp[us, tz]">>
               /\ operation # "partial_update" => i = j /\ n = k
  BY DEF HasColumns
<1>5. IsInjective(Names(data))
  <2>1. \A i, j \in 1 .. n : data[i].name = data[j].name => i = j
    BY DEF HasColumns
  <2>2. QED
    BY <1>1, <2>1 DEF IsInjective
<1>6. \A column \in ToSet(data) : column.type # <<"timestamp[us, tz]">>
  BY <1>1, <1>4
<1>7. ToSet(m.keys) \subseteq ToSet(Names(data))
  <2>1. ASSUME NEW i \in 1 .. t.keys
        PROVE  t.columns[i].name \in ToSet(Names(data))
    <3>1. PICK d \in ToSet(data) : d.name = t.columns[i].name
      BY DEF HasModel
    <3>2. QED
      BY <1>1, <3>1 DEF ToSet
  <2>2. DOMAIN Keys(t) = 1 .. t.keys
    <3>1. Named(Keys(t)) /\ Len(Keys(t)) = t.keys
      BY KeysNamed
    <3>2. QED
      BY <3>1 DEF Named
  <2>3. \A i \in 1 .. t.keys : Keys(t)[i] = t.columns[i].name
    BY KeysNamed
  <2>4. ToSet(Keys(t)) \subseteq ToSet(Names(data))
    BY <2>1, <2>2, <2>3 DEF ToSet
  <2>5. QED
    BY <2>4 DEF IsTrue
<1>8. Takes(m, operation)
  BY DEF HasModel, Takes, IsTrue
<1>9. Matches(operation, Names(data), Names(m.columns))
  <2>1. CASE operation = "partial_update"
    <3>1. ToSet(Names(m.columns)) = {t.columns[j].name : j \in 1 .. k}
      BY <1>3 DEF ToSet
    <3>2. \A i \in 1 .. n : data[i].name \in {t.columns[j].name : j \in 1 .. k}
      BY <1>4
    <3>3. ToSet(Names(data)) = {data[i].name : i \in 1 .. n}
      BY <1>1 DEF ToSet
    <3>4. QED
      BY <2>1, <3>1, <3>2, <3>3 DEF Matches
  <2>2. CASE operation # "partial_update"
    <3>1. PICK i \in 1 .. n : TRUE
      <4>1. 1 \in 1 .. t.keys
        BY <1>2
      <4>2. PICK d \in ToSet(data) : TRUE
        BY <4>1 DEF HasModel
      <4>3. QED
        BY <1>1, <4>2
    <3>2. n = k
      BY <1>4, <2>2, <3>1
    <3>3. \A j \in 1 .. n : data[j].name = t.columns[j].name
      BY <1>4, <2>2
    <3>4. QED
      BY <1>1, <1>3, <2>2, <3>2, <3>3 DEF Matches
  <2>3. QED
    BY <2>1, <2>2
<1>10. ASSUME NEW i \in 1 .. n, NEW j \in 1 .. k, data[i].name = t.columns[j].name
       PROVE  Prepares(operation, data[i], m.columns[j])
  <2>1. Storable(operation, t.columns[j], data[i])
    <3>1. PICK h \in 1 .. k : /\ data[i].name = t.columns[h].name
                              /\ Storable(operation, t.columns[h], data[i])
      BY <1>4
    <3>2. h = j
      <4>1. Names(t.columns) = [x \in 1 .. k |-> t.columns[x].name]
        BY <1>2 DEF Names
      <4>2. QED
        BY <1>10, <3>1, <4>1 DEF IsInjective
    <3>3. QED
      BY <3>1, <3>2
  <2>2. PICK type \in ArrowType(t.columns[j].type) : TRUE
    BY <2>1 DEF Storable
  <2>3. \/ operation = "partial_update" /\ Head(t.columns[j].type) \in {"JSON", "JSONB"}
        \/ Castable(data[i], type)
    BY <2>1, <2>2 DEF Storable, Castable
  <2>4. m.columns[j].nullable \/ ~data[i].nulls
    BY <1>3, <2>1 DEF Storable
  <2>5. m.columns[j].type = t.columns[j].type
    BY <1>3
  <2>6. QED
    BY <2>2, <2>3, <2>4, <2>5 DEF Prepares
<1>11. \A column \in ToSet(data), specification \in ToSet(m.columns) :
         column.name = specification.name
           => Prepares(operation, column, specification)
  <2>1. ToSet(m.columns) = {m.columns[j] : j \in 1 .. k}
    BY <1>3 DEF ToSet
  <2>2. QED
    BY <1>1, <1>3, <1>10, <2>1
<1>12. QED
  BY <1>5, <1>6, <1>7, <1>8, <1>9, <1>11 DEF Validates

(* Nothing has been found when a procedure begins. *)
LEMMA TrulyInitially == Init => TrueInv
<1>1. Init => MetadataIsTrue /\ Distinct /\ AcceptsWhatFits
  BY DEF Init, MetadataIsTrue, Distinct, AcceptsWhatFits
<1>2. QED
  BY <1>1, Initially DEF TrueInv

(* What is not asked, and nothing that was, changes the truth. *)
LEMMA OthersKeepTrue ==
  ASSUME TrueInv, UNCHANGED <<escaped, asked, write>>
  PROVE  MetadataIsTrue' /\ Distinct' /\ AcceptsWhatFits'
<1>1. escaped' = escaped /\ shown' = shown /\ described' = described
      /\ metadata' = metadata /\ write' = write
  BY DEF asked
<1>2. \A t : Legible(t)' = Legible(t)
  BY <1>1 DEF Legible
<1>3. MetadataIsTrue'
  BY <1>1, <1>2 DEF TrueInv, MetadataIsTrue
<1>4. Distinct'
  BY <1>1 DEF TrueInv, Distinct
<1>5. AcceptsWhatFits'
  BY <1>1, <1>2 DEF TrueInv, AcceptsWhatFits
<1>6. QED
  BY <1>3, <1>4, <1>5

(* The text that is shown is that of the table. *)
LEMMA ShowKeepsTrue ==
  ASSUME TrueInv, Show
  PROVE  MetadataIsTrue' /\ Distinct' /\ AcceptsWhatFits'
<1>1. /\ shown' = {table} /\ metadata' = ParseCreateTable(ShowCreate(table, escaped))
      /\ described' = described /\ escaped' = escaped /\ write' = write /\ step = "show"
  BY DEF Show, Raise, Goto
<1>2. table \in Tables /\ described = {} /\ write = {}
  BY <1>1 DEF TrueInv, Inv, TypeOK, Placed, Described
<1>3. MetadataIsTrue'
  <2>1. ASSUME Legible(table)
        PROVE  /\ metadata' # {}
               /\ \A m \in metadata' : /\ m.model = table.model /\ m.keys = Keys(table)
                                       /\ m.mow = (table.mow = "true")
    <3> DEFINE m == [model |-> table.model, keys |-> Keys(table), mow |-> table.mow = "true"]
    <3>1. metadata' = {m}
      BY <1>1, <1>2, <2>1, TextIsTrue
    <3>2. /\ m.model = table.model /\ m.keys = Keys(table)
          /\ m.mow = (table.mow = "true")
      OBVIOUS
    <3> HIDE DEF m
    <3>3. QED
      BY <3>1, <3>2
  <2>2. ASSUME NEW t \in shown', Legible(t)'
        PROVE  /\ metadata' # {}
               /\ \A m \in metadata' : /\ m.model = t.model /\ m.keys = Keys(t)
                                       /\ m.mow = (t.mow = "true")
    <3>1. t = table
      BY <1>1, <2>2
    <3>2. Legible(table)
      BY <1>1, <2>2, <3>1 DEF Legible
    <3>3. QED
      BY <2>1, <3>1, <3>2
  <2>3. QED
    BY <2>2 DEF MetadataIsTrue
<1>4. Distinct' /\ AcceptsWhatFits'
  BY <1>1, <1>2 DEF Distinct, AcceptsWhatFits
<1>5. QED
  BY <1>3, <1>4

(* Rows of DESCRIBE with a name twice are not accepted. *)
LEMMA DescribedNames ==
  ASSUME table \in Tables, NEW rows \in {Rows} \cup BadRows,
         NEW c \in ParseDescribeRows(rows)
  PROVE  IsInjective(Names(table.columns))
<1>1. c = ColumnsOf(table)
  BY ReadAsDescribed
<1>2. IsInjective(Names(rows)) /\ DOMAIN c = 1 .. Len(rows)
      /\ \A i \in 1 .. Len(rows) : c[i].name = rows[i].name
  BY DEF ParseDescribeRows
<1> DEFINE n == Len(table.columns)
<1>3. n \in Nat /\ DOMAIN c = 1 .. n /\ \A i \in 1 .. n : c[i].name = table.columns[i].name
  BY <1>1, TablesAssumption DEF ColumnsOf
<1>4. Names(rows) = [i \in 1 .. n |-> table.columns[i].name]
  <2>1. 1 .. Len(rows) = 1 .. n
    BY <1>2, <1>3
  <2>2. \A i \in 1 .. n : rows[i].name = table.columns[i].name
    BY <1>2, <1>3, <2>1
  <2>3. QED
    BY <2>1, <2>2 DEF Names
<1>5. Names(table.columns) = Names(rows)
  BY <1>4 DEF Names
<1>6. QED
  BY <1>2, <1>5

(* DESCRIBE adds the columns and keeps the rest. *)
LEMMA DescribeKeepsTrue ==
  ASSUME TrueInv, Describe
  PROVE  MetadataIsTrue' /\ Distinct' /\ AcceptsWhatFits'
<1>1. PICK rows \in {Rows} \cup BadRows :
        LET columns == ParseDescribeRows(rows)
        IN  IF columns = {} \/ (/\ procedure = "schema"
                                /\ \A c \in columns : CanonicalSchema(c) = {})
            THEN Raise("schema") /\ UNCHANGED asked
            ELSE /\ Goto("finally") /\ UNCHANGED <<failure, shown>>
                 /\ described' = {table}
                 /\ metadata' = {[model |-> m.model, keys |-> m.keys, mow |-> m.mow,
                                  columns |-> c] : m \in metadata, c \in columns}
  BY DEF Describe
<1>2. CASE Raise("schema") /\ UNCHANGED asked
  BY <1>2, OthersKeepTrue DEF Raise, Goto
<1>3. CASE /\ Goto("finally") /\ UNCHANGED shown
           /\ described' = {table} /\ ParseDescribeRows(rows) # {}
           /\ metadata' = {[model |-> m.model, keys |-> m.keys, mow |-> m.mow,
                            columns |-> c] : m \in metadata, c \in ParseDescribeRows(rows)}
  <2>1. escaped' = escaped /\ write' = {} /\ table \in Tables
    BY <1>3 DEF Describe, Goto, TrueInv, Inv, Placed, TypeOK
  <2>2. \A t : Legible(t)' = Legible(t)
    BY <2>1 DEF Legible
  <2>3. PICK c \in ParseDescribeRows(rows) : TRUE
    BY <1>3
  <2>4. metadata # {} => metadata' # {}
    <3>1. ASSUME NEW m \in metadata
          PROVE  metadata' # {}
      <4>1. [model |-> m.model, keys |-> m.keys, mow |-> m.mow, columns |-> c] \in metadata'
        BY <1>3, <2>3
      <4>2. QED
        BY <4>1
    <3>2. QED
      BY <3>1
  <2>5. \A n \in metadata' : \E m \in metadata :
          n.model = m.model /\ n.keys = m.keys /\ n.mow = m.mow
    BY <1>3
  <2>6. MetadataIsTrue'
    <3>1. ASSUME NEW t \in shown, Legible(t)
          PROVE  /\ metadata' # {}
                 /\ \A n \in metadata' : /\ n.model = t.model /\ n.keys = Keys(t)
                                         /\ n.mow = (t.mow = "true")
      <4>1. /\ metadata # {}
            /\ \A m \in metadata : /\ m.model = t.model /\ m.keys = Keys(t)
                                   /\ m.mow = (t.mow = "true")
        BY <3>1 DEF TrueInv, MetadataIsTrue
      <4>2. QED
        BY <2>4, <2>5, <4>1
    <3>2. shown' = shown
      BY <1>3
    <3>3. QED
      BY <2>2, <3>1, <3>2 DEF MetadataIsTrue
  <2>7. Distinct'
    BY <1>3, <2>1, <2>3, DescribedNames DEF Distinct
  <2>8. AcceptsWhatFits'
    BY <2>1 DEF AcceptsWhatFits
  <2>9. QED
    BY <2>6, <2>7, <2>8
<1>4. QED
  BY <1>1, <1>2, <1>3

(* The validation accepts exactly what fits. *)
LEMMA ValidateKeepsTrue ==
  ASSUME TrueInv, Validate
  PROVE  MetadataIsTrue' /\ Distinct' /\ AcceptsWhatFits'
<1>1. PICK operation \in {"load", "upsert", "partial_update"}, data \in Data, m \in metadata :
        write' = {[operation |-> operation, data |-> data,
                   accepted |-> Validates(m, operation, data)]}
  BY DEF Validate
<1>2. escaped' = escaped /\ shown' = shown /\ described' = described /\ metadata' = metadata
  BY DEF Validate, asked
<1>3. \A t : Legible(t)' = Legible(t)
  BY <1>2 DEF Legible
<1>4. MetadataIsTrue' /\ Distinct'
  BY <1>2, <1>3 DEF TrueInv, MetadataIsTrue, Distinct
<1>5. ASSUME NEW t \in shown \cap described, Legible(t)
      PROVE  Validates(m, operation, data) <=> /\ HasColumns(operation, t, data)
                                               /\ HasModel(operation, t, data)
  <2>1. t \in Tables
    BY DEF TrueInv, Inv, TypeOK
  <2>2. IsTrue(m, t)
    BY <1>5 DEF TrueInv, Inv, MetadataIsTrue, Described, IsTrue
  <2>3. IsInjective(Names(t.columns))
    BY DEF TrueInv, Distinct
  <2>4. ASSUME Validates(m, operation, data)
        PROVE  HasColumns(operation, t, data) /\ HasModel(operation, t, data)
    <3>1. m.columns = ColumnsOf(t)
      BY <2>2 DEF IsTrue
    <3>2. HasColumns(operation, t, data)
      BY <2>1, <2>4, <3>1, ValidatedHasColumns
    <3>3. HasModel(operation, t, data)
      BY <2>1, <2>2, <2>4, ValidatedHasModel
    <3>4. QED
      BY <3>2, <3>3
  <2>5. ASSUME HasColumns(operation, t, data), HasModel(operation, t, data)
        PROVE  Validates(m, operation, data)
    BY <2>1, <2>2, <2>3, <2>5, FittingIsValidated
  <2>6. QED
    BY <2>4, <2>5
<1>6. AcceptsWhatFits'
  <2> DEFINE accepted == Validates(m, operation, data)
             w == [operation |-> operation, data |-> data, accepted |-> accepted]
  <2>1. w.operation = operation /\ w.data = data /\ w.accepted = accepted /\ write' = {w}
    BY <1>1
  <2>2. \A t \in shown \cap described : Legible(t) =>
          (accepted <=> HasColumns(operation, t, data) /\ HasModel(operation, t, data))
    BY <1>5
  <2> HIDE DEF w, accepted
  <2>3. \A t \in shown \cap described : Legible(t) =>
          (w.accepted <=> HasColumns(w.operation, t, w.data) /\ HasModel(w.operation, t, w.data))
    BY <2>1, <2>2
  <2>4. QED
    BY <1>2, <1>3, <2>1, <2>3 DEF AcceptsWhatFits
<1>7. QED
  BY <1>4, <1>6

(* The invariant of the truth is kept by every step. *)
LEMMA TrulyInductive == TrueInv /\ [Next]_vars => TrueInv'
<1> SUFFICES ASSUME TrueInv, [Next]_vars PROVE TrueInv'
  OBVIOUS
<1>1. Inv'
  BY Inductive DEF TrueInv
<1>2. CASE UNCHANGED <<escaped, asked, write>>
  BY <1>1, <1>2, OthersKeepTrue DEF TrueInv
<1>3. CASE Show \/ Describe \/ Validate
  BY <1>1, <1>3, ShowKeepsTrue, DescribeKeepsTrue, ValidateKeepsTrue DEF TrueInv
<1>4. \/ UNCHANGED <<escaped, asked, write>>
      \/ Show \/ Describe \/ Validate
  BY DEF Next, vars, Over, Connect, ConnectFails, OpenCursor, CallFails, Mogrify, ShowsNothing,
         Alter, Incompatible, Finally, Raise, Goto
<1>5. QED
  BY <1>2, <1>3, <1>4

(* The scanner finds the model, the keys and the Merge-on-Write property of a
   table in the text that Doris writes of it, whatever its names and comments
   hold, as long as the text says where the names end. *)
THEOREM TruthOfMetadata == Spec => []MetadataIsTrue
<1>1. TrueInv => MetadataIsTrue
  BY DEF TrueInv
<1>2. QED
  BY <1>1, TrulyInitially, TrulyInductive, PTL DEF Spec

(* Of a table whose text can be trusted and that is left alone, exactly the
   data that it can take is accepted. *)
THEOREM AcceptedIsWhatFits == Spec => []AcceptsWhatFits
<1>1. TrueInv => AcceptsWhatFits
  BY DEF TrueInv
<1>2. QED
  BY <1>1, TrulyInitially, TrulyInductive, PTL DEF Spec
===============================================================================
