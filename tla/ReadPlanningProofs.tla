-------------------------- MODULE ReadPlanningProofs --------------------------
(***************************************************************************)
(* What Daft gets from a scan, for every table, pushdown and number of    *)
(* tasks: group_adjacent_ids gives each tablet of the plan to one task,   *)
(* so that what one task promises of its own tablets becomes a promise of *)
(* the scan, although the tasks read at different times.                   *)
(***************************************************************************)
EXTENDS ReadPlanning, FiniteSetTheorems, TLAPS

Queries == [tablets : SUBSET Tablets, filtered : BOOLEAN,
            limit : Limits \cup {0, NoLimit}]

(* The rows among some that a query asks for. *)
Meant(query, rows) ==
    {row \in rows : row[1] \in query.tablets
                    /\ (query.filtered => row \in matches)}

Unplanned == phase \in {"new", "discovering"}

Typed ==
    /\ scan \in Scans /\ phase \in Phases
    /\ matches \subseteq Rows /\ before \subseteq table /\ table \subseteq Rows
    /\ count \in Nat \cup {NoCount}

(* The queries of different tasks share no tablet, and each asks for what the
   scan asks for, unless there is nothing to ask for. *)
Split ==
    /\ \E n \in 0 .. TargetTasks : tasks \in [1 .. n -> Queries]
    /\ Unplanned => tasks = <<>>
    /\ phase \in {"planned", "done"} => tasks # <<>>
    /\ \A i, j \in DOMAIN tasks : i # j => tasks[i].tablets \cap tasks[j].tablets = {}
    /\ \A i \in DOMAIN tasks :
         /\ tasks[i].tablets \subseteq plan \/ tasks[i].limit = 0
         /\ tasks[i].filtered = (scan.filter = "compiled")
         /\ \/ tasks[i].limit = DatabaseLimit
            \/ tasks[i].limit = 0 /\ Wanted(before) = {}

(* Every row that was wanted when the scan was planned is some task's. *)
Covered ==
    tasks # <<>> =>
        \A row \in Wanted(before) :
            \E i \in DOMAIN tasks : row \in Meant(tasks[i], before)

(* A task that has read got its rows of the time of planning, or as many rows
   as its limit allows. *)
Answered(i) ==
    /\ got[i] \subseteq Meant(tasks[i], table)
    /\ tasks[i].limit # NoLimit => Cardinality(got[i]) <= tasks[i].limit
    /\ \/ Meant(tasks[i], before) \subseteq got[i]
       \/ tasks[i].limit # NoLimit /\ Cardinality(got[i]) = tasks[i].limit

Answers ==
    /\ DOMAIN got = DOMAIN tasks
    /\ \A i \in DOMAIN got : got[i] = NotRead \/ Answered(i)
    /\ RowsDone => \A i \in DOMAIN got : got[i] # NotRead

Counts ==
    /\ phase = "discovering" => ~scan.counts
    /\ scan.counts /\ tasks # <<>> => scan.filter = "none" /\ tasks = <<CountQuery>>
    /\ count # NoCount =>
         /\ ~Unplanned /\ scan.filter = "none"
         /\ count >= Cardinality(before) /\ count <= Cardinality(table)

Inv == Typed /\ Split /\ Covered /\ Answers /\ Counts

-------------------------------------------------------------------------------
(* Grouping *)

(* A product grows with its first factor. *)
LEMMA TimesMonotone ==
  ASSUME NEW a \in Int, NEW b \in Int, NEW c \in Nat, a <= b
  PROVE  a * c <= b * c
<1>1. b * c - a * c = (b - a) * c
  OBVIOUS
<1>2. (b - a) * c >= 0
  OBVIOUS
<1>3. QED
  BY <1>1, <1>2

(* Division that rounds up. *)
LEMMA CeilDivBounds ==
  ASSUME NEW m \in Nat, NEW n \in Nat \ {0}
  PROVE  /\ CeilDiv(m, n) \in Nat
         /\ (CeilDiv(m, n) - 1) * n < m
         /\ m <= CeilDiv(m, n) * n
<1> DEFINE q == CeilDiv(m, n)
<1>1. q \in Int /\ q * n <= m + n - 1 /\ m + n - 1 < (q + 1) * n
  BY DEF CeilDiv
<1>2. (q + 1) * n = q * n + n /\ (q - 1) * n = q * n - n
  BY <1>1
<1>3. q >= 0
  BY DEF CeilDiv
<1>4. q \in Nat /\ (q - 1) * n < m /\ m <= q * n
  <2> DEFINE p == q * n
  <2>1. p \in Int /\ m \in Int /\ n \in Int
    BY <1>1
  <2>2. p <= m + n - 1 /\ m + n - 1 < p + n /\ (q - 1) * n = p - n
    BY <1>1, <1>2
  <2> HIDE DEF p
  <2>3. p - n < m /\ m <= p
    BY <2>1, <2>2
  <2>4. QED
    BY <1>1, <1>3, <2>2, <2>3 DEF p
<1>5. QED
  BY <1>4

(* A factor that makes a product smaller is smaller. *)
LEMMA TimesCancels ==
  ASSUME NEW a \in Int, NEW b \in Int, NEW c \in Nat, a * c < b * c
  PROVE  a < b
<1>1. a >= b => b * c <= a * c
  BY TimesMonotone
<1>2. a * c \in Int /\ b * c \in Int
  OBVIOUS
<1>3. QED
  BY <1>1, <1>2

(* Cutting m items in runs of a size that suits n runs makes n at most. *)
LEMMA RunsFit ==
  ASSUME NEW m \in Nat \ {0}, NEW n \in Nat \ {0}
  PROVE  /\ CeilDiv(m, n) \in Nat \ {0}
         /\ CeilDiv(m, CeilDiv(m, n)) \in 1 .. n
<1> DEFINE size == CeilDiv(m, n)
           runs == CeilDiv(m, size)
<1>1. size \in Nat /\ m <= size * n
  BY CeilDivBounds
<1>2. size # 0
  BY <1>1
<1>3. runs \in Nat /\ (runs - 1) * size < m /\ m <= runs * size
  BY <1>1, <1>2, CeilDivBounds
<1> HIDE DEF size, runs
<1>4. runs # 0
  BY <1>1, <1>3
<1>5. (runs - 1) * size < n * size
  BY <1>1, <1>3
<1>6. runs - 1 < n
  BY <1>1, <1>3, <1>5, TimesCancels
<1>7. QED
  BY <1>1, <1>2, <1>3, <1>4, <1>6 DEF size, runs

(* Each of m items is in a run, and in no two. *)
LEMMA RunOfItem ==
  ASSUME NEW m \in Nat, NEW size \in Nat \ {0}, NEW item \in 1 .. m
  PROVE  /\ \E g \in 1 .. CeilDiv(m, size) : item \in (g - 1) * size + 1 .. g * size
         /\ \A g, h \in 1 .. CeilDiv(m, size) :
              /\ item \in (g - 1) * size + 1 .. g * size
              /\ item \in (h - 1) * size + 1 .. h * size
              => g = h
<1> DEFINE runs == CeilDiv(m, size)
           g == CeilDiv(item, size)
<1>1. runs \in Nat /\ m <= runs * size
  BY CeilDivBounds
<1>2. g \in Nat /\ (g - 1) * size < item /\ item <= g * size
  BY CeilDivBounds
<1> HIDE DEF runs, g
<1>3. item \in (g - 1) * size + 1 .. g * size
  BY <1>2
<1>4. g \in 1 .. runs
  <2>1. g # 0
    BY <1>2
  <2>2. (g - 1) * size < runs * size
    BY <1>1, <1>2
  <2>3. g - 1 < runs
    BY <1>1, <1>2, <2>2, TimesCancels
  <2>4. QED
    BY <1>1, <1>2, <2>1, <2>3
<1>5. ASSUME NEW i \in Nat, NEW j \in Nat, i < j, item <= i * size
      PROVE  ~((j - 1) * size + 1 <= item)
  <2>1. i * size <= (j - 1) * size
    BY <1>5, TimesMonotone
  <2>2. i * size \in Int /\ (j - 1) * size \in Int
    OBVIOUS
  <2>3. QED
    BY <1>5, <2>1, <2>2
<1>6. QED
  <2>1. \E x \in 1 .. runs : item \in (x - 1) * size + 1 .. x * size
    BY <1>3, <1>4
  <2>2. ASSUME NEW x \in 1 .. runs, NEW y \in 1 .. runs,
               item \in (x - 1) * size + 1 .. x * size,
               item \in (y - 1) * size + 1 .. y * size
        PROVE  x = y
    <3>1. x \in Nat /\ y \in Nat
      BY <1>1
    <3>2. /\ (x - 1) * size + 1 <= item /\ item <= x * size
          /\ (y - 1) * size + 1 <= item /\ item <= y * size
      BY <2>2, <3>1
    <3>3. ~(x < y) /\ ~(y < x)
      BY <1>5, <3>1, <3>2
    <3>4. QED
      BY <3>1, <3>3
  <2>3. QED
    BY <2>1, <2>2 DEF runs

(* The place of an ID among finitely many is from 1 to their number. *)
LEMMA RankBounds ==
  ASSUME NEW ids \in SUBSET Nat, IsFiniteSet(ids), NEW id \in ids
  PROVE  Rank(id, ids) \in 1 .. Cardinality(ids)
<1> DEFINE below == {k \in ids : k <= id}
<1>1. /\ IsFiniteSet(below) /\ Cardinality(below) <= Cardinality(ids)
  BY FS_Subset
<1>2. Cardinality(below) \in Nat /\ Cardinality(ids) \in Nat
  BY <1>1, FS_CardinalityType
<1>3. Cardinality(below) # 0
  <2>1. id \in below
    OBVIOUS
  <2>2. QED
    BY <1>1, <2>1, FS_EmptySet
<1>4. QED
  BY <1>1, <1>2, <1>3 DEF Rank

(* The groups are at most target_tasks, and each tablet of the plan is in
   one and only one of them. *)
LEMMA GroupsPartition ==
  ASSUME NEW ids \in SUBSET Tablets, ids # {}
  PROVE  /\ \E n \in 1 .. TargetTasks : DOMAIN GroupAdjacentIds(ids) = 1 .. n
         /\ \A g \in DOMAIN GroupAdjacentIds(ids) : GroupAdjacentIds(ids)[g] \subseteq ids
         /\ \A id \in ids : \E g \in DOMAIN GroupAdjacentIds(ids) :
                               id \in GroupAdjacentIds(ids)[g]
         /\ \A g, h \in DOMAIN GroupAdjacentIds(ids) :
              g # h => GroupAdjacentIds(ids)[g] \cap GroupAdjacentIds(ids)[h] = {}
<1> DEFINE total == Cardinality(ids)
           size == CeilDiv(total, GroupCount(ids))
           runs == CeilDiv(total, size)
           groups == GroupAdjacentIds(ids)
<1>1. ids \in SUBSET Nat /\ IsFiniteSet(ids)
  BY TabletAssumption, FS_Subset
<1>2. total \in Nat \ {0}
  BY <1>1, FS_CardinalityType, FS_EmptySet
<1>3. GroupCount(ids) \in 1 .. TargetTasks
  BY <1>2, TargetAssumption DEF GroupCount, Smaller
<1>4. size \in Nat \ {0} /\ runs \in 1 .. GroupCount(ids)
  <2>1. GroupCount(ids) \in Nat \ {0}
    BY <1>3
  <2>2. QED
    BY <1>2, <2>1, RunsFit
<1>5. groups = [g \in 1 .. runs |-> Run(ids, (g - 1) * size + 1, g * size)]
  BY DEF GroupAdjacentIds
<1>6. runs \in 1 .. TargetTasks
  BY <1>3, <1>4, TargetAssumption
<1> HIDE DEF total, size, runs, groups
<1>7. \A g \in 1 .. runs :
        groups[g] = {id \in ids : Rank(id, ids) \in (g - 1) * size + 1 .. g * size}
  BY <1>5 DEF Run
<1>8. ASSUME NEW id \in ids
      PROVE  /\ \E g \in 1 .. runs : id \in groups[g]
             /\ \A g, h \in 1 .. runs : id \in groups[g] /\ id \in groups[h] => g = h
  <2> DEFINE r == Rank(id, ids)
  <2>1. r \in 1 .. total
    BY <1>1, RankBounds DEF total
  <2> HIDE DEF r
  <2>2. /\ \E g \in 1 .. runs : r \in (g - 1) * size + 1 .. g * size
        /\ \A g, h \in 1 .. runs :
             /\ r \in (g - 1) * size + 1 .. g * size
             /\ r \in (h - 1) * size + 1 .. h * size
             => g = h
    BY <1>2, <1>4, <2>1, RunOfItem DEF runs
  <2>3. QED
    BY <1>7, <2>2 DEF r
<1>9. DOMAIN groups = 1 .. runs
  BY <1>5
<1>10. /\ \E n \in 1 .. TargetTasks : DOMAIN groups = 1 .. n
       /\ \A g \in DOMAIN groups : groups[g] \subseteq ids
       /\ \A id \in ids : \E g \in DOMAIN groups : id \in groups[g]
       /\ \A g, h \in DOMAIN groups : g # h => groups[g] \cap groups[h] = {}
  <2>1. \A g \in 1 .. runs : groups[g] \subseteq ids
    BY <1>7
  <2>2. ASSUME NEW g \in 1 .. runs, NEW h \in 1 .. runs, g # h
        PROVE  groups[g] \cap groups[h] = {}
    BY <1>8, <2>1, <2>2
  <2>3. QED
    BY <1>6, <1>8, <1>9, <2>1, <2>2
<1>11. QED
  BY <1>10 DEF groups

-------------------------------------------------------------------------------
(* The invariant *)

(* There are finitely many rows, and none is the mark of a task that has not
   read. *)
LEMMA RowsFinite ==
  /\ \A rows \in SUBSET Rows : IsFiniteSet(rows) /\ Cardinality(rows) \in Nat
  /\ <<0, 0>> \notin Rows
<1>1. IsFiniteSet(Rows)
  BY TabletAssumption, SlotAssumption, FS_Product DEF Rows
<1>2. QED
  BY <1>1, FS_Subset, FS_CardinalityType, TabletAssumption DEF Rows

(* A larger set of rows does not count fewer. *)
LEMMA MoreRows ==
  ASSUME NEW some \in SUBSET Rows, NEW more \in SUBSET Rows, some \subseteq more
  PROVE  Cardinality(some) <= Cardinality(more)
BY RowsFinite, FS_Subset

(* Before the plan there are no tasks. *)
LEMMA Initially == Init => Inv
<1> SUFFICES ASSUME Init PROVE Inv
  OBVIOUS
<1>1. Typed
  BY DEF Init, Typed, Phases
<1>2. tasks = <<>> /\ tasks \in [1 .. 0 -> Queries] /\ DOMAIN tasks = {}
  BY DEF Init
<1>3. Split
  BY <1>2, TargetAssumption DEF Init, Split, Unplanned
<1>4. Covered /\ Answers /\ Counts
  BY <1>2 DEF Init, Covered, Answers, Counts, RowsDone
<1>5. QED
  BY <1>1, <1>3, <1>4 DEF Inv

(* The ends of get_tasks and of the scan, and the request for a plan. *)
LEMMA EndKeeps ==
  ASSUME Inv, UNCHANGED <<scan, matches, table, before, plan, tasks, got, count>>,
         phase' \in Phases,
         Unplanned' => Unplanned,
         phase' = "discovering" => ~scan.counts,
         phase' = "planned" => phase = "planned",
         phase' = "done" => /\ phase = "planned"
                            /\ \A i \in DOMAIN tasks : got[i] # NotRead
  PROVE  Inv'
<1>1. Typed' /\ Covered' /\ Counts'
  BY DEF Inv, Typed, Covered, Counts, Wanted, Meant
<1>2. Split'
  BY DEF Inv, Split, Wanted, DatabaseLimit
<1>3. Answers'
  BY DEF Inv, Answers, Answered, Meant, RowsDone
<1>4. QED
  BY <1>1, <1>2, <1>3 DEF Inv

(* A plan is sound when its queries share no tablet, stay within the plan and
   ask for all that is wanted, or there is nothing wanted. *)
LEMMA PlanKeeps ==
  ASSUME Inv, Unplanned, NEW ids, NEW n \in 1 .. TargetTasks,
         NEW queries \in [1 .. n -> Queries], Plan(ids, queries),
         \A i, j \in 1 .. n : i # j => queries[i].tablets \cap queries[j].tablets = {},
         \A i \in 1 .. n :
           /\ queries[i].tablets \subseteq ids \/ queries[i].limit = 0
           /\ queries[i].filtered = (scan.filter = "compiled")
           /\ \/ queries[i].limit = DatabaseLimit
              \/ queries[i].limit = 0 /\ Wanted(table) = {},
         \A row \in Wanted(table) : \E i \in 1 .. n : row[1] \in queries[i].tablets,
         scan.counts => scan.filter = "none" /\ queries = <<CountQuery>>
  PROVE  Inv'
<1>1. /\ phase' = "planned" /\ plan' = ids /\ tasks' = queries
      /\ got' = [i \in DOMAIN queries |-> NotRead] /\ before' = table
      /\ UNCHANGED <<scan, matches, table, count>>
  BY DEF Plan
<1>2. DOMAIN tasks' = 1 .. n /\ DOMAIN got' = 1 .. n /\ n \in 0 .. TargetTasks
  BY <1>1, TargetAssumption
<1>3. Typed'
  BY <1>1 DEF Inv, Typed, Phases
<1>4. Split'
  <2>1. tasks' # <<>>
    BY <1>1, <1>2
  <2>2. DatabaseLimit' = DatabaseLimit /\ Wanted(before)' = Wanted(table)
    BY <1>1 DEF DatabaseLimit, Wanted
  <2>3. QED
    BY <1>1, <1>2, <2>1, <2>2 DEF Split, Unplanned
<1>5. Covered'
  <2> SUFFICES ASSUME NEW row \in Wanted(table)
               PROVE  \E i \in 1 .. n : row \in Meant(queries[i], table)
    BY <1>1, <1>2 DEF Covered, Wanted, Meant
  <2>1. PICK i \in 1 .. n : row[1] \in queries[i].tablets
    OBVIOUS
  <2>2. row \in table /\ (queries[i].filtered => row \in matches)
    BY DEF Wanted
  <2>3. QED
    BY <2>1, <2>2 DEF Meant
<1>6. Answers'
  BY <1>1, <1>2 DEF Answers, RowsDone
<1>7. Counts'
  BY <1>1 DEF Inv, Counts
<1>8. QED
  BY <1>3, <1>4, <1>5, <1>6, <1>7 DEF Inv

(* The types of the queries that get_tasks makes. *)
LEMMA QueryTyped ==
  ASSUME Inv, NEW ids \in SUBSET Tablets
  PROVE  /\ Query(ids, DatabaseLimit) \in Queries /\ Query(ids, 0) \in Queries
         /\ DatabaseLimit \in Int
<1>1. DatabaseLimit \in Limits \cup {0, NoLimit}
  BY DEF Inv, Typed, DatabaseLimit, Scans
<1>2. \A l \in Limits \cup {0, NoLimit} : l \in Int
  BY LimitAssumption DEF NoLimit
<1>3. QED
  BY <1>1, <1>2 DEF Query, Queries

(* Every row of the table is in one of its tablets. *)
LEMMA RowsHaveTablets ==
  ASSUME Inv
  PROVE  \A row \in Wanted(table) : row \in table /\ row[1] \in Tablets
BY DEF Inv, Typed, Wanted, Rows

(* A scan with a single query. *)
LEMMA SingleKeeps ==
  ASSUME NEW ids, NEW limit, Inv, Unplanned, Plan(ids, <<Query(Tablets, limit)>>),
         Query(Tablets, limit) \in Queries,
         limit \in {0, DatabaseLimit},
         ids # Tablets => limit \in {0},
         limit # DatabaseLimit => Wanted(table) = {},
         scan.counts => scan.filter = "none" /\ Query(Tablets, limit) = CountQuery
  PROVE  Inv'
<1> DEFINE query == Query(Tablets, limit)
           queries == <<query>>
<1>1. /\ query.tablets = Tablets /\ query.limit = limit
      /\ query.filtered = (scan.filter = "compiled")
  BY DEF Query
<1> HIDE DEF query
<1>2. /\ queries \in [1 .. 1 -> Queries] /\ 1 \in 1 .. TargetTasks
      /\ \A i \in 1 .. 1 : queries[i] = query
      /\ \A i, j \in 1 .. 1 : i = j
      /\ 1 \in 1 .. 1
  BY TargetAssumption DEF query
<1>3. scan.counts => scan.filter = "none" /\ queries = <<CountQuery>>
  BY DEF query
<1>4. Plan(ids, queries)
  BY DEF query
<1> HIDE DEF queries
<1>5. \A row \in Wanted(table) : \E i \in 1 .. 1 : row[1] \in queries[i].tablets
  BY <1>1, <1>2, RowsHaveTablets
<1>6. /\ \A i, j \in 1 .. 1 : i # j => queries[i].tablets \cap queries[j].tablets = {}
      /\ \A i \in 1 .. 1 :
           /\ queries[i].tablets \subseteq ids \/ queries[i].limit = 0
           /\ queries[i].filtered = (scan.filter = "compiled")
           /\ \/ queries[i].limit = DatabaseLimit
              \/ queries[i].limit = 0 /\ Wanted(table) = {}
  <2>1. \/ limit = DatabaseLimit
        \/ limit = 0 /\ Wanted(table) = {}
    OBVIOUS
  <2>2. Tablets \subseteq ids \/ limit = 0
    OBVIOUS
  <2>3. QED
    BY <1>1, <1>2, <2>1, <2>2, Zenon
<1>7. QED
  BY <1>2, <1>3, <1>4, <1>5, <1>6, PlanKeeps

(* A scan that is not split, and one whose plan has no tablets. *)
LEMMA WholeTableKeeps ==
  ASSUME Inv, PlanCount \/ PlanSingle \/ FallBack \/ PlanEmpty
  PROVE  Inv'
<1>1. Unplanned
  BY DEF PlanCount, PlanSingle, FallBack, PlanEmpty, Unplanned
<1>2. /\ Query(Tablets, DatabaseLimit) \in Queries /\ Query(Tablets, 0) \in Queries
      /\ DatabaseLimit \in Int
  BY QueryTyped
<1>3. CASE PlanCount
  <2>1. scan.filter = "none" /\ DatabaseLimit = NoLimit /\ Plan(Tablets, <<CountQuery>>)
    BY <1>3 DEF PlanCount, DatabaseLimit
  <2>2. Query(Tablets, DatabaseLimit) = CountQuery
    BY <2>1 DEF CountQuery, Query
  <2>3. QED
    BY <1>1, <1>2, <2>1, <2>2, SingleKeeps
<1>4. CASE PlanSingle \/ FallBack
  <2>1. Plan(Tablets, <<Query(Tablets, DatabaseLimit)>>) /\ ~scan.counts
    BY <1>4 DEF PlanSingle, FallBack, Inv, Counts
  <2>2. QED
    BY <1>1, <1>2, <2>1, SingleKeeps
<1>5. CASE PlanEmpty
  <2>1. Plan({}, <<Query(Tablets, 0)>>) /\ ~scan.counts /\ Pruned({})
    BY <1>5 DEF PlanEmpty, Inv, Counts
  <2>2. Wanted(table) = {}
    BY <2>1 DEF Pruned, Wanted
  <2>3. QED
    BY <1>1, <1>2, <2>1, <2>2, SingleKeeps
<1>6. QED
  BY <1>3, <1>4, <1>5

(* A scan that is split by tablets. *)
LEMMA TabletsKeep ==
  ASSUME Inv, PlanTablets
  PROVE  Inv'
<1>1. Unplanned /\ ~scan.counts
  BY DEF PlanTablets, Unplanned, Inv, Counts
<1>2. PICK ids \in (SUBSET Tablets) \ {{}} :
         /\ Pruned(ids)
         /\ Plan(ids, [g \in DOMAIN GroupAdjacentIds(ids) |->
                          Query(GroupAdjacentIds(ids)[g], DatabaseLimit)])
  BY DEF PlanTablets
<1> DEFINE groups == GroupAdjacentIds(ids)
           queries == [g \in DOMAIN groups |-> Query(groups[g], DatabaseLimit)]
<1>3. ids \in SUBSET Tablets /\ ids # {}
  OBVIOUS
<1>4. PICK n \in 1 .. TargetTasks : DOMAIN groups = 1 .. n
  BY <1>3, GroupsPartition
<1>5. /\ \A g \in 1 .. n : groups[g] \subseteq ids
      /\ \A id \in ids : \E g \in 1 .. n : id \in groups[g]
      /\ \A g, h \in 1 .. n : g # h => groups[g] \cap groups[h] = {}
  BY <1>3, <1>4, GroupsPartition
<1>6. Plan(ids, queries)
  BY <1>2
<1> HIDE DEF groups
<1>7. \A g \in 1 .. n : /\ queries[g].tablets = groups[g]
                        /\ queries[g].filtered = (scan.filter = "compiled")
                        /\ queries[g].limit = DatabaseLimit
  BY <1>4 DEF Query
<1>8. queries \in [1 .. n -> Queries]
  <2>1. \A g \in 1 .. n : Query(groups[g], DatabaseLimit) \in Queries
    BY <1>3, <1>5, QueryTyped
  <2>2. QED
    BY <1>4, <2>1
<1> HIDE DEF queries
<1>9. \A row \in Wanted(table) : row[1] \in ids
  BY <1>2 DEF Pruned, Wanted
<1>10. \A row \in Wanted(table) : \E g \in 1 .. n : row[1] \in queries[g].tablets
  BY <1>5, <1>7, <1>9
<1>11. \A g, h \in 1 .. n : g # h => queries[g].tablets \cap queries[h].tablets = {}
  BY <1>5, <1>7
<1>12. \A g \in 1 .. n : queries[g].tablets \subseteq ids
  BY <1>5, <1>7
<1>13. QED
  BY <1>1, <1>6, <1>7, <1>8, <1>10, <1>11, <1>12, PlanKeeps

(* A task reads its rows, all of them or as many as its limit allows. *)
LEMMA ReadKeeps ==
  ASSUME Inv, Read
  PROVE  Inv'
<1>1. PICK i \in DOMAIN tasks :
         /\ got[i] = NotRead
         /\ \E rows \in Returned(tasks[i]) : got' = [got EXCEPT ![i] = rows]
  BY DEF Read
<1>2. PICK rows \in Returned(tasks[i]) : got' = [got EXCEPT ![i] = rows]
  BY <1>1
<1>3. /\ phase = "planned" /\ i \in DOMAIN got
      /\ UNCHANGED <<scan, matches, table, before, phase, plan, tasks, count>>
  BY DEF Read, Inv, Answers
<1>4. Typed' /\ Covered' /\ Counts'
  BY <1>3 DEF Inv, Typed, Covered, Counts, Wanted, Meant, Unplanned
<1>5. Split'
  BY <1>3 DEF Inv, Split, Wanted, DatabaseLimit, Unplanned
<1>6. Answered(i)'
  <2> DEFINE all == Meant(tasks[i], table)
             limit == tasks[i].limit
  <2>1. all \in SUBSET Rows /\ Meant(tasks[i], before) \subseteq all
    BY DEF Inv, Typed, Meant
  <2>2. limit \in Nat \cup {NoLimit}
    <3>1. tasks[i] \in Queries
      BY DEF Inv, Split
    <3>2. tasks[i].limit \in Limits \cup {0, NoLimit}
      BY <3>1 DEF Queries
    <3>3. \A l \in Limits \cup {0, NoLimit} : l \in Nat \cup {NoLimit}
      BY LimitAssumption
    <3>4. QED
      BY <3>2, <3>3
  <2>3. rows \in SUBSET all
        /\ IF limit = NoLimit THEN rows = all
           ELSE Cardinality(rows) = Smaller(limit, Cardinality(all))
    BY <1>2 DEF Returned, Selected, Meant, kSubset
  <2> HIDE DEF all, limit
  <2>4. Cardinality(all) \in Nat /\ IsFiniteSet(all)
    BY <2>1, RowsFinite
  <2>5. CASE limit = NoLimit
    BY <1>2, <1>3, <2>1, <2>3, <2>5 DEF Answered, Meant, all, limit
  <2>6. CASE limit # NoLimit
    <3>1. limit \in Nat /\ Cardinality(rows) = Smaller(limit, Cardinality(all))
      BY <2>2, <2>3, <2>6
    <3>2. Cardinality(rows) <= limit
          /\ (Cardinality(rows) = limit \/ Cardinality(rows) = Cardinality(all))
      BY <2>4, <3>1 DEF Smaller
    <3>3. Cardinality(rows) = Cardinality(all) => rows = all
      BY <2>3, <2>4, FS_Subset
    <3>4. rows = got'[i]
      BY <1>2, <1>3
    <3>5. QED
      BY <1>3, <2>1, <2>3, <2>6, <3>2, <3>3, <3>4 DEF Answered, Meant, all, limit
  <2>7. QED
    BY <2>5, <2>6
<1>7. Answers'
  <2>1. \A j \in DOMAIN got \ {i} : got'[j] = got[j]
    BY <1>2
  <2>2. DOMAIN got' = DOMAIN got
    BY <1>2
  <2>3. ASSUME NEW j \in DOMAIN got
        PROVE  got'[j] = NotRead \/ Answered(j)'
    <3>1. CASE j = i
      BY <1>6, <3>1
    <3>2. CASE j # i
      BY <1>3, <2>1, <3>2 DEF Inv, Answers, Answered, Meant
    <3>3. QED
      BY <3>1, <3>2
  <2>4. QED
    BY <1>3, <2>2, <2>3 DEF Inv, Answers, RowsDone
<1>8. QED
  BY <1>4, <1>5, <1>7 DEF Inv

(* The answer to a count is of the table as it is. *)
LEMMA CountKeeps ==
  ASSUME Inv, Count
  PROVE  Inv'
<1>1. /\ phase = "planned" /\ phase' = "done" /\ scan.counts
      /\ count' = Cardinality(Selected(tasks[1]))
      /\ UNCHANGED <<scan, matches, table, before, plan, tasks, got>>
  BY DEF Count
<1>2. scan.filter = "none" /\ tasks = <<CountQuery>>
  BY <1>1 DEF Inv, Split, Counts
<1>3. Selected(tasks[1]) = table
  BY <1>2 DEF Selected, CountQuery, Inv, Typed, Rows
<1>4. /\ Cardinality(table) \in Nat /\ Cardinality(before) \in Nat
      /\ Cardinality(before) <= Cardinality(table)
  BY RowsFinite, MoreRows DEF Inv, Typed
<1>5. Typed' /\ Covered'
  BY <1>1, <1>3, <1>4 DEF Inv, Typed, Covered, Wanted, Meant, Phases
<1>6. Split'
  BY <1>1 DEF Inv, Split, Wanted, DatabaseLimit, Unplanned
<1>7. Answers'
  BY <1>1 DEF Inv, Answers, Answered, Meant, RowsDone
<1>8. Counts'
  BY <1>1, <1>2, <1>3, <1>4 DEF Inv, Counts, Unplanned
<1>9. QED
  BY <1>5, <1>6, <1>7, <1>8 DEF Inv

(* Rows that others add come into the answers of later tasks only. *)
LEMMA InsertKeeps ==
  ASSUME Inv, Insert
  PROVE  Inv'
<1>1. /\ table \subseteq table' /\ table' \subseteq Rows
      /\ UNCHANGED <<scan, matches, before, phase, plan, tasks, got, count>>
  BY DEF Insert, Inv, Typed
<1>2. Typed' /\ Covered'
  BY <1>1 DEF Inv, Typed, Covered, Wanted, Meant
<1>3. Split'
  BY <1>1 DEF Inv, Split, Wanted, DatabaseLimit, Unplanned
<1>4. Answers'
  BY <1>1 DEF Inv, Answers, Answered, Meant, RowsDone
<1>5. Counts'
  <2> DEFINE now == Cardinality(table)
             next == Cardinality(table')
  <2>1. now \in Nat /\ next \in Nat /\ now <= next
    BY <1>1, RowsFinite, MoreRows DEF Inv, Typed
  <2>2. count \in Nat \cup {NoCount}
    BY DEF Inv, Typed
  <2> HIDE DEF now, next
  <2>3. count # NoCount /\ count <= now => count <= next
    BY <2>1, <2>2 DEF NoCount
  <2>4. QED
    BY <1>1, <2>3 DEF Inv, Counts, Unplanned, now, next
<1>6. QED
  BY <1>2, <1>3, <1>4, <1>5 DEF Inv

(* Every step keeps the invariant. *)
LEMMA Inductive == Inv /\ [Next]_vars => Inv'
<1> SUFFICES ASSUME Inv, [Next]_vars PROVE Inv'
  OBVIOUS
<1>1. CASE UNCHANGED vars
  <2>1. Typed' /\ Covered' /\ Counts' /\ Split'
    BY <1>1 DEF vars, Inv, Typed, Covered, Counts, Split, Wanted, Meant, DatabaseLimit,
       Unplanned
  <2>2. Answers'
    BY <1>1 DEF vars, Inv, Answers, Answered, Meant, RowsDone
  <2>3. QED
    BY <2>1, <2>2 DEF Inv
<1>2. CASE RefuseCount \/ RefuseColumns \/ Discover \/ DiscoveryRaises
           \/ DiscoveryDenied \/ DiscoveryCutShort \/ ReadFails \/ Finish
  <2>1. /\ UNCHANGED <<scan, matches, table, before, plan, tasks, got, count>>
        /\ phase' \in Phases /\ phase' # "planned"
        /\ phase' = "discovering" => phase = "new" /\ ~scan.counts
        /\ phase' # "new"
        /\ phase' = "done" => /\ phase = "planned"
                              /\ \A i \in DOMAIN tasks : got[i] # NotRead
    BY <1>2 DEF RefuseCount, RefuseColumns, Discover, DiscoveryRaises, DiscoveryDenied,
       DiscoveryCutShort, ReadFails, Finish, End, Phases
  <2>2. QED
    BY <2>1, EndKeeps DEF Unplanned
<1>3. QED
  BY <1>1, <1>2, WholeTableKeeps, TabletsKeep, ReadKeeps, CountKeeps, InsertKeeps
     DEF Next, Over

-------------------------------------------------------------------------------
(* The theorems *)

(* The variables of a scan keep their types, and it is split into at most
   target_tasks tasks. *)
THEOREM ScanTyped == Spec => []TypeOK
<1>1. Inv => TypeOK
  <2> SUFFICES ASSUME Inv PROVE TypeOK
    OBVIOUS
  <2>1. PICK n \in 0 .. TargetTasks : tasks \in [1 .. n -> Queries]
    BY DEF Inv, Split
  <2>2. n \in Nat /\ tasks \in Seq(Queries) /\ Len(tasks) = n
    BY <2>1, TargetAssumption
  <2>3. Len(tasks) <= TargetTasks
    BY <2>1, <2>2, TargetAssumption
  <2>4. \A i \in DOMAIN tasks : /\ tasks[i].tablets \subseteq Tablets
                                /\ tasks[i].limit \in Limits \cup {0, NoLimit}
    BY <2>1 DEF Queries
  <2>5. \A i \in DOMAIN got : got[i] = NotRead \/ got[i] \subseteq table
    BY DEF Inv, Answers, Answered, Meant
  <2>6. QED
    BY <2>3, <2>4, <2>5 DEF Inv, Typed, Answers, TypeOK
<1>2. QED
  BY <1>1, Initially, Inductive, PTL DEF Spec

(* When no task was limited, the answers hold all that was wanted when the
   scan was planned. *)
LEMMA UnlimitedIsComplete ==
  ASSUME Inv, RowsDone,
         \A i \in DOMAIN tasks : Meant(tasks[i], before) \subseteq got[i]
  PROVE  Wanted(before) \subseteq Answer
<1> SUFFICES ASSUME NEW row \in Wanted(before) PROVE row \in Answer
  OBVIOUS
<1>1. PICK i \in DOMAIN tasks : row \in Meant(tasks[i], before)
  BY DEF Inv, Split, Covered, RowsDone
<1>2. i \in DOMAIN got /\ row \in got[i]
  BY <1>1 DEF Inv, Answers
<1>3. QED
  BY <1>2 DEF Answer

(* When the scan is done every task has answered. *)
LEMMA DoneAnswers ==
  ASSUME Inv, RowsDone
  PROVE  DOMAIN got = DOMAIN tasks /\ \A i \in DOMAIN tasks : Answered(i)
BY DEF Inv, Answers

(* However the tablets are pruned and grouped, whether or not the predicate is
   pushed down and the tablet plan falls back to a single task, a scan without
   a limit returns every wanted row that was there when it was planned. *)
THEOREM ScanIsComplete == Spec => []NothingMissing
<1>1. Inv => NothingMissing
  <2> SUFFICES ASSUME Inv, RowsDone, scan.limit = NoLimit
               PROVE  Wanted(before) \subseteq Answer
    BY DEF NothingMissing
  <2>1. DatabaseLimit = NoLimit
    BY DEF DatabaseLimit
  <2>2. CASE Wanted(before) = {}
    BY <2>2
  <2>3. CASE Wanted(before) # {}
    <3>1. \A i \in DOMAIN tasks : tasks[i].limit = NoLimit
      BY <2>1, <2>3 DEF Inv, Split
    <3>2. \A i \in DOMAIN tasks : Meant(tasks[i], before) \subseteq got[i]
      BY <3>1, DoneAnswers DEF Answered
    <3>3. QED
      BY <3>2, UnlimitedIsComplete
  <2>4. QED
    BY <2>2, <2>3
<1>2. QED
  BY <1>1, Initially, Inductive, PTL DEF Spec

(* A limit that goes to Doris with each task, or stays with Daft because Daft
   filters what it gets, is never the reason that Daft has too few rows. *)
THEOREM LimitIsFilled == Spec => []LimitCanBeFilled
<1>1. Inv => LimitCanBeFilled
  <2> SUFFICES ASSUME Inv, RowsDone, scan.limit # NoLimit
               PROVE  Cardinality(Wanted(Answer)) >=
                        Smaller(scan.limit, Cardinality(Wanted(before)))
    BY DEF LimitCanBeFilled
  <2> DEFINE limit == scan.limit
             due == Cardinality(Wanted(before))
             has == Cardinality(Wanted(Answer))
  <2>1. limit \in Nat
    BY LimitAssumption DEF Inv, Typed, Scans
  <2>2. Answer \subseteq table /\ Wanted(Answer) \in SUBSET Rows
        /\ Wanted(before) \in SUBSET Rows
    BY DoneAnswers DEF Inv, Typed, Answered, Meant, Answer, Wanted
  <2>3. due \in Nat /\ has \in Nat
    BY <2>2, RowsFinite
  <2>4. Smaller(limit, due) <= limit /\ Smaller(limit, due) <= due
    BY <2>1, <2>3 DEF Smaller
  <2>5. CASE Wanted(before) = {}
    <3>1. due = 0
      BY <2>5, FS_EmptySet
    <3>2. QED
      BY <2>1, <2>3, <3>1 DEF Smaller
  <2>6. CASE \A i \in DOMAIN tasks : Meant(tasks[i], before) \subseteq got[i]
    <3>1. Wanted(before) \subseteq Wanted(Answer)
      BY <2>6, UnlimitedIsComplete DEF Wanted
    <3>2. due <= has
      BY <2>2, <3>1, MoreRows
    <3> HIDE DEF limit, due, has
    <3>3. has >= Smaller(limit, due)
      BY <2>1, <2>3, <3>2 DEF Smaller
    <3>4. QED
      BY <3>3 DEF limit, due, has
  <2>7. CASE Wanted(before) # {} /\
             \E i \in DOMAIN tasks : ~(Meant(tasks[i], before) \subseteq got[i])
    <3>1. PICK i \in DOMAIN tasks : ~(Meant(tasks[i], before) \subseteq got[i])
      BY <2>7
    <3>2. /\ tasks[i].limit # NoLimit /\ Cardinality(got[i]) = tasks[i].limit
          /\ got[i] \subseteq Meant(tasks[i], table) /\ i \in DOMAIN got
      BY <3>1, DoneAnswers DEF Answered
    <3>3. /\ tasks[i].limit = DatabaseLimit
          /\ tasks[i].filtered = (scan.filter = "compiled")
      BY <2>7 DEF Inv, Split
    <3>4. DatabaseLimit = limit /\ ~(scan.filter = "residual" /\ limit # 0)
      BY <3>2, <3>3 DEF DatabaseLimit
    <3>5. CASE limit = 0
      BY <2>1, <2>3, <3>5 DEF Smaller
    <3>6. CASE limit # 0
      <4>1. scan.filter \in {"none", "compiled"}
        BY <3>4, <3>6 DEF Inv, Typed, Scans
      <4>2. got[i] \subseteq Answer
        BY <3>2 DEF Answer
      <4>3. got[i] \subseteq Wanted(Answer)
        BY <3>2, <3>3, <4>1, <4>2 DEF Wanted, Meant
      <4>4. limit <= has
        BY <2>2, <3>2, <3>3, <3>4, <4>3, MoreRows
      <4> HIDE DEF limit, due, has
      <4>5. has >= Smaller(limit, due)
        BY <2>1, <2>3, <4>4 DEF Smaller
      <4>6. QED
        BY <4>5 DEF limit, due, has
    <3>7. QED
      BY <3>5, <3>6
  <2>8. QED
    BY <2>5, <2>6, <2>7
<1>2. QED
  BY <1>1, Initially, Inductive, PTL DEF Spec

(* The groups of tablets are disjoint, so that a row which moves into the
   table between two tasks is returned by one of them at most. *)
THEOREM TasksShareNoRow == Spec => []NoRowTwice
<1>1. Inv => NoRowTwice
  <2> SUFFICES ASSUME Inv, NEW i \in DOMAIN got, NEW j \in DOMAIN got, i # j,
                      got[i] # NotRead, got[j] # NotRead
               PROVE  got[i] \cap got[j] = {}
    BY DEF NoRowTwice
  <2>1. /\ i \in DOMAIN tasks /\ j \in DOMAIN tasks
        /\ got[i] \subseteq Meant(tasks[i], table)
        /\ got[j] \subseteq Meant(tasks[j], table)
    BY DEF Inv, Answers, Answered
  <2>2. tasks[i].tablets \cap tasks[j].tablets = {}
    BY <2>1 DEF Inv, Split
  <2>3. QED
    BY <2>1, <2>2 DEF Meant
<1>2. QED
  BY <1>1, Initially, Inductive, PTL DEF Spec

(* A count pushed down is exact for the table at some time between its
   planning and now. *)
THEOREM CountIsOfTheScan == Spec => []CountIsCurrent
<1>1. Inv => CountIsCurrent
  BY DEF Inv, Counts, CountIsCurrent, Wanted
<1>2. QED
  BY <1>1, Initially, Inductive, PTL DEF Spec

(* No task reads outside the tablets of the plan, and the task of an empty
   plan reads nothing. *)
THEOREM TasksStayInPlan == Spec => []OnlyPlannedTablets
<1>1. Inv => OnlyPlannedTablets
  <2> SUFFICES ASSUME Inv, NEW i \in DOMAIN got, NEW row \in got[i], got[i] # NotRead
               PROVE  row[1] \in plan
    BY DEF OnlyPlannedTablets
  <2>1. /\ i \in DOMAIN tasks /\ got[i] \subseteq Meant(tasks[i], table)
        /\ tasks[i].limit # NoLimit => Cardinality(got[i]) <= tasks[i].limit
    BY DEF Inv, Answers, Answered
  <2>2. row[1] \in tasks[i].tablets /\ got[i] \in SUBSET Rows
    BY <2>1 DEF Meant, Inv, Typed
  <2>3. tasks[i].tablets \subseteq plan \/ tasks[i].limit = 0
    BY <2>1 DEF Inv, Split
  <2>4. tasks[i].limit # 0
    <3>1. IsFiniteSet(got[i]) /\ Cardinality(got[i]) \in Nat
      BY <2>2, RowsFinite
    <3>2. Cardinality(got[i]) # 0
      BY <3>1, FS_EmptySet
    <3>3. QED
      BY <2>1, <3>1, <3>2 DEF NoLimit
  <2>5. QED
    BY <2>2, <2>3, <2>4
<1>2. QED
  BY <1>1, Initially, Inductive, PTL DEF Spec
===============================================================================
