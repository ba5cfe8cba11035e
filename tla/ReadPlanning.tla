------------------------------ MODULE ReadPlanning -----------------------------
(***************************************************************************)
(* DorisDataSource.get_tasks (doris/datasource.py): which queries a scan  *)
(* is split into, what of Daft's pushdowns goes into each, and what Daft  *)
(* gets when their tasks have run.                                         *)
(*                                                                         *)
(* Each task reads at its own time, with no snapshot in common, while     *)
(* others add rows.  The FE, which prunes tablets, and Daft, which        *)
(* applies filter and limit once more to what it gets, are external.      *)
(* unsafe_where_sql is part of every query, the count and the planning     *)
(* query included: the rows here are those that satisfy it.               *)
(***************************************************************************)
EXTENDS Integers, Sequences, FiniteSets, FiniteSetsExt

CONSTANTS
    Tablets,       \* the tablet IDs of the table
    Slots,         \* the rows a tablet may hold
    Limits,        \* the row limits a scan may push down
    TargetTasks    \* limits.target_tasks, at most max_tasks

ASSUME TabletAssumption == Tablets \subseteq Nat \ {0} /\ IsFiniteSet(Tablets)
ASSUME SlotAssumption == IsFiniteSet(Slots)
ASSUME TargetAssumption == TargetTasks \in Nat \ {0}
ASSUME LimitAssumption == Limits \subseteq Nat

NoLimit == -1
Rows == Tablets \X Slots

VARIABLES
    scan,      \* the pushdowns of the scan and the options of the source
    matches,   \* the rows that satisfy the filter of the scan
    table,     \* the rows Doris holds
    before,    \* those it held when the scan was planned
    phase,     \* where get_tasks stands
    plan,      \* the tablets that the tasks are meant to read
    tasks,     \* the queries of the tasks
    got,       \* the rows that each task has read, once it has
    count      \* the answer to a count, once there is one

vars == <<scan, matches, table, before, phase, plan, tasks, got, count>>

(* "residual" is a filter that does not compile to a predicate. *)
Scans == [counts : BOOLEAN, filter : {"none", "compiled", "residual"},
          limit : Limits \cup {NoLimit}, split : {"single", "auto"},
          policy : {"single", "error"}]

Phases == {"new", "discovering", "planned", "done", "raised", "escaped"}
NotRead == {<<0, 0>>}
NoCount == -1

Init ==
    /\ scan \in Scans
    /\ matches \in SUBSET Rows
    /\ table \in SUBSET Rows
    /\ before = table
    /\ phase = "new"
    /\ plan = {} /\ tasks = <<>> /\ got = <<>>
    /\ count = NoCount

-------------------------------------------------------------------------------
(* The tasks *)

Smaller(m, n) == IF m < n THEN m ELSE n

CeilDiv(m, n) == (m + n - 1) \div n

(* The place of an ID in the sorted IDs, and those of a slice of them. *)
Rank(id, ids) == Cardinality({k \in ids : k <= id})
Run(ids, first, last) == {id \in ids : Rank(id, ids) \in first .. last}

GroupCount(ids) == Smaller(Cardinality(ids), TargetTasks)

(* Mutated: the group size is rounded down. *)
GroupAdjacentIdsFloor(ids) ==
    LET size == Cardinality(ids) \div GroupCount(ids)
    IN  [g \in 1 .. CeilDiv(Cardinality(ids), size) |->
           Run(ids, (g - 1) * size + 1, g * size)]

(* Mutated: a last group that is not full is left out. *)
GroupAdjacentIdsFull(ids) ==
    LET size == CeilDiv(Cardinality(ids), GroupCount(ids))
    IN  [g \in 1 .. Cardinality(ids) \div size |->
           Run(ids, (g - 1) * size + 1, g * size)]

(* Mutated: the end of a slice is taken to be inclusive. *)
GroupAdjacentIdsInclusive(ids) ==
    LET size == CeilDiv(Cardinality(ids), GroupCount(ids))
    IN  [g \in 1 .. CeilDiv(Cardinality(ids), size) |->
           Run(ids, (g - 1) * size + 1, g * size + 1)]

(* Runs of neighbouring IDs, all but the last of the same size. *)
GroupAdjacentIds(ids) ==
    LET size == CeilDiv(Cardinality(ids), GroupCount(ids))
    IN  [g \in 1 .. CeilDiv(Cardinality(ids), size) |->
           Run(ids, (g - 1) * size + 1, g * size)]

(* Mutated: the limit goes below a filter that only Daft applies. *)
DatabaseLimitAlways == scan.limit

DatabaseLimit == IF scan.filter = "residual" /\ scan.limit # 0 THEN NoLimit
                                                               ELSE scan.limit

(* build_select; without a TABLET hint a query reads every tablet. *)
Query(ids, limit) ==
    [tablets |-> ids, filtered |-> scan.filter = "compiled", limit |-> limit]

CountQuery == [tablets |-> Tablets, filtered |-> FALSE, limit |-> NoLimit]

Plan(ids, queries) ==
    /\ phase' = "planned"
    /\ plan' = ids
    /\ tasks' = queries
    /\ got' = [i \in DOMAIN queries |-> NotRead]
    /\ before' = table
    /\ UNCHANGED <<scan, matches, table, count>>

End(how) ==
    /\ phase' = how
    /\ UNCHANGED <<scan, matches, table, before, plan, tasks, got, count>>

(* Mutated: the filter of a counted scan is not looked at. *)
PlanCountFiltered ==
    /\ phase = "new" /\ scan.counts
    /\ scan.limit = NoLimit
    /\ Plan(Tablets, <<CountQuery>>)

(* An unfiltered count without a limit is one query over the table. *)
PlanCount ==
    /\ phase = "new" /\ scan.counts
    /\ scan.filter = "none" /\ scan.limit = NoLimit
    /\ Plan(Tablets, <<CountQuery>>)

RefuseCount ==
    /\ phase = "new" /\ scan.counts
    /\ scan.filter # "none" \/ scan.limit # NoLimit
    /\ End("raised")

(* A projection without columns, or with one that the schema lacks. *)
RefuseColumns ==
    /\ phase = "new" /\ ~scan.counts
    /\ End("raised")

PlanSingle ==
    /\ phase = "new" /\ ~scan.counts
    /\ scan.split = "single" \/ DatabaseLimit = 0
    /\ Plan(Tablets, <<Query(Tablets, DatabaseLimit)>>)

(* The query-plan request, which carries the compiled predicate. *)
Discover ==
    /\ phase = "new" /\ ~scan.counts
    /\ scan.split = "auto" /\ DatabaseLimit # 0
    /\ End("discovering")

(* The FE leaves out a tablet only when it holds no row that the query could
   return. *)
Pruned(ids) ==
    \A row \in table : row[1] \notin ids =>
                         scan.filter = "compiled" /\ row \notin matches

PlanTablets ==
    /\ phase = "discovering"
    /\ \E ids \in (SUBSET Tablets) \ {{}} :
         /\ Pruned(ids)
         /\ LET groups == GroupAdjacentIds(ids)
            IN  Plan(ids, [g \in DOMAIN groups |->
                             Query(groups[g], DatabaseLimit)])

(* Mutated: a plan without tablets is a scan without a hint. *)
PlanEmptyUnlimited ==
    /\ phase = "discovering" /\ Pruned({})
    /\ Plan({}, <<Query(Tablets, DatabaseLimit)>>)

(* A plan without tablets becomes one query that returns no row. *)
PlanEmpty ==
    /\ phase = "discovering" /\ Pruned({})
    /\ Plan({}, <<Query(Tablets, 0)>>)

(* A DiscoveryError: the endpoint is down, slow or answers nonsense. *)
FallBack ==
    /\ phase = "discovering" /\ scan.policy = "single"
    /\ Plan(Tablets, <<Query(Tablets, DatabaseLimit)>>)

DiscoveryRaises ==
    /\ phase = "discovering" /\ scan.policy = "error"
    /\ End("raised")

(* Credentials, privileges or the table itself are refused. *)
DiscoveryDenied ==
    /\ phase = "discovering"
    /\ End("raised")

(* A chunked response that is cut short raises http.client.IncompleteRead
   and a malformed status line BadStatusLine: neither is an OSError. *)
DiscoveryCutShort ==
    /\ phase = "discovering"
    /\ End("escaped")

-------------------------------------------------------------------------------
(* The tasks run, and others write *)

Selected(query) ==
    {row \in table : row[1] \in query.tablets
                     /\ (query.filtered => row \in matches)}

Returned(query) ==
    IF query.limit = NoLimit THEN {Selected(query)}
    ELSE kSubset(Smaller(query.limit, Cardinality(Selected(query))),
                 Selected(query))

Read ==
    /\ phase = "planned" /\ ~scan.counts
    /\ \E i \in DOMAIN tasks :
         /\ got[i] = NotRead
         /\ \E rows \in Returned(tasks[i]) : got' = [got EXCEPT ![i] = rows]
    /\ UNCHANGED <<scan, matches, table, before, phase, plan, tasks, count>>

Count ==
    /\ phase = "planned" /\ scan.counts
    /\ count' = Cardinality(Selected(tasks[1]))
    /\ phase' = "done"
    /\ UNCHANGED <<scan, matches, table, before, plan, tasks, got>>

ReadFails == phase = "planned" /\ End("raised")

Finish ==
    /\ phase = "planned" /\ ~scan.counts
    /\ \A i \in DOMAIN tasks : got[i] # NotRead
    /\ End("done")

Insert ==
    /\ \E row \in Rows \ table : table' = table \cup {row}
    /\ UNCHANGED <<scan, matches, before, phase, plan, tasks, got, count>>

Over == phase \in {"done", "raised", "escaped"} /\ UNCHANGED vars

Next ==
    \/ PlanCount \/ RefuseCount \/ RefuseColumns \/ PlanSingle \/ Discover
    \/ PlanTablets \/ PlanEmpty \/ FallBack
    \/ DiscoveryRaises \/ DiscoveryDenied \/ DiscoveryCutShort
    \/ Read \/ Count \/ ReadFails \/ Finish
    \/ Insert \/ Over

Spec == Init /\ [][Next]_vars

-------------------------------------------------------------------------------
(* Properties *)

(* Every variable keeps its type, and a scan has at most target_tasks
   tasks, each of which reads tablets of its own. *)
TypeOK ==
    /\ scan \in Scans
    /\ phase \in Phases
    /\ matches \subseteq Rows /\ before \subseteq table /\ table \subseteq Rows
    /\ Len(tasks) <= TargetTasks /\ DOMAIN got = DOMAIN tasks
    /\ \A i \in DOMAIN tasks : /\ tasks[i].tablets \subseteq Tablets
                               /\ tasks[i].limit \in Limits \cup {0, NoLimit}
    /\ \A i \in DOMAIN got : got[i] = NotRead \/ got[i] \subseteq table
    /\ count \in Nat \cup {NoCount}

Answer == UNION {got[i] : i \in DOMAIN got}
Wanted(rows) == IF scan.filter = "none" THEN rows ELSE rows \cap matches
RowsDone == phase = "done" /\ ~scan.counts

(* Without a limit Daft gets every row that it had to get: splitting, tablet
   pruning, fallback and predicate pushdown lose none that was there when the
   scan was planned. *)
NothingMissing ==
    RowsDone /\ scan.limit = NoLimit => Wanted(before) \subseteq Answer

(* With a limit Daft gets enough rows to fill it once its own filter has
   been applied. *)
LimitCanBeFilled ==
    RowsDone /\ scan.limit # NoLimit =>
        Cardinality(Wanted(Answer)) >=
            Smaller(scan.limit, Cardinality(Wanted(before)))

(* No two tasks of a scan return the same row, whenever they run. *)
NoRowTwice ==
    \A i, j \in DOMAIN got :
        i # j /\ NotRead \notin {got[i], got[j]} => got[i] \cap got[j] = {}

(* A count is the number of the wanted rows at some time of the scan. *)
CountIsCurrent ==
    count # NoCount => /\ count >= Cardinality(Wanted(before))
                       /\ count <= Cardinality(Wanted(table))

(* The tasks read no row outside the tablets of the plan, also not rows that
   came later; with a plan without tablets they read none ("A successful
   empty tablet plan becomes a concrete zero-row task rather than an
   unrestricted scan"). *)
OnlyPlannedTablets ==
    \A i \in DOMAIN got : \A row \in got[i] : got[i] = NotRead \/ row[1] \in plan
===============================================================================
