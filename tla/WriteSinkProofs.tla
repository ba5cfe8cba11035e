---------------------------- MODULE WriteSinkProofs ----------------------------
(***************************************************************************)
(* What Doris holds after a write, for all inputs and limits: the sink    *)
(* sends one batch at a time and stops at the first load that fails, so   *)
(* that the promise of AtomicLoad about one load becomes one about the    *)
(* results of a write.                                                     *)
(***************************************************************************)
EXTENDS WriteSink, WellFoundedInduction, TLAPS

SinkResults == [status : {"Success", "Publish Timeout"}, rows : Nat,
                loaded : Nat, filtered : Nat]
Verdicts == {"idle", "running", "stored", "failed", "unknown"}

(* The slice in hand is a part of its micropartition within the row limit. *)
Slicing ==
    /\ rows \in Nat /\ start \in 0 .. rows /\ length \in 0 .. MaxRows
    /\ step \in {"try", "yielded"} => length >= 1 /\ start + length <= rows

Writing ==
    /\ input \in Inputs /\ part \in 0 .. Len(input)
    /\ failure \in {"none", "start", "validation", "serialization", "failed", "unknown"}

Loads ==
    /\ phase \in Phases
    /\ results \in Seq(SinkResults)
    /\ size \in [RequestNumbers -> 0 .. MaxRows]
    /\ kept \in [RequestNumbers -> Nat] /\ filtered \in [RequestNumbers -> Nat]
    /\ \A n \in RequestNumbers : kept[n] + filtered[n] <= size[n]
    /\ verdict \in [RequestNumbers -> Verdicts]
    /\ copies \in [RequestNumbers -> SUBSET {"label"}]

(* The requests before the current one are stored and were reported, those
   after it were not made, and the current one is what the phase says. *)
OneAtATime ==
    /\ Len(results) <= MaxRequests
    /\ phase = "loading" => Current <= MaxRequests
    /\ \A n \in RequestNumbers :
         /\ n < Current => verdict[n] = "stored" /\ copies[n] # {}
         /\ n > Current => verdict[n] = "idle"
         /\ n = Current => IF phase = "loading" THEN verdict[n] = "running"
                           ELSE IF phase = "failed"
                                THEN verdict[n] \in {"idle", "failed", "unknown"}
                           ELSE verdict[n] = "idle"
         /\ verdict[n] \in {"idle", "failed"} => copies[n] = {}

Inv == Slicing /\ Writing /\ Loads /\ OneAtATime

(* The results say what their requests carried, and together they carried the
   micropartitions that are done and what was yielded of the one in hand. *)
InputCounts == [i \in DOMAIN input |-> input[i].rows]
Working == phase \in {"batching", "loading", "yielded"}
PartsDone == IF Working THEN part - 1 ELSE part
RowsYielded == IF ~Working THEN 0
               ELSE IF phase = "yielded" THEN start + length ELSE start

Reported ==
    \A i \in 1 .. Len(results) :
        /\ results[i].rows = size[i] /\ results[i].loaded = kept[i]
        /\ results[i].filtered = filtered[i]

InHand ==
    /\ Working => part \in 1 .. Len(input) /\ rows = input[part].rows
    /\ phase = "batching" /\ step = "done" => start = rows
    /\ phase \in {"loading", "yielded"} => step = "yielded"
    /\ phase = "loading" => size[Current] = length
    /\ phase \in {"exhausted", "finalized"} => part = Len(input)

Tallied ==
    phase \notin {"failed", "closed"} =>
        Sum(size, Len(results)) = Sum(InputCounts, PartsDone) + RowsYielded

Summarised ==
    phase = "finalized" =>
        summary = [status |-> Overall, batches |-> Len(results),
                   attempted |-> Total("rows"), loaded |-> Total("loaded"),
                   filtered |-> Total("filtered")]

Accounts == Reported /\ InHand /\ Tallied /\ Summarised

-------------------------------------------------------------------------------
(* Sums *)

(* Induction over the natural numbers, for a set of them. *)
LEMMA AllNaturals ==
  ASSUME NEW S \in SUBSET Nat, 0 \in S, \A n \in S : n + 1 \in S
  PROVE  S = Nat
<1> DEFINE T == Nat \ S
<1> SUFFICES ASSUME T # {} PROVE FALSE
  OBVIOUS
<1>1. PICK least \in T : \A n \in T : <<n, least>> \notin OpToRel(<, Nat)
  BY NatLessThanWellFounded, WFMin
<1>2. \A n \in T : ~(n < least)
  BY <1>1 DEF OpToRel
<1>3. least - 1 \in S
  BY <1>2
<1>4. QED
  BY <1>3

(* The partial sums of f up to the n-th. *)
PartialSums(f, n, h) ==
    h = [k \in 0 .. n |-> IF k = 0 THEN 0 ELSE h[k - 1] + f[k]]

(* They exist for every n. *)
LEMMA PartialSumsExist ==
  ASSUME NEW f
  PROVE  \A n \in Nat : \E h : PartialSums(f, n, h)
<1> DEFINE S == {n \in Nat : \E h : PartialSums(f, n, h)}
<1>1. 0 \in S
  <2> DEFINE h == [k \in 0 .. 0 |-> 0]
  <2>1. PartialSums(f, 0, h)
    BY DEF PartialSums
  <2>2. QED
    BY <2>1
<1>2. ASSUME NEW n \in S
      PROVE  n + 1 \in S
  <2>1. PICK h : PartialSums(f, n, h)
    OBVIOUS
  <2> DEFINE g == [k \in 0 .. n + 1 |-> IF k = n + 1 THEN h[n] + f[n + 1] ELSE h[k]]
  <2>2. \A k \in 0 .. n : g[k] = h[k] /\ h[k] = IF k = 0 THEN 0 ELSE h[k - 1] + f[k]
    BY <2>1 DEF PartialSums
  <2>3. \A k \in 0 .. n + 1 : g[k] = IF k = 0 THEN 0 ELSE g[k - 1] + f[k]
    <3> SUFFICES ASSUME NEW k \in 0 .. n + 1
                 PROVE  g[k] = IF k = 0 THEN 0 ELSE g[k - 1] + f[k]
      OBVIOUS
    <3>1. CASE k = n + 1
      <4>1. k # 0 /\ k - 1 = n /\ n \in 0 .. n
        BY <3>1
      <4>2. QED
        BY <2>2, <3>1, <4>1
    <3>2. CASE k # n + 1
      <4>1. k \in 0 .. n /\ (k # 0 => k - 1 \in 0 .. n)
        BY <3>2
      <4>2. QED
        BY <2>2, <4>1
    <3>3. QED
      BY <3>1, <3>2
  <2>4. DOMAIN g = 0 .. n + 1 /\ g = [k \in 0 .. n + 1 |-> g[k]]
    OBVIOUS
  <2> HIDE DEF g
  <2>5. PartialSums(f, n + 1, g)
    BY <2>3, <2>4 DEF PartialSums
  <2>6. QED
    BY <2>5
<1> HIDE DEF S
<1>3. S = Nat
  BY <1>1, <1>2, AllNaturals DEF S
<1>4. QED
  BY <1>3 DEF S

(* Any two agree where both are defined. *)
LEMMA PartialSumsAgree ==
  ASSUME NEW f, NEW m \in Nat, NEW n \in Nat, NEW g, NEW h,
         PartialSums(f, m, g), PartialSums(f, n, h)
  PROVE  \A k \in Nat : k <= m /\ k <= n => g[k] = h[k]
<1> DEFINE S == {k \in Nat : k <= m /\ k <= n => g[k] = h[k]}
<1>1. /\ \A k \in 0 .. m : g[k] = IF k = 0 THEN 0 ELSE g[k - 1] + f[k]
      /\ \A k \in 0 .. n : h[k] = IF k = 0 THEN 0 ELSE h[k - 1] + f[k]
  BY DEF PartialSums
<1>2. 0 \in S
  BY <1>1
<1>3. ASSUME NEW k \in S
      PROVE  k + 1 \in S
  <2> SUFFICES ASSUME k + 1 <= m, k + 1 <= n PROVE g[k + 1] = h[k + 1]
    OBVIOUS
  <2>1. k + 1 \in 0 .. m /\ k + 1 \in 0 .. n /\ k + 1 # 0 /\ (k + 1) - 1 = k
    OBVIOUS
  <2>2. g[k + 1] = g[k] + f[k + 1] /\ h[k + 1] = h[k] + f[k + 1]
    BY <1>1, <2>1
  <2>3. QED
    BY <2>2
<1> HIDE DEF S
<1>4. S = Nat
  BY <1>2, <1>3, AllNaturals DEF S
<1>5. QED
  BY <1>4 DEF S

(* The recursion of Sum. *)
LEMMA SumStep ==
  ASSUME NEW f
  PROVE  /\ Sum(f, 0) = 0
         /\ \A n \in Nat : Sum(f, n + 1) = Sum(f, n) + f[n + 1]
<1> DEFINE Def(s) == s = [k \in Nat |-> IF k = 0 THEN 0 ELSE s[k - 1] + f[k]]
           H(n) == CHOOSE h : PartialSums(f, n, h)
           F == [n \in Nat |-> H(n)[n]]
           sum == CHOOSE s : Def(s)
<1>1. \A n \in Nat : PartialSums(f, n, H(n))
  BY PartialSumsExist
<1> HIDE DEF H
<1>2. \A n \in Nat : \A k \in 0 .. n : H(n)[k] = IF k = 0 THEN 0 ELSE H(n)[k - 1] + f[k]
  BY <1>1 DEF PartialSums
<1>3. \A n \in Nat \ {0} : H(n)[n - 1] = H(n - 1)[n - 1]
  <2> SUFFICES ASSUME NEW n \in Nat \ {0} PROVE H(n)[n - 1] = H(n - 1)[n - 1]
    OBVIOUS
  <2>1. n \in Nat /\ n - 1 \in Nat /\ n - 1 <= n /\ n - 1 <= n - 1
    OBVIOUS
  <2>2. PartialSums(f, n, H(n)) /\ PartialSums(f, n - 1, H(n - 1))
    BY <1>1, <2>1
  <2> DEFINE g == H(n)
             h == H(n - 1)
  <2>3. PartialSums(f, n, g) /\ PartialSums(f, n - 1, h)
    BY <2>2
  <2> HIDE DEF g, h
  <2>4. g[n - 1] = h[n - 1]
    BY <2>1, <2>3, PartialSumsAgree
  <2>5. QED
    BY <2>4 DEF g, h
<1>4. \A k \in Nat : F[k] = IF k = 0 THEN 0 ELSE F[k - 1] + f[k]
  BY <1>2, <1>3
<1>5. F = [k \in Nat |-> F[k]]
  OBVIOUS
<1> HIDE DEF F
<1>6. Def(F)
  BY <1>4, <1>5
<1> HIDE DEF Def
<1>7. Def(sum)
  BY <1>6
<1> HIDE DEF sum
<1>8. \A n \in Nat : sum[n] = IF n = 0 THEN 0 ELSE sum[n - 1] + f[n]
  BY <1>7 DEF Def
<1>9. \A n : Sum(f, n) = sum[n]
  BY DEF Sum, sum, Def
<1>10. QED
  BY <1>8, <1>9

(* Sums of equal terms are equal. *)
LEMMA SumSame ==
  ASSUME NEW f, NEW g, NEW n \in Nat, \A k \in 1 .. n : f[k] = g[k]
  PROVE  Sum(f, n) = Sum(g, n)
<1> DEFINE S == {k \in Nat : k <= n => Sum(f, k) = Sum(g, k)}
<1>1. 0 \in S
  BY SumStep
<1>2. ASSUME NEW k \in S
      PROVE  k + 1 \in S
  <2> SUFFICES ASSUME k + 1 <= n PROVE Sum(f, k + 1) = Sum(g, k + 1)
    OBVIOUS
  <2>1. f[k + 1] = g[k + 1] /\ Sum(f, k) = Sum(g, k)
    OBVIOUS
  <2>2. Sum(f, k + 1) = Sum(f, k) + f[k + 1] /\ Sum(g, k + 1) = Sum(g, k) + g[k + 1]
    BY SumStep
  <2>3. QED
    BY <2>1, <2>2
<1> HIDE DEF S
<1>3. S = Nat
  BY <1>1, <1>2, AllNaturals DEF S
<1>4. QED
  BY <1>3 DEF S

(* A sum of integers is one. *)
LEMMA SumTyped ==
  ASSUME NEW f, NEW n \in Nat, \A k \in 1 .. n : f[k] \in Int
  PROVE  Sum(f, n) \in Int
<1> DEFINE S == {k \in Nat : k <= n => Sum(f, k) \in Int}
<1>1. 0 \in S
  BY SumStep
<1>2. ASSUME NEW k \in S
      PROVE  k + 1 \in S
  <2> SUFFICES ASSUME k + 1 <= n PROVE Sum(f, k + 1) \in Int
    OBVIOUS
  <2>1. f[k + 1] \in Int /\ Sum(f, k) \in Int
    OBVIOUS
  <2>2. Sum(f, k + 1) = Sum(f, k) + f[k + 1]
    BY SumStep
  <2>3. QED
    BY <2>1, <2>2
<1> HIDE DEF S
<1>3. S = Nat
  BY <1>1, <1>2, AllNaturals DEF S
<1>4. QED
  BY <1>3 DEF S

(* Terms of zero add nothing. *)
LEMMA SumStops ==
  ASSUME NEW f, NEW m \in Nat, NEW n \in Nat, m <= n,
         \A k \in 1 .. n : f[k] \in Int /\ (k > m => f[k] = 0)
  PROVE  Sum(f, n) = Sum(f, m)
<1> DEFINE S == {k \in Nat : m <= k /\ k <= n => Sum(f, k) = Sum(f, m)}
<1>1. 0 \in S
  <2>1. m <= 0 => m = 0
    OBVIOUS
  <2>2. QED
    BY <2>1
<1>2. ASSUME NEW k \in S
      PROVE  k + 1 \in S
  <2> SUFFICES ASSUME m <= k + 1, k + 1 <= n PROVE Sum(f, k + 1) = Sum(f, m)
    OBVIOUS
  <2>1. CASE m = k + 1
    BY <2>1
  <2>2. CASE m <= k
    <3>1. f[k + 1] = 0 /\ Sum(f, k) = Sum(f, m)
      BY <2>2
    <3>2. Sum(f, m) \in Int
      BY SumTyped
    <3>3. Sum(f, k + 1) = Sum(f, k) + f[k + 1]
      BY SumStep
    <3>4. QED
      BY <3>1, <3>2, <3>3
  <2>3. QED
    BY <2>1, <2>2
<1> HIDE DEF S
<1>3. S = Nat
  BY <1>1, <1>2, AllNaturals DEF S
<1>4. QED
  BY <1>3 DEF S

(* Two sums that stay below a third term by term stay below it together. *)
LEMMA SumsBelow ==
  ASSUME NEW f, NEW g, NEW h, NEW n \in Nat,
         \A k \in 1 .. n : f[k] \in Int /\ g[k] \in Int /\ h[k] \in Int /\ f[k] + g[k] <= h[k]
  PROVE  Sum(f, n) + Sum(g, n) <= Sum(h, n)
<1> DEFINE S == {k \in Nat : k <= n => Sum(f, k) + Sum(g, k) <= Sum(h, k)}
<1>1. 0 \in S
  BY SumStep
<1>2. ASSUME NEW k \in S
      PROVE  k + 1 \in S
  <2> SUFFICES ASSUME k + 1 <= n
               PROVE  Sum(f, k + 1) + Sum(g, k + 1) <= Sum(h, k + 1)
    OBVIOUS
  <2>1. /\ k + 1 \in 1 .. n /\ k <= n
        /\ Sum(f, k) + Sum(g, k) <= Sum(h, k)
    OBVIOUS
  <2>2. Sum(f, k) \in Int /\ Sum(g, k) \in Int /\ Sum(h, k) \in Int
    BY SumTyped
  <2>3. /\ Sum(f, k + 1) = Sum(f, k) + f[k + 1] /\ Sum(g, k + 1) = Sum(g, k) + g[k + 1]
        /\ Sum(h, k + 1) = Sum(h, k) + h[k + 1]
    BY SumStep
  <2>4. /\ f[k + 1] \in Int /\ g[k + 1] \in Int /\ h[k + 1] \in Int
        /\ f[k + 1] + g[k + 1] <= h[k + 1]
    BY <2>1
  <2>5. QED
    BY <2>1, <2>2, <2>3, <2>4
<1> HIDE DEF S
<1>3. S = Nat
  BY <1>1, <1>2, AllNaturals DEF S
<1>4. QED
  BY <1>3 DEF S

-------------------------------------------------------------------------------
(* Lemmas *)

(* The first slice of what is left is not empty and within both bounds. *)
LEMMA FirstLengthBounds ==
  ASSUME NEW n \in Nat \ {0}
  PROVE  Batches!FirstLength(n) \in 1 .. MaxRows /\ Batches!FirstLength(n) <= n
BY LimitAssumption DEF Batches!FirstLength, Batches!Smaller

(* Half a slice is a slice. *)
LEMMA HalveBounds ==
  ASSUME NEW n \in Nat \ {0}
  PROVE  Batches!Larger(1, n \div 2) \in 1 .. n
BY DEF Batches!Larger

(* A slice may be replaced by a shorter one. *)
LEMMA Shorter ==
  ASSUME NEW r \in Nat, NEW first \in 0 .. r, NEW n \in 0 .. MaxRows, NEW m \in 1 .. n,
         first + n <= r
  PROVE  m \in 0 .. MaxRows /\ m >= 1 /\ first + m <= r
<1>1. MaxRows \in Nat /\ n \in Nat /\ m \in Nat /\ first \in Nat /\ m <= n /\ n <= MaxRows
  BY LimitAssumption
<1>2. QED
  BY <1>1

(* One step of AtomicLoad's Conclude concerns one request. *)
LEMMA Concludes ==
  ASSUME NEW n \in RequestNumbers, Loads, Load!Conclude(n)
  PROVE  /\ verdict[n] = "running" /\ copies' = copies
         /\ verdict' \in [RequestNumbers -> Verdicts]
         /\ verdict'[n] \in {"stored", "failed", "unknown"}
         /\ verdict'[n] = "stored" => copies[n] # {}
         /\ verdict'[n] = "failed" => copies[n] = {}
         /\ \A k \in RequestNumbers \ {n} : verdict'[k] = verdict[k]
BY DEF Load!Conclude, Load!Concluded, Loads, Verdicts

(* The number of the current request, which was made when a load runs. *)
LEMMA CurrentNumber ==
  ASSUME Loads
  PROVE  /\ Len(results) \in Nat /\ Current = Len(results) + 1
         /\ Current <= MaxRequests => Current \in RequestNumbers
BY RequestsAssumption DEF Loads, Current, RequestNumbers

-------------------------------------------------------------------------------
(* The invariant *)

(* Before the first request nothing is stored or reported. *)
LEMMA Initially == Init => Inv
BY RequestsAssumption, LimitAssumption, InputsAssumption
   DEF Init, Inv, Slicing, Writing, Loads, OneAtATime, Load!AInit, Phases,
       RequestNumbers, Current, Verdicts

(* What happens between two loads changes neither requests nor results. *)
LEMMA BetweenKeeps ==
  ASSUME Loads, OneAtATime, UNCHANGED <<loadVars, results>>,
         phase \notin {"loading", "failed"}, phase' \in Phases \ {"loading"}
  PROVE  Loads' /\ OneAtATime'
BY DEF Loads, OneAtATime, loadVars, countVars, Current

(* Micropartitions come one by one, and are refused or cut. *)
LEMMA PullKeeps ==
  ASSUME Inv, Start \/ StartFails \/ Pull \/ Refuse \/ Exhaust \/ Finalize \/ Abandon
  PROVE  Inv'
<1> USE DEF Inv
<1>1. Loads' /\ OneAtATime'
  <2>1. /\ phase \notin {"loading", "failed"} /\ phase' \in Phases \ {"loading"}
        /\ UNCHANGED <<loadVars, results>>
    BY DEF Start, StartFails, Pull, Refuse, Exhaust, Finalize, Abandon, Fail, Phases
  <2>2. QED
    BY <2>1, BetweenKeeps
<1>2. Writing'
  BY InputsAssumption DEF Start, StartFails, Pull, Refuse, Exhaust, Finalize, Abandon,
     Fail, Writing
<1>3. Slicing'
  BY InputsAssumption, LimitAssumption DEF Start, StartFails, Pull, Refuse, Exhaust,
     Finalize, Abandon, Slicing, batchVars, Writing
<1>4. QED
  BY <1>1, <1>2, <1>3

(* The generator of batches runs between two loads. *)
LEMMA SliceKeeps ==
  ASSUME Inv, NextBatch \/ Unserializable \/ PartDone \/ Resume
  PROVE  Inv'
<1> USE DEF Inv
<1>1. Loads' /\ OneAtATime'
  <2>1. /\ phase \notin {"loading", "failed"} /\ phase' \in Phases \ {"loading"}
        /\ UNCHANGED <<loadVars, results>>
    BY DEF NextBatch, Unserializable, PartDone, Resume, Fail, Phases, sinkVars
  <2>2. QED
    BY <2>1, BetweenKeeps
<1>2. Writing'
  BY DEF NextBatch, Unserializable, PartDone, Resume, Fail, Writing, sinkVars
<1>3. Slicing'
  <2>1. CASE Batches!Slice
    <3>1. CASE start < rows /\ length' = Batches!FirstLength(rows - start)
      <4>1. rows - start \in Nat \ {0}
        BY <3>1 DEF Slicing
      <4>2. QED
        BY <2>1, <3>1, <4>1, FirstLengthBounds DEF Batches!Slice, Slicing
    <3>2. CASE start >= rows
      BY <2>1, <3>2 DEF Batches!Slice, Slicing
    <3>3. QED
      BY <2>1, <3>1, <3>2 DEF Batches!Slice
  <2>2. CASE Batches!Halve
    <3>1. length \in Nat \ {0} /\ start + length <= rows
      BY <2>2, LimitAssumption DEF Batches!Halve, Slicing
    <3>2. length' \in 1 .. length /\ UNCHANGED <<rows, start, step>>
      BY <2>2, <3>1, HalveBounds DEF Batches!Halve
    <3>3. /\ length' \in 0 .. MaxRows /\ length' >= 1
          /\ start + length' <= rows
      BY <3>1, <3>2, Shorter DEF Slicing
    <3>4. QED
      BY <3>2, <3>3 DEF Slicing
  <2>3. CASE Batches!Yield \/ Batches!Raise \/ Batches!Resume
    BY <2>3 DEF Batches!Yield, Batches!Raise, Batches!Resume, Slicing
  <2>4. CASE PartDone
    BY <2>4 DEF PartDone, batchVars, Slicing
  <2>5. QED
    BY <2>1, <2>2, <2>3, <2>4 DEF NextBatch, Unserializable, Resume
<1>4. QED
  BY <1>1, <1>2, <1>3

(* A new request is the only one that runs; one that load refuses ends the
   write with nothing stored. *)
LEMMA BeginKeeps ==
  ASSUME Inv, BeginLoad \/ LoadRefuses
  PROVE  Inv'
<1> USE DEF Inv
<1>1. /\ Current \in RequestNumbers /\ Current' = Current
      /\ length \in 0 .. MaxRows /\ results' = results
  BY CurrentNumber DEF BeginLoad, LoadRefuses, Fail, Current, Slicing
<1>2. Slicing' /\ Writing'
  BY DEF BeginLoad, LoadRefuses, Fail, Slicing, Writing, batchVars
<1>3. CASE BeginLoad
  <2>1. /\ verdict[Current] = "idle" /\ copies' = copies /\ phase' = "loading"
        /\ verdict' = [verdict EXCEPT ![Current] = "running"]
    BY <1>3 DEF BeginLoad, Load!Submit
  <2>2. PICK k \in Nat, f \in Nat :
          /\ k + f <= length
          /\ kept' = [kept EXCEPT ![Current] = k]
          /\ filtered' = [filtered EXCEPT ![Current] = f]
    <3>1. PICK k \in 0 .. length : \E f \in 0 .. length - k :
            /\ kept' = [kept EXCEPT ![Current] = k]
            /\ filtered' = [filtered EXCEPT ![Current] = f]
      BY <1>3 DEF BeginLoad
    <3>2. PICK f \in 0 .. length - k : filtered' = [filtered EXCEPT ![Current] = f]
      BY <3>1
    <3>3. k \in Nat /\ f \in Nat /\ k + f <= length
      BY <1>1, LimitAssumption
    <3>4. QED
      BY <3>1, <3>2, <3>3
  <2>3. Loads'
    <3>1. size' = [size EXCEPT ![Current] = length]
      BY <1>3 DEF BeginLoad
    <3>2. /\ size' \in [RequestNumbers -> 0 .. MaxRows]
          /\ kept' \in [RequestNumbers -> Nat] /\ filtered' \in [RequestNumbers -> Nat]
          /\ \A n \in RequestNumbers : kept'[n] + filtered'[n] <= size'[n]
      BY <1>1, <2>2, <3>1 DEF Loads
    <3>3. QED
      BY <1>1, <2>1, <3>2 DEF Loads, Phases, Verdicts
  <2>4. OneAtATime'
    BY <1>1, <1>3, <2>1 DEF BeginLoad, Loads, OneAtATime
  <2>5. QED
    BY <1>2, <2>3, <2>4
<1>4. CASE LoadRefuses
  <2>1. /\ verdict[Current] = "idle" /\ copies' = copies /\ phase' = "failed"
        /\ verdict' = [verdict EXCEPT ![Current] = "failed"]
        /\ phase = "batching"
    BY <1>4 DEF LoadRefuses, Load!Reject, Fail
  <2>2. Loads'
    BY <1>1, <1>4, <2>1 DEF LoadRefuses, Loads, Phases, Verdicts, countVars
  <2>3. OneAtATime'
    BY <1>1, <1>4, <2>1 DEF Loads, OneAtATime
  <2>4. QED
    BY <1>2, <2>2, <2>3
<1>5. QED
  BY <1>3, <1>4

(* The answer of a load becomes a result or ends the write. *)
LEMMA ConcludeKeeps ==
  ASSUME Inv, LoadReturns \/ LoadRaises
  PROVE  Inv'
<1> USE DEF Inv
<1>1. /\ Current \in RequestNumbers /\ Len(results) \in Nat
      /\ Current = Len(results) + 1
  BY CurrentNumber DEF LoadReturns, LoadRaises, OneAtATime
<1>2. /\ Load!Conclude(Current) /\ phase = "loading"
      /\ UNCHANGED <<kept, filtered, size, input, part, batchVars>>
  BY DEF LoadReturns, LoadRaises, countVars
<1>3. Slicing'
  BY <1>2 DEF Slicing, batchVars
<1>4. CASE LoadReturns
  <2>1. PICK s : /\ s \in {"Success", "Publish Timeout"}
                    /\ results' = Append(results, Result(Current, s))
    BY <1>4 DEF LoadReturns
  <2>2. Result(Current, s) \in SinkResults
    <3>1. size[Current] \in 0 .. MaxRows /\ kept[Current] \in Nat /\ filtered[Current] \in Nat
      BY <1>1 DEF Loads
    <3>2. size[Current] \in Nat
      BY <3>1, LimitAssumption
    <3>3. QED
      BY <2>1, <3>1, <3>2 DEF Result, SinkResults
  <2>3. results' \in Seq(SinkResults) /\ Len(results') = Len(results) + 1
    <3>1. results \in Seq(SinkResults)
      BY DEF Loads
    <3>2. Append(results, Result(Current, s)) \in Seq(SinkResults)
      BY <2>2, <3>1
    <3>3. Len(Append(results, Result(Current, s))) = Len(results) + 1
      BY <3>1
    <3>4. QED
      BY <2>1, <3>2, <3>3
  <2>4. Current' = Current + 1 /\ phase' = "yielded" /\ verdict'[Current] = "stored"
        /\ failure' = failure
    BY <1>1, <1>4, <2>3 DEF LoadReturns, Current
  <2>5. Loads'
    BY <1>1, <1>2, <2>3, <2>4, Concludes DEF Loads, Phases
  <2>6. OneAtATime'
    <3>1. Current \in 1 .. MaxRequests /\ Len(results') = Current
      BY <1>1, <2>3 DEF RequestNumbers
    <3>2. ASSUME NEW n \in RequestNumbers
          PROVE  /\ n < Current' => verdict'[n] = "stored" /\ copies'[n] # {}
                 /\ n >= Current' => verdict'[n] = "idle"
                 /\ verdict'[n] \in {"idle", "failed"} => copies'[n] = {}
      <4>1. CASE n = Current
        BY <1>1, <1>2, <2>4, <3>1, <4>1, Concludes
      <4>2. CASE n # Current
        <5>1. verdict'[n] = verdict[n] /\ copies'[n] = copies[n]
          BY <1>1, <1>2, <4>2, Concludes
        <5>2. n \in Int /\ Current \in Int
          BY <3>1 DEF RequestNumbers
        <5>3. QED
          BY <2>4, <4>2, <5>1, <5>2 DEF OneAtATime
      <4>3. QED
        BY <4>1, <4>2
    <3>3. \A n \in RequestNumbers : n \in Int
      BY DEF RequestNumbers
    <3>4. QED
      BY <2>4, <3>1, <3>2, <3>3, RequestsAssumption DEF OneAtATime
  <2>7. QED
    BY <1>2, <1>3, <2>4, <2>5, <2>6 DEF Writing
<1>5. CASE LoadRaises
  <2>1. /\ results' = results /\ phase' = "failed" /\ Current' = Current
        /\ failure' = verdict'[Current] /\ verdict'[Current] # "stored"
    BY <1>5 DEF LoadRaises, Fail, Current
  <2>2. Loads'
    BY <1>1, <1>2, <2>1, Concludes DEF Loads, Phases
  <2>3. OneAtATime'
    BY <1>1, <1>2, <2>1, Concludes DEF OneAtATime
  <2>4. Writing'
    BY <1>1, <1>2, <2>1, Concludes DEF Writing
  <2>5. QED
    BY <1>3, <2>2, <2>3, <2>4
<1>6. QED
  BY <1>4, <1>5

(* Doris stores the current request only, or one that was lost. *)
LEMMA StoreKeeps ==
  ASSUME Inv, Store
  PROVE  Inv'
<1> USE DEF Inv
<1>1. PICK n \in RequestNumbers : Load!Store(n)
  BY DEF Store
<1>2. verdict[n] \in {"running", "unknown"} /\ verdict' = verdict
  BY <1>1 DEF Load!Store
<1>3. copies' = [copies EXCEPT ![n] = {"label"}]
  BY <1>1 DEF Load!Store
<1>4. UNCHANGED <<input, part, phase, failure, results, countVars, batchVars>>
  BY DEF Store, sinkVars
<1>5. Loads' /\ Slicing' /\ Writing'
  BY <1>2, <1>3, <1>4 DEF Loads, Slicing, Writing, countVars, batchVars
<1>6. OneAtATime'
  BY <1>2, <1>3, <1>4 DEF Loads, OneAtATime, Current
<1>7. QED
  BY <1>5, <1>6

LEMMA Inductive == Inv /\ [Next]_vars => Inv'
<1> SUFFICES ASSUME Inv, [Next]_vars PROVE Inv'
  OBVIOUS
<1>1. CASE UNCHANGED vars
  BY <1>1 DEF vars, sinkVars, loadVars, countVars, batchVars, Inv, Slicing, Writing, Loads,
     OneAtATime, Current
<1>2. CASE Next
  BY <1>1, <1>2, PullKeeps, SliceKeeps, BeginKeeps, ConcludeKeeps, StoreKeeps
     DEF Next, Write, Stopped
<1>3. QED
  BY <1>1, <1>2

-------------------------------------------------------------------------------
(* The accounts *)

(* The numbers that the sums are made of. *)
LEMMA Numbers ==
  ASSUME Inv
  PROVE  /\ Len(results) \in Nat /\ Len(results) <= MaxRequests
         /\ Current = Len(results) + 1
         /\ \A n \in 1 .. MaxRequests : /\ n \in RequestNumbers
                                        /\ size[n] \in Int /\ kept[n] \in Int
                                        /\ filtered[n] \in Int
                                        /\ kept[n] + filtered[n] <= size[n]
         /\ Len(input) \in Nat /\ part \in 0 .. Len(input)
         /\ \A i \in 1 .. Len(input) : /\ InputCounts[i] = input[i].rows
                                       /\ InputCounts[i] \in Int
         /\ start \in Int /\ length \in Int
<1>1. \A n \in RequestNumbers : /\ size[n] \in Int /\ kept[n] \in Int /\ filtered[n] \in Int
                               /\ kept[n] + filtered[n] <= size[n]
  BY LimitAssumption DEF Inv, Loads
<1>2. start \in Int /\ length \in Int
  BY LimitAssumption DEF Inv, Slicing
<1>3. /\ Len(input) \in Nat /\ part \in 0 .. Len(input)
      /\ \A i \in 1 .. Len(input) : InputCounts[i] = input[i].rows /\ InputCounts[i] \in Int
  BY InputsAssumption DEF Inv, Writing, InputCounts
<1>4. QED
  BY <1>1, <1>2, <1>3, CurrentNumber DEF Inv, OneAtATime, RequestNumbers

(* Nothing is accounted for before the first part. *)
LEMMA AccountsInitially == Init => Accounts
<1> SUFFICES ASSUME Init PROVE Accounts
  OBVIOUS
<1>1. Len(results) = 0 /\ PartsDone = 0 /\ RowsYielded = 0
  BY DEF Init, PartsDone, RowsYielded, Working
<1>2. Tallied
  BY <1>1, SumStep DEF Tallied
<1>3. Reported /\ InHand /\ Summarised
  BY <1>1 DEF Init, Reported, InHand, Summarised, Working
<1>4. QED
  BY <1>2, <1>3 DEF Accounts

(* A write that has ended early is not accounted for any further. *)
LEMMA EndsKeepAccounts ==
  ASSUME Accounts, UNCHANGED <<results, countVars>>, phase' \in {"failed", "closed"}
  PROVE  Accounts'
BY DEF Accounts, Reported, InHand, Tallied, Summarised, Working, countVars

(* Between two parts. *)
LEMMA PartsKeepAccounts ==
  ASSUME Inv, Accounts, Start \/ Pull \/ Exhaust \/ PartDone \/ Finalize
  PROVE  Accounts'
<1>1. UNCHANGED <<results, size, kept, filtered, input>> /\ InputCounts' = InputCounts
  BY DEF Start, Pull, Exhaust, PartDone, Finalize, loadVars, countVars, InputCounts
<1>2. Reported'
  BY <1>1 DEF Accounts, Reported
<1>3. InHand'
  BY InputsAssumption DEF Start, Pull, Exhaust, PartDone, Finalize, Accounts, InHand,
     Working, Inv, Writing
<1>4. Sum(InputCounts, PartsDone') + RowsYielded' = Sum(InputCounts, PartsDone) + RowsYielded
  <2>1. CASE Start \/ Exhaust \/ Finalize
    BY <2>1 DEF Start, Exhaust, Finalize, PartsDone, RowsYielded, Working
  <2>2. CASE Pull
    <3>1. part \in Nat /\ part' = part + 1 /\ PartsDone' = part /\ PartsDone = part
      BY <2>2, Numbers DEF Pull, PartsDone, Working
    <3>2. RowsYielded' = 0 /\ RowsYielded = 0
      BY <2>2 DEF Pull, RowsYielded, Working
    <3>3. QED
      BY <3>1, <3>2
  <2>3. CASE PartDone
    <3>1. part \in 1 .. Len(input) /\ start = input[part].rows
      BY <2>3 DEF PartDone, Accounts, InHand, Working
    <3>2. PartsDone = part - 1 /\ PartsDone' = part /\ RowsYielded = start /\ RowsYielded' = 0
      BY <2>3 DEF PartDone, PartsDone, RowsYielded, Working
    <3>3. part - 1 \in Nat /\ (part - 1) + 1 = part
      BY <3>1, Numbers
    <3>4. Sum(InputCounts, part) = Sum(InputCounts, part - 1) + InputCounts[part]
      BY <3>3, SumStep
    <3>5. InputCounts[part] = start /\ start \in Int
      BY <3>1, Numbers
    <3>6. Sum(InputCounts, part - 1) \in Int
      BY <3>1, <3>3, Numbers, SumTyped
    <3>7. QED
      BY <3>2, <3>4, <3>5, <3>6
  <2>4. QED
    BY <2>1, <2>2, <2>3
<1>5. Tallied'
  <2>1. phase \notin {"failed", "closed"}
    BY DEF Start, Pull, Exhaust, PartDone, Finalize
  <2>2. QED
    BY <1>1, <1>4, <2>1 DEF Accounts, Tallied
<1>6. Summarised'
  BY DEF Start, Pull, Exhaust, PartDone, Finalize, Summarised, Overall, Statuses, Total
<1>7. QED
  BY <1>2, <1>3, <1>5, <1>6 DEF Accounts

(* While a part is cut. *)
LEMMA BatchesKeepAccounts ==
  ASSUME Inv, Accounts, NextBatch \/ Resume
  PROVE  Accounts'
<1>1. /\ UNCHANGED <<results, size, kept, filtered, input, part, rows>>
      /\ InputCounts' = InputCounts /\ Working /\ Working' /\ phase' = "batching"
  BY DEF NextBatch, Resume, sinkVars, loadVars, countVars, InputCounts, Working, Batches!Slice,
     Batches!Yield, Batches!Halve, Batches!Resume
<1>2. PartsDone' = PartsDone /\ RowsYielded' = RowsYielded
  BY <1>1 DEF NextBatch, Resume, PartsDone, RowsYielded, sinkVars, Batches!Slice,
     Batches!Yield, Batches!Halve, Batches!Resume
<1>3. step' = "done" => start' = rows'
  BY DEF NextBatch, Resume, Batches!Slice, Batches!Yield, Batches!Halve, Batches!Resume,
     Inv, Slicing
<1>4. InHand'
  BY <1>1, <1>3 DEF Accounts, InHand
<1>5. Reported' /\ Tallied' /\ Summarised'
  BY <1>1, <1>2 DEF Accounts, Reported, Tallied, Summarised, Working
<1>6. QED
  BY <1>4, <1>5 DEF Accounts

(* A batch is sent. *)
LEMMA BeginKeepsAccounts ==
  ASSUME Inv, Accounts, BeginLoad
  PROVE  Accounts'
<1>1. /\ Current \in RequestNumbers /\ Current = Len(results) + 1 /\ Len(results) \in Nat
      /\ phase = "batching" /\ phase' = "loading" /\ step = "yielded"
      /\ UNCHANGED <<results, input, part, batchVars>>
  BY Numbers DEF BeginLoad, RequestNumbers
<1>2. /\ size' = [size EXCEPT ![Current] = length]
      /\ \E k \in 0 .. length : kept' = [kept EXCEPT ![Current] = k]
      /\ \E f : filtered' = [filtered EXCEPT ![Current] = f]
  BY DEF BeginLoad
<1>3. \A n \in 1 .. Len(results) : /\ n # Current /\ size'[n] = size[n]
                                  /\ kept'[n] = kept[n] /\ filtered'[n] = filtered[n]
  <2>1. \A n \in 1 .. Len(results) : n # Current /\ n \in RequestNumbers
    <3>1. \A n \in 1 .. Len(results) : n # Len(results) + 1 /\ n \in 1 .. MaxRequests
      BY Numbers, RequestsAssumption
    <3>2. QED
      BY <1>1, <3>1 DEF RequestNumbers
  <2>2. QED
    BY <1>2, <2>1 DEF Inv, Loads
<1>4. Reported'
  BY <1>1, <1>3 DEF Accounts, Reported
<1>5. InHand'
  BY <1>1, <1>2 DEF Accounts, InHand, Working, batchVars, Inv, Loads, Current
<1>6. Tallied'
  <2>1. Sum(size', Len(results)) = Sum(size, Len(results))
    BY <1>1, <1>3, SumSame
  <2>2. PartsDone' = PartsDone /\ RowsYielded' = RowsYielded /\ InputCounts' = InputCounts
    BY <1>1 DEF PartsDone, RowsYielded, Working, batchVars, InputCounts
  <2>3. QED
    BY <1>1, <2>1, <2>2 DEF Accounts, Tallied
<1>7. Summarised'
  BY <1>1 DEF Summarised
<1>8. QED
  BY <1>4, <1>5, <1>6, <1>7 DEF Accounts

(* A batch was loaded and becomes a result. *)
LEMMA ReturnKeepsAccounts ==
  ASSUME Inv, Accounts, LoadReturns
  PROVE  Accounts'
<1> DEFINE n == Len(results)
<1>1. /\ n \in Nat /\ n <= MaxRequests /\ Current = n + 1
      /\ results \in Seq(SinkResults)
  BY Numbers DEF Inv, Loads
<1>2. /\ phase = "loading" /\ phase' = "yielded" /\ step = "yielded"
      /\ size[Current] = length
      /\ UNCHANGED <<input, part, kept, filtered, size, batchVars>>
  BY DEF LoadReturns, Accounts, InHand, countVars
<1>3. PICK s : results' = Append(results, Result(Current, s))
  BY DEF LoadReturns
<1>4. /\ Len(results') = n + 1 /\ results'[n + 1] = Result(Current, s)
      /\ \A i \in 1 .. n : results'[i] = results[i]
  BY <1>1, <1>3
<1>5. Reported'
  <2> SUFFICES ASSUME NEW i \in 1 .. n + 1
               PROVE  /\ results'[i].rows = size[i] /\ results'[i].loaded = kept[i]
                      /\ results'[i].filtered = filtered[i]
    BY <1>2, <1>4 DEF Reported
  <2>1. CASE i = n + 1
    BY <1>1, <1>4, <2>1 DEF Result
  <2>2. CASE i # n + 1
    <3>1. i \in 1 .. n
      BY <1>1, <2>2
    <3>2. QED
      BY <1>4, <3>1 DEF Accounts, Reported
  <2>3. QED
    BY <2>1, <2>2
<1>6. InHand'
  BY <1>2 DEF Accounts, InHand, Working, batchVars
<1>7. Tallied'
  <2>1. Sum(size, n + 1) = Sum(size, n) + length
    BY <1>1, <1>2, SumStep
  <2>2. /\ Sum(size, n) = Sum(InputCounts, PartsDone) + start
        /\ PartsDone = part - 1 /\ part - 1 \in Nat
    BY <1>2, Numbers DEF Accounts, Tallied, RowsYielded, PartsDone, InHand, Working
  <2>3. PartsDone' = PartsDone /\ InputCounts' = InputCounts /\ RowsYielded' = start + length
    BY <1>2 DEF PartsDone, RowsYielded, Working, batchVars, InputCounts
  <2>4. start \in Int /\ length \in Int /\ Sum(InputCounts, PartsDone) \in Int
    <3>1. PartsDone \in Nat /\ \A k \in 1 .. PartsDone : InputCounts[k] \in Int
      BY <2>2, Numbers
    <3>2. QED
      BY <3>1, Numbers, SumTyped
  <2>5. Sum(size, n + 1) = Sum(InputCounts, PartsDone) + (start + length)
    BY <2>1, <2>2, <2>4
  <2>6. QED
    BY <1>2, <1>4, <2>3, <2>5 DEF Tallied
<1>8. Summarised'
  BY <1>2 DEF Summarised
<1>9. QED
  BY <1>5, <1>6, <1>7, <1>8 DEF Accounts

LEMMA AccountsInductive == Inv /\ Accounts /\ [Next]_vars => Accounts'
<1> SUFFICES ASSUME Inv, Accounts, [Next]_vars PROVE Accounts'
  OBVIOUS
<1>1. CASE StartFails \/ Refuse \/ Unserializable \/ LoadRefuses \/ LoadRaises \/ Abandon
  <2>1. UNCHANGED <<results, countVars>> /\ phase' \in {"failed", "closed"}
    BY <1>1 DEF StartFails, Refuse, Unserializable, LoadRefuses, LoadRaises, Abandon, Fail,
       loadVars
  <2>2. QED
    BY <2>1, EndsKeepAccounts
<1>2. CASE Store \/ UNCHANGED vars
  <2>1. UNCHANGED <<input, sinkVars, countVars, batchVars>>
    BY <1>2 DEF Store, vars, loadVars
  <2>2. QED
    <3>1. UNCHANGED <<input, part, phase, results, summary, kept, filtered, size, rows, start,
                      length, step>>
      BY <2>1 DEF sinkVars, countVars, batchVars
    <3>2. Reported' /\ InHand'
      BY <3>1 DEF Accounts, Reported, InHand, Working, Current
    <3>3. Tallied'
      BY <3>1 DEF Accounts, Tallied, InputCounts, PartsDone, RowsYielded, Working
    <3>4. Summarised'
      BY <3>1 DEF Accounts, Summarised, Overall, Statuses, Total
    <3>5. QED
      BY <3>2, <3>3, <3>4 DEF Accounts
<1>3. QED
  BY <1>1, <1>2, PartsKeepAccounts, BatchesKeepAccounts, BeginKeepsAccounts,
     ReturnKeepsAccounts DEF Next, Write, Stopped

-------------------------------------------------------------------------------
(* The theorems *)

(* The variables of a write keep their types, and no request carries more
   rows than the limit. *)
THEOREM SinkTyped == Spec => []TypeOK
<1>1. Inv => TypeOK
  BY CurrentNumber DEF Inv, Slicing, Writing, Loads, OneAtATime, TypeOK, Verdicts,
     Load!Concluded
<1>2. QED
  BY <1>1, Initially, Inductive, PTL DEF Spec

(* However a write ends, the batches that Doris holds are those reported and
   at most the one whose outcome is not known. *)
THEOREM StoredWasReported == Spec => []StoredIsReportedPrefix
<1>1. Inv => StoredIsReportedPrefix
  <2> SUFFICES ASSUME Inv PROVE StoredIsReportedPrefix
    OBVIOUS
  <2>1. /\ Len(results) \in Nat /\ Len(results) <= MaxRequests
        /\ Current = Len(results) + 1
    BY CurrentNumber DEF Inv, OneAtATime
  <2>2. 1 .. Len(results) \subseteq Stored
    BY <2>1, RequestsAssumption DEF Inv, OneAtATime, Stored, RequestNumbers
  <2>3. ASSUME NEW n \in Stored
        PROVE  /\ n \in 1 .. Len(results) + 1
               /\ n = Current => verdict[n] \in {"running", "unknown"}
    BY <2>1, <2>3, RequestsAssumption DEF Inv, OneAtATime, Stored, RequestNumbers
  <2>4. QED
    BY <2>2, <2>3 DEF StoredIsReportedPrefix
<1>2. QED
  BY <1>1, Initially, Inductive, PTL DEF Spec

(* What a write sums up to is what Doris holds: every row of every
   micropartition was attempted, the rows called loaded are those stored, the
   rows called filtered are those that Doris filtered of the stored batches,
   and the status is the one that all the results share.  That the counts add
   up to the attempted rows is neither claimed nor checked by load. *)
THEOREM SummaryTellsTheTable == Spec => []SummaryIsExact
<1>1. Inv /\ Accounts => SummaryIsExact
  <2> SUFFICES ASSUME Inv, Accounts, phase = "finalized"
               PROVE  /\ summary.batches = Len(results) /\ Stored = 1 .. Len(results)
                      /\ summary.attempted = InputRows
                      /\ summary.loaded = OfStored(kept)
                      /\ summary.filtered = OfStored(filtered)
                      /\ summary.loaded + summary.filtered <= summary.attempted
                      /\ summary.status = "success" =>
                           \A i \in DOMAIN results : results[i].status = "Success"
                      /\ summary.status = "publish_timeout" =>
                           \A i \in DOMAIN results : results[i].status = "Publish Timeout"
    BY DEF SummaryIsExact
  <2> DEFINE n == Len(results)
  <2>1. /\ n \in Nat /\ n <= MaxRequests /\ Current = n + 1
        /\ DOMAIN results = 1 .. n /\ results \in Seq(SinkResults)
    BY Numbers DEF Inv, Loads
  <2>2. summary = [status |-> Overall, batches |-> n, attempted |-> Total("rows"),
                   loaded |-> Total("loaded"), filtered |-> Total("filtered")]
    BY DEF Accounts, Summarised
  <2>3. Stored = 1 .. n
    BY <2>1, RequestsAssumption DEF Inv, OneAtATime, Stored, RequestNumbers
  <2>4. /\ Total("rows") = Sum(size, n) /\ Total("loaded") = Sum(kept, n)
        /\ Total("filtered") = Sum(filtered, n)
    <3>1. \A i \in 1 .. n : /\ [j \in DOMAIN results |-> results[j]["rows"]][i] = size[i]
                            /\ [j \in DOMAIN results |-> results[j]["loaded"]][i] = kept[i]
                            /\ [j \in DOMAIN results |-> results[j]["filtered"]][i] = filtered[i]
      BY <2>1 DEF Accounts, Reported
    <3>2. QED
      BY <2>1, <3>1, SumSame DEF Total
  <2>5. Sum(kept, n) + Sum(filtered, n) <= Sum(size, n)
    <3>1. \A i \in 1 .. n : i \in 1 .. MaxRequests
      BY <2>1, RequestsAssumption
    <3>2. QED
      BY <2>1, <3>1, Numbers, SumsBelow
  <2>6. Sum(size, n) = InputRows
    <3>1. PartsDone = Len(input) /\ RowsYielded = 0
      BY DEF PartsDone, RowsYielded, Working, Accounts, InHand
    <3>2. Sum(InputCounts, Len(input)) \in Int
      BY Numbers, SumTyped
    <3>3. Sum(size, n) = Sum(InputCounts, Len(input)) + 0
      BY <3>1 DEF Accounts, Tallied
    <3>4. QED
      BY <3>2, <3>3 DEF InputRows, InputCounts
  <2>7. ASSUME NEW count, \A k \in 1 .. MaxRequests : count[k] \in Int
        PROVE  OfStored(count) = Sum(count, n)
    <3> DEFINE held == [k \in RequestNumbers |-> IF k \in Stored THEN count[k] ELSE 0]
    <3>1. \A k \in 1 .. MaxRequests : /\ held[k] \in Int
                                      /\ k > n => held[k] = 0
                                      /\ k <= n => held[k] = count[k]
      BY <2>1, <2>3, <2>7, Numbers
    <3> HIDE DEF held
    <3>2. Sum(held, MaxRequests) = Sum(held, n)
      BY <2>1, <3>1, SumStops, RequestsAssumption
    <3>3. Sum(held, n) = Sum(count, n)
      <4>1. \A k \in 1 .. n : held[k] = count[k]
        BY <2>1, <3>1, RequestsAssumption
      <4>2. QED
        BY <2>1, <4>1, SumSame
    <3>4. QED
      BY <3>2, <3>3 DEF OfStored, held
  <2>13. OfStored(kept) = Sum(kept, n) /\ OfStored(filtered) = Sum(filtered, n)
    BY <2>7, Numbers
  <2>8. \A i \in DOMAIN results : results[i].status \in Statuses
    BY DEF Statuses
  <2>9. \A i \in DOMAIN results : results[i].status \in {"Success", "Publish Timeout"}
    <3>1. \A i \in DOMAIN results : results[i] \in SinkResults
      BY <2>1
    <3>2. QED
      BY <3>1 DEF SinkResults
  <2>10. /\ Overall = "success" => Statuses \subseteq {"Success"}
         /\ Overall = "publish_timeout" => "Success" \notin Statuses \/
                                            "Publish Timeout" \notin Statuses
         /\ Overall = "publish_timeout" => ~(Statuses \subseteq {"Success"})
    BY DEF Overall
  <2>11. /\ Overall = "success" => \A i \in DOMAIN results : results[i].status = "Success"
         /\ Overall = "publish_timeout" =>
              \A i \in DOMAIN results : results[i].status = "Publish Timeout"
    <3>1. \A s \in Statuses : s \in {"Success", "Publish Timeout"}
      BY <2>9 DEF Statuses
    <3>2. QED
      BY <2>8, <2>9, <2>10, <3>1
  <2>12. QED
    BY <2>2, <2>3, <2>4, <2>5, <2>6, <2>11, <2>13
<1>2. QED
  BY <1>1, Initially, Inductive, AccountsInitially, AccountsInductive, PTL DEF Spec
===============================================================================
