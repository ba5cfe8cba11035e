--------------------------- MODULE BatchSlicesProofs ---------------------------
(***************************************************************************)
(* The slices of a batch tile it, keep both limits and are the longest    *)
(* that do, for every row limit, every batch and every measure of bytes.  *)
(***************************************************************************)
EXTENDS BatchSlices, TLAPS

(* What the search knows: the size it remembers fits or is one row, no
   length from low on is remembered, and those above high do not fit. *)
Searched ==
    /\ step \in {"search", "found"} => offset < rows /\ size \in 1 .. Upper
    /\ step \in {"search", "found"} => size \in small \/ size = 1
    /\ step = "search" => /\ high <= Upper /\ size + 1 >= low
                          /\ Grows => \A n \in small : n <= high

(* The slices end where the next one begins. *)
Tiled ==
    /\ \A i \in 1 .. Len(slices) :
         /\ slices[i][2] \in 1 .. BatchRows
         /\ Start(i) = IF i = 1 THEN 0 ELSE Stop(i - 1)
    /\ offset = IF slices = <<>> THEN 0 ELSE Stop(Len(slices))
    /\ step = "done" => offset = rows

Inv == TypeOK /\ Searched /\ Tiled /\ LargestThatFits

(* The longest slice has a row, keeps batch_rows and ends in the batch. *)
LEMMA UpperBounds ==
  ASSUME TypeOK, offset < rows
  PROVE  Upper \in 1 .. BatchRows /\ offset + Upper <= rows
BY RowsAssumption, SizesAssumption DEF TypeOK, Upper

(* A candidate lies between the bounds of the search. *)
LEMMA CandidateBounds ==
  ASSUME low \in Nat, high \in Nat, low <= high
  PROVE  Candidate \in low .. high
BY DEF Candidate

(* A generator that has not run has yielded nothing. *)
LEMMA Initially == Init => Inv
BY RowsAssumption, SizesAssumption
   DEF Init, Inv, TypeOK, Searched, Tiled, LargestThatFits

(* A new search, or none when the longest slice fits. *)
LEMMA BeginKeeps ==
  ASSUME Inv, TakeUpper \/ Search
  PROVE  Inv'
<1> USE RowsAssumption, SizesAssumption DEF Inv
<1>1. offset < rows
  BY DEF TakeUpper, Search, Begin
<1>2. Upper \in 1 .. BatchRows /\ offset + Upper <= rows /\ Upper' = Upper
  BY <1>1, UpperBounds DEF TakeUpper, Search, Upper
<1>3. small' \subseteq 1 .. Upper
  BY DEF TakeUpper, Search, Begin
<1>4. TypeOK'
  BY <1>2, <1>3 DEF TakeUpper, Search, Begin, TypeOK
<1>5. Searched'
  BY <1>1, <1>2, <1>3 DEF TakeUpper, Search, Begin, Searched, Grows, TypeOK
<1>6. Tiled'
  BY DEF TakeUpper, Search, Begin, Tiled, Start, Stop
<1>7. LargestThatFits'
  BY <1>2, <1>3 DEF TakeUpper, Search, Begin, LargestThatFits, Grows
<1>8. QED
  BY <1>4, <1>5, <1>6, <1>7

(* A probe narrows the search and forgets nothing that fits. *)
LEMMA ProbeKeeps ==
  ASSUME Inv, Probe
  PROVE  Inv'
<1> USE RowsAssumption, SizesAssumption DEF Inv, Probe
<1>1. /\ low \in Nat /\ high \in Nat /\ size \in Nat /\ rows \in Nat
      /\ offset \in Nat /\ low >= 1 /\ low <= high
  BY DEF TypeOK
<1>2. Candidate \in low .. high
  BY <1>1, CandidateBounds
<1>3. offset < rows /\ high <= Upper
  BY DEF Searched
<1>4. Upper \in 1 .. BatchRows /\ Upper' = Upper
  BY <1>3, UpperBounds DEF Upper
<1>5. CASE Fits
  <2>1. TypeOK'
    BY <1>1, <1>2, <1>3, <1>4, <1>5 DEF Fits, TypeOK
  <2>2. Searched'
    BY <1>1, <1>2, <1>3, <1>4, <1>5 DEF Fits, Searched, Grows
  <2>3. Tiled' /\ LargestThatFits'
    BY <1>5 DEF Fits, Tiled, Start, Stop, LargestThatFits
  <2>4. QED
    BY <2>1, <2>2, <2>3
<1>6. CASE Oversize
  <2>1. TypeOK'
    BY <1>1, <1>2, <1>3, <1>4, <1>6 DEF Oversize, TypeOK
  <2>2. Grows => \A n \in small : n <= Candidate - 1
    <3>1. SUFFICES ASSUME Grows, NEW n \in small, n >= Candidate PROVE FALSE
      BY <1>1, <1>2 DEF TypeOK
    <3>2. Candidate \in 1 .. n
      BY <1>1, <1>2, <3>1 DEF TypeOK
    <3>3. QED
      BY <1>6, <3>1, <3>2 DEF Grows, Oversize
  <2>3. Searched'
    BY <1>1, <1>2, <1>3, <1>4, <1>6, <2>2 DEF Oversize, Searched, Grows
  <2>4. Tiled' /\ LargestThatFits'
    BY <1>6 DEF Oversize, Tiled, Start, Stop, LargestThatFits
  <2>5. QED
    BY <2>1, <2>3, <2>4
<1>7. QED
  BY <1>5, <1>6

(* A search that has run out of candidates has found the longest length. *)
LEMMA FoundKeeps ==
  ASSUME Inv, Found
  PROVE  Inv'
<1> USE DEF Inv, Found
<1>1. TypeOK'
  BY DEF TypeOK
<1>2. Searched'
  BY DEF Searched, Upper
<1>3. Tiled'
  BY DEF Tiled, Start, Stop
<1>4. LargestThatFits'
  <2>1. SUFFICES ASSUME Grows, NEW n \in small PROVE n <= size
    BY DEF Searched, LargestThatFits, Grows
  <2>2. n <= high /\ n \in Nat /\ size + 1 >= low /\ high < low
    BY <2>1 DEF Searched, TypeOK
  <2>3. QED
    BY <2>2 DEF TypeOK
<1>5. QED
  BY <1>1, <1>2, <1>3, <1>4

(* A slice that is handed over continues the ones before it. *)
LEMMA YieldKeeps ==
  ASSUME Inv, Yield
  PROVE  Inv'
<1> USE RowsAssumption, SizesAssumption DEF Inv, Yield
<1>1. offset < rows /\ size \in 1 .. Upper
  BY DEF Searched
<1>2. Upper \in 1 .. BatchRows /\ offset + Upper <= rows
  BY <1>1, UpperBounds
<1>3. rows \in Nat /\ offset \in Nat /\ size \in Nat /\ slices \in Seq(Nat \X Nat)
  BY DEF TypeOK
<1>4. <<offset, size>> \in Nat \X Nat
  BY <1>3
<1>5. slices' \in Seq(Nat \X Nat) /\ Len(slices') = Len(slices) + 1
  BY <1>3, <1>4
<1>6. /\ slices'[Len(slices')] = <<offset, size>>
      /\ \A i \in 1 .. Len(slices) : slices'[i] = slices[i]
  BY <1>3, <1>4
<1>7. TypeOK'
  BY <1>1, <1>2, <1>3, <1>5 DEF TypeOK
<1>8. Searched' /\ LargestThatFits'
  BY DEF Searched, LargestThatFits
<1>9. Tiled'
  <2>1. ASSUME NEW i \in 1 .. Len(slices')
        PROVE  /\ slices'[i][2] \in 1 .. BatchRows
               /\ Start(i)' = IF i = 1 THEN 0 ELSE Stop(i - 1)'
    <3>1. CASE i \in 1 .. Len(slices)
      <4>1. slices'[i] = slices[i] /\ (i # 1 => slices'[i - 1] = slices[i - 1])
        BY <1>3, <1>6, <3>1
      <4>2. QED
        BY <3>1, <4>1 DEF Tiled, Start, Stop
    <3>2. CASE i = Len(slices) + 1
      <4>1. slices'[i] = <<offset, size>>
        BY <1>5, <1>6, <3>2
      <4>2. i # 1 => slices'[i - 1] = slices[Len(slices)] /\ slices # <<>>
        BY <1>3, <1>6, <3>2
      <4>3. i = 1 => slices = <<>>
        BY <1>3, <3>2
      <4>4. Start(i)' = offset /\ slices'[i][2] = size
        BY <1>1, <1>3, <4>1 DEF Start, Stop
      <4>5. i # 1 => Start(i)' = Stop(i - 1)'
        BY <1>3, <3>2, <4>2, <4>4 DEF Tiled, Stop
      <4>6. i = 1 => Start(i)' = 0
        BY <4>3, <4>4 DEF Tiled
      <4>7. size \in 1 .. BatchRows
        BY <1>1, <1>2
      <4>8. QED
        BY <4>4, <4>5, <4>6, <4>7
    <3>3. i \in 1 .. Len(slices) \/ i = Len(slices) + 1
      BY <1>3, <1>5
    <3>4. QED
      BY <3>1, <3>2, <3>3, Zenon
  <2>2. offset' = Stop(Len(slices))' /\ slices' # <<>>
    BY <1>3, <1>5, <1>6 DEF Stop
  <2>3. QED
    BY <2>1, <2>2 DEF Tiled
<1>10. QED
  BY <1>7, <1>8, <1>9

(* Every step of the generator keeps the invariant. *)
LEMMA Inductive == Inv /\ [Next]_vars => Inv'
<1> SUFFICES ASSUME Inv, [Next]_vars PROVE Inv'
  OBVIOUS
<1>1. CASE Exhausted
  BY <1>1, SizesAssumption
     DEF Inv, Exhausted, TypeOK, Searched, Tiled, Start, Stop, LargestThatFits
<1>2. CASE UNCHANGED vars
  BY <1>2 DEF Inv, vars, TypeOK, Searched, Upper, Grows, Tiled, Start, Stop,
              LargestThatFits
<1>3. QED
  BY <1>1, <1>2, BeginKeeps, ProbeKeeps, FoundKeeps, YieldKeeps
     DEF Next, Stopped

(* The state of the search is well typed. *)
THEOREM SlicesTyped == Spec => []TypeOK
<1>1. Inv => TypeOK
  BY DEF Inv
<1>2. QED
  BY <1>1, Initially, Inductive, PTL DEF Spec

(* The slices are the batch in order, without gap, overlap or empty slice. *)
THEOREM SlicesCover == Spec => []SlicesTile
<1>1. Inv => SlicesTile
  BY DEF Inv, Tiled, SlicesTile
<1>2. QED
  BY <1>1, Initially, Inductive, PTL DEF Spec

(* No slice is over batch_bytes but for a single row, and none is shorter
   than it need be when bytes grow with rows. *)
THEOREM SlicesLargest == Spec => []LargestThatFits
<1>1. Inv => LargestThatFits
  BY DEF Inv
<1>2. QED
  BY <1>1, Initially, Inductive, PTL DEF Spec
===============================================================================
