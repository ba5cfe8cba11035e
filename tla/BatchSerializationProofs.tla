----------------------- MODULE BatchSerializationProofs -----------------------
(***************************************************************************)
(* The batches of a table cover it exactly and respect the limits, for    *)
(* every row limit, every table and every size its slices can have.       *)
(***************************************************************************)
EXTENDS BatchSerialization, TLAPS

(* The row after the last one yielded. *)
Reached == IF step = "yielded" THEN start + length ELSE start

(* A candidate is a non-empty part of what is left of the table. *)
Candidate ==
    /\ step \in {"try", "yielded"} => length >= 1 /\ start + length <= rows
    /\ step = "done" => start = rows

(* Exactly the rows before Reached are in a batch, each in one. *)
Covered ==
    /\ \A b \in batches : b.first + b.rows <= Reached
    /\ \A i \in 0 .. Reached - 1 : \E b \in batches : Holds(b, i)
    /\ \A b, c \in batches : \A i \in 0 .. rows - 1 :
         Holds(b, i) /\ Holds(c, i) => b = c

SInv == TypeOK /\ Candidate /\ Covered /\ WithinLimits

(* Halving a candidate of more than one row makes it smaller, not empty. *)
LEMMA HalveShrinks ==
  ASSUME NEW n \in Nat, n > 1
  PROVE  Larger(1, n \div 2) \in 1 .. n - 1
BY DEF Larger

(* The first candidate is within the row limit and the table. *)
LEMMA FirstLengthBounds ==
  ASSUME NEW n \in Nat \ {0}
  PROVE  FirstLength(n) \in 1 .. MaxRows /\ FirstLength(n) <= n
BY LimitAssumption DEF FirstLength, Smaller

(* A generator that has not run yet has yielded nothing. *)
LEMMA Initially == Init => SInv
<1> SUFFICES ASSUME Init PROVE SInv
  OBVIOUS
<1>1. rows \in Nat /\ 0 \in 0 .. rows /\ 0 \in 0 .. MaxRows
  BY LimitAssumption, TableAssumption DEF Init
<1>2. TypeOK
  BY <1>1 DEF Init, TypeOK, Steps
<1>3. Candidate /\ Covered /\ WithinLimits
  BY <1>1 DEF Init, Candidate, Covered, Reached, WithinLimits
<1>4. QED
  BY <1>2, <1>3 DEF SInv

(* Every step of the generator keeps the invariant. *)
LEMMA Inductive == SInv /\ [Next]_svars => SInv'
<1> SUFFICES ASSUME SInv, [Next]_svars PROVE SInv'
  OBVIOUS
<1> USE TableAssumption, LimitAssumption DEF SInv
<1> rows \in Nat
  BY DEF TypeOK
<1>1. CASE Slice
  <2>1. CASE start < rows /\ length' = FirstLength(rows - start)
    <3>1. rows - start \in Nat \ {0}
      BY <2>1 DEF TypeOK
    <3>2. length' \in 1 .. MaxRows /\ start + length' <= rows
      BY <2>1, <3>1, FirstLengthBounds DEF TypeOK
    <3>3. QED
      BY <1>1, <2>1, <3>2
         DEF Slice, TypeOK, Steps, Candidate, Covered, Reached, WithinLimits
  <2>2. CASE start >= rows
    BY <1>1, <2>2
       DEF Slice, TypeOK, Steps, Candidate, Covered, Reached, WithinLimits
  <2>3. QED
    BY <1>1, <2>1, <2>2 DEF Slice
<1>2. CASE Yield
  <2> DEFINE b == [first |-> start, rows |-> length, fits |-> fits]
  <2>1. length \in Nat /\ start \in Nat /\ length >= 1 /\ start + length <= rows
    BY <1>2 DEF Yield, TypeOK, Candidate
  <2>2. TypeOK' /\ Candidate'
    BY <1>2, <2>1 DEF Yield, TypeOK, Steps, Candidate
  <2>3. WithinLimits'
    BY <1>2, <2>1 DEF Yield, EndsSearch, WithinLimits, TypeOK
  <2>4. Reached = start /\ Reached' = start + length
    BY <1>2 DEF Yield, Reached
  <2>5. \A i \in Int : Holds(b, i) <=> i \in start .. start + length - 1
    BY <2>1 DEF Holds
  <2>6. \A c \in batches : \A i \in Int : Holds(c, i) => i < start
    BY <2>1, <2>4 DEF Covered, Holds, TypeOK
  <2>7. Covered'
    <3>1. \A c \in batches' : c.first + c.rows <= Reached'
      BY <1>2, <2>1, <2>4 DEF Yield, Covered, TypeOK
    <3>2. \A i \in 0 .. Reached' - 1 : \E c \in batches' : Holds(c, i)
      <4>1. SUFFICES ASSUME NEW i \in 0 .. Reached' - 1
                     PROVE  \E c \in batches' : Holds(c, i)
        OBVIOUS
      <4>2. CASE i < start
        BY <1>2, <2>1, <2>4, <4>2 DEF Yield, Covered
      <4>3. CASE i >= start
        BY <1>2, <2>1, <2>4, <2>5, <4>3 DEF Yield
      <4>4. QED
        BY <2>1, <4>2, <4>3
    <3>3. \A c, d \in batches' : \A i \in 0 .. rows' - 1 :
            Holds(c, i) /\ Holds(d, i) => c = d
      BY <1>2, <2>1, <2>5, <2>6 DEF Yield, Covered
    <3>4. QED
      BY <3>1, <3>2, <3>3 DEF Covered
  <2>8. QED
    BY <2>2, <2>3, <2>7
<1>3. CASE Halve
  <2>1. length > 1 /\ length \in Nat
    BY <1>3 DEF Halve, EndsSearch, TypeOK, Candidate
  <2>2. length' \in 1 .. length - 1
    BY <1>3, <2>1, HalveShrinks DEF Halve
  <2>3. QED
    BY <1>3, <2>1, <2>2
       DEF Halve, TypeOK, Steps, Candidate, Covered, Reached, WithinLimits
<1>4. CASE Raise
  BY <1>4 DEF Raise, TypeOK, Steps, Candidate, Covered, Reached, WithinLimits
<1>5. CASE Resume
  BY <1>5 DEF Resume, TypeOK, Steps, Candidate, Covered, Reached, WithinLimits
<1>6. CASE UNCHANGED svars
  BY <1>6 DEF svars, TypeOK, Candidate, Covered, Reached, Holds, WithinLimits
<1>7. QED
  BY <1>1, <1>2, <1>3, <1>4, <1>5, <1>6 DEF Next, Stopped

(* The generator's state is well typed. *)
THEOREM SlicingTypes == Spec => []TypeOK
<1>1. SInv => TypeOK
  BY DEF SInv
<1>2. QED
  BY <1>1, Initially, Inductive, PTL DEF Spec

(* No row is repeated and, once the generator is exhausted, none is missing. *)
THEOREM SlicingCovers == Spec => []EveryRowOnce
<1>1. SInv => EveryRowOnce
  BY TableAssumption DEF SInv, TypeOK, Candidate, Covered, Reached, EveryRowOnce
<1>2. QED
  BY <1>1, Initially, Inductive, PTL DEF Spec

(* No payload breaks a limit that a smaller slice could have kept. *)
THEOREM SlicingLimits == Spec => []WithinLimits
<1>1. SInv => WithinLimits
  BY DEF SInv
<1>2. QED
  BY <1>1, Initially, Inductive, PTL DEF Spec
===============================================================================
