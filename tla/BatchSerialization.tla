-------------------------- MODULE BatchSerialization --------------------------
(***************************************************************************)
(* iter_serialized_batches (write/serialization.py): a generator that     *)
(* cuts a table into payloads of at most max_rows rows, and halves a      *)
(* payload of more than max_bytes bytes until it fits or holds one row.   *)
(*                                                                         *)
(* How many bytes a slice takes is the serializer's business (compressed  *)
(* Parquet need not even shrink with its rows), so whether a payload fits *)
(* is a choice made with each slice.                                      *)
(***************************************************************************)
EXTENDS Integers

CONSTANTS
    MaxRows,      \* batch_rows
    TableRows     \* the numbers of rows a table can have

ASSUME LimitAssumption == MaxRows \in Nat \ {0}
ASSUME TableAssumption == TableRows \subseteq Nat

VARIABLES
    rows,      \* table.num_rows
    bad,       \* the rows with a value that cannot be serialized
    start,     \* the first row of the next batch
    length,    \* the length of the candidate slice
    fits,      \* whether its payload has at most max_bytes bytes
    step,      \* where the generator stands
    batches    \* the batches yielded so far

svars == <<rows, bad, start, length, fits, step, batches>>

Steps == {"slice", "try", "yielded", "done", "raised"}

Init ==
    /\ rows \in TableRows
    /\ bad \in SUBSET (0 .. rows - 1)
    /\ start = 0
    /\ length = 0
    /\ fits = FALSE
    /\ step = "slice"
    /\ batches = {}

-------------------------------------------------------------------------------

Smaller(m, n) == IF m < n THEN m ELSE n
Larger(m, n) == IF m > n THEN m ELSE n

(* Mutated: batch_rows does not bound the slice. *)
FirstLengthUnbounded(n) == Larger(MaxRows, n)

FirstLength(n) == Smaller(MaxRows, n)

Slice ==
    /\ step = "slice"
    /\ \/ /\ start < rows
          /\ length' = FirstLength(rows - start)
          /\ fits' \in BOOLEAN
          /\ step' = "try"
       \/ /\ start >= rows
          /\ step' = "done"
          /\ UNCHANGED <<length, fits>>
    /\ UNCHANGED <<rows, bad, start, batches>>

Serializable == bad \cap (start .. start + length - 1) = {}

(* Mutated: a single row that is too large is not let through. *)
EndsSearchStrict == fits

(* When the inner loop breaks with the candidate as the payload. *)
EndsSearch == fits \/ length = 1

Yield ==
    /\ step = "try" /\ Serializable
    /\ EndsSearch
    /\ batches' = batches \cup
                    {[first |-> start, rows |-> length, fits |-> fits]}
    /\ step' = "yielded"
    /\ UNCHANGED <<rows, bad, start, length, fits>>

(* The same slice has the same payload; any other is measured anew. *)
Halve ==
    /\ step = "try" /\ Serializable
    /\ ~EndsSearch
    /\ length' = Larger(1, length \div 2)
    /\ fits' \in IF length' = length THEN {fits} ELSE BOOLEAN
    /\ UNCHANGED <<rows, bad, start, step, batches>>

Raise ==
    /\ step = "try" /\ ~Serializable
    /\ step' = "raised"
    /\ UNCHANGED <<rows, bad, start, length, fits, batches>>

(* Mutated: the next batch starts where the first candidate ended. *)
ResumeAfterCandidate ==
    /\ step = "yielded"
    /\ start' = start + FirstLength(rows - start)
    /\ step' = "slice"
    /\ UNCHANGED <<rows, bad, length, fits, batches>>

(* The caller asks for the next batch. *)
Resume ==
    /\ step = "yielded"
    /\ start' = start + length
    /\ step' = "slice"
    /\ UNCHANGED <<rows, bad, length, fits, batches>>

Stopped == step \in {"done", "raised"} /\ UNCHANGED svars

Next == Slice \/ Yield \/ Halve \/ Raise \/ Resume \/ Stopped

(* That the halving ends is part of WriteEnds in WriteSink. *)
Spec == Init /\ [][Next]_svars

-------------------------------------------------------------------------------

(* The generator's state is made of row numbers of its table. *)
TypeOK ==
    /\ rows \in TableRows
    /\ bad \subseteq 0 .. rows - 1
    /\ start \in 0 .. rows
    /\ length \in 0 .. MaxRows
    /\ fits \in BOOLEAN
    /\ step \in Steps
    /\ batches \subseteq [first : Nat, rows : Nat, fits : BOOLEAN]

Holds(b, i) == b.first <= i /\ i < b.first + b.rows

(* Slicing and halving neither repeat nor skip a row: no row is in two
   batches, and when the generator is exhausted every row is in one. *)
EveryRowOnce ==
    /\ \A b, c \in batches : \A i \in 0 .. rows - 1 :
         Holds(b, i) /\ Holds(c, i) => b = c
    /\ step = "done" => \A i \in 0 .. rows - 1 : \E b \in batches : Holds(b, i)

(* Both limits hold of every payload, except that one row is never split. *)
WithinLimits ==
    \A b \in batches : /\ b.rows \in 1 .. MaxRows
                       /\ b.fits \/ b.rows = 1
===============================================================================
