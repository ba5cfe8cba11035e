------------------------------ MODULE BatchSlices ------------------------------
(***************************************************************************)
(* iter_batch_slices (_common/contracts.py): cuts a decoded batch into    *)
(* slices of at most batch_rows rows and, but for a single row, at most   *)
(* batch_bytes bytes, each found by a binary search over its length.      *)
(* StreamQuery's HandOver is what is left of it there.                     *)
(*                                                                         *)
(* Which lengths fit from an offset on is up to the data.  The search     *)
(* expects them to be the short ones; nothing here makes them so.          *)
(***************************************************************************)
EXTENDS Integers, Sequences

CONSTANTS
    BatchRows,    \* limits.batch_rows
    BatchSizes    \* the numbers of rows a decoded batch can have

ASSUME RowsAssumption == BatchRows \in Nat \ {0}
ASSUME SizesAssumption == BatchSizes \subseteq Nat

VARIABLES
    rows,      \* batch.num_rows
    offset,    \* the first row of the next slice
    small,     \* the lengths of a slice from offset with nbytes <= batch_bytes
    low, high, size,     \* the search
    step,      \* where the generator stands
    slices     \* the slices yielded so far, as first row and length

vars == <<rows, offset, small, low, high, size, step, slices>>

Init ==
    /\ rows \in BatchSizes
    /\ offset = 0 /\ small = {}
    /\ low = 1 /\ high = 0 /\ size = 0
    /\ step = "slice"
    /\ slices = <<>>

(* Mutated: batch_rows does not bound the slice. *)
UpperUnbounded == rows - offset

Upper == IF BatchRows < rows - offset THEN BatchRows ELSE rows - offset

Begin ==
    /\ step = "slice" /\ offset < rows
    /\ small' \in SUBSET (1 .. Upper)

(* The longest slice fits, and there is nothing to search. *)
TakeUpper ==
    /\ Begin /\ Upper \in small'
    /\ size' = Upper /\ step' = "found"
    /\ UNCHANGED <<rows, offset, low, high, slices>>

Search ==
    /\ Begin /\ Upper \notin small'
    /\ low' = 1 /\ high' = Upper /\ size' = 1
    /\ step' = "search"
    /\ UNCHANGED <<rows, offset, slices>>

Candidate == (low + high) \div 2

(* Mutated: the upper half keeps the candidate. *)
FitsKeeping == Candidate \in small /\ size' = Candidate /\ low' = Candidate
               /\ UNCHANGED high

(* Mutated: a candidate that fits is remembered, one that does not as well. *)
OversizeRemembered == Candidate \notin small /\ high' = Candidate - 1
                      /\ size' = Candidate /\ UNCHANGED low

Fits == Candidate \in small /\ size' = Candidate /\ low' = Candidate + 1
        /\ UNCHANGED high

Oversize == Candidate \notin small /\ high' = Candidate - 1
            /\ UNCHANGED <<low, size>>

Probe ==
    /\ step = "search" /\ low <= high
    /\ Fits \/ Oversize
    /\ UNCHANGED <<rows, offset, small, step, slices>>

Found ==
    /\ step = "search" /\ low > high
    /\ step' = "found"
    /\ UNCHANGED <<rows, offset, small, low, high, size, slices>>

(* Mutated: the next slice starts where the longest one would have ended. *)
YieldUpper ==
    /\ step = "found" /\ step' = "slice"
    /\ slices' = Append(slices, <<offset, size>>)
    /\ offset' = offset + Upper
    /\ UNCHANGED <<rows, small, low, high, size>>

(* The consumer gets the slice and asks for the next one. *)
Yield ==
    /\ step = "found" /\ step' = "slice"
    /\ slices' = Append(slices, <<offset, size>>)
    /\ offset' = offset + size
    /\ UNCHANGED <<rows, small, low, high, size>>

Exhausted ==
    /\ step = "slice" /\ offset >= rows /\ step' = "done"
    /\ UNCHANGED <<rows, offset, small, low, high, size, slices>>

Stopped == step = "done" /\ UNCHANGED vars

Next == TakeUpper \/ Search \/ Probe \/ Found \/ Yield \/ Exhausted \/ Stopped

(* The stream runs the search and the consumer goes on; one that does not
   is in StreamQuery. *)
Spec == Init /\ [][Next]_vars
FairSpec == Spec /\ WF_vars(Next)

-------------------------------------------------------------------------------
(* Properties *)

(* Offsets and lengths stay within the batch and the row limit. *)
TypeOK ==
    /\ rows \in BatchSizes
    /\ offset \in 0 .. rows
    /\ small \subseteq 1 .. BatchRows
    /\ low \in 1 .. BatchRows + 1 /\ high \in 0 .. BatchRows
    /\ size \in 0 .. BatchRows
    /\ step \in {"slice", "search", "found", "done"}
    /\ slices \in Seq(Nat \X Nat)

Start(i) == slices[i][1]
Stop(i) == slices[i][1] + slices[i][2]

(* The slices are the batch, row by row and in its order, without one that
   is empty or has more than batch_rows rows; also when the lengths that fit
   are not the short ones. *)
SlicesTile ==
    /\ \A i \in 1 .. Len(slices) :
         /\ slices[i][2] \in 1 .. BatchRows
         /\ Start(i) = IF i = 1 THEN 0 ELSE Stop(i - 1)
    /\ step = "done" =>
         rows = IF slices = <<>> THEN 0 ELSE Stop(Len(slices))

Grows == \A n \in small : 1 .. n \subseteq small

(* A slice has at most batch_bytes bytes unless it is a single row, whatever
   its parts have, and when the bytes grow with the rows it is the longest
   such slice: the search neither overshoots nor gives up early. *)
LargestThatFits ==
    step = "found" =>
        /\ size \in small \/ size = 1
        /\ Grows => \A n \in small : n <= size

(* The search ends, and so does the batch. *)
SlicingEnds == <>(step = "done")
===============================================================================
