------------------------- MODULE SequenceContainer -------------------------
(***************************************************************************)
(* What a ContiguousVector promises, whatever its parameters and its       *)
(* locator: a bounded sequence of elements.  The README calls it "a        *)
(* container modelled after SequenceContainer" whose members "behave very  *)
(* similar to their stl counterpart".  The detailed vectors (FixedVector,  *)
(* VaryingVector) are shown to implement this specification; it says       *)
(* nothing of memory, addresses, strides or object lifetimes.              *)
(*                                                                         *)
(* Iterators and indices count from 0 as in the code, the elements of      *)
(* items from 1 as sequences do.                                           *)
(***************************************************************************)
EXTENDS Naturals, Sequences

CONSTANTS
  Value,        \* what an element can hold
  Husk,         \* what can be left of an element that was moved from
  MaxCapacity   \* bound on max_element_count, of the model only

VARIABLES
  items,        \* the elements, front first
  capacity      \* max_element_count_: how many elements fit

seqVars == <<items, capacity>>

(* The sequence s without the elements at the indices first .. last - 1.    *)
Without(s, first, last) ==
  [k \in 1 .. Len(s) - (last - first) |->
     IF k <= first THEN s[k] ELSE s[k + (last - first)]]

-----------------------------------------------------------------------------
SeqInit ==
  /\ items = << >>
  /\ capacity \in 0 .. MaxCapacity

SeqEmplaceBack(v) ==
  /\ Len(items) < capacity
  /\ items' = Append(items, v)
  /\ UNCHANGED capacity

SeqEraseRange(first, last) ==
  /\ first <= last
  /\ last <= Len(items)
  /\ items' = Without(items, first, last)
  /\ UNCHANGED capacity

SeqPopBack ==
  /\ items # << >>
  /\ SeqEraseRange(Len(items) - 1, Len(items))

SeqErase(position) == SeqEraseRange(position, position + 1)

SeqClear == SeqEraseRange(0, Len(items))

(* reserve never shrinks and never touches an element.                      *)
SeqReserve(n) ==
  /\ n > capacity
  /\ capacity' = n
  /\ UNCHANGED items

(* An exception leaves reserve: as many elements as before, but any of them *)
(* may have been moved from.                                                *)
SeqReserveFails ==
  /\ Len(items') = Len(items)
  /\ \A k \in DOMAIN items : items'[k] \in {items[k]} \cup Husk
  /\ UNCHANGED capacity

SeqNext ==
  \/ \E v \in Value : SeqEmplaceBack(v)
  \/ SeqPopBack
  \/ \E position \in 0 .. Len(items) - 1 : SeqErase(position)
  \/ \E first, last \in 0 .. Len(items) : SeqEraseRange(first, last)
  \/ SeqClear
  \/ \E n \in 1 .. MaxCapacity : SeqReserve(n)
  \/ SeqReserveFails

SeqSpec == SeqInit /\ [][SeqNext]_seqVars

-----------------------------------------------------------------------------
SeqTypeOK ==
  /\ items \in Seq(Value \cup Husk)
  /\ capacity \in 0 .. MaxCapacity
  /\ Len(items) <= capacity
=============================================================================
