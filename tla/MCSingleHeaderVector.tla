------------------------ MODULE MCSingleHeaderVector ------------------------
(* Instances of SingleHeaderVector for TLC.                                 *)
EXTENDS SingleHeaderVector, TLC

CONSTANTS small, large

Sizes == (small :> 1) @@ (large :> 2)

AllKinds == [varying : BOOLEAN, nontrivial : BOOLEAN]

(* Allocators that stay with their vector, and that go along with memory.   *)
SomeTraits == {[copy |-> b, move |-> b, swap |-> b] : b \in BOOLEAN}

(* Which allocation is fresh makes no difference.                           *)
Symmetric == Permutations(Vector) \cup Permutations(Allocator) \cup Permutations(Block)
=============================================================================
