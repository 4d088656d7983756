------------------------- MODULE MCVectorOwnership -------------------------
(* Instances of VectorOwnership for TLC.                                    *)
EXTENDS VectorOwnership, TLC

(* Vectors, values, allocators, and the names of allocations and tables     *)
(* mean nothing but themselves: which free name the next one gets makes no  *)
(* difference.                                                              *)
Symmetric ==
  Permutations(Vector) \cup Permutations(Value) \cup Permutations(Allocator)
    \cup Permutations(Block) \cup Permutations(Table)
=============================================================================
