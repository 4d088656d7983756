------------------------ MODULE MCVectorIterators ------------------------
(* Instances of VectorIterators for TLC.                                    *)
EXTENDS VectorIterators, TLC

CONSTANTS small, large

Sizes == (small :> 1) @@ (large :> 2)

AllKinds == [varying : BOOLEAN, nontrivial : BOOLEAN]

(* Elements of one parameter of bytes, of one that is not compared as       *)
(* bytes, and of two parameters, where neither of two elements is less.     *)
SomeOrders ==
  {[less |-> {<<small, large>>}, bytes |-> TRUE],
   [less |-> {<<large, small>>}, bytes |-> FALSE],
   [less |-> {}, bytes |-> FALSE]}

(* Allocators that stay with their vector.                                  *)
SomeTraits == {[copy |-> FALSE, move |-> FALSE, swap |-> FALSE]}

(* Which name is fresh makes no difference.                                 *)
Symmetric ==
  UNION {Permutations(S) : S \in {Vector, Iterator, Allocator, Block, Buffer}}
=============================================================================
