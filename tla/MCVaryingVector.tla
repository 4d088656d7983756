-------------------------- MODULE MCVaryingVector --------------------------
(* Instances of VaryingVector for TLC.                                      *)
EXTENDS VaryingVector

CONSTANTS e, s, l

(* An element whose VaryingSize parameter is empty, a small and a large one *)
MCValue == {e, s, l}
TwoValue == {e, l}
MCUnits == [v \in Value |-> CASE v = e -> 1 [] v = s -> 2 [] v = l -> 3]

(* Bytes in units of two and objects in units of one: erase moves objects   *)
(* to places where the alignment of their element is lost.                  *)
Bytes   == [nontrivial |-> FALSE, alignment |-> 2]
Packed  == [nontrivial |-> FALSE, alignment |-> 1]
Objects == [nontrivial |-> TRUE, alignment |-> 1]
BothKinds == {Bytes, Objects}
OnlyPacked == {Packed}
=============================================================================
