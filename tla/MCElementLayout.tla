-------------------------- MODULE MCElementLayout --------------------------
(* Instances of ElementLayout for TLC.                                      *)
EXTENDS ElementLayout

CONSTANTS Aligns, Bytes   \* what AlignAs and sizeof may be

Parameter(types) == [type : types, align : Aligns, bytes : Bytes]

(* The size in front of a VaryingSize parameter, of more than one byte.     *)
SizeParameter == {p \in Parameter({"plain"}) : p.align = p.bytes /\ p.bytes > 1}

SeqsOf(n, S) == [1 .. n -> S]

FixedLists == UNION {SeqsOf(n, Parameter({"plain", "fixed"})) : n \in 1 .. 3}

VaryingLists ==
  {<<s, v>> : s \in SizeParameter, v \in Parameter({"varying"})}
    \cup {<<s, v, p>> : s \in SizeParameter, v \in Parameter({"varying"}),
                        p \in Parameter({"plain", "fixed"})}
    \cup {<<p, s, v>> : s \in SizeParameter, v \in Parameter({"varying"}),
                        p \in Parameter({"plain", "fixed"})}
    \cup {<<s, v, t, w>> : s \in SizeParameter, t \in SizeParameter,
                           v \in Parameter({"varying"}), w \in Parameter({"varying"})}

(* No parameter is aligned more strictly than the first.                    *)
FixedListsNoOffset == {ps \in FixedLists : ~ HasOffset(ps)}

OffsetLists == {ps \in FixedLists : HasOffset(ps)}

(* Of those, the lists whose only FixedSize parameter is the one the code   *)
(* takes the size of, and whose parameters before the largest one are       *)
(* aligned by their sizes alone.                                            *)
OffsetListsRight ==
  {ps \in OffsetLists :
     /\ Cardinality({k \in DOMAIN ps : ps[k].type = "fixed"}) <= 1
     /\ \A k \in 1 .. LargestIndex(ps) - 1 : \A j \in 1 .. k :
          ps[k].bytes % ps[j].align = 0}

(* Behind the last VaryingSize parameter comes none or one that is aligned  *)
(* to a whole storage element.                                              *)
TailAligned(ps, unit) ==
  LET last == Max(Varying(ps))
  IN  last = Len(ps) \/ ps[last + 1].align = unit

VaryingListsRight == {ps \in VaryingLists : TailAligned(ps, Storage(ps))}

(* With the single header the memory is aligned for the parameters up to    *)
(* the first VaryingSize one: no other is aligned more strictly.  The first *)
(* objects lie right behind their size.                                     *)
SingleAligned(ps) ==
  /\ \A k \in DOMAIN ps : ps[k].align <= Single!Storage(ps)
  /\ 2 \in Varying(ps) => ps[2].align <= ps[1].align

SingleVaryingLists ==
  VaryingLists \cup {<<s, v, p, q>> : s \in SizeParameter, v \in Parameter({"varying"}),
                                      p \in Parameter({"plain"}), q \in SizeParameter}

(* Without VaryingSize parameters a FixedSize one is sized and placed as a  *)
(* plain one of as many bytes, so one of them is enough.                    *)
SingleListsRight ==
  {ps \in SingleVaryingLists : SingleAligned(ps) /\ TailAligned(ps, Single!Storage(ps))}
    \cup {ps \in FixedLists : SingleAligned(ps) /\ \A k \in DOMAIN ps \ {1} : ps[k].type = "plain"}

(* The lists for which the computed sizes and the places agree.             *)
RightLists ==
  [modular |-> FixedListsNoOffset \cup OffsetListsRight \cup VaryingListsRight,
   single  |-> SingleListsRight]

OnlyVaryingLists == [modular |-> VaryingLists]

-----------------------------------------------------------------------------
(* The sizes that the repository's tests expect of memory_consumption().    *)
P(a, b) == [type |-> "plain",   align |-> a, bytes |-> b]
F(a, b) == [type |-> "fixed",   align |-> a, bytes |-> b]
V(a, b) == [type |-> "varying", align |-> a, bytes |-> b]

Consumption(ps, cs, n, varying) == Allocated(ps, NeededMemory(ps, cs, n, varying))

ASSUME TestedConsumption ==
  (* test-vector-alignment.cpp:50, 61, 128, 245 *)
  /\ Consumption(<<P(1, 4), F(32, 4)>>, <<1, 2>>, 2, 0) = 96
  /\ Consumption(<<F(8, 4), P(16, 4), F(1, 4)>>, <<2, 1, 3>>, 2, 0) = 64
  /\ Consumption(<<P(1, 4), P(8, 8), V(8, 4), P(8, 8), V(16, 4)>>,
                 <<1, 1, 1, 1, 1>>, 5, 100) = 336
  /\ Consumption(<<P(8, 8), V(8, 8), P(1, 12), P(16, 4)>>, <<1, 1, 1, 1>>, 5, 40) = 272
  (* test-vector-erase.cpp:65, 72 *)
  /\ \A t \in {<<4, 84, 208>>, <<3, 64, 160>>} :
       Consumption(<<P(1, 4), P(8, 8), V(1, 4), P(8, 8), V(1, 4)>>,
                   <<1, 1, 1, 1, 1>>, t[1], t[2]) = t[3]
  (* test-vector.cpp:46, 56 *)
  /\ Consumption(<<F(1, 2), P(1, 4), P(8, 8), V(1, 4)>>, <<3, 1, 1, 1>>, 2, 24) = 80
  /\ Consumption(<<F(1, 4), P(1, 4), F(1, 4)>>, <<1, 1, 2>>, 2, 0) = 32

(* What memory_consumption() returns with the single header, as compiled.   *)
SingleConsumption(ps, cs, n, varying) ==
  Single!Allocated(ps, Single!NeededMemory(ps, cs, n, varying))

ASSUME CompiledConsumption ==
  LET z == P(8, 8)    \* the size of a VaryingSize parameter
  IN  /\ SingleConsumption(<<z, V(1, 1), P(1, 1), P(1, 1)>>, <<1, 1, 1, 1>>, 2, 10) = 40
      /\ SingleConsumption(<<P(1, 4), z, V(4, 4), P(1, 2)>>, <<1, 1, 1, 1>>, 3, 12) = 80
      /\ SingleConsumption(<<P(1, 1), P(4, 4), P(1, 1)>>, <<1, 1, 1>>, 3, 0) = 36
      /\ SingleConsumption(<<F(2, 2), P(8, 8)>>, <<3, 1>>, 2, 0) = 32
      /\ SingleConsumption(<<z, V(16, 4), P(1, 1)>>, <<1, 1, 1>>, 2, 8) = 64
      /\ SingleConsumption(<<z, V(1, 2), z, V(1, 1)>>, <<1, 1, 1, 1>>, 3, 8) = 96
=============================================================================
