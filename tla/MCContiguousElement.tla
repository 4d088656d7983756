------------------------ MODULE MCContiguousElement ------------------------
(* Instances of ContiguousElement for TLC.                                  *)
EXTENDS ContiguousElement, TLC

P(kind, a, b) == [type |-> "plain",   kind |-> kind, align |-> a, bytes |-> b]
F(kind, a, b) == [type |-> "fixed",   kind |-> kind, align |-> a, bytes |-> b]
V(kind, a, b) == [type |-> "varying", kind |-> kind, align |-> a, bytes |-> b]

ShapeOf(ps, cs) == [params |-> ps, counts |-> cs]

(* Runs of each kind, with and without padding in them, broken by objects.  *)
Numbers == ShapeOf(<<P("number", 2, 2), P("byte", 1, 1), P("number", 2, 2)>>, <<1, 1, 1>>)
Mixed   == ShapeOf(<<P("byte", 1, 1), P("float", 1, 1), F("object", 1, 1)>>, <<1, 1, 2>>)
Broken  == ShapeOf(<<F("byte", 2, 1), P("object", 1, 1), P("byte", 1, 1)>>, <<2, 1, 1>>)

(* VaryingSize parameters of two sizes, with objects and with bytes.        *)
Objects1(n) == ShapeOf(<<P("number", 1, 1), V("object", 1, 1), P("byte", 1, 1)>>, <<1, n, 1>>)
Bytes1(n)   == ShapeOf(<<P("number", 1, 1), V("byte", 1, 1), P("byte", 1, 1)>>, <<1, n, 1>>)
Aligned1(n) == ShapeOf(<<P("number", 1, 1), V("object", 2, 1)>>, <<1, n>>)

SomeShapes ==
  <<Numbers, Mixed, Broken, Objects1(1), Objects1(2), Bytes1(1), Bytes1(2),
    Aligned1(0), Aligned1(2)>>

CONSTANTS s1, s2

TwoOf(i, j) == s1 :> i @@ s2 :> j

SomeVectors == {TwoOf(i, i) : i \in 1 .. 3} \cup {TwoOf(i, i + 1) : i \in {4, 6, 8}}

(* Elements that are the same, that differ everywhere and not in one        *)
(* direction, and in how zero is written.                                   *)
SomeFillings ==
  {TwoOf(<<0, 0, 0>>, <<0, 0, 0>>), TwoOf(<<0, 1, 0>>, <<1, 0, 1>>),
   TwoOf(<<0, 0, 0>>, <<0, 2, 0>>)}

(* Allocators that can be told apart, and std::allocator.  Only swap itself *)
(* looks at propagate_on_container_swap.                                    *)
SomeTraits ==
  {t \in AllTraits : ~ t.always_equal /\ t.swap = t.copy}
    \cup {[copy |-> FALSE, move |-> TRUE, swap |-> FALSE, always_equal |-> TRUE]}

(* Which allocation is fresh makes no difference.                           *)
Symmetric == Permutations(Element) \cup Permutations(Allocator) \cup Permutations(Block)
=============================================================================
