------------------------- MODULE ElementReferences -------------------------
(***************************************************************************)
(* What a BasicContiguousReference does to the bytes of elements:          *)
(* assignment, swap and comparison.  Parameters whose objects memmove,     *)
(* memcmp or a swap of bytes may handle are handled in runs, from the      *)
(* first byte of the first of them to the last byte of the last, with the  *)
(* padding in between; the objects of all others one by one.               *)
(*                                                                         *)
(* A reference names the allocation its element starts in and the shape of *)
(* the element, the parameters and the number of objects of each, by its   *)
(* place in a table of shapes.                                             *)
(***************************************************************************)
EXTENDS ElementTraits

CONSTANTS
  Shapes,  \* the shapes of elements, a sequence
  Raw,     \* what a byte holds that nobody wrote
  Moved,   \* the value of an object that was moved from
  Null     \* no place

(* What the type traits say of a parameter's objects.  An object is         *)
(* non-trivial, a float equal to another one with different bytes.          *)
Kinds == {"byte", "number", "float", "object"}

ASSUME ShapeAssumption ==
  \A i \in DOMAIN Shapes :
    /\ IsParameterList(Shapes[i].params)
    /\ Shapes[i].counts \in [DOMAIN Shapes[i].params -> Nat]
    /\ ~ HasOffset(Shapes[i].params)
    /\ \A k \in DOMAIN Shapes[i].params :
         /\ Shapes[i].params[k].kind \in Kinds
         /\ Shapes[i].params[k].kind = "object" => Shapes[i].params[k].bytes = 1
(* VaryingSize values are stored along with a std::size_t.                  *)
ASSUME SizesAreNumbers ==
  \A i \in DOMAIN Shapes : \A k \in Varying(Shapes[i].params) :
    Shapes[i].params[k - 1].kind = "number"

-----------------------------------------------------------------------------
(* load_element_at, from the start of an allocation.                        *)
PlacementOf == [i \in DOMAIN Shapes |-> Placement(Shapes[i].params, Shapes[i].counts, 0)]

Parameters(r) == DOMAIN Shapes[r.shape].params
Kind(r, k) == Shapes[r.shape].params[k].kind

(* data_begin and data_end of parameter k, and the bytes from parameter k   *)
(* to parameter l.                                                          *)
Begin(i, k) == PlacementOf[i][k][1]
End(i, k) == PlacementOf[i][k][2]
Bytes(i, k, l) == Begin(i, k) .. End(i, l) - 1

SizeInBytes(r) == Past(PlacementOf[r.shape])

(* A byte of a trivial object holds its value, an object knows its place:   *)
(* bytes of an object that are copied elsewhere are no object.              *)
Byte(v) == [value |-> v, home |-> << >>]
Object(v, block, a) == [value |-> v, home |-> <<block, a>>]

(* The kinds that are std::is_trivially_copy_assignable, ..._move_..., and  *)
(* so on.                                                                   *)
TriviallyAssignable == Kinds \ {"object"}
TriviallySwappable == Kinds \ {"object"}

(* Faulty: the bytes of floats are compared.                                *)
EqualityMemcmpCompatible_Floats == {"byte", "number", "float"}

EqualityMemcmpCompatible == {"byte", "number"}

LexicographicalMemcmpCompatible == {"byte"}

(* calculate_consecutive_indices: the maximal runs of parameters that fit,  *)
(* and those that do not.                                                   *)
Runs(ps, kinds) ==
  LET fits(k) == k \in DOMAIN ps /\ ps[k].kind \in kinds
  IN  {g \in (DOMAIN ps) \X (DOMAIN ps) :
         /\ g[1] <= g[2] /\ \A j \in g[1] .. g[2] : fits(j)
         /\ ~ fits(g[1] - 1) /\ ~ fits(g[2] + 1)}

Manual(ps, kinds) == {k \in DOMAIN ps : ps[k].kind \notin kinds}

(* For each shape, the bytes memmove copies, those it swaps, and objects.   *)
BytesIn(i, groups) == UNION {Bytes(i, g[1], g[2]) : g \in groups}
AssignedBytes ==
  [i \in DOMAIN Shapes |-> BytesIn(i, Runs(Shapes[i].params, TriviallyAssignable))]
SwappedBytes ==
  [i \in DOMAIN Shapes |-> BytesIn(i, Runs(Shapes[i].params, TriviallySwappable))]
ObjectBytes ==
  [i \in DOMAIN Shapes |-> UNION {Bytes(i, k, k) :
                                    k \in Manual(Shapes[i].params, TriviallyAssignable)}]

(* All bytes but those of the padding.                                      *)
ValueBytes ==
  [i \in DOMAIN Shapes |-> UNION {Bytes(i, k, k) : k \in DOMAIN Shapes[i].params}]

Objects(r) == ObjectBytes[r.shape]

(* An element is there: its allocation, large enough, and its objects.      *)
IsAlive(h, r) ==
  /\ r.block \in DOMAIN h
  /\ SizeInBytes(r) <= Cardinality(DOMAIN h[r.block].cells)
  /\ \A a \in Objects(r) : h[r.block].cells[a].home = <<r.block, a>>

(* The cells with these bytes written over them.                            *)
Written(bytes, cells) ==
  [a \in DOMAIN bytes \cup DOMAIN cells |->
     IF a \in DOMAIN bytes THEN bytes[a] ELSE cells[a]]

(* The heap with other bytes in one allocation.                             *)
Overwrite(h, block, bytes) == [h EXCEPT ![block].cells = Written(bytes, @)]

(* The objects of r in another state, from one heap to another.             *)
Become(h, r, v) == Overwrite(h, r.block, [a \in Objects(r) |-> Object(v, r.block, a)])

(* Objects constructed at the same places of another allocation, and those  *)
(* that are there and assigned to: they stay what they are.                 *)
Constructed(h, source, block) ==
  [a \in Objects(source) |-> Object(h[source.block].cells[a].value, block, a)]
Copies(h, source, block) ==
  [a \in Objects(source) |->
     [h[block].cells[a] EXCEPT !.value = h[source.block].cells[a].value]]

-----------------------------------------------------------------------------
(* Faulty: only the runs are assigned, not the objects between them.        *)
Assigned_RunsOnly(h, source, target, move) ==
  Overwrite(h, target.block,
            [a \in AssignedBytes[source.shape] |-> h[source.block].cells[a]])

(* ElementTraits::assign between elements of the same shape, copying or     *)
(* moving.  A reference to a moved-from object is one like any other.       *)
Assigned(h, source, target, move) ==
  LET from == h[source.block].cells
      left == IF move THEN Become(h, source, Moved) ELSE h
  IN  Overwrite(left, target.block,
                Written([a \in AssignedBytes[source.shape] |-> from[a]],
                        Copies(h, source, target.block)))

(* ElementTraits::swap.                                                     *)
Swapped(h, r, s) ==
  LET bytes(x) == [a \in SwappedBytes[r.shape] |-> h[x.block].cells[a]]
      half == Overwrite(h, r.block, Written(bytes(s), Copies(h, s, r.block)))
  IN  Overwrite(half, s.block, Written(bytes(r), Copies(h, r, s.block)))

-----------------------------------------------------------------------------
(* The value of a byte as its type compares it: 2 is the zero that is not   *)
(* written like 0.                                                          *)
Compared(kind, v) == IF kind = "float" /\ v = 2 THEN 0 ELSE v

(* The values from a parameter to another one, each byte compared as kind.  *)
ValuesOf(h, r, k, l, kind) ==
  [i \in 1 .. Cardinality(Bytes(r.shape, k, l)) |->
     Compared(kind, h[r.block].cells[Begin(r.shape, k) + i - 1].value)]

IsLess(s, t) ==
  \E i \in 1 .. Len(t) :
    /\ i - 1 <= Len(s) /\ \A j \in 1 .. i - 1 : s[j] = t[j]
    /\ i > Len(s) \/ s[i] < t[i]

(* std::equal without the end of the second range.                          *)
IsPrefix(s, t) == \A i \in DOMAIN s : s[i] = t[i]

(* The groups of parameters that a comparison looks at one after the other, *)
(* by their first parameter.                                                *)
Groups(ps, kinds) ==
  LET groups == Runs(ps, kinds) \cup {<<k, k>> : k \in Manual(ps, kinds)}
  IN  [k \in {g[1] : g \in groups} |-> CHOOSE g \in groups : g[1] = k]

EqualityGroups ==
  [i \in DOMAIN Shapes |-> Groups(Shapes[i].params, EqualityMemcmpCompatible)]
LexicographicalGroups ==
  [i \in DOMAIN Shapes |-> Groups(Shapes[i].params, LexicographicalMemcmpCompatible)]

(* ElementTraits::equal: std::memcmp, or parameter by parameter; && looks   *)
(* at them in order.                                                        *)
IsEqualOne(memcmp, s, t) == IF memcmp THEN s = t ELSE IsPrefix(s, t)

IsEqual(h, r, s) ==
  \A k \in DOMAIN EqualityGroups[r.shape] :
    LET memcmp == Kind(r, k) \in EqualityMemcmpCompatible
        values(x) == ValuesOf(h, x, k, EqualityGroups[r.shape][k][2],
                              IF memcmp THEN "byte" ELSE Kind(r, k))
    IN  IsEqualOne(memcmp, values(r), values(s))

(* Faulty: one parameter that is less is enough.                            *)
IsLexicographicallyLess_Any(h, r, s) ==
  \E k \in DOMAIN LexicographicalGroups[r.shape] :
    LET values(x) == ValuesOf(h, x, k, LexicographicalGroups[r.shape][k][2], Kind(r, k))
    IN  IsLess(values(r), values(s))

(* ElementTraits::lexicographical_compare                                   *)
IsLexicographicallyLess(h, r, s) ==
  \A k \in DOMAIN LexicographicalGroups[r.shape] :
    LET values(x) == ValuesOf(h, x, k, LexicographicalGroups[r.shape][k][2], Kind(r, k))
    IN  IsLess(values(r), values(s))

(* The other operators of references.                                       *)
Differs(h, r, s) == ~ IsEqual(h, r, s)
IsAtMost(h, r, s) == ~ IsLexicographicallyLess(h, s, r)
IsGreater(h, r, s) == IsLexicographicallyLess(h, s, r)
IsAtLeast(h, r, s) == ~ IsLexicographicallyLess(h, r, s)
=============================================================================
