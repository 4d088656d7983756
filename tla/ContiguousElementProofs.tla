---------------------- MODULE ContiguousElementProofs ----------------------
(***************************************************************************)
(* Theorems about ContiguousElement: for any elements in memory of their   *)
(* own or of a vector, any shapes, allocators and traits.                  *)
(*                                                                         *)
(*   - Every allocation has one owner (any caller), which returns it with  *)
(*     the allocator and the size it was made with (a caller that does not *)
(*     assign elements of other sizes to each other through references).   *)
(*     Memory keeps its size only if no call writes beyond it.  That is    *)
(*     why the second needs what ElementTraits computes: that the bytes of *)
(*     all objects and runs of an element lie within its size              *)
(*     (BytesInside).  The invariant is OwnInv.                            *)
(*   - Every element with a value is intact: its objects are where they    *)
(*     were made, and no other bytes are objects.  Then calls are defined, *)
(*     and each is a step of ElementValues.  The invariant is ObjInv.      *)
(*   - Elements hold numbers and the sizes they were stored with (AllValid *)
(*     follows from the steps of ElementValues), so the bytes that == and  *)
(*     < look at tell their values.                                        *)
(***************************************************************************)
EXTENDS ContiguousElement, ElementTraitsProofs

(* The caller that keeps away from the one call which writes beyond an      *)
(* element.                                                                 *)
SameSizes == "other_sizes" \in Avoided

IsAllocation(a) ==
  /\ a = [allocator |-> a.allocator, cells |-> a.cells]
  /\ SameSizes => \E n \in Nat : DOMAIN a.cells = 0 .. n - 1

(* A heap is a function of some elements of the vector and blocks.          *)
IsHeap(h) ==
  /\ h = [b \in DOMAIN h |-> h[b]]
  /\ DOMAIN h \subseteq Slot \cup Block
  /\ \A b \in DOMAIN h : IsAllocation(h[b])

(* The elements of a vector are where they were when it was made.           *)
AreSlots == \E vector \in Vectors : slots = [s \in DOMAIN vector |-> Reference(s, vector[s])]

UsedShapes == {slots[s].shape : s \in DOMAIN slots}

IsElement(x) ==
  /\ x = [memory |-> x.memory, reference |-> x.reference]
  /\ x.memory = Memory(x.memory.block, x.memory.units, x.memory.allocator)
  /\ x.reference = Reference(x.reference.block, x.reference.shape)
  /\ x.memory.units \in Nat
  /\ x.reference.shape \in UsedShapes

AreElements(s) ==
  /\ s = [e \in DOMAIN s |-> s[e]]
  /\ DOMAIN s \subseteq Element
  /\ \A e \in DOMAIN s : IsElement(s[e])

(* The allocations that no element of the vector lies in.                   *)
Owned(h) == DOMAIN h \ DOMAIN slots

(* SoleOwner in a form that a step can be checked against: the elements     *)
(* with memory and their allocations match one to one.                      *)
OneOwner ==
  /\ DOMAIN slots \subseteq DOMAIN heap
  /\ \A e \in DOMAIN elements : ~ IsHollow(e) =>
       /\ elements[e].memory.block \in Owned(heap)
       /\ elements[e].reference.block = elements[e].memory.block
  /\ \A b \in Owned(heap) : \E e \in DOMAIN elements : elements[e].memory.block = b
  /\ \A e, f \in DOMAIN elements :
       e # f /\ elements[e].memory.block = elements[f].memory.block => IsHollow(e)

(* m's memory is an allocation of h that m may deallocate.                  *)
Fits(m, h) ==
  m.block # Null =>
    /\ SameAllocator(h[m.block].allocator, m.allocator)
    /\ DOMAIN h[m.block].cells = 0 .. m.units * Storage(params) - 1

AllFit == \A e \in DOMAIN elements : Fits(elements[e].memory, heap)

(* The inductive invariant of ownership.                                    *)
OwnInv ==
  /\ AreSlots /\ IsHeap(heap) /\ AreElements(elements) /\ OneOwner
  /\ SameSizes => AllFit

-----------------------------------------------------------------------------
(* All bytes that the operators of references touch belong to the element.  *)
LEMMA BytesInside ==
  ASSUME NEW i \in DOMAIN Shapes
  PROVE  LET size == Past(PlacementOf[i])
         IN  /\ size \in Nat
             /\ AssignedBytes[i] \subseteq 0 .. size - 1
             /\ SwappedBytes[i] \subseteq 0 .. size - 1
             /\ ObjectBytes[i] \subseteq 0 .. size - 1
  <1> DEFINE ps == Shapes[i].params
             cs == Shapes[i].counts
             n == Len(ps)
             p == PlacementOf[i]
             size == Past(p)
  <1>1. IsParameterList(ps) /\ \A k \in DOMAIN ps : cs[k] \in Nat
    BY ShapeAssumption
  <1>2. n \in Nat /\ n > 0 /\ DOMAIN ps = 1 .. n
    BY <1>1, ListFacts
  <1>3. p = Placement(ps, cs, 0)
    BY DEF PlacementOf
  <1> HIDE DEF ps, cs, p
  <1>4. /\ DOMAIN p = DOMAIN ps
        /\ \A k \in DOMAIN ps : p[k][1] \in Nat /\ p[k][2] \in Nat
        /\ \A j, k \in DOMAIN ps : j < k => p[j][2] <= p[k][1]
        /\ \A k \in DOMAIN ps : p[k][1] <= p[k][2]
    <2> DEFINE zero == 0
    <2>1. zero \in Nat
      OBVIOUS
    <2>2. p = Placement(ps, cs, zero)
      BY <1>3
    <2> HIDE DEF zero
    <2> QED
      BY <1>1, <2>1, <2>2, PlacesInOrder
  <1>5. Len(p) = n
    <2>1. p = [k \in 1 .. n |-> p[k]]
      BY <1>2, <1>3, <1>4 DEF Placement
    <2> HIDE DEF n
    <2>2. Len([k \in 1 .. n |-> p[k]]) = n
      BY <1>2
    <2> QED
      BY <2>1, <2>2
  <1>6. size = p[n][2] /\ size \in Nat /\ n \in DOMAIN ps
    BY <1>2, <1>4, <1>5 DEF Past
  <1> HIDE DEF n, size
  <1>7. ASSUME NEW k \in DOMAIN ps PROVE p[k][2] <= size
    <2>1. k = n \/ (k < n /\ p[k][2] <= p[n][1])
      BY <1>2, <1>4, <1>6
    <2> QED
      BY <1>4, <1>6, <2>1
  <1>8. ASSUME NEW k \in DOMAIN ps, NEW l \in DOMAIN ps PROVE Bytes(i, k, l) \subseteq 0 .. size - 1
    <2>1. p[k][1] \in Nat /\ p[l][2] \in Nat /\ p[l][2] <= size
      BY <1>4, <1>7
    <2>2. Bytes(i, k, l) = p[k][1] .. p[l][2] - 1
      BY DEF Bytes, Begin, End, p
    <2> QED
      BY <1>6, <2>1, <2>2
  <1>9. ASSUME NEW kinds, NEW g \in Runs(ps, kinds) PROVE g[1] \in DOMAIN ps /\ g[2] \in DOMAIN ps
    BY DEF Runs
  <1>10. ASSUME NEW kinds, NEW k \in Manual(ps, kinds) PROVE k \in DOMAIN ps
    BY DEF Manual
  <1>11. AssignedBytes[i] \subseteq 0 .. size - 1
    BY <1>8, <1>9 DEF AssignedBytes, BytesIn, ps
  <1>12. SwappedBytes[i] \subseteq 0 .. size - 1
    BY <1>8, <1>9 DEF SwappedBytes, BytesIn, ps
  <1>13. ObjectBytes[i] \subseteq 0 .. size - 1
    BY <1>8, <1>10 DEF ObjectBytes, ps
  <1> QED
    BY <1>6, <1>11, <1>12, <1>13 DEF size, p

(* The shapes of the elements of one vector.                                *)
LEMMA ShapesInUse ==
  ASSUME AreSlots
  PROVE  /\ UsedShapes \subseteq DOMAIN Shapes
         /\ \A i \in UsedShapes : Shapes[i].params = params
         /\ IsFixedSizeOrPlain => \A i, j \in UsedShapes : i = j
         /\ IsParameterList(params)
         /\ Storage(params) \in Nat /\ Storage(params) > 0
         /\ DOMAIN slots \subseteq Slot
         /\ \A s \in DOMAIN slots : slots[s].block = s
  <1>1. PICK vector \in Vectors : slots = [s \in DOMAIN vector |-> Reference(s, vector[s])]
    BY DEF AreSlots
  <1>2. /\ \A s \in DOMAIN vector : vector[s] \in DOMAIN Shapes
        /\ DOMAIN vector \subseteq Slot /\ DOMAIN vector # {}
        /\ \A s, t \in DOMAIN vector :
             /\ Shapes[vector[s]].params = Shapes[vector[t]].params
             /\ AllFixed(Shapes[vector[s]].params) => vector[s] = vector[t]
    <2>1. /\ vector \in [DOMAIN vector -> DOMAIN Shapes]
          /\ DOMAIN vector \in (SUBSET Slot) \ {{}}
      BY VectorsAssumption
    <2>2. ASSUME NEW s \in DOMAIN vector, NEW t \in DOMAIN vector
          PROVE  /\ Shapes[vector[s]].params = Shapes[vector[t]].params
                 /\ AllFixed(Shapes[vector[s]].params) => vector[s] = vector[t]
      BY VectorsAssumption
    <2>3. ASSUME NEW s \in DOMAIN vector PROVE vector[s] \in DOMAIN Shapes
      BY <2>1
    <2> QED
      BY <2>1, <2>2, <2>3
  <1>3. /\ DOMAIN slots = DOMAIN vector
        /\ \A s \in DOMAIN vector : slots[s].shape = vector[s] /\ slots[s].block = s
    BY <1>1 DEF Reference
  <1> DEFINE first == CHOOSE s \in DOMAIN slots : TRUE
  <1>4. first \in DOMAIN vector
    BY <1>2, <1>3
  <1> HIDE DEF first
  <1>5. params = Shapes[vector[first]].params
    BY <1>3, <1>4 DEF params, first
  <1>6. IsParameterList(params)
    BY <1>2, <1>4, <1>5, ShapeAssumption
  <1>7. Storage(params) \in Nat /\ Storage(params) > 0
    BY <1>6, StorageIsLargest
  <1>8. \A i \in UsedShapes : \E s \in DOMAIN vector : i = vector[s]
    BY <1>3 DEF UsedShapes
  <1>9. /\ UsedShapes \subseteq DOMAIN Shapes
        /\ \A i \in UsedShapes : Shapes[i].params = params
    BY <1>2, <1>4, <1>5, <1>8
  <1>10. IsFixedSizeOrPlain => \A i, j \in UsedShapes : i = j
    BY <1>2, <1>4, <1>5, <1>8 DEF IsFixedSizeOrPlain
  <1> QED
    BY <1>2, <1>3, <1>6, <1>7, <1>9, <1>10

(* Whole units are allocated.                                               *)
LEMMA UnitsAreNumbers ==
  ASSUME AreSlots, NEW bytes \in Nat
  PROVE  Units(bytes) \in Nat
  <1>1. Storage(params) \in Nat /\ Storage(params) > 0
    BY ShapesInUse
  <1>2. Align(bytes, Storage(params)) \in Nat
    BY <1>1, AlignRoundsUp
  <1> QED
    BY <1>1, <1>2 DEF Units, Allocated

(* There is an address that is not in use: every allocation has an owner,   *)
(* and the elements do not have all of them.                                *)
LEMMA FreshIsFree ==
  ASSUME OwnInv
  PROVE  Fresh \in Block /\ Fresh \notin DOMAIN heap /\ Fresh # Null
  <1> DEFINE f == [e \in Element |-> IF e \in DOMAIN elements /\ elements[e].memory.block \in Block
                                     THEN elements[e].memory.block ELSE Null]
  <1>1. f \in [Element -> Block \cup {Null}]
    OBVIOUS
  <1>2. PICK b \in Block : b \notin {f[e] : e \in Element}
    BY <1>1, FreshAssumption
  <1>3. b \notin DOMAIN heap
    <2>1. SUFFICES ASSUME b \in DOMAIN heap PROVE FALSE
      OBVIOUS
    <2>2. b \in Owned(heap)
      BY <2>1, ShapesInUse, ElementNames DEF OwnInv, Owned
    <2>3. PICK e \in DOMAIN elements : elements[e].memory.block = b
      BY <2>2 DEF OwnInv, OneOwner
    <2>4. e \in Element /\ f[e] = b
      BY <2>3 DEF OwnInv, AreElements
    <2> QED
      BY <1>2, <2>4
  <1> QED
    BY <1>3, ElementNames DEF Fresh

-----------------------------------------------------------------------------
(* The allocations S of g are those of h.                                   *)
SameAllocations(h, g, S) ==
  \A b \in S :
    /\ g[b].allocator = h[b].allocator
    /\ SameSizes => DOMAIN g[b].cells = DOMAIN h[b].cells

(* g is h with other contents.                                              *)
Kept(h, g) == IsHeap(g) /\ DOMAIN g = DOMAIN h /\ SameAllocations(h, g, DOMAIN h)

LEMMA HeapIsKept ==
  ASSUME NEW h, IsHeap(h)
  PROVE  Kept(h, h)
  BY DEF Kept, SameAllocations

LEMMA KeptIsTransitive ==
  ASSUME NEW h, NEW g, NEW k, Kept(h, g), Kept(g, k)
  PROVE  Kept(h, k)
  <1>1. IsHeap(k) /\ DOMAIN k = DOMAIN h
    BY DEF Kept
  <1>2. ASSUME NEW b \in DOMAIN h
        PROVE  /\ k[b].allocator = h[b].allocator
               /\ SameSizes => DOMAIN k[b].cells = DOMAIN h[b].cells
    BY DEF Kept, SameAllocations
  <1> QED
    BY <1>1, <1>2 DEF Kept, SameAllocations

(* Bytes written within an allocation change only what it contains.         *)
LEMMA OverwriteKeeps ==
  ASSUME NEW h, IsHeap(h), NEW b, NEW f,
         b \in DOMAIN h /\ SameSizes => DOMAIN f \subseteq DOMAIN h[b].cells
  PROVE  Kept(h, Overwrite(h, b, f))
  <1> DEFINE w == Written(f, h[b].cells)
             g == [h EXCEPT ![b].cells = w]
  <1>1. h = [c \in DOMAIN h |-> h[c]] /\ DOMAIN h \subseteq Slot \cup Block
    BY DEF IsHeap
  <1>2. b \in DOMAIN h /\ SameSizes => DOMAIN w = DOMAIN h[b].cells
    BY DEF Written
  <1> HIDE DEF w
  <1>3. \A c \in DOMAIN h : c # b => g[c] = h[c]
    BY <1>1
  <1>4. ASSUME b \in DOMAIN h
        PROVE  g[b] = [allocator |-> h[b].allocator, cells |-> w]
    BY <1>1, <1>4 DEF IsHeap, IsAllocation
  <1>5. DOMAIN g = DOMAIN h /\ g = [c \in DOMAIN g |-> g[c]]
    BY <1>1
  <1>6. Overwrite(h, b, f) = g
    BY DEF Overwrite, w
  <1> HIDE DEF g
  <1>7. ASSUME NEW c \in DOMAIN h
        PROVE  IsAllocation(g[c]) /\ g[c].allocator = h[c].allocator
               /\ (SameSizes => DOMAIN g[c].cells = DOMAIN h[c].cells)
    BY <1>2, <1>3, <1>4 DEF IsHeap, IsAllocation
  <1>8. Kept(h, g)
    BY <1>1, <1>5, <1>7 DEF Kept, SameAllocations, IsHeap
  <1> QED
    BY <1>6, <1>8

(* An element that is alive lies within its allocation.                     *)
LEMMA AliveIsInside ==
  ASSUME AreSlots, NEW h, IsHeap(h), SameSizes, NEW b \in DOMAIN h, NEW n \in Nat,
         n <= Cardinality(DOMAIN h[b].cells)
  PROVE  0 .. n - 1 \subseteq DOMAIN h[b].cells
  <1>1. PICK m \in Nat : DOMAIN h[b].cells = 0 .. m - 1
    BY DEF IsHeap, IsAllocation
  <1>2. Cardinality(0 .. m - 1) = m
    <2>1. m - 1 \in Int /\ 0 \in Int
      BY <1>1
    <2>2. Cardinality(0 .. m - 1) = IF 0 > m - 1 THEN 0 ELSE m - 1 - 0 + 1
      BY <2>1, FS_Interval
    <2> QED
      BY <1>1, <2>2
  <1> QED
    BY <1>1, <1>2

LEMMA ElementIsInside ==
  ASSUME AreSlots, NEW h, IsHeap(h), SameSizes, NEW b \in DOMAIN h,
         NEW r, r.shape \in UsedShapes, SizeInBytes(r) <= Cardinality(DOMAIN h[b].cells)
  PROVE  /\ AssignedBytes[r.shape] \subseteq DOMAIN h[b].cells
         /\ SwappedBytes[r.shape] \subseteq DOMAIN h[b].cells
         /\ Objects(r) \subseteq DOMAIN h[b].cells
  <1> DEFINE n == SizeInBytes(r)
  <1>1. r.shape \in DOMAIN Shapes
    BY ShapesInUse
  <1>2. /\ n \in Nat
        /\ AssignedBytes[r.shape] \subseteq 0 .. n - 1
        /\ SwappedBytes[r.shape] \subseteq 0 .. n - 1
        /\ Objects(r) \subseteq 0 .. n - 1
    BY <1>1, BytesInside DEF SizeInBytes, Objects
  <1> HIDE DEF n
  <1>3. 0 .. n - 1 \subseteq DOMAIN h[b].cells
    BY <1>2, AliveIsInside DEF n
  <1> QED
    BY <1>2, <1>3

(* Each of the ways in which elements are written keeps the allocations.    *)
LEMMA BecomeKeeps ==
  ASSUME AreSlots, NEW h, IsHeap(h), NEW r, r.shape \in UsedShapes, IsAlive(h, r), NEW v
  PROVE  Kept(h, Become(h, r, v))
  <1> DEFINE f == [a \in Objects(r) |-> Object(v, r.block, a)]
  <1>1. SameSizes => DOMAIN f \subseteq DOMAIN h[r.block].cells
    BY ElementIsInside DEF IsAlive
  <1>2. Become(h, r, v) = Overwrite(h, r.block, f)
    BY DEF Become
  <1> HIDE DEF f
  <1> QED
    BY <1>1, <1>2, OverwriteKeeps

LEMMA LeftKeeps ==
  ASSUME AreSlots, NEW h, IsHeap(h), NEW r, r.shape \in UsedShapes, IsAlive(h, r), NEW move
  PROVE  Kept(h, IF move THEN Become(h, r, Moved) ELSE h)
  BY BecomeKeeps, HeapIsKept

LEMMA AssignedKeeps ==
  ASSUME AreSlots, NEW h, IsHeap(h), NEW source, NEW target, NEW move,
         source.shape \in UsedShapes, target.shape \in UsedShapes,
         IsAlive(h, source), IsAlive(h, target),
         SameSizes => source.shape = target.shape
  PROVE  Kept(h, Assigned(h, source, target, move))
  <1> DEFINE left == IF move THEN Become(h, source, Moved) ELSE h
             f == Written([a \in AssignedBytes[source.shape] |-> h[source.block].cells[a]],
                          Copies(h, source, target.block))
  <1>1. Kept(h, left)
    BY LeftKeeps
  <1>2. DOMAIN f = AssignedBytes[source.shape] \cup Objects(source)
    BY DEF Written, Copies
  <1>3. SameSizes => DOMAIN f \subseteq DOMAIN h[target.block].cells
    BY <1>2, ElementIsInside DEF IsAlive, Objects
  <1>4. Assigned(h, source, target, move) = Overwrite(left, target.block, f)
    BY DEF Assigned
  <1>5. target.block \in DOMAIN h
    BY DEF IsAlive
  <1> HIDE DEF left, f
  <1>6. IsHeap(left) /\ (SameSizes => DOMAIN f \subseteq DOMAIN left[target.block].cells)
    BY <1>1, <1>3, <1>5 DEF Kept, SameAllocations
  <1>7. Kept(left, Overwrite(left, target.block, f))
    BY <1>6, OverwriteKeeps
  <1> QED
    BY <1>1, <1>4, <1>7, KeptIsTransitive

LEMMA SwappedKeeps ==
  ASSUME AreSlots, NEW h, IsHeap(h), NEW r, NEW s,
         r.shape \in UsedShapes, s.shape \in UsedShapes, IsAlive(h, r), IsAlive(h, s),
         SameSizes => r.shape = s.shape
  PROVE  Kept(h, Swapped(h, r, s))
  <1> DEFINE bytes(x) == [a \in SwappedBytes[r.shape] |-> h[x.block].cells[a]]
             f == Written(bytes(s), Copies(h, s, r.block))
             g == Written(bytes(r), Copies(h, r, s.block))
             half == Overwrite(h, r.block, f)
  <1>1. /\ DOMAIN f = SwappedBytes[r.shape] \cup Objects(s)
        /\ DOMAIN g = SwappedBytes[r.shape] \cup Objects(r)
    BY DEF Written, Copies
  <1>2. SameSizes => /\ DOMAIN f \subseteq DOMAIN h[r.block].cells
                     /\ DOMAIN g \subseteq DOMAIN h[s.block].cells
    BY <1>1, ElementIsInside DEF IsAlive, Objects
  <1>3. Swapped(h, r, s) = Overwrite(half, s.block, g)
    BY DEF Swapped
  <1>4. s.block \in DOMAIN h
    BY DEF IsAlive
  <1> HIDE DEF f, g
  <1>5. Kept(h, half)
    BY <1>2, OverwriteKeeps
  <1> HIDE DEF half
  <1>6. IsHeap(half) /\ (SameSizes => DOMAIN g \subseteq DOMAIN half[s.block].cells)
    BY <1>2, <1>4, <1>5 DEF Kept, SameAllocations
  <1>7. Kept(half, Overwrite(half, s.block, g))
    BY <1>6, OverwriteKeeps
  <1> QED
    BY <1>3, <1>5, <1>7, KeptIsTransitive

LEMMA StoredKeeps ==
  ASSUME AreSlots, NEW h, IsHeap(h), NEW source, source.shape \in UsedShapes,
         NEW n \in Nat, NEW block, NEW move, MayStore(h, source, n, block)
  PROVE  Kept(h, Stored(h, source, n, block, move))
  <1> DEFINE left == IF move THEN Become(h, source, Moved) ELSE h
             f == Written(Constructed(h, source, block),
                          [a \in 0 .. n - 1 |-> h[source.block].cells[a]])
  <1>1. IsAlive(h, source) /\ block \in DOMAIN h /\ n <= Cardinality(DOMAIN h[block].cells)
        /\ SizeInBytes(source) <= Cardinality(DOMAIN h[block].cells)
    BY DEF MayStore
  <1>2. Kept(h, left)
    BY <1>1, LeftKeeps
  <1>3. DOMAIN f = Objects(source) \cup 0 .. n - 1
    BY DEF Written, Constructed
  <1>4. SameSizes => DOMAIN f \subseteq DOMAIN h[block].cells
    BY <1>1, <1>3, ElementIsInside, AliveIsInside
  <1>5. Stored(h, source, n, block, move) = Overwrite(left, block, f)
    BY DEF Stored
  <1> HIDE DEF left, f
  <1>6. IsHeap(left) /\ (SameSizes => DOMAIN f \subseteq DOMAIN left[block].cells)
    BY <1>1, <1>2, <1>4 DEF Kept, SameAllocations
  <1>7. Kept(left, Overwrite(left, block, f))
    BY <1>6, OverwriteKeeps
  <1> QED
    BY <1>2, <1>5, <1>7, KeptIsTransitive

LEMMA DestroyedKeeps ==
  ASSUME OwnInv, NEW e \in DOMAIN elements, MayDestroy(e)
  PROVE  Kept(heap, Destroyed(e))
  <1> DEFINE r == elements[e].reference
             f == [a \in Objects(r) |-> Byte(Raw)]
  <1>1. IsHeap(heap) /\ AreSlots /\ r.shape \in UsedShapes
    BY DEF OwnInv, AreElements, IsElement
  <1>2. CASE elements[e].memory.block = Null
    BY <1>1, <1>2, HeapIsKept DEF Destroyed
  <1>3. CASE elements[e].memory.block # Null
    <2>1. IsAlive(heap, r)
      BY <1>3 DEF MayDestroy
    <2>2. SameSizes => DOMAIN f \subseteq DOMAIN heap[r.block].cells
      BY <1>1, <2>1, ElementIsInside DEF IsAlive
    <2>3. Destroyed(e) = Overwrite(heap, r.block, f)
      BY <1>3 DEF Destroyed
    <2> HIDE DEF f, r
    <2> QED
      BY <1>1, <2>2, <2>3, OverwriteKeeps
  <1> QED
    BY <1>2, <1>3

(* g is h with an allocation more at b, from a.                             *)
AllocatedIn(h, b, units, a, g) ==
  /\ IsHeap(g)
  /\ DOMAIN g = DOMAIN h \cup {b}
  /\ g[b].allocator = a
  /\ DOMAIN g[b].cells = 0 .. units * Storage(params) - 1
  /\ SameAllocations(h, g, DOMAIN h \ {b})

LEMMA AllocateHeap ==
  ASSUME AreSlots, NEW h, IsHeap(h), NEW b \in Block, NEW units \in Nat, NEW a
  PROVE  AllocatedIn(h, b, units, a, Allocate(h, b, units, a))
  <1> DEFINE n == units * Storage(params)
             c == [i \in 0 .. n - 1 |-> Byte(Raw)]
             g == Allocate(h, b, units, a)
  <1>1. n \in Nat
    BY ShapesInUse
  <1>2. DOMAIN c = 0 .. n - 1
    OBVIOUS
  <1>3. g = [x \in DOMAIN h \cup {b} |-> IF x = b THEN [allocator |-> a, cells |-> c] ELSE h[x]]
    BY DEF Allocate
  <1> HIDE DEF n, c
  <1>4. IsAllocation([allocator |-> a, cells |-> c])
    BY <1>1, <1>2 DEF IsAllocation
  <1> HIDE DEF g
  <1>5. IsHeap(g)
    BY <1>3, <1>4 DEF IsHeap
  <1>6. SameAllocations(h, g, DOMAIN h \ {b})
    BY <1>3 DEF SameAllocations
  <1>7. AllocatedIn(h, b, units, a, g)
    BY <1>2, <1>3, <1>5, <1>6 DEF AllocatedIn, n
  <1> QED
    BY <1>7 DEF g

LEMMA DeallocateHeap ==
  ASSUME NEW h, IsHeap(h), NEW b
  PROVE  /\ IsHeap(Deallocate(h, b))
         /\ DOMAIN Deallocate(h, b) = DOMAIN h \ {b}
         /\ SameAllocations(h, Deallocate(h, b), DOMAIN h \ {b})
  BY DEF Deallocate, IsHeap, SameAllocations

-----------------------------------------------------------------------------
(* What no step changes.                                                    *)
LEMMA Frame ==
  ASSUME OwnInv, UNCHANGED <<traits, slots>>, IsHeap(heap'), AreElements(elements')
  PROVE  AreSlots' /\ IsHeap(heap)' /\ AreElements(elements)'
  <1>1. AreSlots'
    BY DEF OwnInv, AreSlots, Reference
  <1>2. IsHeap(heap)'
    BY DEF IsHeap, IsAllocation
  <1>3. AreElements(elements)'
    BY DEF AreElements, IsElement, Memory, Reference, UsedShapes
  <1> QED
    BY <1>1, <1>2, <1>3

LEMMA SameFit ==
  ASSUME UNCHANGED <<traits, slots>>, \A e \in DOMAIN elements' : Fits(elements'[e].memory, heap')
  PROVE  AllFit'
  BY DEF AllFit, Fits, SameAllocator, params

(* The memory of e, none before e is constructed.                           *)
BlockOf(e) == IF e \in DOMAIN elements THEN elements[e].memory.block ELSE Null

(* n is the memory m, with the same or an equal allocator.                  *)
SameMemory(m, n) ==
  n.block = m.block /\ n.units = m.units /\ SameAllocator(m.allocator, n.allocator)

LEMMA SameMemoryFits ==
  ASSUME NEW h, NEW g, NEW m, NEW n, Fits(m, h), SameMemory(m, n), SameSizes,
         m.block # Null => SameAllocations(h, g, {m.block})
  PROVE  Fits(n, g)
  BY DEF Fits, SameMemory, SameAllocations, SameAllocator

LEMMA EqualAllocator ==
  ASSUME NEW a
  PROVE  SameAllocator(a, a)
  BY DEF SameAllocator

(* x refers into its own memory.                                            *)
AtHome(x) == x.memory.block # Null => x.reference.block = x.memory.block

(* Every element keeps its memory, whatever the bytes in it.                *)
LEMMA SameMemoryOwn ==
  ASSUME OwnInv, UNCHANGED <<traits, slots>>, Kept(heap, heap'), AreElements(elements'),
         DOMAIN elements' = DOMAIN elements,
         \A x \in DOMAIN elements : /\ SameMemory(elements[x].memory, elements'[x].memory)
                                    /\ AtHome(elements'[x])
  PROVE  OwnInv'
  <1>1. AreSlots' /\ IsHeap(heap)' /\ AreElements(elements)'
    BY Frame DEF Kept
  <1>2. OneOwner'
    BY DEF OwnInv, OneOwner, Owned, IsHollow, Kept, SameMemory, AtHome
  <1>3. ASSUME SameSizes PROVE AllFit'
    <2>1. ASSUME NEW x \in DOMAIN elements' PROVE Fits(elements'[x].memory, heap')
      <3>1. Fits(elements[x].memory, heap)
        BY <1>3 DEF OwnInv, AllFit
      <3>2. elements[x].memory.block # Null => SameAllocations(heap, heap', {elements[x].memory.block})
        BY DEF OwnInv, OneOwner, Owned, IsHollow, Kept, SameAllocations
      <3> QED
        BY <1>3, <3>1, <3>2, SameMemoryFits
    <2> QED
      BY <2>1, SameFit
  <1> QED
    BY <1>1, <1>2, <1>3 DEF OwnInv, SameSizes

(* e has another allocation than before.                                    *)
LEMMA NewMemoryOwn ==
  ASSUME OwnInv, UNCHANGED <<traits, slots>>, NEW e \in Element, AreElements(elements'),
         DOMAIN elements' = DOMAIN elements \cup {e},
         \A x \in DOMAIN elements \ {e} : elements'[x] = elements[x],
         elements'[e].memory.block = Fresh, AtHome(elements'[e]),
         SameSizes => Fits(elements'[e].memory, heap'),
         IsHeap(heap'), DOMAIN heap' = (DOMAIN heap \ {BlockOf(e)}) \cup {Fresh},
         SameAllocations(heap, heap', DOMAIN heap \ {BlockOf(e)})
  PROVE  OwnInv'
  <1> USE DEF BlockOf
  <1>0. AreSlots' /\ IsHeap(heap)' /\ AreElements(elements)'
    BY Frame
  <1>1. /\ Fresh \in Block /\ Fresh \notin DOMAIN heap /\ Fresh # Null
        /\ DOMAIN slots \subseteq Slot /\ Null \notin DOMAIN slots /\ Fresh \notin DOMAIN slots
    BY FreshIsFree, ShapesInUse, ElementNames DEF OwnInv
  <1>2. OneOwner'
    <2>1. DOMAIN slots' \subseteq DOMAIN heap'
      BY <1>1 DEF OwnInv, OneOwner, Owned, IsHollow
    <2>2. ASSUME NEW x \in DOMAIN elements', ~ IsHollow(x)'
          PROVE  /\ elements'[x].memory.block \in Owned(heap)'
                 /\ elements'[x].reference.block = elements'[x].memory.block
      BY <1>1, <2>2 DEF OwnInv, OneOwner, Owned, IsHollow, AtHome
    <2>3. ASSUME NEW b \in Owned(heap)' PROVE \E x \in DOMAIN elements' : elements'[x].memory.block = b
      BY <1>1 DEF OwnInv, OneOwner, Owned
    <2>4. ASSUME NEW x \in DOMAIN elements', NEW y \in DOMAIN elements', x # y,
                 elements'[x].memory.block = elements'[y].memory.block
          PROVE  IsHollow(x)'
      BY <1>1, <2>4 DEF OwnInv, OneOwner, Owned, IsHollow
    <2> QED
      BY <2>1, <2>2, <2>3, <2>4 DEF OneOwner
  <1>3. ASSUME SameSizes PROVE AllFit'
    <2>1. ASSUME NEW x \in DOMAIN elements' PROVE Fits(elements'[x].memory, heap')
      <3>1. CASE x = e
        BY <1>3, <3>1
      <3>2. CASE x # e
        <4>1. x \in DOMAIN elements /\ elements'[x] = elements[x] /\ Fits(elements[x].memory, heap)
          BY <1>3, <3>2 DEF OwnInv, AllFit
        <4>2. elements[x].memory.block # Null =>
                SameAllocations(heap, heap', {elements[x].memory.block})
          BY <3>2, <4>1 DEF OwnInv, OneOwner, Owned, IsHollow, SameAllocations
        <4>3. SameMemory(elements[x].memory, elements'[x].memory)
          BY <4>1, EqualAllocator DEF SameMemory
        <4> QED
          BY <1>3, <4>1, <4>2, <4>3, SameMemoryFits
      <3> QED
        BY <3>1, <3>2
    <2> QED
      BY <2>1, SameFit
  <1> QED
    BY <1>0, <1>2, <1>3 DEF OwnInv, SameSizes

(* e returns its memory, if it has any, and takes that of f.                *)
LEMMA TransferOwn ==
  ASSUME OwnInv, UNCHANGED <<traits, slots>>, NEW e \in Element, NEW f \in DOMAIN elements, e # f,
         AreElements(elements'),
         DOMAIN elements' = DOMAIN elements \cup {e},
         \A x \in DOMAIN elements \ {e, f} : elements'[x] = elements[x],
         SameMemory(elements[f].memory, elements'[e].memory), AtHome(elements'[e]),
         elements'[f].memory.block = Null,
         IsHeap(heap'), DOMAIN heap' = DOMAIN heap \ {BlockOf(e)},
         SameAllocations(heap, heap', DOMAIN heap \ {BlockOf(e)})
  PROVE  OwnInv'
  <1> USE DEF BlockOf
  <1>0. AreSlots' /\ IsHeap(heap)' /\ AreElements(elements)'
    BY Frame
  <1>1. DOMAIN slots \subseteq Slot /\ Null \notin DOMAIN slots /\ Null \notin DOMAIN heap
    BY ShapesInUse, ElementNames DEF OwnInv, IsHeap
  <1>2. OneOwner'
    <2>1. DOMAIN slots' \subseteq DOMAIN heap'
      BY <1>1 DEF OwnInv, OneOwner, Owned, IsHollow
    <2>2. ASSUME NEW x \in DOMAIN elements', ~ IsHollow(x)'
          PROVE  /\ elements'[x].memory.block \in Owned(heap)'
                 /\ elements'[x].reference.block = elements'[x].memory.block
      BY <1>1, <2>2 DEF OwnInv, OneOwner, Owned, IsHollow, AtHome, SameMemory
    <2>3. ASSUME NEW b \in Owned(heap)' PROVE \E x \in DOMAIN elements' : elements'[x].memory.block = b
      <3>1. PICK x \in DOMAIN elements : elements[x].memory.block = b /\ x # e
        BY <1>1 DEF OwnInv, OneOwner, Owned
      <3> QED
        BY <3>1 DEF SameMemory
    <2>4. ASSUME NEW x \in DOMAIN elements', NEW y \in DOMAIN elements', x # y,
                 elements'[x].memory.block = elements'[y].memory.block
          PROVE  IsHollow(x)'
      BY <1>1, <2>4 DEF OwnInv, OneOwner, Owned, IsHollow, SameMemory
    <2> QED
      BY <2>1, <2>2, <2>3, <2>4 DEF OneOwner
  <1>3. ASSUME SameSizes PROVE AllFit'
    <2>1. ASSUME NEW x \in DOMAIN elements' PROVE Fits(elements'[x].memory, heap')
      <3>1. CASE x = f
        BY <3>1 DEF Fits
      <3>2. CASE x # f
        <4> DEFINE y == IF x = e THEN f ELSE x
        <4>1. y \in DOMAIN elements /\ Fits(elements[y].memory, heap)
          BY <1>3, <3>2 DEF OwnInv, AllFit
        <4>2. SameMemory(elements[y].memory, elements'[x].memory)
          BY <3>2, EqualAllocator DEF SameMemory
        <4>3. elements[y].memory.block # Null =>
                SameAllocations(heap, heap', {elements[y].memory.block})
          BY <1>1, <3>2, <4>1 DEF OwnInv, OneOwner, Owned, IsHollow, SameAllocations
        <4> HIDE DEF y
        <4> QED
          BY <1>3, <4>1, <4>2, <4>3, SameMemoryFits
      <3> QED
        BY <3>1, <3>2
    <2> QED
      BY <2>1, SameFit
  <1> QED
    BY <1>0, <1>2, <1>3 DEF OwnInv, SameSizes

LEMMA UnchangedOwn ==
  ASSUME OwnInv, UNCHANGED <<traits, slots, elements, heap>>
  PROVE  OwnInv'
  <1>1. IsHeap(heap') /\ AreElements(elements')
    BY DEF OwnInv
  <1>2. AreSlots' /\ IsHeap(heap)' /\ AreElements(elements)'
    BY <1>1, Frame
  <1>3. OneOwner'
    BY DEF OwnInv, OneOwner, Owned, IsHollow
  <1>4. SameSizes => AllFit'
    <2>1. SameSizes => \A e \in DOMAIN elements' : Fits(elements'[e].memory, heap')
      BY DEF OwnInv, AllFit
    <2> QED
      BY <2>1, SameFit
  <1> QED
    BY <1>2, <1>3, <1>4 DEF OwnInv, SameSizes

-----------------------------------------------------------------------------
(* Members of an element, of elements and of references.                    *)
LEMMA ElementFacts ==
  ASSUME OwnInv, NEW e \in DOMAIN elements
  PROVE  /\ e \in Element /\ IsElement(elements[e])
         /\ elements[e].memory.units \in Nat
         /\ elements[e].reference.shape \in UsedShapes
         /\ SizeInBytes(elements[e].reference) \in Nat
         /\ AtHome(elements[e])
  <1>1. e \in Element /\ IsElement(elements[e]) /\ elements[e].memory.units \in Nat
        /\ elements[e].reference.shape \in UsedShapes
    BY DEF OwnInv, AreElements, IsElement
  <1>2. SizeInBytes(elements[e].reference) \in Nat
    BY <1>1, ShapesInUse, BytesInside DEF SizeInBytes, OwnInv
  <1>3. AtHome(elements[e])
    BY DEF OwnInv, OneOwner, IsHollow, AtHome
  <1> QED
    BY <1>1, <1>2, <1>3

LEMMA PlaceFacts ==
  ASSUME OwnInv, NEW p \in Places
  PROVE  ReferenceOf(p).shape \in UsedShapes /\ SizeInBytes(ReferenceOf(p)) \in Nat
  <1>1. ReferenceOf(p).shape \in UsedShapes
    BY ElementFacts DEF ReferenceOf, Places, UsedShapes
  <1> QED
    BY <1>1, ShapesInUse, BytesInside DEF SizeInBytes, OwnInv

LEMMA SetElement ==
  ASSUME OwnInv, NEW e \in Element, NEW m, NEW r, IsElement([memory |-> m, reference |-> r]),
         Set(e, m, r)
  PROVE  /\ AreElements(elements')
         /\ DOMAIN elements' = DOMAIN elements \cup {e}
         /\ elements'[e].memory = m /\ elements'[e].reference = r
         /\ \A x \in DOMAIN elements \ {e} : elements'[x] = elements[x]
  BY DEF Set, OwnInv, AreElements

(* An element is stored in an allocation of e's that was made for it; the   *)
(* old one, if there is one, has been returned.                             *)
LEMMA StoreIntoNewOwn ==
  ASSUME OwnInv, NEW e \in Element, NEW h, IsHeap(h), DOMAIN h = DOMAIN heap \ {BlockOf(e)},
         SameAllocations(heap, h, DOMAIN heap \ {BlockOf(e)}),
         NEW units \in Nat, NEW a, NEW source, source.shape \in UsedShapes,
         NEW n \in Nat, NEW move, StoreIntoNew(e, h, units, a, source, n, move)
  PROVE  OwnInv'
  <1> DEFINE g == Allocate(h, Fresh, units, a)
             m == Memory(Fresh, units, a)
             r == Reference(m.block, source.shape)
  <1>1. Fresh \in Block /\ Fresh \notin DOMAIN heap /\ AreSlots
    BY FreshIsFree DEF OwnInv
  <1>2. AllocatedIn(h, Fresh, units, a, g)
    BY <1>1, AllocateHeap
  <1>3. m.block = Fresh /\ m.units = units /\ m.allocator = a
    BY DEF Memory
  <1>4. CASE ~ MayStore(g, source, n, m.block)
    BY <1>3, <1>4, UnchangedOwn DEF StoreIntoNew, StoreInto, Undefined
  <1>5. CASE MayStore(g, source, n, m.block)
    <2>1. /\ heap' = Stored(g, source, n, m.block, move)
          /\ Set(e, m, r) /\ UNCHANGED <<traits, slots>>
      BY <1>3, <1>5 DEF StoreIntoNew, StoreInto, Defined
    <2> HIDE DEF g
    <2>2. IsHeap(g) /\ Kept(g, heap')
      BY <1>1, <1>2, <1>5, <2>1, StoredKeeps DEF AllocatedIn
    <2>3. IsElement([memory |-> m, reference |-> r]) /\ r.block = Fresh
      BY <1>3 DEF IsElement, Memory, Reference
    <2> HIDE DEF m, r
    <2>4. /\ AreElements(elements')
          /\ DOMAIN elements' = DOMAIN elements \cup {e}
          /\ elements'[e].memory = m /\ elements'[e].reference = r
          /\ \A x \in DOMAIN elements \ {e} : elements'[x] = elements[x]
      BY <2>1, <2>3, SetElement
    <2>5. SameSizes => Fits(m, heap')
      BY <1>2, <1>3, <2>2, EqualAllocator DEF AllocatedIn, Kept, SameAllocations, Fits
    <2>6. /\ IsHeap(heap') /\ DOMAIN heap' = (DOMAIN heap \ {BlockOf(e)}) \cup {Fresh}
          /\ SameAllocations(heap, heap', DOMAIN heap \ {BlockOf(e)})
      BY <1>1, <1>2, <2>2 DEF AllocatedIn, Kept, SameAllocations
    <2>7. AtHome(elements'[e]) /\ elements'[e].memory.block = Fresh
          /\ (SameSizes => Fits(elements'[e].memory, heap'))
      BY <1>3, <2>3, <2>4, <2>5 DEF AtHome
    <2> QED
      BY <2>1, <2>4, <2>6, <2>7, NewMemoryOwn
  <1> QED
    BY <1>4, <1>5

(* An element is stored in the memory e has, which has another allocator at *)
(* most if it is equal.                                                     *)
LEMMA StoreIntoSameOwn ==
  ASSUME OwnInv, NEW e \in DOMAIN elements, MayDestroy(e), NEW a,
         SameAllocator(elements[e].memory.allocator, a),
         NEW source, source.shape \in UsedShapes, NEW n \in Nat, NEW move,
         StoreInto(e, Destroyed(e),
                   Memory(elements[e].memory.block, elements[e].memory.units, a),
                   source, n, move)
  PROVE  OwnInv'
  <1> DEFINE g == Destroyed(e)
             m == Memory(elements[e].memory.block, elements[e].memory.units, a)
             r == Reference(m.block, source.shape)
  <1>1. AreSlots /\ Kept(heap, g) /\ IsHeap(g)
    BY DestroyedKeeps DEF OwnInv, Kept
  <1>2. /\ m.block = elements[e].memory.block /\ m.units = elements[e].memory.units
        /\ m.allocator = a
    BY DEF Memory
  <1>3. CASE ~ MayStore(g, source, n, m.block)
    BY <1>3, UnchangedOwn DEF StoreInto, Undefined
  <1>4. CASE MayStore(g, source, n, m.block)
    <2>1. /\ heap' = Stored(g, source, n, m.block, move)
          /\ Set(e, m, r) /\ UNCHANGED <<traits, slots>>
      BY <1>4 DEF StoreInto, Defined
    <2> HIDE DEF g
    <2>2. Kept(heap, heap')
      BY <1>1, <1>4, <2>1, StoredKeeps, KeptIsTransitive
    <2>3. IsElement([memory |-> m, reference |-> r]) /\ r.block = m.block
      BY <1>2, ElementFacts DEF IsElement, Memory, Reference
    <2> HIDE DEF m, r
    <2>4. /\ AreElements(elements')
          /\ DOMAIN elements' = DOMAIN elements \cup {e}
          /\ elements'[e].memory = m /\ elements'[e].reference = r
          /\ \A x \in DOMAIN elements \ {e} : elements'[x] = elements[x]
      BY <2>1, <2>3, ElementFacts, SetElement
    <2>5. ASSUME NEW x \in DOMAIN elements
          PROVE  SameMemory(elements[x].memory, elements'[x].memory) /\ AtHome(elements'[x])
      <3>1. CASE x = e
        BY <1>2, <2>3, <2>4, <3>1 DEF SameMemory, AtHome
      <3>2. CASE x # e
        BY <2>4, <3>2, ElementFacts, EqualAllocator DEF SameMemory
      <3> QED
        BY <3>1, <3>2
    <2> QED
      BY <2>1, <2>2, <2>4, <2>5, SameMemoryOwn
  <1> QED
    BY <1>3, <1>4

(* Objects are assigned or swapped; the elements stay what they are.        *)
LEMMA ReferencesOwn ==
  ASSUME OwnInv, UNCHANGED <<traits, slots, elements>>, Kept(heap, heap')
  PROVE  OwnInv'
  <1>1. AreElements(elements') /\ DOMAIN elements' = DOMAIN elements
    BY DEF OwnInv
  <1>2. ASSUME NEW x \in DOMAIN elements
        PROVE  SameMemory(elements[x].memory, elements'[x].memory) /\ AtHome(elements'[x])
    BY ElementFacts, EqualAllocator DEF SameMemory
  <1> QED
    BY <1>1, <1>2, SameMemoryOwn

LEMMA AssignThroughOwn ==
  ASSUME OwnInv, NEW target, NEW source, NEW move,
         target.shape \in UsedShapes, source.shape \in UsedShapes,
         SameSizes => source.shape = target.shape,
         AssignThrough(target, source, move)
  PROVE  OwnInv'
  <1>1. CASE ~ (IsAlive(heap, target) /\ IsAlive(heap, source))
    BY <1>1, UnchangedOwn DEF AssignThrough, Undefined
  <1>2. CASE IsAlive(heap, target) /\ IsAlive(heap, source)
    <2>1. /\ heap' = Assigned(heap, source, target, move)
          /\ UNCHANGED <<traits, slots, elements>>
      BY <1>2 DEF AssignThrough, Defined
    <2>2. Kept(heap, heap')
      BY <1>2, <2>1, AssignedKeeps DEF OwnInv
    <2> QED
      BY <2>1, <2>2, ReferencesOwn
  <1> QED
    BY <1>1, <1>2

-----------------------------------------------------------------------------
(* After e's own memory was returned.                                       *)
LEMMA ReturnedMemory ==
  ASSUME OwnInv, NEW e \in DOMAIN elements
  PROVE  LET h == Deallocate(heap, elements[e].memory.block)
         IN  /\ IsHeap(h) /\ DOMAIN h = DOMAIN heap \ {BlockOf(e)}
             /\ SameAllocations(heap, h, DOMAIN heap \ {BlockOf(e)})
  <1> DEFINE b == elements[e].memory.block
  <1>1. BlockOf(e) = b /\ IsHeap(heap)
    BY DEF BlockOf, OwnInv
  <1> HIDE DEF b
  <1> QED
    BY <1>1, DeallocateHeap DEF b

LEMMA ConstructOwn ==
  ASSUME OwnInv, NEW e \in Element, NEW p \in Places, NEW move, NEW a, Construct(e, p, move, a)
  PROVE  OwnInv'
  <1> DEFINE r == ReferenceOf(p)
             n == SizeInBytes(r)
  <1>1. e \notin DOMAIN elements /\ StoreIntoNew(e, heap, Units(n), a, r, n, move)
    BY DEF Construct
  <1>2. n \in Nat /\ r.shape \in UsedShapes
    BY PlaceFacts
  <1>3. Units(n) \in Nat
    BY <1>2, UnitsAreNumbers DEF OwnInv
  <1>4. /\ IsHeap(heap) /\ DOMAIN heap = DOMAIN heap \ {BlockOf(e)}
        /\ SameAllocations(heap, heap, DOMAIN heap \ {BlockOf(e)})
    BY <1>1, ElementNames DEF OwnInv, IsHeap, BlockOf, SameAllocations
  <1> HIDE DEF r, n
  <1> QED
    BY <1>1, <1>2, <1>3, <1>4, StoreIntoNewOwn

LEMMA CopyConstructOwn ==
  ASSUME OwnInv, NEW e \in Element, NEW f \in Element, NEW a, CopyConstruct(e, f, a)
  PROVE  OwnInv'
  <1> DEFINE r == elements[f].reference
             n == SizeInBytes(r)
             units == elements[f].memory.units
             copying == FALSE
  <1>1. /\ e \notin DOMAIN elements /\ f \in DOMAIN elements
        /\ StoreIntoNew(e, heap, units, a, r, n, copying)
    BY DEF CopyConstruct
  <1>2. n \in Nat /\ r.shape \in UsedShapes /\ units \in Nat
    BY <1>1, ElementFacts
  <1>3. /\ IsHeap(heap) /\ DOMAIN heap = DOMAIN heap \ {BlockOf(e)}
        /\ SameAllocations(heap, heap, DOMAIN heap \ {BlockOf(e)})
    BY <1>1, ElementNames DEF OwnInv, IsHeap, BlockOf, SameAllocations
  <1> HIDE DEF r, n, units, copying
  <1> QED
    BY <1>1, <1>2, <1>3, StoreIntoNewOwn

(* What is left of an element that gave its memory away.                    *)
LEMMA ReleasedElement ==
  ASSUME OwnInv, NEW f \in DOMAIN elements
  PROVE  IsElement(Released(f)) /\ Released(f).memory.block = Null
  <1> DEFINE x == elements[f]
  <1>1. /\ x = [memory |-> x.memory, reference |-> x.reference]
        /\ x.memory = Memory(x.memory.block, x.memory.units, x.memory.allocator)
        /\ x.reference = Reference(x.reference.block, x.reference.shape)
        /\ x.memory.units \in Nat /\ x.reference.shape \in UsedShapes
    BY DEF OwnInv, AreElements, IsElement
  <1>2. Released(f) = [x EXCEPT !.memory.block = Null]
    BY DEF Released
  <1> HIDE DEF x
  <1>3. /\ Released(f) = [memory |-> Memory(Null, x.memory.units, x.memory.allocator),
                          reference |-> x.reference]
    BY <1>1, <1>2 DEF Memory
  <1> QED
    BY <1>1, <1>3 DEF IsElement, Memory

LEMMA TakeOverOwn ==
  ASSUME OwnInv, NEW e \in Element, e \notin DOMAIN elements, NEW f \in DOMAIN elements,
         TakeOver(e, f)
  PROVE  OwnInv'
  <1>1. /\ IsElement(Released(f)) /\ Released(f).memory.block = Null
        /\ IsElement(elements[f]) /\ AtHome(elements[f]) /\ f \in Element
    BY ReleasedElement, ElementFacts
  <1>2. /\ elements' = [x \in DOMAIN elements \cup {e} |->
                          IF x = e THEN elements[f] ELSE IF x = f THEN Released(f) ELSE elements[x]]
        /\ heap' = heap /\ UNCHANGED <<traits, slots>>
    BY DEF TakeOver, Defined
  <1> DEFINE x == Released(f)
  <1> HIDE DEF x
  <1>3. /\ AreElements(elements') /\ DOMAIN elements' = DOMAIN elements \cup {e}
        /\ elements'[e] = elements[f] /\ elements'[f] = x /\ e # f
        /\ \A y \in DOMAIN elements \ {e, f} : elements'[y] = elements[y]
    BY <1>1, <1>2 DEF OwnInv, AreElements, x
  <1>4. SameMemory(elements[f].memory, elements'[e].memory)
    BY <1>3, EqualAllocator DEF SameMemory
  <1>5. /\ IsHeap(heap') /\ DOMAIN heap' = DOMAIN heap \ {BlockOf(e)}
        /\ SameAllocations(heap, heap', DOMAIN heap \ {BlockOf(e)})
    BY <1>2, ElementNames DEF OwnInv, IsHeap, BlockOf, SameAllocations
  <1> QED
    BY <1>1, <1>2, <1>3, <1>4, <1>5, TransferOwn DEF x

LEMMA MoveConstructOwn ==
  ASSUME OwnInv, NEW e \in Element, NEW f \in Element, MoveConstruct(e, f)
  PROVE  OwnInv'
  BY TakeOverOwn DEF MoveConstruct

LEMMA MoveConstructWithOwn ==
  ASSUME OwnInv, NEW e \in Element, NEW f \in Element, NEW a, MoveConstructWith(e, f, a)
  PROVE  OwnInv'
  <1> DEFINE r == elements[f].reference
             units == elements[f].memory.units
             moving == TRUE
  <1>1. e \notin DOMAIN elements /\ f \in DOMAIN elements
    BY DEF MoveConstructWith
  <1>2. CASE SameAllocator(a, elements[f].memory.allocator)
    BY <1>1, <1>2, TakeOverOwn DEF MoveConstructWith
  <1>3. CASE ~ SameAllocator(a, elements[f].memory.allocator)
    <2>1. StoreIntoNew(e, heap, units, a, r, units, moving)
      BY <1>3 DEF MoveConstructWith
    <2>2. r.shape \in UsedShapes /\ units \in Nat
      BY <1>1, ElementFacts
    <2>3. /\ IsHeap(heap) /\ DOMAIN heap = DOMAIN heap \ {BlockOf(e)}
          /\ SameAllocations(heap, heap, DOMAIN heap \ {BlockOf(e)})
      BY <1>1, ElementNames DEF OwnInv, IsHeap, BlockOf, SameAllocations
    <2> HIDE DEF r, units, moving
    <2> QED
      BY <2>1, <2>2, <2>3, StoreIntoNewOwn
  <1> QED
    BY <1>2, <1>3

LEMMA DestructOwn ==
  ASSUME OwnInv, NEW e \in Element, Destruct(e)
  PROVE  OwnInv'
  <1>1. e \in DOMAIN elements
    BY DEF Destruct
  <1>2. CASE ~ (MayDestroy(e) /\ MayDeallocate(elements[e].memory))
    BY <1>2, UnchangedOwn DEF Destruct, Undefined
  <1>3. CASE MayDestroy(e) /\ MayDeallocate(elements[e].memory)
    <2>1. /\ heap' = Deallocate(heap, elements[e].memory.block)
          /\ elements' = [x \in DOMAIN elements \ {e} |-> elements[x]]
          /\ UNCHANGED <<traits, slots>>
      BY <1>3 DEF Destruct, Defined
    <2>2. /\ IsHeap(heap') /\ DOMAIN heap' = DOMAIN heap \ {elements[e].memory.block}
          /\ SameAllocations(heap, heap', DOMAIN heap \ {elements[e].memory.block})
      BY <1>1, <2>1, ReturnedMemory DEF BlockOf
    <2>3. /\ AreElements(elements') /\ DOMAIN elements' = DOMAIN elements \ {e}
          /\ \A x \in DOMAIN elements \ {e} : elements'[x] = elements[x]
      BY <2>1 DEF OwnInv, AreElements
    <2>4. DOMAIN slots \subseteq Slot /\ Null \notin DOMAIN slots /\ Null \notin DOMAIN heap
      BY ShapesInUse, ElementNames DEF OwnInv, IsHeap
    <2>5. OneOwner'
      BY <1>1, <2>1, <2>2, <2>3, <2>4 DEF OwnInv, OneOwner, Owned, IsHollow
    <2>6. ASSUME SameSizes PROVE AllFit'
      <3>1. ASSUME NEW x \in DOMAIN elements' PROVE Fits(elements'[x].memory, heap')
        <4>1. x \in DOMAIN elements /\ x # e /\ elements'[x] = elements[x]
              /\ Fits(elements[x].memory, heap)
          BY <2>3, <2>6 DEF OwnInv, AllFit
        <4>2. elements[x].memory.block # Null =>
                SameAllocations(heap, heap', {elements[x].memory.block})
          BY <1>1, <2>2, <4>1 DEF OwnInv, OneOwner, Owned, IsHollow, SameAllocations
        <4>3. SameMemory(elements[x].memory, elements'[x].memory)
          BY <4>1, EqualAllocator DEF SameMemory
        <4> QED
          BY <2>6, <4>1, <4>2, <4>3, SameMemoryFits
      <3> QED
        BY <2>1, <3>1, SameFit
    <2> QED
      BY <2>1, <2>2, <2>3, <2>5, <2>6, Frame DEF OwnInv, SameSizes
  <1> QED
    BY <1>2, <1>3

(* Only the allocator of e is another one, which is equal.                  *)
LEMMA CopyAssignThroughOwn ==
  ASSUME OwnInv, NEW e \in DOMAIN elements, NEW f \in DOMAIN elements, NEW a,
         IsFixedSizeOrPlain, SameAllocator(elements[e].memory.allocator, a),
         IsAlive(heap, elements[e].reference), IsAlive(heap, elements[f].reference),
         heap' = Assigned(heap, elements[f].reference, elements[e].reference, FALSE),
         elements' = [elements EXCEPT ![e].memory.allocator = a],
         UNCHANGED <<traits, slots>>
  PROVE  OwnInv'
  <1> DEFINE r == elements[f].reference
             t == elements[e].reference
             x == elements[e]
             y == [memory |-> Memory(x.memory.block, x.memory.units, a), reference |-> x.reference]
             copying == FALSE
  <1>1. r.shape \in UsedShapes /\ t.shape \in UsedShapes /\ r.shape = t.shape
    BY ElementFacts, ShapesInUse DEF OwnInv
  <1>2. heap' = Assigned(heap, r, t, copying) /\ IsAlive(heap, r) /\ IsAlive(heap, t)
    OBVIOUS
  <1>3. IsElement(x) /\ AtHome(x)
    BY ElementFacts
  <1>4. elements = [z \in DOMAIN elements |-> elements[z]]
    BY DEF OwnInv, AreElements
  <1> HIDE DEF r, t, copying
  <1>5. Kept(heap, heap')
    BY <1>1, <1>2, AssignedKeeps DEF OwnInv
  <1>6. /\ DOMAIN elements' = DOMAIN elements
        /\ elements' = [z \in DOMAIN elements |-> IF z = e THEN y ELSE elements[z]]
    <2> DEFINE y0 == [x EXCEPT !.memory.allocator = a]
    <2>1. elements' = [elements EXCEPT ![e] = y0]
      OBVIOUS
    <2>2. /\ x = [memory |-> x.memory, reference |-> x.reference]
          /\ x.memory = Memory(x.memory.block, x.memory.units, x.memory.allocator)
      BY <1>3 DEF IsElement
    <2> HIDE DEF x
    <2>3. y0 = y
      BY <2>2 DEF Memory
    <2> HIDE DEF y0, y
    <2> QED
      BY <1>4, <2>1, <2>3
  <1>7. IsElement(y) /\ AtHome(y) /\ SameMemory(x.memory, y.memory)
    BY <1>3 DEF IsElement, AtHome, SameMemory, Memory
  <1> HIDE DEF y
  <1>8. AreElements(elements')
    BY <1>6, <1>7 DEF OwnInv, AreElements
  <1>9. ASSUME NEW z \in DOMAIN elements
        PROVE  SameMemory(elements[z].memory, elements'[z].memory) /\ AtHome(elements'[z])
    <2>1. CASE z = e
      BY <1>6, <1>7, <2>1
    <2>2. CASE z # e
      BY <1>6, <2>2, ElementFacts, EqualAllocator DEF SameMemory
    <2> QED
      BY <2>1, <2>2
  <1> QED
    BY <1>5, <1>6, <1>8, <1>9, SameMemoryOwn

LEMMA CopyAssignOwn ==
  ASSUME OwnInv, NEW e \in Element, NEW f \in Element, CopyAssign(e, f)
  PROVE  OwnInv'
  <1> DEFINE m == elements[e].memory
             o == elements[f].memory
             source == elements[f].reference
             a == IF traits.copy THEN o.allocator ELSE m.allocator
             copying == FALSE
  <1>1. e \in DOMAIN elements /\ f \in DOMAIN elements
    BY DEF CopyAssign
  <1>2. o.units \in Nat /\ source.shape \in UsedShapes
    BY <1>1, ElementFacts
  <1>3. CASE IsFixedSizeOrPlain /\ (~ traits.copy \/ traits.always_equal)
    <2>1. SameAllocator(m.allocator, a)
      BY <1>3 DEF SameAllocator
    <2>2. CASE ~ (IsAlive(heap, elements[e].reference) /\ IsAlive(heap, source))
      BY <1>3, <2>2, UnchangedOwn DEF CopyAssign, Undefined
    <2>3. CASE IsAlive(heap, elements[e].reference) /\ IsAlive(heap, source)
      <3>1. /\ heap' = Assigned(heap, source, elements[e].reference, FALSE)
            /\ elements' = [elements EXCEPT ![e].memory.allocator = a]
            /\ UNCHANGED <<traits, slots>>
        BY <1>3, <2>3 DEF CopyAssign, Defined
      <3> HIDE DEF a
      <3> QED
        BY <1>1, <1>3, <2>1, <2>3, <3>1, CopyAssignThroughOwn
    <2> QED
      BY <2>2, <2>3
  <1>4. CASE ~ (IsFixedSizeOrPlain /\ (~ traits.copy \/ traits.always_equal))
    <2>1. CASE ~ MayDestroy(e) \/ (Replaces(m, o) /\ ~ MayDeallocate(m))
      BY <1>4, <2>1, UnchangedOwn DEF CopyAssign, Undefined
    <2>2. CASE MayDestroy(e) /\ Replaces(m, o) /\ MayDeallocate(m)
      <3> DEFINE h == Deallocate(heap, m.block)
                 units == o.units
      <3>1. StoreIntoNew(e, h, units, a, source, units, copying)
        BY <1>4, <2>2 DEF CopyAssign
      <3>2. /\ IsHeap(h) /\ DOMAIN h = DOMAIN heap \ {BlockOf(e)}
            /\ SameAllocations(heap, h, DOMAIN heap \ {BlockOf(e)})
        BY <1>1, ReturnedMemory
      <3>3. units \in Nat
        BY <1>2
      <3> HIDE DEF h, units, a, source, copying
      <3> QED
        BY <1>2, <3>1, <3>2, <3>3, StoreIntoNewOwn
    <2>3. CASE MayDestroy(e) /\ ~ Replaces(m, o)
      <3> DEFINE units == o.units
      <3>1. StoreInto(e, Destroyed(e), Memory(elements[e].memory.block, elements[e].memory.units, a),
                      source, units, copying)
        BY <1>4, <2>3 DEF CopyAssign
      <3>2. SameAllocator(elements[e].memory.allocator, a)
        BY <2>3 DEF Replaces, SameAllocator
      <3>3. units \in Nat
        BY <1>2
      <3> HIDE DEF units, a, source, copying
      <3> QED
        BY <1>1, <1>2, <2>3, <3>1, <3>2, <3>3, StoreIntoSameOwn
    <2> QED
      BY <2>1, <2>2, <2>3
  <1> QED
    BY <1>3, <1>4

LEMMA StealOwn ==
  ASSUME OwnInv, NEW e \in DOMAIN elements, NEW f \in DOMAIN elements, e # f, Steal(e, f),
         traits.move \/ SameAllocator(elements[e].memory.allocator, elements[f].memory.allocator)
  PROVE  OwnInv'
  <1> DEFINE m == elements[e].memory
             o == elements[f].memory
             a == IF traits.move THEN o.allocator ELSE m.allocator
             x == [memory |-> Memory(o.block, o.units, a), reference |-> elements[f].reference]
             y == Released(f)
  <1>1. CASE ~ (MayDestroy(e) /\ MayDeallocate(m))
    BY <1>1, UnchangedOwn DEF Steal, Undefined
  <1>2. CASE MayDestroy(e) /\ MayDeallocate(m)
    <2>1. /\ heap' = Deallocate(heap, m.block)
          /\ elements' = [elements EXCEPT ![e] = x, ![f] = y]
          /\ UNCHANGED <<traits, slots>>
      BY <1>2 DEF Steal, Defined
    <2>2. SameAllocator(o.allocator, a)
      BY DEF SameAllocator
    <2>3. /\ e \in Element /\ IsElement(elements[f]) /\ AtHome(elements[f])
          /\ IsElement(y) /\ y.memory.block = Null
      BY ElementFacts, ReleasedElement
    <2>4. IsElement(x) /\ AtHome(x) /\ SameMemory(o, x.memory)
      BY <2>2, <2>3 DEF IsElement, AtHome, SameMemory, Memory
    <2>5. /\ IsHeap(heap') /\ DOMAIN heap' = DOMAIN heap \ {BlockOf(e)}
          /\ SameAllocations(heap, heap', DOMAIN heap \ {BlockOf(e)})
      BY <2>1, ReturnedMemory
    <2> HIDE DEF x, y
    <2>6. /\ AreElements(elements') /\ DOMAIN elements' = DOMAIN elements \cup {e}
          /\ elements'[e] = x /\ elements'[f] = y
          /\ \A z \in DOMAIN elements \ {e, f} : elements'[z] = elements[z]
      BY <2>1, <2>3, <2>4 DEF OwnInv, AreElements
    <2> QED
      BY <2>1, <2>3, <2>4, <2>5, <2>6, TransferOwn
  <1> QED
    BY <1>1, <1>2

LEMMA MoveObjectsOwn ==
  ASSUME OwnInv, NEW e \in DOMAIN elements, NEW f \in DOMAIN elements, MoveObjects(e, f)
  PROVE  OwnInv'
  <1> DEFINE m == elements[e].memory
             source == elements[f].reference
             target == elements[e].reference
             n == SizeInBytes(source)
             moving == TRUE
  <1>1. /\ n \in Nat /\ source.shape \in UsedShapes /\ target.shape \in UsedShapes
        /\ IsElement(elements[e]) /\ e \in Element
    BY ElementFacts
  <1>2. CASE IsFixedSizeOrPlain
    <2>1. AssignThrough(target, source, moving)
      BY <1>2 DEF MoveObjects
    <2>2. source.shape = target.shape
      BY <1>1, <1>2, ShapesInUse DEF OwnInv
    <2> HIDE DEF target, source, moving
    <2> QED
      BY <1>1, <2>1, <2>2, AssignThroughOwn
  <1>3. CASE ~ IsFixedSizeOrPlain
    <2>1. CASE ~ MayDestroy(e) \/ (Outgrows(e, f) /\ ~ MayDeallocate(m))
      BY <1>3, <2>1, UnchangedOwn DEF MoveObjects, Undefined
    <2>2. CASE MayDestroy(e) /\ Outgrows(e, f) /\ MayDeallocate(m)
      <3> DEFINE h == Deallocate(heap, m.block)
                 units == elements[f].memory.units
                 a == m.allocator
      <3>1. StoreIntoNew(e, h, units, a, source, n, moving)
        BY <1>3, <2>2 DEF MoveObjects
      <3>2. /\ IsHeap(h) /\ DOMAIN h = DOMAIN heap \ {BlockOf(e)}
            /\ SameAllocations(heap, h, DOMAIN heap \ {BlockOf(e)})
        BY ReturnedMemory
      <3>3. units \in Nat
        BY ElementFacts
      <3> HIDE DEF h, units, a, source, n, moving
      <3> QED
        BY <1>1, <3>1, <3>2, <3>3, StoreIntoNewOwn
    <2>3. CASE MayDestroy(e) /\ ~ Outgrows(e, f)
      <3> DEFINE a == m.allocator
      <3>1. m = Memory(m.block, m.units, a)
        BY <1>1 DEF IsElement
      <3>2. StoreInto(e, Destroyed(e), m, source, n, moving)
        BY <1>3, <2>3 DEF MoveObjects
      <3>3. StoreInto(e, Destroyed(e), Memory(elements[e].memory.block, elements[e].memory.units, a),
                      source, n, moving)
        BY <3>1, <3>2
      <3>4. SameAllocator(elements[e].memory.allocator, a)
        BY EqualAllocator
      <3> HIDE DEF a, source, n, moving
      <3> QED
        BY <1>1, <2>3, <3>3, <3>4, StoreIntoSameOwn
    <2> QED
      BY <2>1, <2>2, <2>3
  <1> QED
    BY <1>2, <1>3

LEMMA MoveAssignOwn ==
  ASSUME OwnInv, NEW e \in Element, NEW f \in Element, MoveAssign(e, f)
  PROVE  OwnInv'
  <1>1. e # f /\ e \in DOMAIN elements /\ f \in DOMAIN elements
    BY DEF MoveAssign
  <1> QED
    BY <1>1, StealOwn, MoveObjectsOwn DEF MoveAssign

(* m, with the allocator of o or its own, is still the memory it was.       *)
LEMMA SwappedMemoryIsSame ==
  ASSUME NEW x, IsElement(x), NEW a, traits.swap \/ SameAllocator(a.allocator, x.memory.allocator),
         NEW r
  PROVE  /\ SameMemory(x.memory, SwappedMemory(a, x.memory))
         /\ r = x.reference => IsElement([memory |-> SwappedMemory(a, x.memory), reference |-> r])
  <1> DEFINE m == x.memory
             c == IF traits.swap THEN m.allocator ELSE a.allocator
             n == [m EXCEPT !.allocator = c]
  <1>1. SwappedMemory(a, m) = n
    BY DEF SwappedMemory
  <1>2. /\ m = [block |-> m.block, units |-> m.units, allocator |-> m.allocator]
        /\ m.units \in Nat
        /\ x.reference = Reference(x.reference.block, x.reference.shape)
        /\ x.reference.shape \in UsedShapes
    BY DEF IsElement, Memory
  <1>3. SameAllocator(m.allocator, c)
    BY DEF SameAllocator
  <1> HIDE DEF m, c
  <1>4. n = [block |-> m.block, units |-> m.units, allocator |-> c]
    BY <1>2
  <1> HIDE DEF n
  <1>5. SameMemory(m, n)
    BY <1>3, <1>4 DEF SameMemory
  <1>6. r = x.reference => IsElement([memory |-> n, reference |-> r])
    BY <1>2, <1>4 DEF IsElement, Memory
  <1> QED
    BY <1>1, <1>5, <1>6 DEF m

(* e and f exchange their memory, and what they refer to.                   *)
LEMMA ExchangeOwn ==
  ASSUME OwnInv, UNCHANGED <<traits, slots, heap>>,
         NEW e \in DOMAIN elements, NEW f \in DOMAIN elements, e # f,
         AreElements(elements'), DOMAIN elements' = DOMAIN elements,
         \A x \in DOMAIN elements \ {e, f} : elements'[x] = elements[x],
         SameMemory(elements[f].memory, elements'[e].memory), AtHome(elements'[e]),
         SameMemory(elements[e].memory, elements'[f].memory), AtHome(elements'[f])
  PROVE  OwnInv'
  <1> DEFINE other(x) == IF x = e THEN f ELSE IF x = f THEN e ELSE x
  <1>1. AreSlots' /\ IsHeap(heap)' /\ AreElements(elements)'
    BY Frame DEF OwnInv
  <1>2. ASSUME NEW x \in DOMAIN elements
        PROVE  /\ other(x) \in DOMAIN elements /\ other(other(x)) = x
               /\ SameMemory(elements[other(x)].memory, elements'[x].memory)
               /\ AtHome(elements'[x])
    <2>1. CASE x \in {e, f}
      BY <2>1
    <2>2. CASE x \notin {e, f}
      BY <2>2, EqualAllocator, ElementFacts DEF SameMemory
    <2> QED
      BY <2>1, <2>2
  <1> HIDE DEF other
  <1>3. OneOwner'
    <2>1. DOMAIN slots' \subseteq DOMAIN heap'
      BY DEF OwnInv, OneOwner
    <2>2. ASSUME NEW x \in DOMAIN elements', ~ IsHollow(x)'
          PROVE  /\ elements'[x].memory.block \in Owned(heap)'
                 /\ elements'[x].reference.block = elements'[x].memory.block
      BY <1>2, <2>2 DEF OwnInv, OneOwner, Owned, IsHollow, AtHome, SameMemory
    <2>3. ASSUME NEW b \in Owned(heap)' PROVE \E x \in DOMAIN elements' : elements'[x].memory.block = b
      <3>1. PICK x \in DOMAIN elements : elements[x].memory.block = b
        BY DEF OwnInv, OneOwner, Owned
      <3>2. other(x) \in DOMAIN elements' /\ elements'[other(x)].memory.block = b
        BY <1>2, <3>1 DEF SameMemory
      <3> QED
        BY <3>2
    <2>4. ASSUME NEW x \in DOMAIN elements', NEW y \in DOMAIN elements', x # y,
                 elements'[x].memory.block = elements'[y].memory.block
          PROVE  IsHollow(x)'
      <3>1. /\ other(x) \in DOMAIN elements /\ other(y) \in DOMAIN elements /\ other(x) # other(y)
            /\ elements[other(x)].memory.block = elements'[x].memory.block
            /\ elements[other(y)].memory.block = elements'[y].memory.block
        BY <1>2, <2>4 DEF SameMemory
      <3>2. IsHollow(other(x))
        BY <2>4, <3>1 DEF OwnInv, OneOwner
      <3> QED
        BY <3>1, <3>2 DEF IsHollow
    <2> QED
      BY <2>1, <2>2, <2>3, <2>4 DEF OneOwner
  <1>4. ASSUME SameSizes PROVE AllFit'
    <2>1. ASSUME NEW x \in DOMAIN elements' PROVE Fits(elements'[x].memory, heap')
      <3>1. /\ SameMemory(elements[other(x)].memory, elements'[x].memory)
            /\ Fits(elements[other(x)].memory, heap)
        BY <1>2, <1>4 DEF OwnInv, AllFit
      <3>2. SameAllocations(heap, heap', {elements[other(x)].memory.block})
        BY DEF SameAllocations
      <3> QED
        BY <1>4, <3>1, <3>2, SameMemoryFits
    <2> QED
      BY <2>1, SameFit
  <1> QED
    BY <1>1, <1>3, <1>4 DEF OwnInv, SameSizes

LEMMA SwapElementsOwn ==
  ASSUME OwnInv, NEW e \in Element, NEW f \in Element, SwapElements(e, f)
  PROVE  OwnInv'
  <1> DEFINE m == elements[e].memory
             o == elements[f].memory
             x == [memory |-> SwappedMemory(m, o), reference |-> elements[f].reference]
             y == [memory |-> SwappedMemory(o, m), reference |-> elements[e].reference]
  <1>1. /\ e # f /\ e \in DOMAIN elements /\ f \in DOMAIN elements
        /\ traits.swap \/ SameAllocator(m.allocator, o.allocator)
        /\ elements' = [elements EXCEPT ![e] = x, ![f] = y]
        /\ UNCHANGED <<traits, slots, heap>>
    BY DEF SwapElements, Defined
  <1>2. traits.swap \/ SameAllocator(o.allocator, m.allocator)
    BY <1>1 DEF SameAllocator
  <1>3. /\ IsElement(elements[e]) /\ AtHome(elements[e])
        /\ IsElement(elements[f]) /\ AtHome(elements[f])
    BY <1>1, ElementFacts
  <1>4. IsElement(x) /\ SameMemory(o, x.memory)
    BY <1>1, <1>3, SwappedMemoryIsSame
  <1>5. IsElement(y) /\ SameMemory(m, y.memory)
    BY <1>2, <1>3, SwappedMemoryIsSame
  <1>6. AtHome(x) /\ AtHome(y)
    BY <1>3, <1>4, <1>5 DEF AtHome, SameMemory
  <1> HIDE DEF x, y
  <1>7. /\ AreElements(elements') /\ DOMAIN elements' = DOMAIN elements
        /\ elements'[e] = x /\ elements'[f] = y
        /\ \A z \in DOMAIN elements \ {e, f} : elements'[z] = elements[z]
    BY <1>1, <1>4, <1>5 DEF OwnInv, AreElements
  <1> QED
    BY <1>1, <1>4, <1>5, <1>6, <1>7, ExchangeOwn

LEMMA AssignOwn ==
  ASSUME OwnInv, NEW p \in Places, NEW q \in Places, NEW move, Assign(p, q, move)
  PROVE  OwnInv'
  <1> DEFINE target == ReferenceOf(p)
             source == ReferenceOf(q)
  <1>1. slots[p] = target
    BY DEF Assign, ReferenceOf
  <1>2. AssignThrough(target, source, move) /\ (SameSizes => source.shape = target.shape)
    BY <1>1 DEF Assign, Assignable, SameSizes
  <1>3. target.shape \in UsedShapes /\ source.shape \in UsedShapes
    BY PlaceFacts
  <1> HIDE DEF target, source
  <1> QED
    BY <1>2, <1>3, AssignThroughOwn

LEMMA AssignToElementOwn ==
  ASSUME OwnInv, NEW p \in Places, NEW q \in Places, NEW move, AssignToElement(p, q, move)
  PROVE  OwnInv'
  <1> DEFINE target == ReferenceOf(p)
             source == ReferenceOf(q)
  <1>1. elements[p].reference = target
    <2>1. p \in DOMAIN elements /\ DOMAIN elements \subseteq Element
      BY DEF AssignToElement, OwnInv, AreElements
    <2>2. p \notin DOMAIN slots
      BY <2>1, ElementNames, ShapesInUse DEF OwnInv
    <2> QED
      BY <2>2 DEF ReferenceOf
  <1>2. AssignThrough(target, source, move) /\ (SameSizes => source.shape = target.shape)
    BY <1>1 DEF AssignToElement, Assignable, SameSizes
  <1>3. target.shape \in UsedShapes /\ source.shape \in UsedShapes
    BY PlaceFacts
  <1> HIDE DEF target, source
  <1> QED
    BY <1>2, <1>3, AssignThroughOwn

LEMMA SwapReferencesOwn ==
  ASSUME OwnInv, NEW p \in Places, NEW q \in Places, SwapReferences(p, q)
  PROVE  OwnInv'
  <1> DEFINE r == ReferenceOf(p)
             s == ReferenceOf(q)
  <1>1. r.shape \in UsedShapes /\ s.shape \in UsedShapes /\ (SameSizes => r.shape = s.shape)
    BY PlaceFacts DEF SwapReferences, Assignable, SameSizes
  <1>2. CASE ~ (IsAlive(heap, r) /\ IsAlive(heap, s))
    BY <1>2, UnchangedOwn DEF SwapReferences, Undefined
  <1>3. CASE IsAlive(heap, r) /\ IsAlive(heap, s)
    <2>1. heap' = Swapped(heap, r, s) /\ UNCHANGED <<traits, slots, elements>>
      BY <1>3 DEF SwapReferences, Defined
    <2> HIDE DEF r, s
    <2>2. Kept(heap, heap')
      BY <1>1, <1>3, <2>1, SwappedKeeps DEF OwnInv
    <2> QED
      BY <2>1, <2>2, ReferencesOwn
  <1> QED
    BY <1>2, <1>3

-----------------------------------------------------------------------------
LEMMA InitOwn ==
  ASSUME Init
  PROVE  OwnInv
  <1>1. AreSlots
    BY DEF Init, AreSlots
  <1>2. elements = << >> /\ DOMAIN elements = {}
    BY DEF Init
  <1>3. IsHeap(heap) /\ DOMAIN heap = DOMAIN slots
    <2> DEFINE holds(r, k, a) == a \in Bytes(r.shape, k, k)
               value(r, k, v) == IF k < Len(params) /\ params[k + 1].type = "varying"
                                 THEN Shapes[r.shape].counts[k + 1] ELSE v
               cell(r, k, v, s, a) == IF Kind(r, k) = "object" THEN Object(value(r, k, v), s, a)
                                                               ELSE Byte(value(r, k, v))
               byte(r, v, s, a) ==
                 IF \E k \in Parameters(r) : holds(r, k, a)
                 THEN LET k == CHOOSE k \in Parameters(r) : holds(r, k, a)
                      IN  cell(r, k, v[k], s, a)
                 ELSE Byte(Raw)
    <2>0. PICK filling \in Fillings :
            heap = [s \in DOMAIN slots |->
                      [allocator |-> Null,
                       cells |-> [a \in 0 .. SizeInBytes(slots[s]) - 1 |->
                                    byte(slots[s], filling[s], s, a)]]]
      BY Zenon DEF Init
    <2> HIDE DEF byte
    <2>1. /\ DOMAIN heap = DOMAIN slots
          /\ heap = [s \in DOMAIN slots |-> heap[s]]
          /\ \A s \in DOMAIN slots :
               /\ heap[s] = [allocator |-> heap[s].allocator, cells |-> heap[s].cells]
               /\ DOMAIN heap[s].cells = 0 .. SizeInBytes(slots[s]) - 1
      BY <2>0
    <2>2. ASSUME NEW s \in DOMAIN slots PROVE IsAllocation(heap[s])
      <3>1. slots[s].shape \in DOMAIN Shapes
        BY <1>1, ShapesInUse DEF UsedShapes
      <3>2. SizeInBytes(slots[s]) \in Nat
        BY <3>1, BytesInside DEF SizeInBytes
      <3> QED
        BY <2>1, <3>2 DEF IsAllocation
    <2>3. DOMAIN slots \subseteq Slot
      BY <1>1, ShapesInUse
    <2> QED
      BY <2>1, <2>2, <2>3 DEF IsHeap
  <1>4. AreElements(elements)
    BY <1>2 DEF AreElements
  <1>5. OneOwner
    BY <1>2, <1>3 DEF OneOwner, Owned
  <1>6. AllFit
    BY <1>2 DEF AllFit
  <1> QED
    BY <1>1, <1>3, <1>4, <1>5, <1>6 DEF OwnInv

LEMMA NextOwn ==
  ASSUME OwnInv, [Next]_vars
  PROVE  OwnInv'
  <1>1. CASE UNCHANGED vars
    BY <1>1, UnchangedOwn DEF vars
  <1>2. ASSUME NEW e \in Element, NEW p \in Places, NEW move \in BOOLEAN, NEW a \in Allocator,
               Construct(e, p, move, a)
        PROVE  OwnInv'
    BY <1>2, ConstructOwn
  <1>3. ASSUME NEW e \in Element, Destruct(e) PROVE OwnInv'
    BY <1>3, DestructOwn
  <1>4. ASSUME NEW e \in Element, NEW f \in Element,
               \/ \E a \in Allocator : CopyConstruct(e, f, a) \/ MoveConstructWith(e, f, a)
               \/ MoveConstruct(e, f) \/ CopyAssign(e, f)
               \/ MoveAssign(e, f) \/ SwapElements(e, f)
        PROVE  OwnInv'
    <2>1. ASSUME NEW a \in Allocator, CopyConstruct(e, f, a) PROVE OwnInv'
      BY <2>1, CopyConstructOwn
    <2>2. ASSUME NEW a \in Allocator, MoveConstructWith(e, f, a) PROVE OwnInv'
      BY <2>2, MoveConstructWithOwn
    <2>3. CASE MoveConstruct(e, f)
      BY <2>3, MoveConstructOwn
    <2>4. CASE CopyAssign(e, f)
      BY <2>4, CopyAssignOwn
    <2>5. CASE MoveAssign(e, f)
      BY <2>5, MoveAssignOwn
    <2>6. CASE SwapElements(e, f)
      BY <2>6, SwapElementsOwn
    <2> QED
      BY <1>4, <2>1, <2>2, <2>3, <2>4, <2>5, <2>6
  <1>5. ASSUME NEW p \in Places, NEW q \in Places, SwapReferences(p, q) PROVE OwnInv'
    BY <1>5, SwapReferencesOwn
  <1>6. ASSUME NEW p \in Places, NEW q \in Places, NEW move \in BOOLEAN, Assign(p, q, move)
        PROVE  OwnInv'
    BY <1>6, AssignOwn
  <1>7. ASSUME NEW p \in Places, NEW q \in Places, NEW move \in BOOLEAN, AssignToElement(p, q, move)
        PROVE  OwnInv'
    BY <1>7, AssignToElementOwn
  <1> QED
    BY <1>1, <1>2, <1>3, <1>4, <1>5, <1>6, <1>7 DEF Next

LEMMA SpecOwn == Spec => []OwnInv
  BY InitOwn, NextOwn, PTL DEF Spec

(* However memory_ and reference_ of elements are copied, moved and swapped *)
(* apart from each other, each allocation has one owner, which refers into  *)
(* it, whatever calls a program makes up to the first with undefined        *)
(* behaviour (element.hpp:140-144, 300-371, memory.hpp).                    *)
THEOREM MemoryHasOneOwner == Spec => []SoleOwner
  <1>1. OwnInv => SoleOwner
    <2> SUFFICES ASSUME OwnInv PROVE SoleOwner
      OBVIOUS
    <2>1. ASSUME NEW b \in DOMAIN heap \ DOMAIN slots
          PROVE  Cardinality({e \in DOMAIN elements : elements[e].memory.block = b}) = 1
      <3>1. PICK e \in DOMAIN elements : elements[e].memory.block = b
        BY DEF OwnInv, OneOwner, Owned
      <3>2. b # Null
        BY ElementNames DEF OwnInv, IsHeap
      <3>3. {x \in DOMAIN elements : elements[x].memory.block = b} = {e}
        BY <3>1, <3>2 DEF OwnInv, OneOwner, IsHollow
      <3> QED
        BY <3>3, FS_Singleton
    <2> QED
      BY <2>1 DEF OwnInv, OneOwner, Owned, IsHollow, SoleOwner
  <1> QED
    BY <1>1, SpecOwn, PTL

(* As long as no element is assigned one of other sizes through references, *)
(* which writes past its end, an element returns its memory to an allocator *)
(* equal to the one it came from, with the same number of units             *)
(* (allocator.hpp:49-55, parameter.hpp:46).                                 *)
THEOREM ReleasedWhereAcquired ==
  ASSUME "other_sizes" \in Avoided
  PROVE  Spec => []ReleasedByItsAllocator
  <1>1. OwnInv => ReleasedByItsAllocator
    <2> SUFFICES ASSUME OwnInv, NEW e \in DOMAIN elements
                 PROVE  MayDeallocate(elements[e].memory)
      BY DEF ReleasedByItsAllocator
    <2> DEFINE m == elements[e].memory
               n == m.units * Storage(params)
    <2>1. Fits(m, heap) /\ n \in Nat
      BY ElementFacts, ShapesInUse DEF OwnInv, AllFit, SameSizes
    <2>2. Cardinality(0 .. n - 1) = n
      <3> HIDE DEF n
      <3>1. n - 1 \in Int /\ 0 \in Int
        BY <2>1
      <3>2. Cardinality(0 .. n - 1) = IF 0 > n - 1 THEN 0 ELSE n - 1 - 0 + 1
        BY <3>1, FS_Interval
      <3> QED
        BY <2>1, <3>2
    <2>3. m.block # Null => m.block \in DOMAIN heap
      BY DEF OwnInv, OneOwner, Owned, IsHollow
    <2> QED
      BY <2>1, <2>2, <2>3 DEF Fits, MayDeallocate
  <1> QED
    BY <1>1, SpecOwn, PTL

-----------------------------------------------------------------------------
(* No byte that a run of parameters covers belongs to an object.            *)
LEMMA RunsSpareObjects ==
  ASSUME NEW i \in DOMAIN Shapes
  PROVE  /\ AssignedBytes[i] \cap ObjectBytes[i] = {}
         /\ SwappedBytes[i] \cap ObjectBytes[i] = {}
  <1> DEFINE ps == Shapes[i].params
             cs == Shapes[i].counts
             p == PlacementOf[i]
             zero == 0
  <1>1. IsParameterList(ps) /\ \A k \in DOMAIN ps : cs[k] \in Nat
    BY ShapeAssumption
  <1>2. p = Placement(ps, cs, zero) /\ zero \in Nat
    BY DEF PlacementOf
  <1>3. DOMAIN ps = 1 .. Len(ps) /\ Len(ps) \in Nat
    BY <1>1, ListFacts
  <1> HIDE DEF ps, cs, p, zero
  <1>4. /\ \A k \in DOMAIN ps : p[k][1] \in Nat /\ p[k][2] \in Nat
        /\ \A j, k \in DOMAIN ps : j < k => p[j][2] <= p[k][1]
    BY <1>1, <1>2, PlacesInOrder
  <1>5. ASSUME NEW k \in DOMAIN ps, NEW l \in DOMAIN ps
        PROVE  Bytes(i, k, l) = p[k][1] .. p[l][2] - 1
    BY DEF Bytes, Begin, End, p
  <1>6. ASSUME NEW kinds, NEW g \in Runs(ps, kinds), NEW k \in Manual(ps, kinds)
        PROVE  Bytes(i, g[1], g[2]) \cap Bytes(i, k, k) = {}
    <2>1. /\ g[1] \in DOMAIN ps /\ g[2] \in DOMAIN ps /\ k \in DOMAIN ps
          /\ ~ (g[1] <= k /\ k <= g[2])
      BY <1>3 DEF Runs, Manual
    <2>2. k < g[1] \/ g[2] < k
      BY <1>3, <2>1
    <2>3. p[k][2] <= p[g[1]][1] \/ p[g[2]][2] <= p[k][1]
      BY <1>4, <2>1, <2>2
    <2>4. /\ Bytes(i, g[1], g[2]) = p[g[1]][1] .. p[g[2]][2] - 1
          /\ Bytes(i, k, k) = p[k][1] .. p[k][2] - 1
      BY <1>5, <2>1
    <2>5. /\ p[g[1]][1] \in Int /\ p[g[2]][2] \in Int
          /\ p[k][1] \in Int /\ p[k][2] \in Int
      BY <1>4, <2>1
    <2> QED
      BY <2>3, <2>4, <2>5
  <1>7. AssignedBytes[i] \cap ObjectBytes[i] = {}
    <2> DEFINE kinds == TriviallyAssignable
    <2>1. /\ AssignedBytes[i] = UNION {Bytes(i, g[1], g[2]) : g \in Runs(ps, kinds)}
          /\ ObjectBytes[i] = UNION {Bytes(i, k, k) : k \in Manual(ps, kinds)}
      BY DEF AssignedBytes, ObjectBytes, BytesIn, ps
    <2> HIDE DEF kinds
    <2> QED
      BY <1>6, <2>1
  <1>8. SwappedBytes[i] = AssignedBytes[i]
    BY DEF SwappedBytes, AssignedBytes, TriviallyAssignable, TriviallySwappable
  <1> QED
    BY <1>7, <1>8

(* An element is there, and its objects and no other bytes are objects.     *)
IsCell(c) == c = [value |-> c.value, home |-> c.home]

Intact(h, r) ==
  /\ r.block \in DOMAIN h
  /\ SizeInBytes(r) <= Cardinality(DOMAIN h[r.block].cells)
  /\ \A a \in DOMAIN h[r.block].cells :
       /\ IsCell(h[r.block].cells[a])
       /\ h[r.block].cells[a].home = IF a \in Objects(r) THEN <<r.block, a>> ELSE << >>

(* There is no object in an allocation.                                     *)
Blank(h, b) ==
  \A a \in DOMAIN h[b].cells : IsCell(h[b].cells[a]) /\ h[b].cells[a].home = << >>

(* From h to g nothing but the cells of one allocation changes.             *)
Changes(h, g, b) ==
  /\ IsHeap(g) /\ DOMAIN g = DOMAIN h /\ DOMAIN g[b].cells = DOMAIN h[b].cells
  /\ g[b].allocator = h[b].allocator
  /\ \A c \in DOMAIN h \ {b} : g[c] = h[c]

(* An intact element may be used, and lies within its allocation.           *)
LEMMA IntactIsAlive ==
  ASSUME AreSlots, SameSizes, NEW h, IsHeap(h), NEW r, r.shape \in UsedShapes, Intact(h, r)
  PROVE  /\ IsAlive(h, r)
         /\ Objects(r) \subseteq DOMAIN h[r.block].cells
         /\ AssignedBytes[r.shape] \subseteq DOMAIN h[r.block].cells
         /\ SwappedBytes[r.shape] \subseteq DOMAIN h[r.block].cells
  <1>1. r.block \in DOMAIN h /\ SizeInBytes(r) <= Cardinality(DOMAIN h[r.block].cells)
    BY DEF Intact
  <1>2. /\ Objects(r) \subseteq DOMAIN h[r.block].cells
        /\ AssignedBytes[r.shape] \subseteq DOMAIN h[r.block].cells
        /\ SwappedBytes[r.shape] \subseteq DOMAIN h[r.block].cells
    BY <1>1, ElementIsInside
  <1> QED
    BY <1>1, <1>2 DEF Intact, IsAlive

(* It stays intact where its bytes stay the same.                           *)
LEMMA IntactKept ==
  ASSUME NEW h, NEW g, NEW r, Intact(h, r), r.block \in DOMAIN g,
         g[r.block].cells = h[r.block].cells
  PROVE  Intact(g, r)
  BY DEF Intact

(* Bytes written over those of an allocation.                               *)
LEMMA OverwriteChanges ==
  ASSUME SameSizes, NEW h, IsHeap(h), NEW b \in DOMAIN h, NEW f,
         DOMAIN f \subseteq DOMAIN h[b].cells
  PROVE  LET g == Overwrite(h, b, f)
         IN  /\ Changes(h, g, b)
             /\ \A a \in DOMAIN h[b].cells :
                  g[b].cells[a] = IF a \in DOMAIN f THEN f[a] ELSE h[b].cells[a]
  <1> DEFINE w == Written(f, h[b].cells)
             g == Overwrite(h, b, f)
  <1>1. DOMAIN f \cup DOMAIN h[b].cells = DOMAIN h[b].cells
    OBVIOUS
  <1>2. /\ DOMAIN w = DOMAIN h[b].cells
        /\ \A a \in DOMAIN h[b].cells : w[a] = IF a \in DOMAIN f THEN f[a] ELSE h[b].cells[a]
    BY <1>1 DEF Written
  <1>3. g = [h EXCEPT ![b].cells = w]
    BY DEF Overwrite
  <1> HIDE DEF w, g
  <1>4. h[b] = [allocator |-> h[b].allocator, cells |-> h[b].cells]
    BY DEF IsHeap, IsAllocation
  <1>5. /\ DOMAIN g = DOMAIN h /\ \A c \in DOMAIN h \ {b} : g[c] = h[c]
        /\ g[b].cells = w /\ g[b].allocator = h[b].allocator
    <2>1. DOMAIN g = DOMAIN h /\ \A c \in DOMAIN h \ {b} : g[c] = h[c]
      BY <1>3
    <2>2. g[b] = [h[b] EXCEPT !.cells = w]
      BY <1>3
    <2>3. g[b] = [allocator |-> h[b].allocator, cells |-> w]
      BY <1>4, <2>2
    <2> QED
      BY <2>1, <2>3
  <1>6. IsHeap(g)
    <2>1. IsHeap(Overwrite(h, b, f))
      BY OverwriteKeeps DEF Kept
    <2> QED
      BY <2>1 DEF g
  <1>7. Changes(h, g, b)
    BY <1>2, <1>5, <1>6 DEF Changes
  <1> QED
    BY <1>2, <1>5, <1>7 DEF g

(* What moving leaves of the value v of a byte of r.                        *)
Stays(r, a, v, w) == w = v \/ (a \in Objects(r) /\ w = Moved)

(* What moving leaves of an element.                                        *)
LEMMA LeftIntact ==
  ASSUME AreSlots, SameSizes, NEW h, IsHeap(h), NEW r, r.shape \in UsedShapes, Intact(h, r),
         NEW move
  PROVE  LET g == IF move THEN Become(h, r, Moved) ELSE h
         IN  /\ Changes(h, g, r.block) /\ Intact(g, r)
             /\ ~ move => g = h
             /\ \A a \in DOMAIN h[r.block].cells :
                  Stays(r, a, h[r.block].cells[a].value, g[r.block].cells[a].value)
  <1> DEFINE f == [a \in Objects(r) |-> Object(Moved, r.block, a)]
             g == Overwrite(h, r.block, f)
             b == r.block
  <1>1. DOMAIN f = Objects(r) /\ Objects(r) \subseteq DOMAIN h[b].cells /\ b \in DOMAIN h
    BY IntactIsAlive DEF IsAlive
  <1>2. \A a \in Objects(r) : /\ IsCell(f[a]) /\ f[a].home = <<b, a>> /\ f[a].value = Moved
    BY DEF Object, IsCell
  <1>3. g = Become(h, r, Moved)
    BY DEF Become
  <1> HIDE DEF f, g, b
  <1>4. Changes(h, g, b) /\ \A a \in DOMAIN h[b].cells :
                              g[b].cells[a] = IF a \in DOMAIN f THEN f[a] ELSE h[b].cells[a]
    BY <1>1, OverwriteChanges DEF g, b
  <1>5. Intact(g, r)
    BY <1>1, <1>2, <1>4 DEF Intact, Changes, b
  <1>6. \A a \in DOMAIN h[b].cells : Stays(r, a, h[b].cells[a].value, g[b].cells[a].value)
    BY <1>1, <1>2, <1>4 DEF Stays
  <1>7. Changes(h, h, b)
    BY <1>1 DEF Changes
  <1> QED
    BY <1>3, <1>4, <1>5, <1>6, <1>7 DEF b, Stays

(* An element whose bytes are written with objects where they belong.       *)
LEMMA PutIntact ==
  ASSUME SameSizes, NEW h, IsHeap(h), NEW t, t.block \in DOMAIN h,
         SizeInBytes(t) <= Cardinality(DOMAIN h[t.block].cells),
         NEW f, DOMAIN f \subseteq DOMAIN h[t.block].cells,
         \A a \in DOMAIN f :
           IsCell(f[a]) /\ f[a].home = IF a \in Objects(t) THEN <<t.block, a>> ELSE << >>,
         \A a \in DOMAIN h[t.block].cells \ DOMAIN f :
           /\ IsCell(h[t.block].cells[a])
           /\ h[t.block].cells[a].home = IF a \in Objects(t) THEN <<t.block, a>> ELSE << >>
  PROVE  LET k == Overwrite(h, t.block, f)
         IN  /\ Changes(h, k, t.block) /\ Intact(k, t)
             /\ \A a \in DOMAIN f : k[t.block].cells[a] = f[a]
  <1> DEFINE k == Overwrite(h, t.block, f)
             b == t.block
  <1>1. /\ Changes(h, k, b)
        /\ \A a \in DOMAIN h[b].cells : k[b].cells[a] = IF a \in DOMAIN f THEN f[a] ELSE h[b].cells[a]
    BY OverwriteChanges
  <1> HIDE DEF k
  <1>2. DOMAIN k = DOMAIN h /\ DOMAIN k[b].cells = DOMAIN h[b].cells
    BY <1>1 DEF Changes
  <1>3. ASSUME NEW a \in DOMAIN k[b].cells
        PROVE  /\ IsCell(k[b].cells[a])
               /\ k[b].cells[a].home = IF a \in Objects(t) THEN <<b, a>> ELSE << >>
    <2>1. CASE a \in DOMAIN f
      BY <1>1, <1>2, <2>1
    <2>2. CASE a \notin DOMAIN f
      BY <1>1, <1>2, <2>2
    <2> QED
      BY <2>1, <2>2
  <1>4. Intact(k, t)
    BY <1>2, <1>3 DEF Intact
  <1> QED
    BY <1>1, <1>4 DEF k

(* The bytes that an element has a value in, as far as the operators of     *)
(* references look at them.                                                 *)
Covered(i) == AssignedBytes[i] \cup ObjectBytes[i]

(* What an element is overwritten with when it is assigned another one.     *)
CopyOf(h, s, t) ==
  Written([a \in AssignedBytes[s.shape] |-> h[s.block].cells[a]], Copies(h, s, t.block))

IsCopy(h, f, s, t) ==
  /\ DOMAIN f = Covered(s.shape) /\ Covered(s.shape) \subseteq DOMAIN h[t.block].cells
  /\ Covered(s.shape) \subseteq DOMAIN h[s.block].cells
  /\ \A a \in DOMAIN f :
       /\ f[a].value = h[s.block].cells[a].value
       /\ IsCell(f[a])
       /\ f[a].home = IF a \in Objects(t) THEN <<t.block, a>> ELSE << >>

(* What an assignment writes is a copy, objects in their own places.        *)
LEMMA CopiesFit ==
  ASSUME AreSlots, SameSizes, NEW h, IsHeap(h), NEW s, NEW t,
         s.shape \in UsedShapes, t.shape = s.shape, Intact(h, s), Intact(h, t)
  PROVE  IsCopy(h, CopyOf(h, s, t), s, t)
  <1> DEFINE A == AssignedBytes[s.shape]
             from == h[s.block].cells
             to == h[t.block].cells
             f == CopyOf(h, s, t)
  <1>1. Objects(s) = ObjectBytes[s.shape] /\ Objects(t) = ObjectBytes[s.shape]
    BY DEF Objects
  <1>2. /\ A \subseteq DOMAIN from /\ Objects(s) \subseteq DOMAIN from
        /\ A \subseteq DOMAIN to /\ Objects(s) \subseteq DOMAIN to
    BY <1>1, IntactIsAlive
  <1>3. A \cap Objects(s) = {}
    BY <1>1, ShapesInUse, RunsSpareObjects
  <1>4. /\ DOMAIN f = A \cup Objects(s)
        /\ \A a \in A : f[a] = from[a]
        /\ \A a \in Objects(s) : a \notin A => f[a] = [to[a] EXCEPT !.value = from[a].value]
    BY DEF CopyOf, Written, Copies
  <1>5. /\ \A a \in DOMAIN from : /\ IsCell(from[a])
                                  /\ from[a].home = IF a \in Objects(s) THEN <<s.block, a>> ELSE << >>
        /\ \A a \in DOMAIN to : /\ IsCell(to[a])
                                /\ to[a].home = IF a \in Objects(t) THEN <<t.block, a>> ELSE << >>
    BY DEF Intact
  <1> HIDE DEF A, from, to, f
  <1>6. ASSUME NEW a \in A
        PROVE  /\ f[a].value = from[a].value /\ IsCell(f[a])
               /\ f[a].home = IF a \in Objects(t) THEN <<t.block, a>> ELSE << >>
    BY <1>1, <1>2, <1>3, <1>4, <1>5
  <1>7. ASSUME NEW a \in Objects(s)
        PROVE  /\ f[a].value = from[a].value /\ IsCell(f[a])
               /\ f[a].home = IF a \in Objects(t) THEN <<t.block, a>> ELSE << >>
    <2>1. f[a] = [to[a] EXCEPT !.value = from[a].value] /\ a \in DOMAIN to
      BY <1>2, <1>3, <1>4
    <2>2. to[a] = [value |-> to[a].value, home |-> to[a].home]
      BY <1>5, <2>1 DEF IsCell
    <2>3. f[a] = [value |-> from[a].value, home |-> to[a].home]
      BY <2>1, <2>2
    <2>4. to[a].home = IF a \in Objects(t) THEN <<t.block, a>> ELSE << >>
      BY <1>5, <2>1
    <2> QED
      BY <2>3, <2>4 DEF IsCell
  <1>8. DOMAIN f = Covered(s.shape)
    BY <1>1, <1>4 DEF Covered, A
  <1>9. Covered(s.shape) \subseteq DOMAIN to /\ Covered(s.shape) \subseteq DOMAIN from
    BY <1>1, <1>2 DEF Covered, A
  <1>10. ASSUME NEW a \in DOMAIN f
         PROVE  /\ f[a].value = from[a].value /\ IsCell(f[a])
                /\ f[a].home = IF a \in Objects(t) THEN <<t.block, a>> ELSE << >>
    BY <1>4, <1>6, <1>7
  <1> QED
    <2>1. IsCopy(h, f, s, t)
      BY <1>8, <1>9, <1>10 DEF from, to, IsCopy
    <2> QED
      BY <2>1 DEF f

(* From h to g at most the allocations in B change, and no size.            *)
ChangesAll(h, g, B) == DOMAIN g = DOMAIN h /\ \A c \in DOMAIN h \ B : g[c] = h[c]

(* The value of t in g is the one of s in h.                                *)
Takes(h, g, s, t) ==
  \A a \in Covered(s.shape) : g[t.block].cells[a].value = h[s.block].cells[a].value

(* The value of s in g is what moving from it may leave.                    *)
Leaves(h, g, s) ==
  \A a \in DOMAIN h[s.block].cells :
    Stays(s, a, h[s.block].cells[a].value, g[s.block].cells[a].value)

(* ElementTraits::assign hands on a value and keeps both elements intact.   *)
LEMMA AssignedIntact ==
  ASSUME AreSlots, SameSizes, NEW h, IsHeap(h), NEW s, NEW t, NEW move,
         s.shape \in UsedShapes, t.shape = s.shape, s.block # t.block, Intact(h, s), Intact(h, t)
  PROVE  LET k == Assigned(h, s, t, move)
         IN  /\ ChangesAll(h, k, {s.block, t.block}) /\ Intact(k, s) /\ Intact(k, t)
             /\ Takes(h, k, s, t) /\ Leaves(h, k, s)
             /\ ~ move => k[s.block] = h[s.block]
  <1> DEFINE left == IF move THEN Become(h, s, Moved) ELSE h
             f == CopyOf(h, s, t)
             k == Overwrite(left, t.block, f)
  <1>1. /\ Changes(h, left, s.block) /\ Intact(left, s)
        /\ ~ move => left = h
        /\ \A a \in DOMAIN h[s.block].cells :
             Stays(s, a, h[s.block].cells[a].value, left[s.block].cells[a].value)
    BY LeftIntact
  <1>2. /\ DOMAIN f = Covered(s.shape) /\ Covered(s.shape) \subseteq DOMAIN h[t.block].cells
        /\ \A a \in DOMAIN f :
             /\ f[a].value = h[s.block].cells[a].value
             /\ IsCell(f[a])
             /\ f[a].home = IF a \in Objects(t) THEN <<t.block, a>> ELSE << >>
    <2>1. IsCopy(h, f, s, t)
      BY CopiesFit
    <2> HIDE DEF f
    <2> QED
      BY <2>1 DEF IsCopy
  <1>3. k = Assigned(h, s, t, move)
    BY DEF Assigned, CopyOf
  <1> HIDE DEF left, f
  <1>4. t.block \in DOMAIN h /\ left[t.block] = h[t.block] /\ DOMAIN left = DOMAIN h /\ IsHeap(left)
        /\ s.block \in DOMAIN h
    BY <1>1 DEF Changes, Intact
  <1>5. /\ Changes(left, k, t.block) /\ Intact(k, t)
        /\ \A a \in DOMAIN f : k[t.block].cells[a] = f[a]
    <2>1. /\ DOMAIN f \subseteq DOMAIN left[t.block].cells
          /\ SizeInBytes(t) <= Cardinality(DOMAIN left[t.block].cells)
          /\ \A a \in DOMAIN left[t.block].cells :
              /\ IsCell(left[t.block].cells[a])
              /\ left[t.block].cells[a].home = IF a \in Objects(t) THEN <<t.block, a>> ELSE << >>
      BY <1>2, <1>4 DEF Intact
    <2>2. \A a \in DOMAIN left[t.block].cells \ DOMAIN f :
           /\ IsCell(left[t.block].cells[a])
           /\ left[t.block].cells[a].home = IF a \in Objects(t) THEN <<t.block, a>> ELSE << >>
      BY <2>1
    <2> QED
      BY <1>2, <1>4, <2>1, <2>2, PutIntact
  <1> HIDE DEF k
  <1>6. k[s.block] = left[s.block] /\ DOMAIN k = DOMAIN h
    BY <1>4, <1>5 DEF Changes
  <1>7. ChangesAll(h, k, {s.block, t.block})
    BY <1>1, <1>4, <1>5 DEF Changes, ChangesAll
  <1>8. Intact(k, s)
    BY <1>1, <1>4, <1>6, IntactKept
  <1>9. Takes(h, k, s, t)
    BY <1>2, <1>5 DEF Takes
  <1>10. Leaves(h, k, s)
    BY <1>1, <1>6 DEF Leaves
  <1> QED
    BY <1>1, <1>3, <1>5, <1>6, <1>7, <1>8, <1>9, <1>10

(* ElementTraits::swap exchanges two.                                       *)
LEMMA SwappedIntact ==
  ASSUME AreSlots, SameSizes, NEW h, IsHeap(h), NEW r, NEW s,
         s.shape \in UsedShapes, r.shape = s.shape, r.block # s.block, Intact(h, r), Intact(h, s)
  PROVE  LET k == Swapped(h, r, s)
         IN  /\ ChangesAll(h, k, {r.block, s.block}) /\ Intact(k, r) /\ Intact(k, s)
             /\ Takes(h, k, s, r) /\ Takes(h, k, r, s)
  <1> DEFINE f == CopyOf(h, s, r)
             g == CopyOf(h, r, s)
             half == Overwrite(h, r.block, f)
             k == Overwrite(half, s.block, g)
  <1>1. /\ DOMAIN f = Covered(s.shape) /\ Covered(s.shape) \subseteq DOMAIN h[r.block].cells
        /\ \A a \in DOMAIN f :
             /\ f[a].value = h[s.block].cells[a].value
             /\ IsCell(f[a])
             /\ f[a].home = IF a \in Objects(r) THEN <<r.block, a>> ELSE << >>
    <2>1. IsCopy(h, f, s, r)
      BY CopiesFit
    <2> HIDE DEF f
    <2> QED
      BY <2>1 DEF IsCopy
  <1>2. /\ DOMAIN g = Covered(r.shape) /\ Covered(r.shape) \subseteq DOMAIN h[s.block].cells
        /\ \A a \in DOMAIN g :
             /\ g[a].value = h[r.block].cells[a].value
             /\ IsCell(g[a])
             /\ g[a].home = IF a \in Objects(s) THEN <<s.block, a>> ELSE << >>
    <2>1. IsCopy(h, g, r, s)
      BY CopiesFit
    <2> HIDE DEF g
    <2> QED
      BY <2>1 DEF IsCopy
  <1>3. k = Swapped(h, r, s)
    <2>1. SwappedBytes[r.shape] = AssignedBytes[r.shape] /\ r.shape = s.shape
      BY ShapesInUse DEF SwappedBytes, AssignedBytes, TriviallyAssignable, TriviallySwappable
    <2> QED
      BY <2>1 DEF Swapped, CopyOf
  <1> HIDE DEF f, g
  <1>4. /\ r.block \in DOMAIN h /\ s.block \in DOMAIN h
        /\ \A x \in {r, s} :
             /\ SizeInBytes(x) <= Cardinality(DOMAIN h[x.block].cells)
             /\ \A a \in DOMAIN h[x.block].cells :
                  /\ IsCell(h[x.block].cells[a])
                  /\ h[x.block].cells[a].home = IF a \in Objects(x) THEN <<x.block, a>> ELSE << >>
    BY DEF Intact
  <1>5. /\ Changes(h, half, r.block) /\ Intact(half, r)
        /\ \A a \in DOMAIN f : half[r.block].cells[a] = f[a]
    <2>1. /\ \A a \in DOMAIN h[r.block].cells \ DOMAIN f :
               /\ IsCell(h[r.block].cells[a])
               /\ h[r.block].cells[a].home = IF a \in Objects(r) THEN <<r.block, a>> ELSE << >>
          /\ SizeInBytes(r) <= Cardinality(DOMAIN h[r.block].cells)
      BY <1>4
    <2> QED
      BY <1>1, <1>4, <2>1, PutIntact
  <1> HIDE DEF half
  <1>6. half[s.block] = h[s.block] /\ DOMAIN half = DOMAIN h /\ IsHeap(half)
    BY <1>4, <1>5 DEF Changes
  <1>7. /\ Changes(half, k, s.block) /\ Intact(k, s)
        /\ \A a \in DOMAIN g : k[s.block].cells[a] = g[a]
    <2>1. /\ \A a \in DOMAIN half[s.block].cells \ DOMAIN g :
               /\ IsCell(half[s.block].cells[a])
               /\ half[s.block].cells[a].home = IF a \in Objects(s) THEN <<s.block, a>> ELSE << >>
          /\ SizeInBytes(s) <= Cardinality(DOMAIN half[s.block].cells)
          /\ DOMAIN g \subseteq DOMAIN half[s.block].cells
      BY <1>2, <1>4, <1>6
    <2> QED
      BY <1>2, <1>4, <1>6, <2>1, PutIntact
  <1> HIDE DEF k
  <1>8. k[r.block] = half[r.block] /\ DOMAIN k = DOMAIN h
    BY <1>4, <1>6, <1>7 DEF Changes
  <1>9. ChangesAll(h, k, {r.block, s.block})
    BY <1>5, <1>6, <1>7 DEF Changes, ChangesAll
  <1>10. Intact(k, r)
    BY <1>4, <1>5, <1>8, IntactKept
  <1>11. Takes(h, k, s, r)
    BY <1>1, <1>5, <1>8 DEF Takes
  <1>12. Takes(h, k, r, s)
    BY <1>2, <1>7 DEF Takes
  <1> QED
    BY <1>3, <1>7, <1>9, <1>10, <1>11, <1>12

(* An element is stored where no other one is.                              *)
IsStored(h, k, s, n, b, move) ==
  /\ ChangesAll(h, k, {s.block, b}) /\ Intact(k, s) /\ Intact(k, Reference(b, s.shape))
  /\ Leaves(h, k, s)
  /\ ~ move => k[s.block] = h[s.block]
  /\ \A a \in Objects(s) \cup (0 .. n - 1) : k[b].cells[a].value = h[s.block].cells[a].value

(* store_and_load makes an intact copy.                                     *)
LEMMA StoredIntact ==
  ASSUME AreSlots, SameSizes, NEW h, IsHeap(h), NEW s, s.shape \in UsedShapes, Intact(h, s),
         NEW b \in DOMAIN h, b # s.block, Blank(h, b), NEW n \in Nat, NEW move,
         n <= Cardinality(DOMAIN h[s.block].cells), n <= Cardinality(DOMAIN h[b].cells),
         SizeInBytes(s) <= Cardinality(DOMAIN h[b].cells)
  PROVE  MayStore(h, s, n, b) /\ IsStored(h, Stored(h, s, n, b, move), s, n, b, move)
  <1> DEFINE left == IF move THEN Become(h, s, Moved) ELSE h
             from == h[s.block].cells
             to == h[b].cells
             f == Written(Constructed(h, s, b), [a \in 0 .. n - 1 |-> from[a]])
             k == Overwrite(left, b, f)
             t == Reference(b, s.shape)
  <1>1. /\ Changes(h, left, s.block) /\ Intact(left, s)
        /\ ~ move => left = h
        /\ \A a \in DOMAIN h[s.block].cells :
             Stays(s, a, h[s.block].cells[a].value, left[s.block].cells[a].value)
    BY LeftIntact
  <1>2. k = Stored(h, s, n, b, move)
    BY DEF Stored
  <1>3. /\ DOMAIN f = Objects(s) \cup (0 .. n - 1)
        /\ \A a \in Objects(s) : f[a] = Object(from[a].value, b, a)
        /\ \A a \in 0 .. n - 1 : a \notin Objects(s) => f[a] = from[a]
    BY DEF Written, Constructed
  <1>4. t.block = b /\ t.shape = s.shape /\ Objects(t) = Objects(s) /\ SizeInBytes(t) = SizeInBytes(s)
    BY DEF Reference, Objects, SizeInBytes
  <1>5. s.block \in DOMAIN h /\ IsAlive(h, s) /\ Objects(s) \subseteq DOMAIN from
    BY IntactIsAlive DEF Intact
  <1>6. /\ \A a \in DOMAIN from : /\ IsCell(from[a])
                                  /\ from[a].home = IF a \in Objects(s) THEN <<s.block, a>> ELSE << >>
        /\ \A a \in DOMAIN to : IsCell(to[a]) /\ to[a].home = << >>
    BY DEF Intact, Blank
  <1> HIDE DEF left, f, k, t
  <1>7. MayStore(h, s, n, b)
    BY <1>5 DEF MayStore
  <1>8. 0 .. n - 1 \subseteq DOMAIN from /\ 0 .. n - 1 \subseteq DOMAIN to /\ Objects(s) \subseteq DOMAIN to
    BY <1>5, AliveIsInside, ElementIsInside
  <1>9. /\ DOMAIN left = DOMAIN h /\ IsHeap(left) /\ left[b] = h[b]
    BY <1>1 DEF Changes
  <1> HIDE DEF from, to
  <1>10. ASSUME NEW a \in DOMAIN f
         PROVE  /\ IsCell(f[a]) /\ f[a].value = from[a].value
                /\ f[a].home = IF a \in Objects(t) THEN <<b, a>> ELSE << >>
    <2>1. CASE a \in Objects(s)
      BY <1>3, <1>4, <2>1 DEF Object, IsCell
    <2>2. CASE a \notin Objects(s)
      <3>1. f[a] = from[a] /\ a \in DOMAIN from
        BY <1>3, <1>8, <2>2
      <3> QED
        BY <1>4, <1>6, <2>2, <3>1
    <2> QED
      BY <2>1, <2>2
  <1>11. /\ Changes(left, k, b) /\ Intact(k, t)
         /\ \A a \in DOMAIN f : k[b].cells[a] = f[a]
    <2>1. /\ \A a \in DOMAIN left[b].cells \ DOMAIN f :
               /\ IsCell(left[b].cells[a])
               /\ left[b].cells[a].home = IF a \in Objects(t) THEN <<t.block, a>> ELSE << >>
          /\ SizeInBytes(t) <= Cardinality(DOMAIN left[b].cells)
          /\ DOMAIN f \subseteq DOMAIN left[b].cells
      BY <1>3, <1>4, <1>6, <1>8, <1>9 DEF to
    <2>2. \A a \in DOMAIN f :
            IsCell(f[a]) /\ f[a].home = IF a \in Objects(t) THEN <<t.block, a>> ELSE << >>
      BY <1>4, <1>10
    <2>3. t.block \in DOMAIN left
      BY <1>4, <1>9
    <2> QED
      BY <1>4, <1>9, <2>1, <2>2, <2>3, PutIntact DEF k
  <1>12. k[s.block] = left[s.block] /\ DOMAIN k = DOMAIN h
    BY <1>5, <1>9, <1>11 DEF Changes
  <1>13. ChangesAll(h, k, {s.block, b})
    BY <1>1, <1>9, <1>11 DEF Changes, ChangesAll
  <1>14. Intact(k, s)
    BY <1>1, <1>5, <1>12, IntactKept
  <1>15. Leaves(h, k, s)
    BY <1>1, <1>12 DEF Leaves
  <1>16. \A a \in Objects(s) \cup (0 .. n - 1) : k[b].cells[a].value = from[a].value
    BY <1>3, <1>10, <1>11
  <1> QED
    BY <1>1, <1>2, <1>7, <1>11, <1>12, <1>13, <1>14, <1>15, <1>16 DEF t, from, IsStored

(* destruct() leaves memory without objects.                                *)
LEMMA DestroyedBlank ==
  ASSUME OwnInv, SameSizes, NEW e \in DOMAIN elements, ~ IsHollow(e),
         Intact(heap, elements[e].reference)
  PROVE  LET b == elements[e].memory.block
         IN  Changes(heap, Destroyed(e), b) /\ Blank(Destroyed(e), b) /\ b \in DOMAIN heap
  <1> DEFINE r == elements[e].reference
             b == elements[e].memory.block
             f == [a \in Objects(r) |-> Byte(Raw)]
             h == Overwrite(heap, b, f)
  <1>1. b = r.block /\ b \in DOMAIN heap
    BY DEF OwnInv, OneOwner, Owned
  <1>2. Destroyed(e) = h
    BY <1>1 DEF Destroyed, IsHollow
  <1>3. AreSlots /\ IsHeap(heap) /\ r.shape \in UsedShapes
    BY ElementFacts DEF OwnInv
  <1>4. Objects(r) \subseteq DOMAIN heap[b].cells
    BY <1>1, <1>3, IntactIsAlive
  <1>5. \A a \in DOMAIN heap[b].cells :
          /\ IsCell(heap[b].cells[a])
          /\ a \notin Objects(r) => heap[b].cells[a].home = << >>
    BY <1>1 DEF Intact
  <1>6. DOMAIN f = Objects(r) /\ \A a \in DOMAIN f : IsCell(f[a]) /\ f[a].home = << >>
    BY DEF Byte, IsCell
  <1> HIDE DEF f, h, r, b
  <1>7. /\ Changes(heap, h, b)
        /\ \A a \in DOMAIN heap[b].cells : h[b].cells[a] = IF a \in DOMAIN f THEN f[a] ELSE heap[b].cells[a]
    BY <1>1, <1>3, <1>4, <1>6, OverwriteChanges DEF h
  <1>8. Blank(h, b)
    BY <1>5, <1>6, <1>7 DEF Blank, Changes
  <1> QED
    BY <1>1, <1>2, <1>7, <1>8 DEF b

(* Fresh memory holds no object, and no other allocation is touched.        *)
IsAllocated(h, g, b, units) ==
  /\ Blank(g, b) /\ DOMAIN g = DOMAIN h \cup {b}
  /\ \A c \in DOMAIN h : g[c] = h[c]
  /\ DOMAIN g[b].cells = 0 .. units * Storage(params) - 1

LEMMA AllocatedBlank ==
  ASSUME NEW h, NEW b, b \notin DOMAIN h, NEW units, NEW a
  PROVE  IsAllocated(h, Allocate(h, b, units, a), b, units)
  <1> DEFINE cells == [i \in 0 .. units * Storage(params) - 1 |-> Byte(Raw)]
             g == Allocate(h, b, units, a)
  <1>1. \A i \in DOMAIN cells : IsCell(cells[i]) /\ cells[i].home = << >>
    BY DEF Byte, IsCell
  <1>2. DOMAIN cells = 0 .. units * Storage(params) - 1
    OBVIOUS
  <1> HIDE DEF cells
  <1>3. g = [c \in DOMAIN h \cup {b} |-> IF c = b THEN [allocator |-> a, cells |-> cells] ELSE h[c]]
    BY DEF Allocate, cells
  <1> HIDE DEF g
  <1>4. g[b].cells = cells /\ DOMAIN g = DOMAIN h \cup {b} /\ \A c \in DOMAIN h : g[c] = h[c]
    BY <1>3
  <1> QED
    BY <1>1, <1>2, <1>4 DEF Blank, g, IsAllocated

(* The number of bytes in n of them.                                        *)
LEMMA BytesCount ==
  ASSUME NEW n \in Nat
  PROVE  Cardinality(0 .. n - 1) = n
  <1>1. n - 1 \in Int /\ 0 \in Int
    OBVIOUS
  <1>2. Cardinality(0 .. n - 1) = IF 0 > n - 1 THEN 0 ELSE n - 1 - 0 + 1
    BY <1>1, FS_Interval
  <1> QED
    BY <1>2

(* The caller that uses no element it has moved from.                       *)
OnlyWithValues == "use_moved_from" \in Avoided

AllIntact == \A p \in Places : HasValue(p) => Intact(heap, ReferenceOf(p))

ObjInv == OwnInv /\ AllIntact /\ status = "defined"

(* Where elements are, by the invariant of ownership, now and after a step. *)
LEMMA PlacesAre ==
  OwnInv =>
    /\ DOMAIN slots \cap DOMAIN elements = {}
    /\ \A p \in DOMAIN slots : ReferenceOf(p) = slots[p] /\ HasValue(p) /\ slots[p].block = p
    /\ \A p \in DOMAIN elements : /\ ReferenceOf(p) = elements[p].reference
                                  /\ HasValue(p) <=> elements[p].memory.block # Null
    /\ \A p \in DOMAIN elements :
         HasValue(p) => elements[p].memory.block = elements[p].reference.block
    /\ Null \notin DOMAIN heap
  <1> SUFFICES ASSUME OwnInv
               PROVE  /\ DOMAIN slots \cap DOMAIN elements = {}
                      /\ \A p \in DOMAIN slots :
                           ReferenceOf(p) = slots[p] /\ HasValue(p) /\ slots[p].block = p
                      /\ \A p \in DOMAIN elements :
                           /\ ReferenceOf(p) = elements[p].reference
                           /\ HasValue(p) <=> elements[p].memory.block # Null
                      /\ \A p \in DOMAIN elements :
                           HasValue(p) => elements[p].memory.block = elements[p].reference.block
                      /\ Null \notin DOMAIN heap
    OBVIOUS
  <1>1. DOMAIN slots \subseteq Slot /\ \A s \in DOMAIN slots : slots[s].block = s
    BY ShapesInUse DEF OwnInv
  <1>2. DOMAIN elements \subseteq Element /\ DOMAIN heap \subseteq Slot \cup Block
    BY DEF OwnInv, AreElements, IsHeap
  <1>3. DOMAIN slots \cap DOMAIN elements = {} /\ Null \notin DOMAIN heap
    BY <1>1, <1>2, ElementNames
  <1>4. \A p \in DOMAIN elements : HasValue(p) <=> elements[p].memory.block # Null
    BY DEF HasValue, IsHollow
  <1>5. \A p \in DOMAIN elements : HasValue(p) => elements[p].memory.block = elements[p].reference.block
    BY <1>4 DEF OwnInv, OneOwner, IsHollow
  <1> QED
    BY <1>1, <1>3, <1>4, <1>5 DEF ReferenceOf, HasValue

LEMMA PlacesWillBe ==
  (OwnInv =>
    /\ DOMAIN slots \cap DOMAIN elements = {}
    /\ \A p \in DOMAIN slots : ReferenceOf(p) = slots[p] /\ HasValue(p) /\ slots[p].block = p
    /\ \A p \in DOMAIN elements : /\ ReferenceOf(p) = elements[p].reference
                                  /\ HasValue(p) <=> elements[p].memory.block # Null
    /\ \A p \in DOMAIN elements :
         HasValue(p) => elements[p].memory.block = elements[p].reference.block
    /\ Null \notin DOMAIN heap)'
  BY PlacesAre, PTL

(* Every place with a value has an allocation, and no two have the same.    *)
LEMMA PlacesApart ==
  ASSUME OwnInv, NEW p \in Places, HasValue(p)
  PROVE  /\ ReferenceOf(p).block \in DOMAIN heap
         /\ \A q \in Places \ {p} : HasValue(q) => ReferenceOf(q).block # ReferenceOf(p).block
  <1>1. \A x \in DOMAIN elements : HasValue(x) => ReferenceOf(x).block = elements[x].memory.block
    BY PlacesAre
  <1>2. \A x \in DOMAIN elements : HasValue(x) => elements[x].memory.block \in Owned(heap)
    BY PlacesAre DEF OwnInv, OneOwner, IsHollow
  <1>3. \A x, y \in DOMAIN elements :
          x # y /\ HasValue(x) => elements[x].memory.block # elements[y].memory.block
    BY PlacesAre DEF OwnInv, OneOwner, IsHollow
  <1>4. \A x \in DOMAIN slots : ReferenceOf(x).block = x /\ x \in DOMAIN heap
    BY PlacesAre DEF OwnInv, OneOwner
  <1> QED
    BY <1>1, <1>2, <1>3, <1>4 DEF Places, Owned

(* A step does not touch what is at x.                                      *)
Untouched(x) ==
  /\ x \in Places /\ ReferenceOf(x)' = ReferenceOf(x) /\ HasValue(x)' = HasValue(x)
  /\ HasValue(x) => /\ ReferenceOf(x).block \in DOMAIN heap'
                    /\ heap'[ReferenceOf(x).block].cells = heap[ReferenceOf(x).block].cells

LEMMA UntouchedStays ==
  ASSUME ObjInv, NEW x, Untouched(x)
  PROVE  /\ HasValue(x)' => Intact(heap', ReferenceOf(x)')
         /\ Contents(x)' = Contents(x)
  <1>1. x \in Places /\ ReferenceOf(x)' = ReferenceOf(x) /\ HasValue(x)' = HasValue(x)
    BY DEF Untouched
  <1>2. CASE HasValue(x)
    <2>1. /\ Intact(heap, ReferenceOf(x)) /\ ReferenceOf(x).block \in DOMAIN heap'
          /\ heap'[ReferenceOf(x).block].cells = heap[ReferenceOf(x).block].cells
      BY <1>1, <1>2 DEF ObjInv, AllIntact, Untouched
    <2>2. Intact(heap', ReferenceOf(x))
      BY <2>1, IntactKept
    <2>3. Contents(x)' = Contents(x)
      BY <1>1, <1>2, <2>1 DEF Contents
    <2> QED
      BY <1>1, <2>2, <2>3
  <1>3. CASE ~ HasValue(x)
    BY <1>1, <1>3 DEF Contents
  <1> QED
    BY <1>2, <1>3

(* A step that touches at most the places W, and leaves elements there.     *)
LEMMA StepIntact ==
  ASSUME ObjInv, OwnInv', status' = status, NEW W, Places \ W = Places' \ W,
         \A x \in Places' \ W : Untouched(x),
         \A x \in W : x \in Places' /\ HasValue(x)' => Intact(heap', ReferenceOf(x)')
  PROVE  ObjInv' /\ Values!OnlyAt(W, contents, contents')
  <1>1. ASSUME NEW x \in Places', HasValue(x)' PROVE Intact(heap', ReferenceOf(x)')
    <2>1. CASE x \in W
      BY <1>1, <2>1
    <2>2. CASE x \notin W
      BY <1>1, <2>2, UntouchedStays
    <2> QED
      BY <2>1, <2>2
  <1>2. ObjInv'
    BY <1>1 DEF ObjInv, AllIntact
  <1>3. DOMAIN contents = Places /\ DOMAIN contents' = Places'
    BY DEF contents
  <1>4. ASSUME NEW x \in Places \ W PROVE contents'[x] = contents[x]
    <2>1. Contents(x)' = Contents(x) /\ x \in Places /\ x \in Places'
      BY <1>4, UntouchedStays
    <2> QED
      BY <2>1 DEF contents
  <1> QED
    BY <1>2, <1>3, <1>4 DEF Values!OnlyAt

(* A parameter that belongs in a run is in one.                             *)
LEMMA RunExists ==
  ASSUME NEW ps, DOMAIN ps = 1 .. Len(ps), Len(ps) \in Nat, NEW kinds,
         NEW k \in DOMAIN ps, ps[k].kind \in kinds
  PROVE  \E g \in Runs(ps, kinds) : g[1] <= k /\ k <= g[2]
  <1> DEFINE n == Len(ps)
             fits(j) == j \in DOMAIN ps /\ ps[j].kind \in kinds
             S == {i \in 1 .. k : \A j \in i .. k : fits(j)}
             T == {i \in k .. n : \A j \in k .. i : fits(j)}
  <1>1. n \in Nat /\ k \in 1 .. n /\ fits(k) /\ \A j : fits(j) => j \in 1 .. n
    OBVIOUS
  <1> HIDE DEF n, fits
  <1>2. S \subseteq Nat /\ k \in S /\ T \subseteq 0 .. n /\ k \in T
    BY <1>1
  <1>3. PICK first \in S : \A m \in S : first <= m
    BY <1>2, LeastElement
  <1>4. PICK last \in T : \A m \in T : last >= m
    BY <1>1, <1>2, GreatestElement
  <1>5. /\ first \in 1 .. k /\ last \in k .. n
        /\ \A j \in first .. last : fits(j)
    BY <1>1, <1>3, <1>4
  <1>6. ~ fits(first - 1)
    <2>1. SUFFICES ASSUME fits(first - 1) PROVE FALSE
      OBVIOUS
    <2>2. first - 1 \in 1 .. k
      BY <1>1, <1>5, <2>1
    <2>3. \A j \in first - 1 .. k : fits(j)
      BY <1>1, <1>5, <2>1
    <2> QED
      BY <1>3, <1>5, <2>2, <2>3
  <1>7. ~ fits(last + 1)
    <2>1. SUFFICES ASSUME fits(last + 1) PROVE FALSE
      OBVIOUS
    <2>2. last + 1 \in k .. n
      BY <1>1, <1>5, <2>1
    <2>3. \A j \in k .. last + 1 : fits(j)
      BY <1>1, <1>5, <2>1
    <2> QED
      BY <1>4, <1>5, <2>2, <2>3
  <1>8. <<first, last>> \in Runs(ps, kinds)
    <2>1. <<first, last>> \in (DOMAIN ps) \X (DOMAIN ps) /\ first <= last
      BY <1>1, <1>5 DEF fits
    <2> QED
      BY <1>5, <1>6, <1>7, <2>1 DEF Runs, fits
  <1> QED
    BY <1>5, <1>8

(* Runs and objects leave out at most padding.                              *)
LEMMA ValuesAreCovered ==
  ASSUME NEW i \in DOMAIN Shapes
  PROVE  /\ ValueBytes[i] \subseteq Covered(i)
         /\ ValueBytes[i] \subseteq 0 .. Past(PlacementOf[i]) - 1
  <1> DEFINE ps == Shapes[i].params
             cs == Shapes[i].counts
             p == PlacementOf[i]
             zero == 0
             kinds == TriviallyAssignable
             size == Past(p)
  <1>1. IsParameterList(ps) /\ \A k \in DOMAIN ps : cs[k] \in Nat
    BY ShapeAssumption
  <1>2. p = Placement(ps, cs, zero) /\ zero \in Nat
    BY DEF PlacementOf
  <1>3. DOMAIN ps = 1 .. Len(ps) /\ Len(ps) \in Nat /\ \A k \in DOMAIN ps : ps[k].kind \in Kinds
    BY <1>1, ListFacts, ShapeAssumption
  <1>4. /\ AssignedBytes[i] = UNION {Bytes(i, g[1], g[2]) : g \in Runs(ps, kinds)}
        /\ ObjectBytes[i] = UNION {Bytes(i, k, k) : k \in Manual(ps, kinds)}
        /\ ValueBytes[i] = UNION {Bytes(i, k, k) : k \in DOMAIN ps}
    BY DEF AssignedBytes, ObjectBytes, ValueBytes, BytesIn
  <1>5. ASSUME NEW k \in DOMAIN ps, NEW l \in DOMAIN ps
        PROVE  Bytes(i, k, l) = p[k][1] .. p[l][2] - 1
    BY DEF Bytes, Begin, End
  <1> HIDE DEF ps, cs, p, zero, kinds, size
  <1>6. /\ \A k \in DOMAIN ps : p[k][1] \in Nat /\ p[k][2] \in Nat /\ p[k][1] <= p[k][2]
        /\ \A j, k \in DOMAIN ps : j < k => p[j][2] <= p[k][1]
    BY <1>1, <1>2, PlacesInOrder
  <1>7. \A j, k \in DOMAIN ps : j <= k => p[j][1] <= p[k][1] /\ p[j][2] <= p[k][2]
    <2>1. ASSUME NEW j \in DOMAIN ps, NEW k \in DOMAIN ps, j <= k
          PROVE  p[j][1] <= p[k][1] /\ p[j][2] <= p[k][2]
      <3>1. j = k \/ j < k
        BY <1>3, <2>1
      <3>2. CASE j = k
        BY <1>6, <3>2
      <3>3. CASE j < k
        <4>1. /\ p[j][1] \in Nat /\ p[j][2] \in Nat /\ p[j][1] <= p[j][2] /\ p[j][2] <= p[k][1]
              /\ p[k][1] \in Nat /\ p[k][2] \in Nat /\ p[k][1] <= p[k][2]
          BY <1>6, <3>3
        <4> QED
          BY <4>1
      <3> QED
        BY <3>1, <3>2, <3>3
    <2> QED
      BY <2>1
  <1>8. ASSUME NEW k \in DOMAIN ps PROVE Bytes(i, k, k) \subseteq Covered(i)
    <2>1. CASE ps[k].kind \in kinds
      <3>1. PICK g \in Runs(ps, kinds) : g[1] <= k /\ k <= g[2]
        BY <1>3, <2>1, RunExists
      <3>2. g[1] \in DOMAIN ps /\ g[2] \in DOMAIN ps
        BY DEF Runs
      <3>3. /\ p[g[1]][1] <= p[k][1] /\ p[k][2] <= p[g[2]][2]
            /\ p[g[1]][1] \in Int /\ p[g[2]][2] \in Int /\ p[k][1] \in Int /\ p[k][2] \in Int
        BY <1>6, <1>7, <3>1, <3>2
      <3>4. /\ Bytes(i, g[1], g[2]) = p[g[1]][1] .. p[g[2]][2] - 1
            /\ Bytes(i, k, k) = p[k][1] .. p[k][2] - 1
        BY <1>5, <3>2
      <3>5. Bytes(i, k, k) \subseteq Bytes(i, g[1], g[2])
        BY <3>3, <3>4
      <3> QED
        BY <1>4, <3>5 DEF Covered
    <2>2. CASE ps[k].kind \notin kinds
      BY <1>4, <2>2 DEF Manual, Covered
    <2> QED
      BY <2>1, <2>2
  <1>9. AssignedBytes[i] \subseteq 0 .. size - 1 /\ ObjectBytes[i] \subseteq 0 .. size - 1
    BY BytesInside DEF size, p
  <1> QED
    BY <1>4, <1>8, <1>9 DEF Covered, size, p

LEMMA ContentsTaken ==
  ASSUME NEW p, NEW q, HasValue(q), HasValue(p)',
         ReferenceOf(p).shape' = ReferenceOf(q).shape,
         \A a \in ValueBytes[ReferenceOf(q).shape] :
           heap'[ReferenceOf(p)'.block].cells[a].value = heap[ReferenceOf(q).block].cells[a].value
  PROVE  Contents(p)' = Contents(q)
  BY DEF Contents

LEMMA ContentsLeft ==
  ASSUME NEW q, HasValue(q), HasValue(q)', ReferenceOf(q)' = ReferenceOf(q),
         ReferenceOf(q).shape \in DOMAIN Shapes,
         ValueBytes[ReferenceOf(q).shape] \subseteq DOMAIN heap[ReferenceOf(q).block].cells,
         Leaves(heap, heap', ReferenceOf(q))
  PROVE  Values!IsLeftover(Contents(q)', Contents(q))
  <1> DEFINE r == ReferenceOf(q)
             i == r.shape
             V == ValueBytes[i]
             f == [a \in V |-> heap'[r.block].cells[a].value]
             g == [a \in V |-> heap[r.block].cells[a].value]
             x == [shape |-> i, bytes |-> f]
             y == [shape |-> i, bytes |-> g]
  <1>1. Contents(q)' = x /\ Contents(q) = y
    BY DEF Contents
  <1>2. \A a \in V : f[a] = g[a] \/ (a \in ObjectBytes[i] /\ f[a] = Moved)
    BY DEF Leaves, Stays, Objects
  <1>3. DOMAIN f = V /\ DOMAIN g = V
    OBVIOUS
  <1> HIDE DEF f, g, V, i
  <1>4. y # Unspecified
    BY DEF Unspecified
  <1>5. Values!IsLeftover(x, y)
    BY <1>2, <1>3, <1>4 DEF Values!IsLeftover
  <1> QED
    BY <1>1, <1>5

(* What a place with a value has.                                           *)
LEMMA ValueFacts ==
  ASSUME ObjInv, SameSizes, NEW p \in Places, HasValue(p)
  PROVE  LET r == ReferenceOf(p)
         IN  /\ r.shape \in UsedShapes /\ r.shape \in DOMAIN Shapes
             /\ Intact(heap, r) /\ IsAlive(heap, r) /\ r.block \in DOMAIN heap
             /\ SizeInBytes(r) \in Nat
             /\ SizeInBytes(r) <= Cardinality(DOMAIN heap[r.block].cells)
             /\ ValueBytes[r.shape] \subseteq Covered(r.shape)
             /\ ValueBytes[r.shape] \subseteq 0 .. SizeInBytes(r) - 1
             /\ ValueBytes[r.shape] \subseteq DOMAIN heap[r.block].cells
             /\ AreSlots /\ IsHeap(heap)
  <1> DEFINE r == ReferenceOf(p)
  <1>1. AreSlots /\ IsHeap(heap) /\ Intact(heap, r)
    BY DEF ObjInv, OwnInv, AllIntact
  <1>2. r.shape \in UsedShapes /\ r.shape \in DOMAIN Shapes /\ SizeInBytes(r) \in Nat
    BY PlaceFacts, ShapesInUse DEF ObjInv, OwnInv
  <1> HIDE DEF r
  <1>3. /\ r.block \in DOMAIN heap
        /\ SizeInBytes(r) <= Cardinality(DOMAIN heap[r.block].cells)
    BY <1>1 DEF Intact
  <1>4. IsAlive(heap, r)
    BY <1>1, <1>2, IntactIsAlive
  <1>5. /\ ValueBytes[r.shape] \subseteq Covered(r.shape)
        /\ ValueBytes[r.shape] \subseteq 0 .. SizeInBytes(r) - 1
    BY <1>2, ValuesAreCovered DEF SizeInBytes
  <1>6. 0 .. SizeInBytes(r) - 1 \subseteq DOMAIN heap[r.block].cells
    BY <1>1, <1>2, <1>3, AliveIsInside
  <1> QED
    BY <1>1, <1>2, <1>3, <1>4, <1>5, <1>6 DEF r

(* A step that leaves every element in its memory.                          *)
InPlace ==
  /\ slots' = slots /\ DOMAIN elements' = DOMAIN elements
  /\ \A x \in DOMAIN elements :
       /\ elements'[x].reference = elements[x].reference
       /\ elements'[x].memory.block = elements[x].memory.block

LEMMA InPlacePlaces ==
  ASSUME OwnInv, OwnInv', InPlace
  PROVE  /\ Places' = Places
         /\ \A x \in Places : ReferenceOf(x)' = ReferenceOf(x) /\ HasValue(x)' = HasValue(x)
  <1>1. Places' = Places
    BY DEF InPlace, Places
  <1>2. ASSUME NEW x \in DOMAIN slots
        PROVE  ReferenceOf(x)' = ReferenceOf(x) /\ HasValue(x)' = HasValue(x)
    <2>1. ReferenceOf(x) = slots[x] /\ HasValue(x) = TRUE
      BY PlacesAre DEF HasValue
    <2>2. ReferenceOf(x)' = slots'[x] /\ HasValue(x)' = TRUE
      BY PlacesWillBe DEF HasValue, InPlace
    <2> QED
      BY <2>1, <2>2 DEF InPlace
  <1>3. ASSUME NEW x \in DOMAIN elements
        PROVE  ReferenceOf(x)' = ReferenceOf(x) /\ HasValue(x)' = HasValue(x)
    <2>1. ReferenceOf(x) = elements[x].reference
      BY PlacesAre
    <2>2. x \in DOMAIN elements' /\ ReferenceOf(x)' = elements'[x].reference
      BY PlacesWillBe DEF InPlace
    <2>3. HasValue(x)' = HasValue(x)
      BY <2>2 DEF HasValue, IsHollow, InPlace
    <2> QED
      BY <2>1, <2>2, <2>3 DEF InPlace
  <1> QED
    BY <1>1, <1>2, <1>3 DEF Places

LEMMA InPlaceUntouched ==
  ASSUME OwnInv, OwnInv', InPlace, NEW p \in Places, NEW q \in Places, HasValue(p), HasValue(q),
         ChangesAll(heap, heap', {ReferenceOf(p).block, ReferenceOf(q).block}),
         NEW x \in Places \ {p, q}
  PROVE  Untouched(x)
  <1>1. ReferenceOf(x)' = ReferenceOf(x) /\ HasValue(x)' = HasValue(x)
    BY InPlacePlaces
  <1>2. ASSUME HasValue(x)
        PROVE  /\ ReferenceOf(x).block \in DOMAIN heap'
               /\ heap'[ReferenceOf(x).block].cells = heap[ReferenceOf(x).block].cells
    <2>1. /\ ReferenceOf(x).block \in DOMAIN heap
          /\ ReferenceOf(x).block # ReferenceOf(p).block
          /\ ReferenceOf(x).block # ReferenceOf(q).block
      BY <1>2, PlacesApart
    <2> QED
      BY <2>1 DEF ChangesAll
  <1> QED
    BY <1>1, <1>2 DEF Untouched

(* An element is assigned another one through references.                   *)
LEMMA AssignStep ==
  ASSUME ObjInv, OwnInv', SameSizes, InPlace, status' = status,
         NEW p \in Places, NEW q \in Places, p # q, HasValue(p), HasValue(q),
         ReferenceOf(p).shape = ReferenceOf(q).shape,
         NEW move, heap' = Assigned(heap, ReferenceOf(q), ReferenceOf(p), move)
  PROVE  /\ ObjInv'
         /\ ~ move => Values!CopyValue(contents, contents', p, q)
         /\ Values!MoveValue(contents, contents', p, q)
  <1> DEFINE r == ReferenceOf(q)
             t == ReferenceOf(p)
  <1>1. r.block # t.block
    BY PlacesApart DEF ObjInv
  <1>2. /\ Intact(heap, r) /\ Intact(heap, t) /\ r.shape \in UsedShapes /\ r.shape \in DOMAIN Shapes
        /\ AreSlots /\ IsHeap(heap) /\ ValueBytes[r.shape] \subseteq Covered(r.shape)
        /\ ValueBytes[r.shape] \subseteq DOMAIN heap[r.block].cells
    BY ValueFacts
  <1>3. /\ Places' = Places
        /\ t = ReferenceOf(p)' /\ r = ReferenceOf(q)' /\ HasValue(p)' /\ HasValue(q)'
    BY InPlacePlaces DEF ObjInv
  <1>4. t.shape = r.shape
    OBVIOUS
  <1> HIDE DEF r, t
  <1>5. /\ ChangesAll(heap, heap', {r.block, t.block}) /\ Intact(heap', r) /\ Intact(heap', t)
        /\ Takes(heap, heap', r, t) /\ Leaves(heap, heap', r)
        /\ ~ move => heap'[r.block] = heap[r.block]
    BY <1>1, <1>2, <1>4, AssignedIntact DEF r, t
  <1>6. ASSUME NEW x \in Places \ {p, q} PROVE Untouched(x)
    <2>1. {r.block, t.block} = {t.block, r.block}
      OBVIOUS
    <2> QED
      BY <1>5, <2>1, InPlaceUntouched DEF r, t, ObjInv
  <1>7. ObjInv' /\ Values!OnlyAt({p, q}, contents, contents')
    <2>1. \A x \in {p, q} : x \in Places' /\ HasValue(x)' => Intact(heap', ReferenceOf(x)')
      BY <1>3, <1>5
    <2> QED
      BY <1>3, <1>6, <2>1, StepIntact
  <1>8. Contents(p)' = Contents(q)
    BY <1>2, <1>3, <1>4, <1>5, ContentsTaken DEF Takes, r, t
  <1>9. /\ p \in DOMAIN contents' /\ q \in DOMAIN contents' /\ q \in DOMAIN contents
        /\ contents'[p] = contents[q]
    BY <1>3, <1>8 DEF contents
  <1>10. ASSUME ~ move PROVE Values!CopyValue(contents, contents', p, q)
    <2>1. Untouched(q)
      BY <1>2, <1>3, <1>5, <1>10 DEF Untouched, Intact, r
    <2>2. Values!OnlyAt({p}, contents, contents')
      <3>1. \A x \in Places' \ {p} : Untouched(x)
        BY <1>3, <1>6, <2>1
      <3>2. \A x \in {p} : x \in Places' /\ HasValue(x)' => Intact(heap', ReferenceOf(x)')
        BY <1>3, <1>5
      <3> QED
        BY <1>3, <3>1, <3>2, StepIntact
    <2> QED
      BY <1>9, <2>2 DEF Values!CopyValue
  <1>11. Values!MoveValue(contents, contents', p, q)
    <2>1. Values!IsLeftover(Contents(q)', Contents(q))
      BY <1>2, <1>3, <1>5, ContentsLeft DEF r
    <2>2. contents'[q] = Contents(q)' /\ contents[q] = Contents(q)
      BY <1>3 DEF contents
    <2> QED
      BY <1>7, <1>9, <2>1, <2>2 DEF Values!MoveValue
  <1> QED
    BY <1>7, <1>10, <1>11

LEMMA SwapStep ==
  ASSUME ObjInv, OwnInv', SameSizes, InPlace, status' = status,
         NEW p \in Places, NEW q \in Places, p # q, HasValue(p), HasValue(q),
         ReferenceOf(p).shape = ReferenceOf(q).shape,
         heap' = Swapped(heap, ReferenceOf(p), ReferenceOf(q))
  PROVE  ObjInv' /\ Values!Exchange(contents, contents', p, q)
  <1> DEFINE r == ReferenceOf(p)
             s == ReferenceOf(q)
  <1>1. r.block # s.block
    BY PlacesApart DEF ObjInv
  <1>2. /\ Intact(heap, r) /\ Intact(heap, s) /\ s.shape \in UsedShapes
        /\ AreSlots /\ IsHeap(heap) /\ ValueBytes[r.shape] \subseteq Covered(r.shape)
    BY ValueFacts
  <1>3. /\ Places' = Places
        /\ r = ReferenceOf(p)' /\ s = ReferenceOf(q)' /\ HasValue(p)' /\ HasValue(q)'
    BY InPlacePlaces DEF ObjInv
  <1>4. r.shape = s.shape
    OBVIOUS
  <1> HIDE DEF r, s
  <1>5. /\ ChangesAll(heap, heap', {r.block, s.block}) /\ Intact(heap', r) /\ Intact(heap', s)
        /\ Takes(heap, heap', s, r) /\ Takes(heap, heap', r, s)
    BY <1>1, <1>2, <1>4, SwappedIntact DEF r, s
  <1>6. ASSUME NEW x \in Places \ {p, q} PROVE Untouched(x)
    BY <1>5, InPlaceUntouched DEF r, s, ObjInv
  <1>7. ObjInv' /\ Values!OnlyAt({p, q}, contents, contents')
    <2>1. \A x \in {p, q} : x \in Places' /\ HasValue(x)' => Intact(heap', ReferenceOf(x)')
      BY <1>3, <1>5
    <2> QED
      BY <1>3, <1>6, <2>1, StepIntact
  <1>8. Contents(p)' = Contents(q)
    BY <1>2, <1>3, <1>4, <1>5, ContentsTaken DEF Takes, r, s
  <1>9. Contents(q)' = Contents(p)
    BY <1>2, <1>3, <1>4, <1>5, ContentsTaken DEF Takes, r, s
  <1>10. /\ {p, q} \subseteq DOMAIN contents' /\ {p, q} \subseteq DOMAIN contents
         /\ contents'[p] = contents[q] /\ contents'[q] = contents[p]
    BY <1>3, <1>8, <1>9 DEF contents
  <1> QED
    BY <1>7, <1>10 DEF Values!Exchange

(* A step that changes no other element than those of E.                    *)
LEMMA OthersPlaces ==
  ASSUME OwnInv, OwnInv', slots' = slots, NEW E \in SUBSET Element,
         DOMAIN elements' \ E = DOMAIN elements \ E,
         \A x \in DOMAIN elements \ E : elements'[x] = elements[x]
  PROVE  /\ Places' \ E = Places \ E
         /\ E \cap DOMAIN slots = {}
         /\ \A x \in Places \ E : ReferenceOf(x)' = ReferenceOf(x) /\ HasValue(x)' = HasValue(x)
  <1>1. E \cap DOMAIN slots = {}
    BY ShapesInUse, ElementNames DEF OwnInv
  <1>2. Places' \ E = Places \ E
    BY DEF Places
  <1>3. ASSUME NEW x \in DOMAIN slots
        PROVE  ReferenceOf(x)' = ReferenceOf(x) /\ HasValue(x)' = HasValue(x)
    <2>1. ReferenceOf(x) = slots[x] /\ HasValue(x) = TRUE
      BY PlacesAre DEF HasValue
    <2>2. ReferenceOf(x)' = slots'[x] /\ HasValue(x)' = TRUE
      BY PlacesWillBe DEF HasValue
    <2> QED
      BY <2>1, <2>2
  <1>4. ASSUME NEW x \in DOMAIN elements \ E
        PROVE  ReferenceOf(x)' = ReferenceOf(x) /\ HasValue(x)' = HasValue(x)
    <2>1. ReferenceOf(x) = elements[x].reference
      BY PlacesAre
    <2>2. x \in DOMAIN elements' /\ ReferenceOf(x)' = elements'[x].reference
      BY PlacesWillBe
    <2>3. HasValue(x)' = HasValue(x)
      BY <2>2 DEF HasValue, IsHollow
    <2> QED
      BY <2>1, <2>2, <2>3
  <1> QED
    BY <1>1, <1>2, <1>3, <1>4 DEF Places

(* An element is stored in b, where no other one is.                        *)
LEMMA StoreStep ==
  ASSUME ObjInv, OwnInv', SameSizes, NEW e \in Element, NEW q \in Places, q # e, HasValue(q),
         NEW g, IsHeap(g), NEW memory, memory.block \in DOMAIN g, Blank(g, memory.block),
         \A x \in Places \ {e} : HasValue(x) =>
           /\ ReferenceOf(x).block \in DOMAIN g \ {memory.block}
           /\ g[ReferenceOf(x).block] = heap[ReferenceOf(x).block],
         NEW n \in Nat, NEW move,
         n <= Cardinality(DOMAIN heap[ReferenceOf(q).block].cells),
         n <= Cardinality(DOMAIN g[memory.block].cells),
         SizeInBytes(ReferenceOf(q)) <= Cardinality(DOMAIN g[memory.block].cells),
         StoreInto(e, g, memory, ReferenceOf(q), n, move)
  PROVE  /\ ObjInv'
         /\ SizeInBytes(ReferenceOf(q)) <= n =>
              /\ ~ move => Values!CopyValue(contents, contents', e, q)
              /\ Values!MoveValue(contents, contents', e, q)
  <1> DEFINE r == ReferenceOf(q)
             b == memory.block
             t == Reference(b, r.shape)
  <1>1. /\ Intact(heap, r) /\ r.shape \in UsedShapes /\ r.shape \in DOMAIN Shapes
        /\ AreSlots /\ ValueBytes[r.shape] \subseteq 0 .. SizeInBytes(r) - 1
        /\ ValueBytes[r.shape] \subseteq DOMAIN heap[r.block].cells
        /\ SizeInBytes(r) \in Nat /\ r.block \in DOMAIN heap
    BY ValueFacts
  <1>2. r.block \in DOMAIN g /\ r.block # b /\ g[r.block] = heap[r.block]
    OBVIOUS
  <1>3. t.block = b /\ t.shape = r.shape
    BY DEF Reference
  <1> HIDE DEF r, b, t
  <1>4. Intact(g, r)
    BY <1>1, <1>2, IntactKept
  <1>5. MayStore(g, r, n, b) /\ IsStored(g, Stored(g, r, n, b, move), r, n, b, move)
    <2>1. /\ b \in DOMAIN g /\ Blank(g, b)
          /\ n <= Cardinality(DOMAIN g[r.block].cells) /\ n <= Cardinality(DOMAIN g[b].cells)
          /\ SizeInBytes(r) <= Cardinality(DOMAIN g[b].cells)
      BY <1>2 DEF r, b
    <2> QED
      BY <1>1, <1>2, <1>4, <2>1, StoredIntact
  <1>6. /\ heap' = Stored(g, r, n, b, move) /\ Set(e, memory, t) /\ Defined
    BY <1>5 DEF StoreInto, r, b, t
  <1>7. /\ ChangesAll(g, heap', {r.block, b}) /\ Intact(heap', r) /\ Intact(heap', t)
        /\ Leaves(heap, heap', r)
        /\ ~ move => heap'[r.block] = heap[r.block]
        /\ \A a \in 0 .. n - 1 : heap'[b].cells[a].value = heap[r.block].cells[a].value
    <2>1. Intact(heap', Reference(b, r.shape))
      BY <1>5, <1>6 DEF IsStored
    <2> QED
      BY <1>2, <1>5, <1>6, <2>1 DEF IsStored, Leaves, t
  <1>8. /\ slots' = slots /\ status' = status /\ {e} \in SUBSET Element
        /\ DOMAIN elements' = DOMAIN elements \cup {e}
        /\ elements'[e].memory = memory /\ elements'[e].reference = t
        /\ \A x \in DOMAIN elements \ {e} : elements'[x] = elements[x]
    BY <1>6 DEF Set, Defined
  <1>9. /\ Places' = Places \cup {e} /\ e \notin DOMAIN slots
        /\ \A x \in Places \ {e} : ReferenceOf(x)' = ReferenceOf(x) /\ HasValue(x)' = HasValue(x)
    <2>1. DOMAIN elements' \ {e} = DOMAIN elements \ {e}
      BY <1>8
    <2>2. /\ Places' \ {e} = Places \ {e} /\ {e} \cap DOMAIN slots = {}
          /\ \A x \in Places \ {e} : ReferenceOf(x)' = ReferenceOf(x) /\ HasValue(x)' = HasValue(x)
      BY <1>8, <2>1, OthersPlaces DEF ObjInv
    <2>3. e \in Places'
      BY <1>8 DEF Places
    <2> QED
      BY <2>2, <2>3
  <1>10. ReferenceOf(e)' = t
    <2>1. e \in DOMAIN elements'
      BY <1>8
    <2> QED
      BY <1>8, <2>1, PlacesWillBe
  <1>11. HasValue(e)'
    <2>1. e \in DOMAIN elements' /\ elements'[e].memory.block = b /\ b \in DOMAIN g
      BY <1>8 DEF b
    <2>2. b # Null
      BY <2>1, ElementNames DEF IsHeap
    <2> QED
      BY <2>1, <2>2, PlacesWillBe
  <1>12. q \in Places' /\ ReferenceOf(q)' = r /\ HasValue(q)'
    BY <1>9 DEF r
  <1>13. ASSUME NEW x \in Places \ {e, q} PROVE Untouched(x)
    <2>1. ASSUME HasValue(x)
          PROVE  /\ ReferenceOf(x).block \in DOMAIN heap'
                 /\ heap'[ReferenceOf(x).block].cells = heap[ReferenceOf(x).block].cells
      <3>1. /\ ReferenceOf(x).block \in DOMAIN g /\ ReferenceOf(x).block # b
            /\ g[ReferenceOf(x).block] = heap[ReferenceOf(x).block]
        BY <2>1 DEF b
      <3>2. ReferenceOf(x).block # r.block
        BY <2>1, PlacesApart DEF r, ObjInv
      <3> QED
        BY <1>7, <3>1, <3>2 DEF ChangesAll
    <2> QED
      BY <1>9, <2>1 DEF Untouched
  <1>14. \A x \in {e, q} : x \in Places' /\ HasValue(x)' => Intact(heap', ReferenceOf(x)')
    BY <1>7, <1>10, <1>12
  <1>15. ObjInv' /\ Values!OnlyAt({e, q}, contents, contents')
    <2>1. Places \ {e, q} = Places' \ {e, q}
      BY <1>9
    <2>2. \A x \in Places' \ {e, q} : Untouched(x)
      BY <1>13, <2>1
    <2> QED
      BY <1>8, <1>14, <2>1, <2>2, StepIntact
  <1>16. ASSUME SizeInBytes(r) <= n, ~ move
         PROVE  Values!OnlyAt({e}, contents, contents')
    <2>1. Untouched(q)
      BY <1>1, <1>2, <1>7, <1>9, <1>12, <1>16 DEF Untouched, ChangesAll, r
    <2>2. Places \ {e} = Places' \ {e}
      BY <1>9
    <2>3. \A x \in Places' \ {e} : Untouched(x)
      BY <1>13, <2>1, <2>2
    <2> QED
      BY <1>8, <1>14, <2>2, <2>3, StepIntact
  <1>17. ASSUME SizeInBytes(r) <= n
         PROVE  /\ e \in DOMAIN contents' /\ q \in DOMAIN contents' /\ q \in DOMAIN contents
                /\ contents'[e] = contents[q]
    <2>1. ValueBytes[r.shape] \subseteq 0 .. n - 1
      <3>1. 0 .. SizeInBytes(r) - 1 \subseteq 0 .. n - 1
        BY <1>1, <1>17
      <3> QED
        BY <1>1, <3>1
    <2>2. Contents(e)' = Contents(q)
      BY <1>3, <1>7, <1>10, <1>11, <2>1, ContentsTaken DEF r
    <2> QED
      BY <1>9, <1>12, <2>2 DEF contents
  <1>18. ASSUME SizeInBytes(r) <= n
         PROVE  Values!MoveValue(contents, contents', e, q)
    <2>1. Values!IsLeftover(Contents(q)', Contents(q))
      BY <1>1, <1>7, <1>12, <1>18, ContentsLeft DEF r
    <2>2. contents'[q] = Contents(q)' /\ contents[q] = Contents(q)
      BY <1>12 DEF contents
    <2> QED
      BY <1>15, <1>17, <1>18, <2>1, <2>2 DEF Values!MoveValue
  <1> QED
    BY <1>15, <1>16, <1>17, <1>18 DEF Values!CopyValue, r

(* No other element lies in e's allocation.                                 *)
LEMMA NotItsBlock ==
  ASSUME OwnInv, NEW e \in Element, NEW x \in Places \ {e}, HasValue(x)
  PROVE  ReferenceOf(x).block \in DOMAIN heap \ {BlockOf(e)}
  <1>1. /\ ReferenceOf(x).block \in DOMAIN heap
        /\ \A q \in Places \ {x} : HasValue(q) => ReferenceOf(q).block # ReferenceOf(x).block
    BY PlacesApart
  <1>2. ReferenceOf(x).block # Null
    BY <1>1, PlacesAre
  <1>3. CASE e \in DOMAIN elements /\ HasValue(e)
    <2>1. BlockOf(e) = ReferenceOf(e).block
      BY <1>3, PlacesAre DEF BlockOf
    <2> QED
      BY <1>1, <1>3, <2>1 DEF Places
  <1>4. CASE ~ (e \in DOMAIN elements /\ HasValue(e))
    <2>1. BlockOf(e) = Null
      BY <1>4, PlacesAre DEF BlockOf
    <2> QED
      BY <1>1, <1>2, <2>1
  <1> QED
    BY <1>3, <1>4

(* An allocation is as large as its units say.                              *)
LEMMA MemoryFacts ==
  ASSUME OwnInv, SameSizes, NEW e \in DOMAIN elements
  PROVE  /\ MayDeallocate(elements[e].memory)
         /\ HasValue(e) =>
              /\ Cardinality(DOMAIN heap[elements[e].memory.block].cells)
                   = elements[e].memory.units * Storage(params)
              /\ elements[e].memory.block \in DOMAIN heap
              /\ elements[e].reference.block = elements[e].memory.block
  <1> DEFINE m == elements[e].memory
             n == m.units * Storage(params)
  <1>1. Fits(m, heap) /\ n \in Nat
    BY ElementFacts, ShapesInUse DEF OwnInv, AllFit
  <1>2. Cardinality(0 .. n - 1) = n
    <2> HIDE DEF n
    <2> QED
      BY <1>1, BytesCount
  <1>3. m.block # Null => m.block \in DOMAIN heap
    BY DEF OwnInv, OneOwner, Owned, IsHollow
  <1>4. MayDeallocate(m)
    BY <1>1, <1>2, <1>3 DEF Fits, MayDeallocate
  <1>5. ASSUME HasValue(e)
        PROVE  /\ Cardinality(DOMAIN heap[m.block].cells) = n /\ m.block \in DOMAIN heap
               /\ elements[e].reference.block = m.block
    <2>1. m.block # Null /\ elements[e].reference.block = m.block
      BY <1>5, PlacesAre
    <2> QED
      BY <1>1, <1>2, <1>3, <2>1 DEF Fits
  <1> QED
    BY <1>4, <1>5

(* Enough units for as many bytes are allocated.                            *)
LEMMA UnitsSuffice ==
  ASSUME AreSlots, NEW bytes \in Nat
  PROVE  Units(bytes) \in Nat /\ bytes <= Units(bytes) * Storage(params)
  <1> DEFINE S == Storage(params)
             A == Align(bytes, S)
  <1>1. S \in Nat /\ S > 0
    BY ShapesInUse
  <1>2. A \in Nat /\ bytes <= A /\ Multiple(A, S)
    BY <1>1, AlignFindsNext
  <1>3. Units(bytes) \in Nat
    BY UnitsAreNumbers
  <1>4. Units(bytes) = A \div S
    BY DEF Units, Allocated
  <1> HIDE DEF S, A
  <1>5. PICK q \in Int : A = q * S
    BY <1>2 DEF Multiple
  <1>6. q \in Nat
    BY <1>1, <1>2, <1>5
  <1>7. A = S * q
    BY <1>1, <1>5
  <1>8. A \div S = q
    BY <1>1, <1>6, <1>7, DivisionIsExact
  <1>9. Units(bytes) * S = A
    BY <1>4, <1>5, <1>8
  <1> QED
    BY <1>2, <1>3, <1>9 DEF S

(* As many bytes as units, or fewer.                                        *)
LEMMA UnitsAreBytes ==
  ASSUME AreSlots, NEW units \in Nat
  PROVE  /\ units <= units * Storage(params)
         /\ units * Storage(params) \in Nat
         /\ \A more \in Nat : units <= more => units * Storage(params) <= more * Storage(params)
  <1> DEFINE S == Storage(params)
  <1>1. S \in Nat /\ S > 0
    BY ShapesInUse
  <1> HIDE DEF S
  <1>2. units * S = units + units * (S - 1)
    BY <1>1
  <1>3. units * (S - 1) >= 0
    BY <1>1
  <1>4. units * S \in Nat
    BY <1>1
  <1>5. ASSUME NEW more \in Nat, units <= more PROVE units * S <= more * S
    <2>1. (more - units) * S >= 0
      BY <1>1, <1>5
    <2>2. more * S = units * S + (more - units) * S
      BY <1>1
    <2>3. units * S \in Int /\ (more - units) * S \in Int
      BY <1>1
    <2> QED
      BY <2>1, <2>2, <2>3
  <1>6. units <= units * S
    <2>1. units * (S - 1) \in Int
      BY <1>1
    <2> QED
      BY <1>2, <1>3, <2>1
  <1> QED
    BY <1>4, <1>5, <1>6 DEF S

(* An element is stored in an allocation that is made for it.               *)
LEMMA NewStep ==
  ASSUME ObjInv, OwnInv', SameSizes, NEW e \in Element, NEW q \in Places, q # e, HasValue(q),
         NEW h, IsHeap(h), DOMAIN h = DOMAIN heap \ {BlockOf(e)},
         \A c \in DOMAIN h : h[c] = heap[c],
         NEW units \in Nat, NEW a, NEW n \in Nat, NEW move,
         n <= Cardinality(DOMAIN heap[ReferenceOf(q).block].cells),
         n <= units * Storage(params),
         SizeInBytes(ReferenceOf(q)) <= units * Storage(params),
         StoreIntoNew(e, h, units, a, ReferenceOf(q), n, move)
  PROVE  /\ ObjInv'
         /\ SizeInBytes(ReferenceOf(q)) <= n =>
              /\ ~ move => Values!CopyValue(contents, contents', e, q)
              /\ Values!MoveValue(contents, contents', e, q)
  <1> DEFINE g == Allocate(h, Fresh, units, a)
             m == Memory(Fresh, units, a)
             r == ReferenceOf(q)
  <1>1. Fresh \in Block /\ Fresh \notin DOMAIN heap
    BY FreshIsFree DEF ObjInv
  <1>2. AreSlots /\ OwnInv
    BY DEF ObjInv, OwnInv
  <1>3. IsHeap(g)
    BY <1>1, <1>2, AllocateHeap DEF AllocatedIn
  <1>4. Fresh \notin DOMAIN h
    BY <1>1
  <1>5. /\ Blank(g, Fresh) /\ DOMAIN g = DOMAIN h \cup {Fresh}
        /\ \A c \in DOMAIN h : g[c] = h[c]
        /\ DOMAIN g[Fresh].cells = 0 .. units * Storage(params) - 1
    <2>1. IsAllocated(h, g, Fresh, units)
      BY <1>4, AllocatedBlank
    <2> HIDE DEF g
    <2> QED
      BY <2>1 DEF IsAllocated
  <1>6. Cardinality(DOMAIN g[Fresh].cells) = units * Storage(params)
    <2> DEFINE k == units * Storage(params)
    <2>1. k \in Nat /\ DOMAIN g[Fresh].cells = 0 .. k - 1
      BY <1>2, <1>5, UnitsAreBytes
    <2> HIDE DEF k
    <2>2. Cardinality(0 .. k - 1) = k
      BY <2>1, BytesCount
    <2> QED
      BY <2>1, <2>2 DEF k
  <1>7. m.block = Fresh /\ StoreInto(e, g, m, r, n, move)
    BY DEF StoreIntoNew, Memory
  <1> HIDE DEF g, m
  <1>8. ASSUME NEW x \in Places \ {e}, HasValue(x)
        PROVE  /\ ReferenceOf(x).block \in DOMAIN g \ {m.block}
               /\ g[ReferenceOf(x).block] = heap[ReferenceOf(x).block]
    <2>1. ReferenceOf(x).block \in DOMAIN h
      BY <1>2, <1>8, NotItsBlock
    <2> QED
      BY <1>4, <1>5, <1>7, <2>1
  <1>9. /\ m.block \in DOMAIN g /\ Blank(g, m.block)
        /\ n <= Cardinality(DOMAIN g[m.block].cells)
        /\ SizeInBytes(r) <= Cardinality(DOMAIN g[m.block].cells)
    BY <1>5, <1>6, <1>7
  <1> QED
    BY <1>3, <1>7, <1>8, <1>9, StoreStep

(* An element is stored in the memory e has, in place of e's objects.       *)
LEMMA SameStep ==
  ASSUME ObjInv, OwnInv', SameSizes, NEW e \in DOMAIN elements, HasValue(e),
         NEW q \in Places, q # e, HasValue(q),
         NEW m, m.block = elements[e].memory.block, NEW n \in Nat, NEW move,
         n <= Cardinality(DOMAIN heap[ReferenceOf(q).block].cells),
         n <= Cardinality(DOMAIN heap[m.block].cells),
         SizeInBytes(ReferenceOf(q)) <= Cardinality(DOMAIN heap[m.block].cells),
         StoreInto(e, Destroyed(e), m, ReferenceOf(q), n, move)
  PROVE  /\ ObjInv'
         /\ SizeInBytes(ReferenceOf(q)) <= n =>
              /\ ~ move => Values!CopyValue(contents, contents', e, q)
              /\ Values!MoveValue(contents, contents', e, q)
  <1> DEFINE g == Destroyed(e)
             r == ReferenceOf(q)
  <1>1. OwnInv /\ e \in Element /\ e \in Places /\ BlockOf(e) = m.block
    BY DEF ObjInv, OwnInv, AreElements, Places, BlockOf
  <1>2. Intact(heap, elements[e].reference) /\ ~ IsHollow(e)
    BY <1>1, PlacesAre DEF ObjInv, AllIntact, IsHollow
  <1>3. Changes(heap, g, m.block) /\ Blank(g, m.block) /\ m.block \in DOMAIN heap
    BY <1>1, <1>2, DestroyedBlank
  <1> HIDE DEF g
  <1>4. ASSUME NEW x \in Places \ {e}, HasValue(x)
        PROVE  /\ ReferenceOf(x).block \in DOMAIN g \ {m.block}
               /\ g[ReferenceOf(x).block] = heap[ReferenceOf(x).block]
    <2>1. ReferenceOf(x).block \in DOMAIN heap \ {m.block}
      BY <1>1, <1>4, NotItsBlock
    <2> QED
      BY <1>3, <2>1 DEF Changes
  <1>5. /\ IsHeap(g) /\ m.block \in DOMAIN g
        /\ n <= Cardinality(DOMAIN g[m.block].cells)
        /\ SizeInBytes(r) <= Cardinality(DOMAIN g[m.block].cells)
    BY <1>3 DEF Changes
  <1>6. StoreInto(e, g, m, r, n, move)
    BY DEF g
  <1> QED
    BY <1>1, <1>3, <1>4, <1>5, <1>6, StoreStep

(* e is given the memory and the value of f, and returns its own.           *)
LEMMA GiveStep ==
  ASSUME ObjInv, OwnInv', NEW e \in Element, NEW f \in DOMAIN elements, e # f,
         status' = status, slots' = slots,
         DOMAIN elements' = DOMAIN elements \cup {e},
         \A x \in DOMAIN elements \ {e, f} : elements'[x] = elements[x],
         elements'[e].memory.block = elements[f].memory.block,
         elements'[e].reference = elements[f].reference,
         elements'[f].memory.block = Null,
         DOMAIN heap' = DOMAIN heap \ {BlockOf(e)},
         \A c \in DOMAIN heap' : heap'[c] = heap[c]
  PROVE  ObjInv' /\ Values!MoveValue(contents, contents', e, f)
  <1> DEFINE r == ReferenceOf(f)
  <1>1. OwnInv /\ f \in Element /\ f \in Places
    BY DEF ObjInv, OwnInv, AreElements, Places
  <1>2. /\ Places' \ {e, f} = Places \ {e, f}
        /\ \A x \in Places \ {e, f} : ReferenceOf(x)' = ReferenceOf(x) /\ HasValue(x)' = HasValue(x)
    <2>1. {e, f} \in SUBSET Element /\ DOMAIN elements' \ {e, f} = DOMAIN elements \ {e, f}
      BY <1>1
    <2> QED
      BY <1>1, <2>1, OthersPlaces
  <1>3. e \in DOMAIN elements' /\ f \in DOMAIN elements'
    OBVIOUS
  <1>4. e \in Places' /\ f \in Places'
    BY <1>3 DEF Places
  <1>5. r = elements[f].reference /\ (HasValue(f) <=> elements[f].memory.block # Null)
    BY <1>1, PlacesAre
  <1>6. ReferenceOf(e)' = r /\ (HasValue(e)' <=> HasValue(f))
    BY <1>3, <1>5, PlacesWillBe
  <1>7. ~ HasValue(f)'
    BY <1>3, PlacesWillBe
  <1> HIDE DEF r
  <1>8. ASSUME NEW x \in Places \ {e}, HasValue(x)
        PROVE  /\ ReferenceOf(x).block \in DOMAIN heap'
               /\ heap'[ReferenceOf(x).block] = heap[ReferenceOf(x).block]
    BY <1>1, <1>8, NotItsBlock
  <1>9. ASSUME NEW x \in Places \ {e, f} PROVE Untouched(x)
    BY <1>2, <1>8 DEF Untouched
  <1>10. ASSUME HasValue(f)
         PROVE  /\ Intact(heap', r) /\ heap'[r.block] = heap[r.block]
    <2>1. Intact(heap, r)
      BY <1>1, <1>10 DEF ObjInv, AllIntact, r
    <2>2. r.block \in DOMAIN heap' /\ heap'[r.block] = heap[r.block]
      BY <1>1, <1>8, <1>10 DEF r
    <2> QED
      BY <2>1, <2>2, IntactKept
  <1>11. ObjInv' /\ Values!OnlyAt({e, f}, contents, contents')
    <2>1. \A x \in {e, f} : x \in Places' /\ HasValue(x)' => Intact(heap', ReferenceOf(x)')
      BY <1>6, <1>7, <1>10
    <2> QED
      BY <1>2, <1>9, <2>1, StepIntact
  <1>12. Contents(e)' = Contents(f)
    <2>1. CASE HasValue(f)
      <3>1. /\ ReferenceOf(e).shape' = r.shape
            /\ \A a \in ValueBytes[r.shape] :
                 heap'[ReferenceOf(e)'.block].cells[a].value = heap[r.block].cells[a].value
        BY <1>6, <1>10, <2>1
      <3> QED
        BY <1>6, <2>1, <3>1, ContentsTaken DEF r
    <2>2. CASE ~ HasValue(f)
      BY <1>6, <2>2 DEF Contents
    <2> QED
      BY <2>1, <2>2
  <1>13. Contents(f)' = Unspecified
    BY <1>7 DEF Contents
  <1>14. /\ e \in DOMAIN contents' /\ f \in DOMAIN contents'
         /\ contents'[e] = contents[f] /\ contents'[f] = Unspecified
    BY <1>1, <1>4, <1>12, <1>13 DEF contents
  <1> QED
    BY <1>11, <1>14 DEF Values!MoveValue, Values!IsLeftover

(* Two elements exchange their memory and their values.                     *)
LEMMA ExchangeStep ==
  ASSUME ObjInv, OwnInv', NEW e \in DOMAIN elements, NEW f \in DOMAIN elements, e # f,
         status' = status, slots' = slots, heap' = heap, DOMAIN elements' = DOMAIN elements,
         \A x \in DOMAIN elements \ {e, f} : elements'[x] = elements[x],
         elements'[e].memory.block = elements[f].memory.block,
         elements'[e].reference = elements[f].reference,
         elements'[f].memory.block = elements[e].memory.block,
         elements'[f].reference = elements[e].reference
  PROVE  ObjInv' /\ Values!Exchange(contents, contents', e, f)
  <1>1. OwnInv /\ e \in Element /\ f \in Element /\ e \in Places /\ f \in Places
    BY DEF ObjInv, OwnInv, AreElements, Places
  <1>2. /\ Places' \ {e, f} = Places \ {e, f}
        /\ \A x \in Places \ {e, f} : ReferenceOf(x)' = ReferenceOf(x) /\ HasValue(x)' = HasValue(x)
    <2>1. {e, f} \in SUBSET Element /\ DOMAIN elements' \ {e, f} = DOMAIN elements \ {e, f}
      BY <1>1
    <2> QED
      BY <1>1, <2>1, OthersPlaces
  <1>3. e \in Places' /\ f \in Places'
    BY DEF Places
  <1>4. ASSUME NEW x \in {e, f}, NEW y \in {e, f}, x # y
        PROVE  /\ ReferenceOf(x)' = ReferenceOf(y) /\ (HasValue(x)' <=> HasValue(y))
               /\ Contents(x)' = Contents(y)
               /\ HasValue(x)' => Intact(heap', ReferenceOf(x)')
    <2>1. /\ ReferenceOf(y) = elements[y].reference
          /\ HasValue(y) <=> elements[y].memory.block # Null
      BY <1>1, PlacesAre
    <2>2. /\ ReferenceOf(x)' = elements'[x].reference
          /\ HasValue(x)' <=> elements'[x].memory.block # Null
      BY PlacesWillBe
    <2>3. /\ elements'[x].memory.block = elements[y].memory.block
          /\ elements'[x].reference = elements[y].reference
      BY <1>4
    <2>4. ReferenceOf(x)' = ReferenceOf(y) /\ (HasValue(x)' <=> HasValue(y))
      BY <2>1, <2>2, <2>3
    <2>5. Contents(x)' = Contents(y)
      BY <2>4 DEF Contents
    <2>6. HasValue(y) => Intact(heap, ReferenceOf(y))
      BY <1>1 DEF ObjInv, AllIntact
    <2> QED
      BY <2>4, <2>5, <2>6
  <1>5. ASSUME NEW x \in Places \ {e, f} PROVE Untouched(x)
    <2>1. HasValue(x) => ReferenceOf(x).block \in DOMAIN heap
      BY <1>1, PlacesApart
    <2> QED
      BY <1>2, <2>1 DEF Untouched
  <1>6. ObjInv' /\ Values!OnlyAt({e, f}, contents, contents')
    <2>1. \A x \in {e, f} : x \in Places' /\ HasValue(x)' => Intact(heap', ReferenceOf(x)')
      BY <1>4
    <2> QED
      BY <1>2, <1>5, <2>1, StepIntact
  <1>7. Contents(e)' = Contents(f) /\ Contents(f)' = Contents(e)
    BY <1>4
  <1>8. /\ {e, f} \subseteq DOMAIN contents /\ {e, f} \subseteq DOMAIN contents'
        /\ contents'[e] = contents[f] /\ contents'[f] = contents[e]
    BY <1>1, <1>3, <1>7 DEF contents
  <1> QED
    BY <1>6, <1>8 DEF Values!Exchange

-----------------------------------------------------------------------------
LEMMA UsableFacts ==
  ASSUME ObjInv, OnlyWithValues, NEW p, Usable(p)
  PROVE  p \in Places /\ HasValue(p)
  BY DEF Usable, OnlyWithValues

LEMMA ElementPlaces ==
  ASSUME ObjInv, NEW e \in DOMAIN elements
  PROVE  /\ e \in Places /\ e \in Element /\ ReferenceOf(e) = elements[e].reference
         /\ elements[e].memory.units \in Nat
         /\ OwnInv /\ AreSlots /\ IsHeap(heap)
  BY PlacesAre, ElementFacts DEF ObjInv, OwnInv, Places

(* The size in bytes of an element, against what its memory holds.          *)
LEMMA ElementSizes ==
  ASSUME ObjInv, SameSizes, NEW f \in DOMAIN elements, HasValue(f)
  PROVE  LET r == elements[f].reference
             units == elements[f].memory.units
         IN  /\ SizeInBytes(r) \in Nat /\ units \in Nat
             /\ SizeInBytes(r) <= units * Storage(params) /\ units <= units * Storage(params)
             /\ Cardinality(DOMAIN heap[r.block].cells) = units * Storage(params)
             /\ Storage(params) = 1 => SizeInBytes(r) <= units
  <1> DEFINE r == elements[f].reference
             units == elements[f].memory.units
  <1>1. f \in Places /\ ReferenceOf(f) = r /\ units \in Nat /\ OwnInv /\ AreSlots
    BY ElementPlaces
  <1>2. SizeInBytes(r) \in Nat /\ SizeInBytes(r) <= Cardinality(DOMAIN heap[r.block].cells)
    BY <1>1, ValueFacts
  <1>3. Cardinality(DOMAIN heap[r.block].cells) = units * Storage(params)
    BY <1>1, MemoryFacts
  <1> HIDE DEF r, units
  <1>4. units <= units * Storage(params)
    BY <1>1, UnitsAreBytes
  <1>5. Storage(params) = 1 => units * Storage(params) = units
    BY <1>1
  <1> QED
    BY <1>1, <1>2, <1>3, <1>4, <1>5 DEF r, units

LEMMA ConstructStep ==
  ASSUME ObjInv, OwnInv', SameSizes, OnlyWithValues,
         NEW e \in Element, NEW p \in Places, NEW move, NEW a, Construct(e, p, move, a)
  PROVE  /\ ObjInv'
         /\ ~ move => Values!CopyValue(contents, contents', e, p)
         /\ Values!MoveValue(contents, contents', e, p)
  <1> DEFINE r == ReferenceOf(p)
             n == SizeInBytes(r)
  <1>1. HasValue(p) /\ e \notin DOMAIN elements /\ StoreIntoNew(e, heap, Units(n), a, r, n, move)
    BY UsableFacts DEF Construct
  <1>2. /\ n \in Nat /\ n <= Cardinality(DOMAIN heap[r.block].cells) /\ AreSlots /\ IsHeap(heap)
        /\ OwnInv
    BY <1>1, ValueFacts DEF ObjInv
  <1> HIDE DEF n, r
  <1>3. Units(n) \in Nat /\ n <= Units(n) * Storage(params)
    BY <1>2, UnitsSuffice
  <1>4. p # e
    <2>1. e \notin DOMAIN slots
      BY <1>2, ShapesInUse, ElementNames
    <2> QED
      BY <1>1, <2>1 DEF Places
  <1>5. DOMAIN heap = DOMAIN heap \ {BlockOf(e)}
    BY <1>1, <1>2, PlacesAre DEF BlockOf
  <1>6. SizeInBytes(ReferenceOf(p)) = n /\ ReferenceOf(p) = r
    BY DEF n, r
  <1>7. /\ ObjInv'
        /\ SizeInBytes(ReferenceOf(p)) <= n =>
             /\ ~ move => Values!CopyValue(contents, contents', e, p)
             /\ Values!MoveValue(contents, contents', e, p)
    <2>1. /\ n <= Cardinality(DOMAIN heap[ReferenceOf(p).block].cells)
          /\ SizeInBytes(ReferenceOf(p)) <= Units(n) * Storage(params)
          /\ StoreIntoNew(e, heap, Units(n), a, ReferenceOf(p), n, move)
      BY <1>1, <1>2, <1>3, <1>6
    <2>2. \A c \in DOMAIN heap : heap[c] = heap[c]
      OBVIOUS
    <2> QED
      BY <1>1, <1>2, <1>3, <1>4, <1>5, <2>1, <2>2, NewStep
  <1>8. n <= n
    BY <1>2
  <1> QED
    BY <1>6, <1>7, <1>8

LEMMA CopyConstructStep ==
  ASSUME ObjInv, OwnInv', SameSizes, OnlyWithValues,
         NEW e \in Element, NEW f \in Element, NEW a, CopyConstruct(e, f, a)
  PROVE  ObjInv' /\ Values!CopyValue(contents, contents', e, f)
  <1> DEFINE r == elements[f].reference
             n == SizeInBytes(r)
             units == elements[f].memory.units
             move == FALSE
  <1>1. /\ f \in DOMAIN elements /\ e \notin DOMAIN elements /\ HasValue(f)
        /\ StoreIntoNew(e, heap, units, a, r, n, move)
    BY UsableFacts DEF CopyConstruct
  <1>2. /\ f \in Places /\ ReferenceOf(f) = r /\ OwnInv /\ IsHeap(heap) /\ e # f
    BY <1>1, ElementPlaces
  <1>3. /\ n \in Nat /\ units \in Nat /\ n <= units * Storage(params)
        /\ n <= Cardinality(DOMAIN heap[r.block].cells)
    BY <1>1, ElementSizes
  <1>4. DOMAIN heap = DOMAIN heap \ {BlockOf(e)}
    BY <1>1, <1>2, PlacesAre DEF BlockOf
  <1>5. n <= n /\ ~ move
    BY <1>3
  <1> HIDE DEF n, r, units, move
  <1>6. SizeInBytes(ReferenceOf(f)) = n
    BY <1>2 DEF n
  <1>7. /\ ObjInv'
        /\ SizeInBytes(ReferenceOf(f)) <= n =>
             /\ ~ move => Values!CopyValue(contents, contents', e, f)
             /\ Values!MoveValue(contents, contents', e, f)
    <2>1. /\ f # e /\ n <= Cardinality(DOMAIN heap[ReferenceOf(f).block].cells)
          /\ SizeInBytes(ReferenceOf(f)) <= units * Storage(params)
          /\ StoreIntoNew(e, heap, units, a, ReferenceOf(f), n, move)
      BY <1>1, <1>2, <1>3, <1>6
    <2>2. \A c \in DOMAIN heap : heap[c] = heap[c]
      OBVIOUS
    <2> QED
      BY <1>1, <1>2, <1>3, <1>4, <1>5, <2>1, <2>2, NewStep
  <1> QED
    BY <1>5, <1>6, <1>7

(* The caller that does not ask for units to be copied as bytes.            *)
WholeUnits == "units_as_bytes" \in Avoided

LEMMA MayRelease ==
  ASSUME ObjInv, SameSizes, NEW e \in DOMAIN elements
  PROVE  MayDestroy(e) /\ MayDeallocate(elements[e].memory)
  <1>1. e \in Places /\ ReferenceOf(e) = elements[e].reference /\ OwnInv
    BY ElementPlaces
  <1>2. ASSUME elements[e].memory.block # Null PROVE IsAlive(heap, elements[e].reference)
    <2>1. HasValue(e)
      BY <1>1, <1>2, PlacesAre
    <2> QED
      BY <1>1, <2>1, ValueFacts
  <1>3. MayDeallocate(elements[e].memory)
    BY <1>1, MemoryFacts
  <1> QED
    BY <1>2, <1>3 DEF MayDestroy

LEMMA TakeOverStep ==
  ASSUME ObjInv, OwnInv', NEW e \in Element, e \notin DOMAIN elements, NEW f \in DOMAIN elements,
         TakeOver(e, f)
  PROVE  ObjInv' /\ Values!MoveValue(contents, contents', e, f)
  <1>1. OwnInv
    BY DEF ObjInv
  <1>2. Released(f).memory.block = Null
    BY <1>1, ReleasedElement
  <1>3. /\ elements' = [x \in DOMAIN elements \cup {e} |->
                          IF x = e THEN elements[f] ELSE IF x = f THEN Released(f) ELSE elements[x]]
        /\ heap' = heap /\ slots' = slots /\ status' = status /\ e # f
    BY DEF TakeOver, Defined
  <1>4. /\ DOMAIN elements' = DOMAIN elements \cup {e}
        /\ \A x \in DOMAIN elements \ {e, f} : elements'[x] = elements[x]
        /\ elements'[e] = elements[f] /\ elements'[f] = Released(f)
    BY <1>3
  <1>5. DOMAIN heap' = DOMAIN heap \ {BlockOf(e)}
    BY <1>1, <1>3, PlacesAre DEF BlockOf
  <1> QED
    BY <1>2, <1>3, <1>4, <1>5, GiveStep

LEMMA MoveConstructStep ==
  ASSUME ObjInv, OwnInv', NEW e \in Element, NEW f \in Element, MoveConstruct(e, f)
  PROVE  ObjInv' /\ Values!MoveValue(contents, contents', e, f)
  BY TakeOverStep DEF MoveConstruct

LEMMA MoveConstructWithStep ==
  ASSUME ObjInv, OwnInv', SameSizes, OnlyWithValues,
         NEW e \in Element, NEW f \in Element, NEW a, MoveConstructWith(e, f, a)
  PROVE  /\ ObjInv'
         /\ WholeUnits => Values!MoveValue(contents, contents', e, f)
  <1> DEFINE r == elements[f].reference
             units == elements[f].memory.units
             move == TRUE
  <1>1. e \notin DOMAIN elements /\ f \in DOMAIN elements /\ e # f
    BY DEF MoveConstructWith
  <1>2. CASE SameAllocator(a, elements[f].memory.allocator)
    BY <1>1, <1>2, TakeOverStep DEF MoveConstructWith
  <1>3. CASE ~ SameAllocator(a, elements[f].memory.allocator)
    <2>1. /\ HasValue(f) /\ (WholeUnits => Storage(params) = 1)
          /\ StoreIntoNew(e, heap, units, a, r, units, move)
      BY <1>3, UsableFacts DEF MoveConstructWith, MayUseUnits, WholeUnits
    <2>2. f \in Places /\ ReferenceOf(f) = r /\ OwnInv /\ IsHeap(heap)
      BY <1>1, ElementPlaces
    <2>3. /\ SizeInBytes(r) \in Nat /\ units \in Nat
          /\ SizeInBytes(r) <= units * Storage(params) /\ units <= units * Storage(params)
          /\ units <= Cardinality(DOMAIN heap[r.block].cells)
          /\ Storage(params) = 1 => SizeInBytes(r) <= units
      BY <1>1, <2>1, ElementSizes
    <2>4. DOMAIN heap = DOMAIN heap \ {BlockOf(e)}
      BY <1>1, <2>2, PlacesAre DEF BlockOf
    <2> HIDE DEF r, units, move
    <2>5. /\ ObjInv'
          /\ SizeInBytes(ReferenceOf(f)) <= units =>
               Values!MoveValue(contents, contents', e, f)
      <3>1. /\ f # e /\ units <= Cardinality(DOMAIN heap[ReferenceOf(f).block].cells)
            /\ SizeInBytes(ReferenceOf(f)) <= units * Storage(params)
            /\ StoreIntoNew(e, heap, units, a, ReferenceOf(f), units, move)
        BY <1>1, <2>1, <2>2, <2>3
      <3>2. \A c \in DOMAIN heap : heap[c] = heap[c]
        OBVIOUS
      <3> QED
        BY <2>1, <2>2, <2>3, <2>4, <3>1, <3>2, NewStep
    <2> QED
      BY <2>1, <2>2, <2>3, <2>5
  <1> QED
    BY <1>2, <1>3

LEMMA DestructStep ==
  ASSUME ObjInv, OwnInv', SameSizes, NEW e \in Element, Destruct(e)
  PROVE  ObjInv' /\ Values!Drop(contents, contents', e)
  <1>1. e \in DOMAIN elements
    BY DEF Destruct
  <1>2. MayDestroy(e) /\ MayDeallocate(elements[e].memory)
    BY <1>1, MayRelease
  <1>3. /\ heap' = Deallocate(heap, elements[e].memory.block)
        /\ elements' = [x \in DOMAIN elements \ {e} |-> elements[x]]
        /\ slots' = slots /\ status' = status
    BY <1>2 DEF Destruct, Defined
  <1>4. OwnInv /\ BlockOf(e) = elements[e].memory.block
    BY <1>1 DEF ObjInv, BlockOf
  <1>5. DOMAIN heap' = DOMAIN heap \ {BlockOf(e)} /\ \A c \in DOMAIN heap' : heap'[c] = heap[c]
    BY <1>3, <1>4 DEF Deallocate
  <1>6. /\ Places' \ {e} = Places \ {e} /\ e \notin DOMAIN slots
        /\ \A x \in Places \ {e} : ReferenceOf(x)' = ReferenceOf(x) /\ HasValue(x)' = HasValue(x)
    <2>1. /\ DOMAIN elements' \ {e} = DOMAIN elements \ {e}
          /\ \A x \in DOMAIN elements \ {e} : elements'[x] = elements[x]
          /\ {e} \in SUBSET Element
      BY <1>3
    <2>2. /\ Places' \ {e} = Places \ {e} /\ {e} \cap DOMAIN slots = {}
          /\ \A x \in Places \ {e} : ReferenceOf(x)' = ReferenceOf(x) /\ HasValue(x)' = HasValue(x)
      BY <1>3, <1>4, <2>1, OthersPlaces
    <2> QED
      BY <2>2
  <1>7. e \notin Places'
    BY <1>3, <1>6 DEF Places
  <1>8. ASSUME NEW x \in Places \ {e} PROVE Untouched(x)
    <2>1. HasValue(x) => ReferenceOf(x).block \in DOMAIN heap'
      BY <1>4, <1>5, NotItsBlock
    <2> QED
      BY <1>5, <1>6, <2>1 DEF Untouched
  <1>9. ObjInv' /\ Values!OnlyAt({e}, contents, contents')
    <2>1. \A x \in {e} : x \in Places' /\ HasValue(x)' => Intact(heap', ReferenceOf(x)')
      BY <1>7
    <2> QED
      BY <1>3, <1>6, <1>8, <2>1, StepIntact
  <1>10. e \notin DOMAIN contents'
    BY <1>7 DEF contents
  <1> QED
    BY <1>9, <1>10 DEF Values!Drop

LEMMA SwapElementsStep ==
  ASSUME ObjInv, OwnInv', NEW e \in Element, NEW f \in Element, SwapElements(e, f)
  PROVE  ObjInv' /\ Values!Exchange(contents, contents', e, f)
  <1> DEFINE m == elements[e].memory
             o == elements[f].memory
             x == [memory |-> SwappedMemory(m, o), reference |-> elements[f].reference]
             y == [memory |-> SwappedMemory(o, m), reference |-> elements[e].reference]
  <1>1. /\ e # f /\ e \in DOMAIN elements /\ f \in DOMAIN elements
        /\ traits.swap \/ SameAllocator(m.allocator, o.allocator)
        /\ elements' = [elements EXCEPT ![e] = x, ![f] = y]
        /\ slots' = slots /\ heap' = heap /\ status' = status
    BY DEF SwapElements, Defined
  <1>2. IsElement(elements[e]) /\ IsElement(elements[f])
    BY <1>1, ElementFacts DEF ObjInv
  <1>3. SwappedMemory(m, o).block = o.block /\ SwappedMemory(o, m).block = m.block
    <2>1. o = Memory(o.block, o.units, o.allocator) /\ m = Memory(m.block, m.units, m.allocator)
      BY <1>2 DEF IsElement
    <2> QED
      BY <2>1 DEF SwappedMemory, Memory
  <1>4. /\ x.memory.block = o.block /\ x.reference = elements[f].reference
        /\ y.memory.block = m.block /\ y.reference = elements[e].reference
    BY <1>3
  <1> HIDE DEF x, y
  <1>5. /\ DOMAIN elements' = DOMAIN elements /\ elements'[e] = x /\ elements'[f] = y
        /\ \A z \in DOMAIN elements \ {e, f} : elements'[z] = elements[z]
    BY <1>1
  <1> QED
    BY <1>1, <1>4, <1>5, ExchangeStep

(* Assignment through references, of places with values.                    *)
LEMMA AssignThroughStep ==
  ASSUME ObjInv, OwnInv', SameSizes,
         NEW p \in Places, NEW q \in Places, p # q, HasValue(p), HasValue(q),
         ReferenceOf(p).shape = ReferenceOf(q).shape,
         NEW move, AssignThrough(ReferenceOf(p), ReferenceOf(q), move)
  PROVE  /\ ObjInv'
         /\ ~ move => Values!CopyValue(contents, contents', p, q)
         /\ Values!MoveValue(contents, contents', p, q)
  <1>1. IsAlive(heap, ReferenceOf(p)) /\ IsAlive(heap, ReferenceOf(q))
    BY ValueFacts
  <1>2. /\ heap' = Assigned(heap, ReferenceOf(q), ReferenceOf(p), move)
        /\ elements' = elements /\ slots' = slots /\ status' = status
    BY <1>1 DEF AssignThrough, Defined
  <1>3. InPlace
    BY <1>2 DEF InPlace
  <1> QED
    BY <1>2, <1>3, AssignStep

LEMMA AssignableFacts ==
  ASSUME ObjInv, SameSizes, OnlyWithValues, NEW p, NEW q, Assignable(p, q)
  PROVE  /\ p \in Places /\ q \in Places /\ HasValue(p) /\ HasValue(q)
         /\ ReferenceOf(p).shape = ReferenceOf(q).shape
  BY UsableFacts DEF Assignable, SameSizes

LEMMA ReferenceAssignStep ==
  ASSUME ObjInv, OwnInv', SameSizes, OnlyWithValues, NEW p, NEW q, NEW move,
         Assign(p, q, move) \/ AssignToElement(p, q, move)
  PROVE  /\ ObjInv'
         /\ ~ move => Values!CopyValue(contents, contents', p, q)
         /\ Values!MoveValue(contents, contents', p, q)
  <1>1. p # q /\ Assignable(p, q)
    BY DEF Assign, AssignToElement
  <1>2. AssignThrough(ReferenceOf(p), ReferenceOf(q), move)
    <2>1. CASE Assign(p, q, move)
      BY <2>1 DEF Assign, ReferenceOf
    <2>2. CASE AssignToElement(p, q, move)
      BY <2>2, ElementPlaces DEF AssignToElement
    <2> QED
      BY <2>1, <2>2
  <1> QED
    BY <1>1, <1>2, AssignableFacts, AssignThroughStep

LEMMA SwapReferencesStep ==
  ASSUME ObjInv, OwnInv', SameSizes, OnlyWithValues, NEW p, NEW q, SwapReferences(p, q)
  PROVE  ObjInv' /\ Values!Exchange(contents, contents', p, q)
  <1>1. p # q /\ Assignable(p, q)
    BY DEF SwapReferences
  <1>2. /\ p \in Places /\ q \in Places /\ HasValue(p) /\ HasValue(q)
        /\ ReferenceOf(p).shape = ReferenceOf(q).shape
    BY <1>1, AssignableFacts
  <1>3. IsAlive(heap, ReferenceOf(p)) /\ IsAlive(heap, ReferenceOf(q))
    BY <1>2, ValueFacts
  <1>4. /\ heap' = Swapped(heap, ReferenceOf(p), ReferenceOf(q))
        /\ elements' = elements /\ slots' = slots /\ status' = status
    BY <1>3 DEF SwapReferences, Defined
  <1>5. InPlace
    BY <1>4 DEF InPlace
  <1> QED
    BY <1>1, <1>2, <1>4, <1>5, SwapStep

(* What is left of the heap once e's memory was returned.                   *)
LEMMA ReturnedHeap ==
  ASSUME ObjInv, NEW e \in DOMAIN elements
  PROVE  LET h == Deallocate(heap, elements[e].memory.block)
         IN  /\ IsHeap(h) /\ DOMAIN h = DOMAIN heap \ {BlockOf(e)}
             /\ \A c \in DOMAIN h : h[c] = heap[c]
  <1> DEFINE b == elements[e].memory.block
             h == Deallocate(heap, b)
  <1>1. IsHeap(heap) /\ BlockOf(e) = b
    BY DEF ObjInv, OwnInv, BlockOf
  <1>2. IsHeap(h) /\ DOMAIN h = DOMAIN heap \ {b}
    BY <1>1, DeallocateHeap
  <1>3. \A c \in DOMAIN h : h[c] = heap[c]
    BY DEF Deallocate
  <1> QED
    BY <1>1, <1>2, <1>3

LEMMA CopyAssignStep ==
  ASSUME ObjInv, OwnInv', SameSizes, OnlyWithValues,
         NEW e \in Element, NEW f \in Element, CopyAssign(e, f)
  PROVE  /\ ObjInv'
         /\ WholeUnits => Values!CopyValue(contents, contents', e, f)
  <1> DEFINE m == elements[e].memory
             o == elements[f].memory
             source == elements[f].reference
             target == elements[e].reference
             a == IF traits.copy THEN o.allocator ELSE m.allocator
             move == FALSE
             h == Deallocate(heap, m.block)
  <1>1. e # f /\ e \in DOMAIN elements /\ f \in DOMAIN elements /\ HasValue(e) /\ HasValue(f)
    BY UsableFacts DEF CopyAssign
  <1>2. /\ e \in Places /\ f \in Places /\ ReferenceOf(e) = target /\ ReferenceOf(f) = source
        /\ AreSlots /\ OwnInv /\ IsElement(elements[e])
        /\ source.shape \in UsedShapes /\ target.shape \in UsedShapes
    BY <1>1, ElementPlaces, ElementFacts
  <1>3. MayDestroy(e) /\ MayDeallocate(m)
    BY <1>1, MayRelease
  <1>4. CASE IsFixedSizeOrPlain /\ (~ traits.copy \/ traits.always_equal)
    <2>1. IsAlive(heap, target) /\ IsAlive(heap, source)
      BY <1>1, <1>2, ValueFacts
    <2>2. /\ heap' = Assigned(heap, source, target, move)
          /\ elements' = [elements EXCEPT ![e].memory.allocator = a]
          /\ slots' = slots /\ status' = status
      BY <1>4, <2>1 DEF CopyAssign, Defined
    <2>3. source.shape = target.shape
      BY <1>2, <1>4, ShapesInUse
    <2>4. InPlace
      <3>1. /\ elements[e] = [memory |-> m, reference |-> target]
            /\ m = Memory(m.block, m.units, m.allocator)
        BY <1>2 DEF IsElement
      <3> DEFINE n == [m EXCEPT !.allocator = a]
                 y == [elements[e] EXCEPT !.memory = n]
      <3>2. n.block = m.block
        BY <3>1 DEF Memory
      <3> HIDE DEF n, a
      <3>3. y.memory = n /\ y.reference = target
        BY <3>1
      <3>4. elements' = [elements EXCEPT ![e] = y]
        BY <2>2 DEF n
      <3> HIDE DEF y
      <3>5. /\ DOMAIN elements' = DOMAIN elements /\ elements'[e] = y
            /\ \A x \in DOMAIN elements \ {e} : elements'[x] = elements[x]
        BY <1>1, <3>4
      <3>6. ASSUME NEW x \in DOMAIN elements
            PROVE  /\ elements'[x].reference = elements[x].reference
                   /\ elements'[x].memory.block = elements[x].memory.block
        <4>1. CASE x = e
          BY <3>2, <3>3, <3>5, <4>1
        <4>2. CASE x # e
          BY <3>5, <4>2
        <4> QED
          BY <4>1, <4>2
      <3> QED
        BY <2>2, <3>5, <3>6 DEF InPlace
    <2>5. ~ move /\ ReferenceOf(e).shape = ReferenceOf(f).shape
      BY <1>2, <2>3
    <2>6. heap' = Assigned(heap, ReferenceOf(f), ReferenceOf(e), move)
      BY <1>2, <2>2
    <2> HIDE DEF move
    <2> QED
      BY <1>1, <1>2, <2>2, <2>4, <2>5, <2>6, AssignStep
  <1>5. CASE ~ (IsFixedSizeOrPlain /\ (~ traits.copy \/ traits.always_equal))
    <2>1. /\ MayUseUnits
          /\ IF Replaces(m, o)
               THEN StoreIntoNew(e, h, o.units, a, source, o.units, move)
               ELSE StoreInto(e, Destroyed(e), Memory(m.block, m.units, a), source, o.units, move)
      BY <1>3, <1>5 DEF CopyAssign
    <2>2. /\ SizeInBytes(source) \in Nat /\ o.units \in Nat /\ m.units \in Nat
          /\ SizeInBytes(source) <= o.units * Storage(params)
          /\ o.units <= o.units * Storage(params)
          /\ o.units <= Cardinality(DOMAIN heap[source.block].cells)
          /\ Storage(params) = 1 => SizeInBytes(source) <= o.units
          /\ Cardinality(DOMAIN heap[m.block].cells) = m.units * Storage(params)
      BY <1>1, <1>2, ElementSizes, MemoryFacts
    <2>3. WholeUnits => SizeInBytes(ReferenceOf(f)) <= o.units
      BY <1>2, <2>1, <2>2 DEF MayUseUnits, WholeUnits
    <2>4. /\ f # e /\ ~ move
          /\ o.units <= Cardinality(DOMAIN heap[ReferenceOf(f).block].cells)
          /\ SizeInBytes(ReferenceOf(f)) <= o.units * Storage(params)
      BY <1>1, <1>2, <2>2
    <2>5. CASE Replaces(m, o)
      <3>1. StoreIntoNew(e, h, o.units, a, ReferenceOf(f), o.units, move)
        BY <1>2, <2>1, <2>5
      <3>2. /\ IsHeap(h) /\ DOMAIN h = DOMAIN heap \ {BlockOf(e)}
            /\ \A c \in DOMAIN h : h[c] = heap[c]
        BY <1>1, ReturnedHeap
      <3> DEFINE k == o.units
      <3>3. /\ f # e /\ HasValue(f) /\ k \in Nat /\ k <= k * Storage(params)
            /\ k <= Cardinality(DOMAIN heap[ReferenceOf(f).block].cells)
            /\ SizeInBytes(ReferenceOf(f)) <= k * Storage(params)
            /\ StoreIntoNew(e, h, k, a, ReferenceOf(f), k, move)
        BY <1>1, <1>2, <2>2, <2>4, <3>1
      <3> HIDE DEF move, h, a, k
      <3>4. /\ ObjInv'
            /\ SizeInBytes(ReferenceOf(f)) <= k =>
                 /\ ~ move => Values!CopyValue(contents, contents', e, f)
                 /\ Values!MoveValue(contents, contents', e, f)
        BY <1>2, <3>2, <3>3, NewStep
      <3> QED
        BY <2>3, <2>4, <3>4 DEF k
    <2>6. CASE ~ Replaces(m, o)
      <3> DEFINE n == Memory(m.block, m.units, a)
      <3>1. n.block = m.block /\ StoreInto(e, Destroyed(e), n, ReferenceOf(f), o.units, move)
        BY <1>2, <2>1, <2>6 DEF Memory
      <3>2. o.units <= m.units
        BY <2>2, <2>6 DEF Replaces
      <3>3. /\ o.units <= Cardinality(DOMAIN heap[m.block].cells)
            /\ SizeInBytes(ReferenceOf(f)) <= Cardinality(DOMAIN heap[m.block].cells)
        <4>1. /\ o.units * Storage(params) <= m.units * Storage(params)
              /\ o.units * Storage(params) \in Nat /\ m.units * Storage(params) \in Nat
          BY <1>2, <2>2, <3>2, UnitsAreBytes
        <4> HIDE DEF m, o
        <4> QED
          BY <1>2, <2>2, <2>4, <4>1
      <3> HIDE DEF move, n, o
      <3>4. n.block = elements[e].memory.block /\ n.block = m.block
        BY <3>1
      <3> QED
        BY <1>1, <1>2, <2>2, <2>3, <2>4, <3>1, <3>3, <3>4, SameStep
    <2> QED
      BY <2>5, <2>6
  <1> QED
    BY <1>4, <1>5

LEMMA StealStep ==
  ASSUME ObjInv, OwnInv', SameSizes,
         NEW e \in DOMAIN elements, NEW f \in DOMAIN elements, e # f, Steal(e, f)
  PROVE  ObjInv' /\ Values!MoveValue(contents, contents', e, f)
  <1> DEFINE m == elements[e].memory
             o == elements[f].memory
             a == IF traits.move THEN o.allocator ELSE m.allocator
             x == [memory |-> Memory(o.block, o.units, a), reference |-> elements[f].reference]
             y == Released(f)
             h == Deallocate(heap, m.block)
  <1>1. MayDestroy(e) /\ MayDeallocate(m)
    BY MayRelease
  <1>2. /\ heap' = h /\ elements' = [elements EXCEPT ![e] = x, ![f] = y]
        /\ slots' = slots /\ status' = status
    BY <1>1 DEF Steal, Defined
  <1>3. /\ x.memory.block = o.block /\ x.reference = elements[f].reference
    BY DEF Memory
  <1>4. y.memory.block = Null /\ e \in Element
    BY ReleasedElement, ElementPlaces DEF ObjInv
  <1>5. DOMAIN h = DOMAIN heap \ {BlockOf(e)} /\ \A c \in DOMAIN h : h[c] = heap[c]
    BY ReturnedHeap
  <1> HIDE DEF x, y, h
  <1>6. /\ DOMAIN elements' = DOMAIN elements /\ elements'[e] = x /\ elements'[f] = y
        /\ \A z \in DOMAIN elements \ {e, f} : elements'[z] = elements[z]
    BY <1>2
  <1>7. DOMAIN elements' = DOMAIN elements \cup {e}
    BY <1>6
  <1> QED
    BY <1>2, <1>3, <1>4, <1>5, <1>6, <1>7, GiveStep

LEMMA MoveObjectsStep ==
  ASSUME ObjInv, OwnInv', SameSizes, NEW e \in DOMAIN elements, NEW f \in DOMAIN elements, e # f,
         HasValue(e), HasValue(f), MoveObjects(e, f)
  PROVE  ObjInv' /\ Values!MoveValue(contents, contents', e, f)
  <1> DEFINE m == elements[e].memory
             o == elements[f].memory
             source == elements[f].reference
             target == elements[e].reference
             n == SizeInBytes(source)
             move == TRUE
             h == Deallocate(heap, m.block)
  <1>1. /\ e \in Places /\ f \in Places /\ ReferenceOf(e) = target /\ ReferenceOf(f) = source
        /\ AreSlots /\ OwnInv /\ e \in Element
        /\ source.shape \in UsedShapes /\ target.shape \in UsedShapes
    BY ElementPlaces, ElementFacts
  <1>2. CASE IsFixedSizeOrPlain
    <2>1. source.shape = target.shape
      BY <1>1, <1>2, ShapesInUse
    <2>2. AssignThrough(ReferenceOf(e), ReferenceOf(f), move)
      BY <1>1, <1>2 DEF MoveObjects
    <2>3. ReferenceOf(e).shape = ReferenceOf(f).shape
      BY <1>1, <2>1
    <2> HIDE DEF move
    <2> QED
      BY <1>1, <2>2, <2>3, AssignThroughStep
  <1>3. CASE ~ IsFixedSizeOrPlain
    <2>1. MayDestroy(e) /\ MayDeallocate(m)
      BY MayRelease
    <2>2. IF Outgrows(e, f)
            THEN StoreIntoNew(e, h, o.units, m.allocator, source, n, move)
            ELSE StoreInto(e, Destroyed(e), m, source, n, move)
      BY <1>3, <2>1 DEF MoveObjects
    <2>3. /\ n \in Nat /\ o.units \in Nat /\ m.units \in Nat
          /\ n <= o.units * Storage(params) /\ o.units * Storage(params) \in Nat
          /\ Cardinality(DOMAIN heap[source.block].cells) = o.units * Storage(params)
          /\ Cardinality(DOMAIN heap[m.block].cells) = m.units * Storage(params)
          /\ m.units <= m.units * Storage(params) /\ m.units * Storage(params) \in Nat
      BY <1>1, ElementSizes, MemoryFacts, UnitsAreBytes
    <2>4. /\ f # e /\ n <= n
          /\ n <= Cardinality(DOMAIN heap[ReferenceOf(f).block].cells)
          /\ SizeInBytes(ReferenceOf(f)) = n
      BY <1>1, <2>3
    <2>5. CASE Outgrows(e, f)
      <3>1. StoreIntoNew(e, h, o.units, m.allocator, ReferenceOf(f), n, move)
        BY <1>1, <2>2, <2>5
      <3>2. /\ IsHeap(h) /\ DOMAIN h = DOMAIN heap \ {BlockOf(e)}
            /\ \A c \in DOMAIN h : h[c] = heap[c]
        BY ReturnedHeap
      <3>3. SizeInBytes(ReferenceOf(f)) <= o.units * Storage(params)
        BY <2>3, <2>4
      <3> HIDE DEF move, h, o, n, m
      <3> QED
        BY <1>1, <2>3, <2>4, <3>1, <3>2, <3>3, NewStep
    <2>6. CASE ~ Outgrows(e, f)
      <3>1. StoreInto(e, Destroyed(e), m, ReferenceOf(f), n, move)
        BY <1>1, <2>2, <2>6
      <3>2. n <= m.units
        BY <2>3, <2>6 DEF Outgrows
      <3>3. n <= m.units * Storage(params)
        <4> HIDE DEF n, m
        <4> QED
          BY <2>3, <3>2
      <3>4. m.block = elements[e].memory.block
        OBVIOUS
      <3>5. /\ n <= Cardinality(DOMAIN heap[m.block].cells)
            /\ SizeInBytes(ReferenceOf(f)) <= Cardinality(DOMAIN heap[m.block].cells)
        BY <2>3, <2>4, <3>3
      <3> HIDE DEF move, n, m
      <3> QED
        BY <1>1, <2>3, <2>4, <3>1, <3>4, <3>5, SameStep
    <2> QED
      BY <2>5, <2>6
  <1> QED
    BY <1>2, <1>3

LEMMA MoveAssignStep ==
  ASSUME ObjInv, OwnInv', SameSizes, OnlyWithValues,
         NEW e \in Element, NEW f \in Element, MoveAssign(e, f)
  PROVE  ObjInv' /\ Values!MoveValue(contents, contents', e, f)
  <1>1. e # f /\ e \in DOMAIN elements /\ f \in DOMAIN elements
    BY DEF MoveAssign
  <1>2. CASE Steal(e, f)
    BY <1>1, <1>2, StealStep
  <1>3. CASE Usable(e) /\ Usable(f) /\ MoveObjects(e, f)
    BY <1>1, <1>3, UsableFacts, MoveObjectsStep
  <1> QED
    BY <1>2, <1>3 DEF MoveAssign

(* No two parameters have a byte in common.                                 *)
LEMMA ParametersApart ==
  ASSUME NEW i \in DOMAIN Shapes, NEW j \in DOMAIN Shapes[i].params,
         NEW k \in DOMAIN Shapes[i].params, j # k
  PROVE  Bytes(i, j, j) \cap Bytes(i, k, k) = {}
  <1> DEFINE ps == Shapes[i].params
             cs == Shapes[i].counts
             p == PlacementOf[i]
             zero == 0
  <1>1. IsParameterList(ps) /\ \A l \in DOMAIN ps : cs[l] \in Nat
    BY ShapeAssumption
  <1>2. p = Placement(ps, cs, zero) /\ zero \in Nat
    BY DEF PlacementOf
  <1>3. DOMAIN ps = 1 .. Len(ps) /\ Len(ps) \in Nat
    BY <1>1, ListFacts
  <1>4. /\ Bytes(i, j, j) = p[j][1] .. p[j][2] - 1
        /\ Bytes(i, k, k) = p[k][1] .. p[k][2] - 1
    BY DEF Bytes, Begin, End
  <1>5. j \in DOMAIN ps /\ k \in DOMAIN ps
    OBVIOUS
  <1> HIDE DEF ps, cs, p, zero
  <1>6. /\ \A l \in DOMAIN ps : p[l][1] \in Nat /\ p[l][2] \in Nat
        /\ \A l, m \in DOMAIN ps : l < m => p[l][2] <= p[m][1]
    BY <1>1, <1>2, PlacesInOrder
  <1>7. j < k \/ k < j
    BY <1>3, <1>5
  <1>8. /\ p[j][1] \in Int /\ p[j][2] \in Int /\ p[k][1] \in Int /\ p[k][2] \in Int
        /\ p[j][2] <= p[k][1] \/ p[k][2] <= p[j][1]
    BY <1>5, <1>6, <1>7
  <1> QED
    BY <1>4, <1>8

(* The elements of a vector are intact at the start.                        *)
LEMMA InitIntact ==
  ASSUME Init
  PROVE  ObjInv
  <1>1. OwnInv
    BY InitOwn
  <1>2. elements = << >> /\ DOMAIN elements = {} /\ status = "defined"
    BY DEF Init
  <1> DEFINE holds(r, k, a) == a \in Bytes(r.shape, k, k)
             value(r, k, v) == IF k < Len(params) /\ params[k + 1].type = "varying"
                               THEN Shapes[r.shape].counts[k + 1] ELSE v
             cell(r, k, v, s, a) == IF Kind(r, k) = "object" THEN Object(value(r, k, v), s, a)
                                                             ELSE Byte(value(r, k, v))
             byte(r, v, s, a) ==
               IF \E k \in Parameters(r) : holds(r, k, a)
               THEN LET k == CHOOSE k \in Parameters(r) : holds(r, k, a)
                    IN  cell(r, k, v[k], s, a)
               ELSE Byte(Raw)
  <1>3. PICK filling \in Fillings :
          heap = [s \in DOMAIN slots |->
                    [allocator |-> Null,
                     cells |-> [a \in 0 .. SizeInBytes(slots[s]) - 1 |->
                                  byte(slots[s], filling[s], s, a)]]]
    BY Zenon DEF Init
  <1> HIDE DEF byte
  <1>4. /\ DOMAIN heap = DOMAIN slots
        /\ \A s \in DOMAIN slots :
             /\ DOMAIN heap[s].cells = 0 .. SizeInBytes(slots[s]) - 1
             /\ \A a \in DOMAIN heap[s].cells : heap[s].cells[a] = byte(slots[s], filling[s], s, a)
    BY <1>3
  <1>5. ASSUME NEW s \in DOMAIN slots PROVE Intact(heap, slots[s])
    <2> DEFINE r == slots[s]
               i == r.shape
    <2>1. r.block = s /\ i \in DOMAIN Shapes /\ SizeInBytes(r) \in Nat
      <3>1. r.block = s /\ i \in DOMAIN Shapes
        BY <1>1, ShapesInUse DEF OwnInv, UsedShapes
      <3> QED
        BY <3>1, BytesInside DEF SizeInBytes
    <2>2. \A k \in Parameters(r) : Kind(r, k) \in Kinds
      BY <2>1, ShapeAssumption DEF Parameters, Kind
    <2>3. \A a : a \in Objects(r) <=> \E k \in Parameters(r) : Kind(r, k) = "object" /\ holds(r, k, a)
      BY <2>1, <2>2 DEF Objects, ObjectBytes, Manual, TriviallyAssignable, Kind, Parameters
    <2>4. \A j, k \in Parameters(r) : \A a : holds(r, j, a) /\ holds(r, k, a) => j = k
      BY <2>1, ParametersApart DEF Parameters
    <2>5. ASSUME NEW a, NEW v
          PROVE  /\ IsCell(byte(r, v, s, a))
                 /\ byte(r, v, s, a).home = IF a \in Objects(r) THEN <<s, a>> ELSE << >>
      <3>1. CASE \E k \in Parameters(r) : holds(r, k, a)
        <4> DEFINE k == CHOOSE k \in Parameters(r) : holds(r, k, a)
        <4>1. k \in Parameters(r) /\ holds(r, k, a)
          BY <3>1
        <4>2. byte(r, v, s, a) = cell(r, k, v[k], s, a)
          BY <3>1 DEF byte
        <4> HIDE DEF k, holds, value, r
        <4>3. a \in Objects(r) <=> Kind(r, k) = "object"
          BY <2>3, <2>4, <4>1
        <4>4. CASE Kind(r, k) = "object"
          <5>1. byte(r, v, s, a) = Object(value(r, k, v[k]), s, a)
            BY <4>2, <4>4
          <5> QED
            BY <4>3, <4>4, <5>1 DEF Object, IsCell
        <4>5. CASE Kind(r, k) # "object"
          <5>1. byte(r, v, s, a) = Byte(value(r, k, v[k]))
            BY <4>2, <4>5
          <5> QED
            BY <4>3, <4>5, <5>1 DEF Byte, IsCell
        <4> QED
          BY <4>4, <4>5
      <3>2. CASE ~ \E k \in Parameters(r) : holds(r, k, a)
        <4>1. byte(r, v, s, a) = Byte(Raw)
          BY <3>2 DEF byte
        <4>2. a \notin Objects(r)
          BY <2>3, <3>2
        <4> QED
          BY <4>1, <4>2 DEF Byte, IsCell
      <3> QED
        BY <3>1, <3>2
    <2>6. SizeInBytes(r) <= Cardinality(DOMAIN heap[s].cells)
      <3> DEFINE n == SizeInBytes(r)
      <3>1. DOMAIN heap[s].cells = 0 .. n - 1 /\ n \in Nat
        BY <1>4, <2>1
      <3> HIDE DEF n
      <3>2. Cardinality(0 .. n - 1) = n
        BY <3>1, BytesCount
      <3> QED
        BY <3>1, <3>2 DEF n
    <2> HIDE DEF r
    <2>7. /\ r.block = s /\ s \in DOMAIN heap
          /\ \A a \in DOMAIN heap[s].cells : heap[s].cells[a] = byte(r, filling[s], s, a)
      BY <1>4, <2>1 DEF r
    <2>8. Intact(heap, r)
      BY <2>5, <2>6, <2>7 DEF Intact
    <2> QED
      BY <2>8 DEF r
  <1>6. AllIntact
    BY <1>1, <1>2, <1>5, PlacesAre DEF AllIntact, Places
  <1> QED
    BY <1>1, <1>2, <1>6 DEF ObjInv

-----------------------------------------------------------------------------
(* The caller whose calls all have defined behaviour.                       *)
KeepsToElements == {"use_moved_from", "other_sizes"} \subseteq Avoided

(* Each step keeps elements intact and is one of ElementValues, where the   *)
(* number of units is that of bytes.                                        *)
LEMMA NextIntact ==
  ASSUME ObjInv, KeepsToElements, [Next]_vars
  PROVE  ObjInv' /\ (WholeUnits => [Values!ValuesNext]_contents)
  <1>1. OwnInv' /\ SameSizes /\ OnlyWithValues
    BY NextOwn DEF ObjInv, KeepsToElements, SameSizes, OnlyWithValues
  <1>2. DOMAIN contents = Places
    BY DEF contents
  <1>3. CASE UNCHANGED vars
    <2>1. contents' = contents
      BY <1>3 DEF vars, contents, Contents, Places, ReferenceOf, HasValue, IsHollow
    <2>2. ObjInv'
      <3>1. Places' = Places /\ \A p \in Places : Untouched(p)
        <4>1. Places' = Places
          BY <1>3 DEF vars, Places
        <4>2. ASSUME NEW p \in Places PROVE Untouched(p)
          <5>1. ReferenceOf(p)' = ReferenceOf(p) /\ HasValue(p)' = HasValue(p)
            BY <1>3 DEF vars, ReferenceOf, HasValue, IsHollow
          <5>2. HasValue(p) => ReferenceOf(p).block \in DOMAIN heap'
            BY <1>3, PlacesApart DEF vars, ObjInv
          <5> QED
            BY <1>3, <5>1, <5>2 DEF vars, Untouched
        <4> QED
          BY <4>1, <4>2
      <3>2. status' = status
        BY <1>3 DEF vars
      <3> DEFINE none == {}
      <3>3. /\ Places \ none = Places' \ none
            /\ \A x \in Places' \ none : Untouched(x)
            /\ \A x \in none : x \in Places' /\ HasValue(x)' => Intact(heap', ReferenceOf(x)')
        BY <3>1
      <3> HIDE DEF none
      <3>4. OwnInv'
        BY <1>1
      <3>5. ObjInv' /\ Values!OnlyAt(none, contents, contents')
        BY <3>2, <3>3, <3>4, StepIntact
      <3> QED
        BY <3>5
    <2> QED
      BY <2>1, <2>2
  <1>4. ASSUME NEW p \in Element \cup DOMAIN contents, NEW q \in DOMAIN contents,
               \/ Values!CopyValue(contents, contents', p, q)
               \/ Values!MoveValue(contents, contents', p, q)
               \/ Values!Exchange(contents, contents', p, q)
        PROVE  [Values!ValuesNext]_contents
    BY <1>4 DEF Values!ValuesNext
  <1>5. ASSUME NEW e \in Element, NEW p \in Places, NEW move \in BOOLEAN, NEW a \in Allocator,
               Construct(e, p, move, a)
        PROVE  ObjInv' /\ (WholeUnits => [Values!ValuesNext]_contents)
    BY <1>1, <1>2, <1>4, <1>5, ConstructStep
  <1>6. ASSUME NEW e \in Element, Destruct(e)
        PROVE  ObjInv' /\ (WholeUnits => [Values!ValuesNext]_contents)
    <2>1. ObjInv' /\ Values!Drop(contents, contents', e) /\ e \in DOMAIN contents
      BY <1>1, <1>2, <1>6, DestructStep DEF Destruct, Places
    <2> QED
      BY <2>1 DEF Values!ValuesNext
  <1>7. ASSUME NEW e \in Element, NEW f \in Element,
               \/ \E a \in Allocator : CopyConstruct(e, f, a) \/ MoveConstructWith(e, f, a)
               \/ MoveConstruct(e, f) \/ CopyAssign(e, f)
               \/ MoveAssign(e, f) \/ SwapElements(e, f)
        PROVE  ObjInv' /\ (WholeUnits => [Values!ValuesNext]_contents)
    <2>1. f \in DOMAIN contents
      BY <1>2, <1>7 DEF CopyConstruct, MoveConstructWith, MoveConstruct, CopyAssign, MoveAssign,
                        SwapElements, Places
    <2>2. ASSUME NEW a \in Allocator, CopyConstruct(e, f, a)
          PROVE  ObjInv' /\ (WholeUnits => [Values!ValuesNext]_contents)
      BY <1>1, <1>4, <2>1, <2>2, CopyConstructStep
    <2>3. ASSUME NEW a \in Allocator, MoveConstructWith(e, f, a)
          PROVE  ObjInv' /\ (WholeUnits => [Values!ValuesNext]_contents)
      BY <1>1, <1>4, <2>1, <2>3, MoveConstructWithStep
    <2>4. CASE MoveConstruct(e, f)
      BY <1>1, <1>4, <2>1, <2>4, MoveConstructStep
    <2>5. CASE CopyAssign(e, f)
      BY <1>1, <1>4, <2>1, <2>5, CopyAssignStep
    <2>6. CASE MoveAssign(e, f)
      BY <1>1, <1>4, <2>1, <2>6, MoveAssignStep
    <2>7. CASE SwapElements(e, f)
      BY <1>1, <1>4, <2>1, <2>7, SwapElementsStep
    <2> QED
      BY <1>7, <2>2, <2>3, <2>4, <2>5, <2>6, <2>7
  <1>8. ASSUME NEW p \in Places, NEW q \in Places, SwapReferences(p, q)
        PROVE  ObjInv' /\ (WholeUnits => [Values!ValuesNext]_contents)
    BY <1>1, <1>2, <1>4, <1>8, SwapReferencesStep
  <1>9. ASSUME NEW p \in Places, NEW q \in Places, NEW move \in BOOLEAN,
               Assign(p, q, move) \/ AssignToElement(p, q, move)
        PROVE  ObjInv' /\ (WholeUnits => [Values!ValuesNext]_contents)
    BY <1>1, <1>2, <1>4, <1>9, ReferenceAssignStep
  <1> QED
    BY <1>3, <1>5, <1>6, <1>7, <1>8, <1>9 DEF Next

LEMMA SpecIntact ==
  ASSUME KeepsToElements
  PROVE  Spec => []ObjInv
  <1>1. Init => ObjInv
    BY InitIntact
  <1>2. ObjInv /\ [Next]_vars => ObjInv'
    BY NextIntact
  <1> QED
    BY <1>1, <1>2, PTL DEF Spec

(* Calls have defined behaviour for a caller that does not use an element   *)
(* it moved from and does not assign elements of other sizes to each other  *)
(* through references: every object that is read, assigned to or destroyed  *)
(* is there, and all bytes that are copied (element.hpp:48-144, 231-240,    *)
(* reference.hpp:70-135).                                                   *)
THEOREM CallsAreDefined ==
  ASSUME KeepsToElements
  PROVE  Spec => []NeverUndefined
  <1>1. ObjInv => NeverUndefined
    BY DEF ObjInv, NeverUndefined
  <1> QED
    BY <1>1, SpecIntact, PTL

(* For this caller, in every element that has a value the objects were      *)
(* constructed or assigned where they are, not moved there byte by byte,    *)
(* and no object is left behind in memory that is reused or returned        *)
(* (element.hpp:231-240, 379-388).                                          *)
THEOREM ObjectsStayAtHome ==
  ASSUME KeepsToElements
  PROVE  Spec => []ObjectsAtHome
  <1>1. ObjInv => ObjectsAtHome
    <2> SUFFICES ASSUME ObjInv PROVE ObjectsAtHome
      OBVIOUS
    <2>1. OwnInv /\ SameSizes
      BY DEF ObjInv, KeepsToElements, SameSizes
    <2>2. ASSUME NEW p \in Places, HasValue(p) PROVE IsAlive(heap, ReferenceOf(p))
      BY <2>1, <2>2, ValueFacts
    <2>3. ASSUME NEW b \in DOMAIN heap, NEW a \in DOMAIN heap[b].cells,
                 heap[b].cells[a].home = <<b, a>>
          PROVE  \E p \in Places : /\ HasValue(p) /\ ReferenceOf(p).block = b
                                   /\ a \in Objects(ReferenceOf(p))
      <3>1. PICK p \in Places : HasValue(p) /\ ReferenceOf(p).block = b
        <4>1. CASE b \in DOMAIN slots
          BY <2>1, <4>1, PlacesAre DEF Places
        <4>2. CASE b \notin DOMAIN slots
          <5>1. PICK e \in DOMAIN elements : elements[e].memory.block = b
            BY <2>1, <4>2 DEF OwnInv, OneOwner, Owned
          <5>2. HasValue(e) /\ ReferenceOf(e).block = b
            BY <2>1, <5>1, PlacesAre
          <5> QED
            BY <5>2 DEF Places
        <4> QED
          BY <4>1, <4>2
      <3>2. Intact(heap, ReferenceOf(p))
        BY <3>1 DEF ObjInv, AllIntact
      <3>3. heap[b].cells[a].home = IF a \in Objects(ReferenceOf(p)) THEN <<b, a>> ELSE << >>
        BY <3>1, <3>2 DEF Intact
      <3>4. <<b, a>> # << >>
        OBVIOUS
      <3> QED
        BY <2>3, <3>1, <3>3, <3>4
    <2> QED
      BY <2>2, <2>3 DEF ObjectsAtHome
  <1> QED
    BY <1>1, SpecIntact, PTL

(* Elements implement ElementValues: copies and moves hand values on, swap  *)
(* exchanges them, and no call changes an element it was not given, whoever *)
(* owns the memory.  For a caller who also keeps to parameters whose        *)
(* storage units are bytes (element.hpp:48-144, reference.hpp:70-135).      *)
THEOREM ElementsHaveValues ==
  ASSUME Calls \subseteq Avoided
  PROVE  Spec => ImplementsValues
  <1>1. KeepsToElements /\ WholeUnits
    BY DEF Calls, KeepsToElements, WholeUnits
  <1>2. Init => Values!ValuesInit
    <2> SUFFICES ASSUME Init PROVE Values!ValuesInit
      OBVIOUS
    <2>1. DOMAIN contents = DOMAIN slots
      BY DEF Init, contents, Places
    <2>2. DOMAIN slots \subseteq Slot
      BY InitOwn, ShapesInUse DEF OwnInv
    <2> QED
      BY <2>1, <2>2 DEF Values!ValuesInit
  <1>3. ObjInv /\ [Next]_vars => [Values!ValuesNext]_contents
    BY <1>1, NextIntact
  <1> QED
    BY <1>1, <1>2, <1>3, SpecIntact, PTL DEF Spec, ImplementsValues, Values!ValuesSpec

-----------------------------------------------------------------------------
(* l is the last parameter of the group that starts with k.                 *)
IsGroup(ps, kinds, k, l) ==
  /\ k \in DOMAIN ps /\ l \in DOMAIN ps /\ k <= l
  /\ ps[k].kind \in kinds => \A j \in k .. l : ps[j].kind \in kinds
  /\ ps[k].kind \notin kinds => l = k

(* Every parameter is in a group.                                           *)
LEMMA GroupsCover ==
  ASSUME NEW ps, DOMAIN ps = 1 .. Len(ps), Len(ps) \in Nat, NEW kinds
  PROVE  LET G == Groups(ps, kinds)
         IN  /\ \A k \in DOMAIN G : G[k] = <<k, G[k][2]>> /\ IsGroup(ps, kinds, k, G[k][2])
             /\ \A j \in DOMAIN ps : \E k \in DOMAIN G : k <= j /\ j <= G[k][2]
  <1> DEFINE groups == Runs(ps, kinds) \cup {<<k, k>> : k \in Manual(ps, kinds)}
             first == {g[1] : g \in groups}
             G == [k \in first |-> CHOOSE g \in groups : g[1] = k]
  <1>1. G = Groups(ps, kinds)
    BY DEF Groups
  <1>2. ASSUME NEW g \in groups PROVE g = <<g[1], g[2]>> /\ IsGroup(ps, kinds, g[1], g[2])
    <2>1. CASE g \in Runs(ps, kinds)
      <3>1. /\ g \in (DOMAIN ps) \X (DOMAIN ps) /\ g[1] <= g[2]
            /\ \A j \in g[1] .. g[2] : j \in DOMAIN ps /\ ps[j].kind \in kinds
        BY <2>1 DEF Runs
      <3>2. g[1] \in g[1] .. g[2]
        BY <3>1
      <3> QED
        BY <3>1, <3>2 DEF IsGroup
    <2>2. CASE g \notin Runs(ps, kinds)
      <3>1. PICK k \in Manual(ps, kinds) : g = <<k, k>>
        BY <2>2
      <3>2. k \in DOMAIN ps /\ ps[k].kind \notin kinds /\ k <= k /\ g[1] = k /\ g[2] = k
        BY <3>1 DEF Manual
      <3> QED
        BY <3>1, <3>2 DEF IsGroup
    <2> QED
      BY <2>1, <2>2
  <1>3. ASSUME NEW g \in groups, NEW h \in groups, g[1] = h[1] PROVE g[2] = h[2]
    <2>1. /\ IsGroup(ps, kinds, g[1], g[2]) /\ IsGroup(ps, kinds, g[1], h[2])
      BY <1>2, <1>3
    <2>2. CASE ps[g[1]].kind \notin kinds
      BY <2>1, <2>2 DEF IsGroup
    <2>3. CASE ps[g[1]].kind \in kinds
      <3>1. ASSUME NEW x \in groups, ps[x[1]].kind \in kinds
            PROVE  /\ x[1] \in 1 .. Len(ps) /\ x[2] \in 1 .. Len(ps) /\ x[1] <= x[2]
                   /\ \A j \in x[1] .. x[2] : j \in DOMAIN ps /\ ps[j].kind \in kinds
                   /\ ~ (x[2] + 1 \in DOMAIN ps /\ ps[x[2] + 1].kind \in kinds)
        <4>1. x \in Runs(ps, kinds)
          BY <3>1 DEF Manual
        <4> QED
          BY <4>1 DEF Runs
      <3>2. /\ g[2] + 1 \notin h[1] .. h[2] /\ h[2] + 1 \notin g[1] .. g[2]
        BY <1>3, <2>3, <3>1
      <3> QED
        BY <1>3, <2>3, <3>1, <3>2
    <2> QED
      BY <2>2, <2>3
  <1>4. ASSUME NEW k \in first PROVE G[k] \in groups /\ G[k][1] = k
    OBVIOUS
  <1>5. ASSUME NEW j \in DOMAIN ps PROVE \E g \in groups : g[1] <= j /\ j <= g[2]
    <2>1. CASE ps[j].kind \in kinds
      <3>1. PICK g \in Runs(ps, kinds) : g[1] <= j /\ j <= g[2]
        BY <2>1, RunExists
      <3> QED
        BY <3>1
    <2>2. CASE ps[j].kind \notin kinds
      <3>1. <<j, j>> \in groups
        BY <2>2 DEF Manual
      <3> QED
        BY <3>1
    <2> QED
      BY <2>1, <2>2
  <1> HIDE DEF groups
  <1>6. ASSUME NEW k \in DOMAIN G
        PROVE  G[k] = <<k, G[k][2]>> /\ IsGroup(ps, kinds, k, G[k][2])
    BY <1>2, <1>4
  <1>7. ASSUME NEW j \in DOMAIN ps PROVE \E k \in DOMAIN G : k <= j /\ j <= G[k][2]
    <2>1. PICK g \in groups : g[1] <= j /\ j <= g[2]
      BY <1>5
    <2>2. g[1] \in DOMAIN G /\ G[g[1]][2] = g[2]
      BY <1>3, <1>4
    <2> QED
      BY <2>1, <2>2
  <1> HIDE DEF G
  <1> QED
    BY <1>1, <1>6, <1>7

(* The parameters of an element lie one behind the other.                   *)
LEMMA ShapeFacts ==
  ASSUME NEW i \in DOMAIN Shapes
  PROVE  LET ps == Shapes[i].params
         IN  /\ IsParameterList(ps)
             /\ Len(ps) \in Nat /\ Len(ps) > 0 /\ DOMAIN ps = 1 .. Len(ps)
             /\ \A k \in DOMAIN ps : /\ Begin(i, k) \in Nat /\ End(i, k) \in Nat
                                     /\ Begin(i, k) <= End(i, k)
             /\ \A j, k \in DOMAIN ps : j < k => End(i, j) <= Begin(i, k)
  <1> DEFINE ps == Shapes[i].params
             cs == Shapes[i].counts
             p == PlacementOf[i]
             zero == 0
  <1>1. IsParameterList(ps) /\ \A l \in DOMAIN ps : cs[l] \in Nat
    BY ShapeAssumption
  <1>2. p = Placement(ps, cs, zero) /\ zero \in Nat
    BY DEF PlacementOf
  <1>3. DOMAIN ps = 1 .. Len(ps) /\ Len(ps) \in Nat /\ Len(ps) > 0
    BY <1>1, ListFacts
  <1> HIDE DEF ps, cs, p, zero
  <1>4. /\ \A l \in DOMAIN ps : p[l][1] \in Nat /\ p[l][2] \in Nat /\ p[l][1] <= p[l][2]
        /\ \A l, m \in DOMAIN ps : l < m => p[l][2] <= p[m][1]
    BY <1>1, <1>2, PlacesInOrder
  <1> QED
    BY <1>1, <1>3, <1>4 DEF Begin, End, ps, p

(* Up to a parameter at which elements differ in size, they are laid out    *)
(* the same way.                                                            *)
LEMMA SameBeginnings ==
  ASSUME NEW i \in DOMAIN Shapes, NEW j \in DOMAIN Shapes, Shapes[i].params = Shapes[j].params,
         NEW m \in 0 .. Len(Shapes[i].params),
         \A k \in 1 .. m : Shapes[i].counts[k] = Shapes[j].counts[k]
  PROVE  \A k \in 1 .. m : Begin(i, k) = Begin(j, k) /\ End(i, k) = End(j, k)
  <1> DEFINE ps == Shapes[i].params
             cs == Shapes[i].counts
             ds == Shapes[j].counts
             n == Len(ps)
             zero == 0
  <1>1. n \in Nat /\ DOMAIN ps = 1 .. n /\ m \in 0 .. n
    <2>1. IsParameterList(ps)
      BY ShapeAssumption
    <2> QED
      BY <2>1, ListFacts
  <1>2. /\ PlacementOf[i] = Placement(ps, cs, zero)
        /\ PlacementOf[j] = Placement(ps, ds, zero)
        /\ \A k \in 1 .. m : cs[k] = ds[k]
    BY DEF PlacementOf
  <1> HIDE DEF ps, cs, ds, zero, n
  <1>3. PICK f : /\ ArePlaces(ps, cs, zero, n, f)
                 /\ Placement(ps, cs, zero) = [k \in DOMAIN ps |-> f[k]]
    BY <1>1, PlacementIsFunction DEF n
  <1>4. PICK g : /\ ArePlaces(ps, ds, zero, n, g)
                 /\ Placement(ps, ds, zero) = [k \in DOMAIN ps |-> g[k]]
    BY <1>1, PlacementIsFunction DEF n
  <1>5. /\ f[0] = g[0]
        /\ \A k \in 1 .. n : f[k] = Place(ps, cs, k, f[k - 1][2]) /\ g[k] = Place(ps, ds, k, g[k - 1][2])
    <2>1. f[0] = <<zero, zero>> /\ \A k \in 1 .. n : f[k] = Place(ps, cs, k, f[k - 1][2])
      BY <1>1, <1>3 DEF ArePlaces
    <2>2. g[0] = <<zero, zero>> /\ \A k \in 1 .. n : g[k] = Place(ps, ds, k, g[k - 1][2])
      BY <1>1, <1>4 DEF ArePlaces
    <2> QED
      BY <2>1, <2>2
  <1> DEFINE T == {k \in 0 .. m : f[k] = g[k]}
  <1>6. 0 \in T
    BY <1>1, <1>5
  <1>7. ASSUME NEW k \in T, k < m PROVE k + 1 \in T
    <2>1. k + 1 \in 1 .. n /\ (k + 1) - 1 = k /\ k + 1 \in 1 .. m
      BY <1>1, <1>7
    <2>2. f[k + 1] = Place(ps, cs, k + 1, f[k][2]) /\ g[k + 1] = Place(ps, ds, k + 1, g[k][2])
      BY <1>5, <2>1
    <2>3. cs[k + 1] = ds[k + 1]
      BY <1>2, <2>1
    <2>4. f[k + 1] = g[k + 1]
      BY <2>2, <2>3 DEF Place
    <2> QED
      BY <2>1, <2>4
  <1>8. m \in Nat
    BY <1>1
  <1> HIDE DEF T
  <1>9. T = 0 .. m
    BY <1>6, <1>7, <1>8, Induction DEF T
  <1>10. ASSUME NEW k \in 1 .. m PROVE PlacementOf[i][k] = PlacementOf[j][k]
    <2>1. k \in 0 .. m /\ k \in DOMAIN ps
      BY <1>1, <1>8
    <2> QED
      BY <1>2, <1>3, <1>4, <1>9, <2>1 DEF T
  <1> QED
    BY <1>10 DEF Begin, End

(* The value of byte a of r, as kind compares it.                           *)
ValueAt(h, r, kind, a) == Compared(kind, h[r.block].cells[a].value)

(* The values of some parameters lie one behind the other.                  *)
LEMMA ValuesByByte ==
  ASSUME NEW h, NEW r, r.shape \in DOMAIN Shapes, NEW kind,
         NEW k \in Parameters(r), NEW l \in Parameters(r), k <= l
  PROVE  LET b == Begin(r.shape, k)
             n == End(r.shape, l) - b
             v == ValuesOf(h, r, k, l, kind)
         IN  /\ b \in Nat /\ n \in Nat /\ Bytes(r.shape, k, l) = b .. b + n - 1
             /\ v = [x \in 1 .. n |-> ValueAt(h, r, kind, b + x - 1)]
             /\ DOMAIN v = 1 .. n /\ Len(v) = n
  <1> DEFINE i == r.shape
             b == Begin(i, k)
             e == End(i, l)
             n == e - b
             v == ValuesOf(h, r, k, l, kind)
  <1>1. b \in Nat /\ e \in Nat /\ b <= e
    <2>1. k \in DOMAIN Shapes[i].params /\ l \in DOMAIN Shapes[i].params
      BY DEF Parameters
    <2>2. k \in Int /\ l \in Int /\ i \in DOMAIN Shapes
      BY <2>1, ShapeFacts
    <2>3. /\ Begin(i, k) \in Nat /\ End(i, k) \in Nat /\ Begin(i, k) <= End(i, k)
          /\ Begin(i, l) \in Nat /\ End(i, l) \in Nat /\ Begin(i, l) <= End(i, l)
          /\ k < l => End(i, k) <= Begin(i, l)
      BY <2>1, <2>2, ShapeFacts
    <2>4. k = l \/ k < l
      BY <2>2
    <2> QED
      BY <2>3, <2>4
  <1>2. Bytes(i, k, l) = b .. e - 1
    BY DEF Bytes
  <1>3. Cardinality(Bytes(i, k, l)) = n
    <2>1. b \in Int /\ e - 1 \in Int
      BY <1>1
    <2>2. Cardinality(b .. e - 1) = IF b > e - 1 THEN 0 ELSE e - 1 - b + 1
      BY <2>1, FS_Interval
    <2> HIDE DEF b, e
    <2> QED
      BY <1>1, <1>2, <2>2
  <1>4. v = [x \in 1 .. n |-> ValueAt(h, r, kind, b + x - 1)]
    BY <1>3 DEF ValuesOf, ValueAt
  <1> HIDE DEF b, e, i, v
  <1>5. n \in Nat /\ b + n - 1 = e - 1
    BY <1>1
  <1> HIDE DEF n
  <1>6. DOMAIN v = 1 .. n /\ Len(v) = n
    BY <1>4, <1>5
  <1> QED
    BY <1>1, <1>2, <1>4, <1>5, <1>6 DEF b, e, i, n, v

(* Parameters k to l are at the same places in two shapes.                  *)
SameExtent(i, j, k, l) ==
  /\ Shapes[i].params = Shapes[j].params
  /\ Begin(i, k) = Begin(j, k) /\ End(i, l) = End(j, l)

(* Values are equal if they are byte by byte.                               *)
LEMMA EqualByByte ==
  ASSUME NEW h, NEW r, NEW s, r.shape \in DOMAIN Shapes, s.shape \in DOMAIN Shapes, NEW kind,
         NEW k \in Parameters(r), NEW l \in Parameters(r), k <= l,
         SameExtent(r.shape, s.shape, k, l)
  PROVE  LET v == ValuesOf(h, r, k, l, kind)
             w == ValuesOf(h, s, k, l, kind)
             same == \A a \in Bytes(r.shape, k, l) : ValueAt(h, r, kind, a) = ValueAt(h, s, kind, a)
         IN  (v = w <=> same) /\ (IsPrefix(v, w) <=> same)
  <1> DEFINE v == ValuesOf(h, r, k, l, kind)
             w == ValuesOf(h, s, k, l, kind)
             b == Begin(r.shape, k)
             n == End(r.shape, l) - b
  <1>1. k \in Parameters(s) /\ l \in Parameters(s)
    BY DEF Parameters, SameExtent
  <1>2. /\ b \in Nat /\ n \in Nat /\ Bytes(r.shape, k, l) = b .. b + n - 1
        /\ v = [x \in 1 .. n |-> ValueAt(h, r, kind, b + x - 1)]
    BY ValuesByByte
  <1>3. w = [x \in 1 .. n |-> ValueAt(h, s, kind, b + x - 1)]
    BY <1>1, ValuesByByte DEF SameExtent
  <1> HIDE DEF v, w, b, n
  <1>4. v = w <=> \A x \in 1 .. n : v[x] = w[x]
    BY <1>2, <1>3
  <1>5. IsPrefix(v, w) <=> \A x \in 1 .. n : v[x] = w[x]
    BY <1>2, <1>3 DEF IsPrefix
  <1>6. \A x \in 1 .. n : /\ b + x - 1 \in b .. b + n - 1
                          /\ v[x] = ValueAt(h, r, kind, b + x - 1)
                          /\ w[x] = ValueAt(h, s, kind, b + x - 1)
    BY <1>2, <1>3
  <1>7. \A a \in b .. b + n - 1 : a - b + 1 \in 1 .. n /\ b + (a - b + 1) - 1 = a
    BY <1>2
  <1>8. (\A x \in 1 .. n : v[x] = w[x])
          <=> \A a \in Bytes(r.shape, k, l) : ValueAt(h, r, kind, a) = ValueAt(h, s, kind, a)
    <2>1. ASSUME \A x \in 1 .. n : v[x] = w[x], NEW a \in b .. b + n - 1
          PROVE  ValueAt(h, r, kind, a) = ValueAt(h, s, kind, a)
      <3>1. a - b + 1 \in 1 .. n /\ b + (a - b + 1) - 1 = a
        BY <1>7
      <3> QED
        BY <1>6, <2>1, <3>1
    <2> QED
      BY <1>2, <1>6, <2>1
  <1> QED
    BY <1>4, <1>5, <1>8 DEF v, w

(* And less, if they are at the first byte at which they differ.            *)
LessAt(h, r, s, kind, bytes, a) ==
  /\ a \in bytes /\ ValueAt(h, r, kind, a) < ValueAt(h, s, kind, a)
  /\ \A c \in bytes : c < a => ValueAt(h, r, kind, c) = ValueAt(h, s, kind, c)

LEMMA LessByByte ==
  ASSUME NEW h, NEW r, NEW s, r.shape \in DOMAIN Shapes, s.shape \in DOMAIN Shapes, NEW kind,
         NEW k \in Parameters(r), NEW l \in Parameters(r), k <= l,
         SameExtent(r.shape, s.shape, k, l)
  PROVE  IsLess(ValuesOf(h, r, k, l, kind), ValuesOf(h, s, k, l, kind))
           <=> \E a : LessAt(h, r, s, kind, Bytes(r.shape, k, l), a)
  <1> DEFINE v == ValuesOf(h, r, k, l, kind)
             w == ValuesOf(h, s, k, l, kind)
             b == Begin(r.shape, k)
             n == End(r.shape, l) - b
             bytes == Bytes(r.shape, k, l)
  <1>1. k \in Parameters(s) /\ l \in Parameters(s)
    BY DEF Parameters, SameExtent
  <1>2. /\ b \in Nat /\ n \in Nat /\ bytes = b .. b + n - 1
        /\ v = [x \in 1 .. n |-> ValueAt(h, r, kind, b + x - 1)] /\ Len(v) = n
    BY ValuesByByte
  <1>3. w = [x \in 1 .. n |-> ValueAt(h, s, kind, b + x - 1)] /\ Len(w) = n
    BY <1>1, ValuesByByte DEF SameExtent
  <1> HIDE DEF v, w, b, n, bytes
  <1>4. \A x \in 1 .. n : /\ b + x - 1 \in bytes
                          /\ v[x] = ValueAt(h, r, kind, b + x - 1)
                          /\ w[x] = ValueAt(h, s, kind, b + x - 1)
    BY <1>2, <1>3
  <1>5. \A a \in bytes : a \in Int /\ a - b + 1 \in 1 .. n /\ b + (a - b + 1) - 1 = a
    BY <1>2
  <1>6. ASSUME IsLess(v, w) PROVE \E a : LessAt(h, r, s, kind, bytes, a)
    <2>1. PICK x \in 1 .. n : /\ \A y \in 1 .. x - 1 : v[y] = w[y]
                              /\ x > n \/ v[x] < w[x]
      BY <1>2, <1>3, <1>6 DEF IsLess
    <2>2. x \in Int /\ v[x] < w[x]
      BY <1>2, <2>1
    <2>3. ASSUME NEW c \in bytes, c < b + x - 1
          PROVE  ValueAt(h, r, kind, c) = ValueAt(h, s, kind, c)
      <3>1. c - b + 1 \in 1 .. n /\ b + (c - b + 1) - 1 = c /\ c \in Int
        BY <1>5
      <3>2. c - b + 1 \in 1 .. x - 1
        BY <1>2, <2>2, <2>3, <3>1
      <3> QED
        BY <1>4, <2>1, <3>1, <3>2
    <2>4. LessAt(h, r, s, kind, bytes, b + x - 1)
      BY <1>4, <2>1, <2>2, <2>3 DEF LessAt
    <2> QED
      BY <2>4
  <1>7. ASSUME NEW a, LessAt(h, r, s, kind, bytes, a) PROVE IsLess(v, w)
    <2> DEFINE x == a - b + 1
    <2>1. a \in bytes /\ a \in Int /\ x \in 1 .. n /\ b + x - 1 = a
      BY <1>5, <1>7 DEF LessAt
    <2>2. v[x] < w[x]
      BY <1>4, <1>7, <2>1 DEF LessAt
    <2>3. ASSUME NEW y \in 1 .. x - 1 PROVE v[y] = w[y]
      <3>1. y \in 1 .. n /\ b + y - 1 < a
        BY <1>2, <2>1
      <3>2. b + y - 1 \in bytes
        BY <1>4, <3>1
      <3> QED
        BY <1>4, <1>7, <3>1, <3>2 DEF LessAt
    <2>4. x - 1 <= n
      BY <1>2, <2>1
    <2> HIDE DEF x
    <2>5. x \in 1 .. Len(w) /\ x - 1 <= Len(v)
      BY <1>2, <1>3, <2>1, <2>4
    <2> QED
      BY <2>2, <2>3, <2>5 DEF IsLess
  <1> QED
    BY <1>6, <1>7 DEF v, w, bytes

(* Each byte of a group without padding belongs to one of its parameters.   *)
LEMMA GroupBytes ==
  ASSUME NEW i \in DOMAIN Shapes, NEW groups, i \in WithoutPadding(groups),
         NEW k \in DOMAIN groups[i], NEW l, groups[i][k] = <<k, l>>,
         k \in DOMAIN Shapes[i].params, l \in DOMAIN Shapes[i].params,
         NEW a \in Bytes(i, k, l)
  PROVE  \E j \in k .. l : j \in DOMAIN Shapes[i].params /\ a \in Bytes(i, j, j)
  <1> DEFINE ps == Shapes[i].params
  <1>1. /\ DOMAIN ps = 1 .. Len(ps) /\ Len(ps) \in Nat
        /\ \A j \in DOMAIN ps : Begin(i, j) \in Nat /\ End(i, j) \in Nat
        /\ \A j, m \in DOMAIN ps : j < m => End(i, j) <= Begin(i, m)
    BY ShapeFacts
  <1>2. PICK j \in DOMAIN ps : a \in Bytes(i, j, j)
    <2>1. a \in Bytes(i, groups[i][k][1], groups[i][k][2])
      OBVIOUS
    <2>2. a \in BytesIn(i, {groups[i][m] : m \in DOMAIN groups[i]})
      BY <2>1 DEF BytesIn
    <2>3. a \in ValueBytes[i]
      BY <2>2 DEF WithoutPadding
    <2> QED
      BY <2>3 DEF ValueBytes
  <1>3. k \in Int /\ l \in Int /\ j \in Int
    BY <1>1
  <1>4. /\ Begin(i, k) \in Int /\ End(i, l) \in Int /\ Begin(i, j) \in Int /\ End(i, j) \in Int
        /\ a \in Begin(i, k) .. End(i, l) - 1 /\ a \in Begin(i, j) .. End(i, j) - 1
    BY <1>1, <1>2 DEF Bytes
  <1>5. k <= j
    <2>1. j < k => End(i, j) <= Begin(i, k)
      BY <1>1
    <2> QED
      BY <1>3, <1>4, <2>1
  <1>6. j <= l
    <2>1. l < j => End(i, l) <= Begin(i, j)
      BY <1>1
    <2> QED
      BY <1>3, <1>4, <2>1
  <1> QED
    BY <1>2, <1>3, <1>5, <1>6

(* The bytes of a parameter are among those of its group.                   *)
LEMMA BytesOfGroup ==
  ASSUME NEW i \in DOMAIN Shapes, NEW k \in DOMAIN Shapes[i].params,
         NEW l \in DOMAIN Shapes[i].params, NEW j \in DOMAIN Shapes[i].params, k <= j, j <= l
  PROVE  Bytes(i, j, j) \subseteq Bytes(i, k, l)
  <1> DEFINE ps == Shapes[i].params
  <1>1. /\ DOMAIN ps = 1 .. Len(ps) /\ Len(ps) \in Nat
        /\ \A m \in DOMAIN ps : /\ Begin(i, m) \in Nat /\ End(i, m) \in Nat
                                /\ Begin(i, m) <= End(i, m)
        /\ \A m, o \in DOMAIN ps : m < o => End(i, m) <= Begin(i, o)
    BY ShapeFacts
  <1>2. k \in Int /\ l \in Int /\ j \in Int
    BY <1>1
  <1>3. /\ Begin(i, k) \in Int /\ End(i, k) \in Int /\ Begin(i, k) <= End(i, k)
        /\ Begin(i, j) \in Int /\ End(i, j) \in Int
        /\ Begin(i, l) \in Int /\ End(i, l) \in Int /\ Begin(i, l) <= End(i, l)
        /\ k < j => End(i, k) <= Begin(i, j)
        /\ j < l => End(i, j) <= Begin(i, l)
    BY <1>1
  <1>4. Begin(i, k) <= Begin(i, j) /\ End(i, j) <= End(i, l)
    <2>1. k = j \/ k < j
      BY <1>2
    <2>2. j = l \/ j < l
      BY <1>2
    <2> QED
      BY <1>3, <2>1, <2>2
  <1> QED
    BY <1>3, <1>4 DEF Bytes

(* How a group is compared: as bytes, or each object by its own type.       *)
GroupKind(r, kinds, k) == IF Kind(r, k) \in kinds THEN "byte" ELSE Kind(r, k)

(* Only floats are compared by what they stand for.                         *)
LEMMA ComparedAsBytes ==
  ASSUME NEW h, NEW r, NEW a, NEW kind, kind # "float"
  PROVE  ValueAt(h, r, kind, a) = h[r.block].cells[a].value
  BY DEF ValueAt, Compared

(* A group sees the bytes of a parameter of it like the parameter's type.   *)
LEMMA GroupSees ==
  ASSUME NEW h, NEW r, NEW kinds, "float" \notin kinds, NEW k, NEW l, NEW j \in k .. l,
         IsGroup(Shapes[r.shape].params, kinds, k, l),
         DOMAIN Shapes[r.shape].params \subseteq Int, NEW a
  PROVE  ValueAt(h, r, GroupKind(r, kinds, k), a) = ValueAt(h, r, Kind(r, j), a)
  <1>1. CASE Kind(r, k) \in kinds
    <2>1. Kind(r, j) \in kinds
      BY <1>1 DEF IsGroup, Kind
    <2>2. Kind(r, j) # "float" /\ GroupKind(r, kinds, k) = "byte"
      BY <1>1, <2>1 DEF GroupKind
    <2> QED
      BY <2>2 DEF ValueAt, Compared
  <1>2. CASE Kind(r, k) \notin kinds
    <2>1. l = k /\ k \in Int
      BY <1>2 DEF IsGroup, Kind
    <2>2. j = k
      BY <2>1
    <2> QED
      BY <1>2, <2>2 DEF GroupKind
  <1> QED
    BY <1>1, <1>2

-----------------------------------------------------------------------------
(* Two elements whose parameters are at the same places.                    *)
Congruent(i, j) ==
  /\ Shapes[i].params = Shapes[j].params
  /\ \A k \in DOMAIN Shapes[i].params : Begin(i, k) = Begin(j, k) /\ End(i, k) = End(j, k)

SameValues(h, r, s) ==
  \A k \in Parameters(r) : ValuesOf(h, r, k, k, Kind(r, k)) = ValuesOf(h, s, k, k, Kind(s, k))

(* Of these, groups are equal if all parameters are.                        *)
LEMMA EqualIfSame ==
  ASSUME NEW h, NEW r, NEW s, r.shape \in DOMAIN Shapes, s.shape \in DOMAIN Shapes,
         Congruent(r.shape, s.shape), r.shape \in ComparedWithoutPadding
  PROVE  IsEqual(h, r, s) <=> SameValues(h, r, s)
  <1> DEFINE i == r.shape
             ps == Shapes[i].params
             kinds == EqualityMemcmpCompatible
             G == EqualityGroups[i]
             See(k, a) == ValueAt(h, r, k, a) = ValueAt(h, s, k, a)
  <1>1. /\ DOMAIN ps = 1 .. Len(ps) /\ Len(ps) \in Nat /\ "float" \notin kinds
        /\ Parameters(r) = DOMAIN ps /\ Parameters(s) = DOMAIN ps
    BY ShapeFacts DEF Parameters, Congruent, EqualityMemcmpCompatible
  <1>2. /\ \A k \in DOMAIN G : G[k] = <<k, G[k][2]>> /\ IsGroup(ps, kinds, k, G[k][2])
        /\ \A j \in DOMAIN ps : \E k \in DOMAIN G : k <= j /\ j <= G[k][2]
    <2>1. G = Groups(ps, kinds)
      BY DEF EqualityGroups
    <2> HIDE DEF G, ps, kinds
    <2> DEFINE H == Groups(ps, kinds)
    <2>2. /\ \A k \in DOMAIN H : H[k] = <<k, H[k][2]>> /\ IsGroup(ps, kinds, k, H[k][2])
          /\ \A j \in DOMAIN ps : \E k \in DOMAIN H : k <= j /\ j <= H[k][2]
      BY <1>1, GroupsCover
    <2> HIDE DEF H
    <2>3. G = H
      BY <2>1 DEF H
    <2> QED
      BY <2>2, <2>3
  <1>3. \A k \in DOMAIN ps : Kind(r, k) = Kind(s, k) /\ Kind(r, k) = ps[k].kind
    BY DEF Kind, Congruent
  <1>4. ASSUME NEW k \in DOMAIN ps, NEW l \in DOMAIN ps, k <= l, NEW kind
        PROVE  LET v == ValuesOf(h, r, k, l, kind)
                   w == ValuesOf(h, s, k, l, kind)
                   same == \A a \in Bytes(i, k, l) : See(kind, a)
               IN  (v = w <=> same) /\ (IsPrefix(v, w) <=> same)
    <2>1. SameExtent(i, s.shape, k, l)
      BY DEF Congruent, SameExtent
    <2>2. k \in Parameters(r) /\ l \in Parameters(r)
      BY <1>1
    <2> DEFINE v == ValuesOf(h, r, k, l, kind)
               w == ValuesOf(h, s, k, l, kind)
               same == \A a \in Bytes(i, k, l) : See(kind, a)
    <2>3. (v = w <=> same) /\ (IsPrefix(v, w) <=> same)
      BY <1>4, <2>1, <2>2, EqualByByte
    <2> QED
      BY <2>3
  <1>5. SameValues(h, r, s) <=> \A k \in DOMAIN ps : \A a \in Bytes(i, k, k) : See(Kind(r, k), a)
    <2>1. ASSUME NEW k \in DOMAIN ps
          PROVE  ValuesOf(h, r, k, k, Kind(r, k)) = ValuesOf(h, s, k, k, Kind(s, k))
                   <=> \A a \in Bytes(i, k, k) : See(Kind(r, k), a)
      <3>1. k <= k
        BY <1>1
      <3> QED
        BY <1>3, <1>4, <3>1
    <2> QED
      BY <1>1, <2>1 DEF SameValues
  <1>6. IsEqual(h, r, s)
          <=> \A k \in DOMAIN G : \A a \in Bytes(i, k, G[k][2]) : See(GroupKind(r, kinds, k), a)
    <2>1. ASSUME NEW k \in DOMAIN G
          PROVE  LET memcmp == Kind(r, k) \in kinds
                     values(x) == ValuesOf(h, x, k, G[k][2], IF memcmp THEN "byte" ELSE Kind(r, k))
                 IN  IsEqualOne(memcmp, values(r), values(s))
                       <=> \A a \in Bytes(i, k, G[k][2]) : See(GroupKind(r, kinds, k), a)
      <3>1. k \in DOMAIN ps /\ G[k][2] \in DOMAIN ps /\ k <= G[k][2]
        BY <1>2 DEF IsGroup
      <3> DEFINE kind == GroupKind(r, kinds, k)
                 v == ValuesOf(h, r, k, G[k][2], kind)
                 w == ValuesOf(h, s, k, G[k][2], kind)
                 same == \A a \in Bytes(i, k, G[k][2]) : See(kind, a)
      <3>2. (v = w <=> same) /\ (IsPrefix(v, w) <=> same)
        BY <1>4, <3>1
      <3> DEFINE memcmp == Kind(r, k) \in kinds
      <3> HIDE DEF same, v, w
      <3>3. IsEqualOne(memcmp, v, w) <=> same
        BY <3>2 DEF IsEqualOne
      <3>4. kind = IF memcmp THEN "byte" ELSE Kind(r, k)
        BY DEF GroupKind
      <3> HIDE DEF kind, memcmp
      <3> QED
        BY <3>3, <3>4 DEF v, w, same, kind, memcmp
    <2> QED
      BY <2>1 DEF IsEqual
  <1>7. ASSUME NEW k \in DOMAIN G, NEW j \in k .. G[k][2], NEW a
        PROVE  See(GroupKind(r, kinds, k), a) <=> See(Kind(r, j), a)
    <2>1. GroupKind(r, kinds, k) = GroupKind(s, kinds, k)
      BY <1>2, <1>3 DEF GroupKind, IsGroup
    <2>2. k \in DOMAIN ps /\ G[k][2] \in DOMAIN ps
      BY <1>2 DEF IsGroup
    <2>3. j \in DOMAIN ps
      BY <1>1, <2>2
    <2>4. ValueAt(h, r, GroupKind(r, kinds, k), a) = ValueAt(h, r, Kind(r, j), a)
      BY <1>1, <1>2, GroupSees
    <2>5. ValueAt(h, s, GroupKind(s, kinds, k), a) = ValueAt(h, s, Kind(s, j), a)
      BY <1>1, <1>2, GroupSees DEF Congruent
    <2> QED
      BY <1>3, <2>1, <2>3, <2>4, <2>5
  <1>8. ASSUME NEW k \in DOMAIN G, NEW a \in Bytes(i, k, G[k][2])
        PROVE  \E j \in k .. G[k][2] : j \in DOMAIN ps /\ a \in Bytes(i, j, j)
    <2>1. G[k] = <<k, G[k][2]>> /\ k \in DOMAIN ps /\ G[k][2] \in DOMAIN ps
      BY <1>2 DEF IsGroup
    <2> QED
      BY <2>1, GroupBytes DEF ComparedWithoutPadding
  <1>9. ASSUME NEW j \in DOMAIN ps
        PROVE  \E k \in DOMAIN G : j \in k .. G[k][2] /\ Bytes(i, j, j) \subseteq Bytes(i, k, G[k][2])
    <2>1. PICK k \in DOMAIN G : k <= j /\ j <= G[k][2]
      BY <1>2
    <2>2. k \in DOMAIN ps /\ G[k][2] \in DOMAIN ps
      BY <1>2 DEF IsGroup
    <2>3. Bytes(i, j, j) \subseteq Bytes(i, k, G[k][2])
      BY <2>1, <2>2, BytesOfGroup
    <2> QED
      BY <1>1, <2>1, <2>2, <2>3
  <1> HIDE DEF G, ps, kinds, See
  <1> QED
    BY <1>5, <1>6, <1>7, <1>8, <1>9

(* An object of a plain parameter has its size, and a first byte.           *)
LEMMA PlainHasBytes ==
  ASSUME NEW i \in DOMAIN Shapes, NEW k \in DOMAIN Shapes[i].params,
         Shapes[i].params[k].type = "plain"
  PROVE  Begin(i, k) \in Bytes(i, k, k)
  <1> DEFINE ps == Shapes[i].params
             cs == Shapes[i].counts
             n == Len(ps)
             zero == 0
  <1>1. /\ IsParameterList(ps) /\ n \in Nat /\ DOMAIN ps = 1 .. n
        /\ Begin(i, k) \in Nat /\ End(i, k) \in Nat
    BY ShapeFacts
  <1>2. PlacementOf[i] = Placement(ps, cs, zero)
    BY DEF PlacementOf
  <1>3. k \in DOMAIN ps /\ ps[k].type = "plain" /\ ps[k].bytes \in Nat /\ ps[k].bytes > 0
    BY <1>1 DEF IsParameterList
  <1> HIDE DEF ps, cs, zero, n
  <1>4. PICK f : /\ ArePlaces(ps, cs, zero, n, f)
                 /\ Placement(ps, cs, zero) = [j \in DOMAIN ps |-> f[j]]
    BY <1>1, PlacementIsFunction DEF n
  <1>5. f[k] = Place(ps, cs, k, f[k - 1][2])
    BY <1>1, <1>3, <1>4 DEF ArePlaces
  <1>6. f[k][2] = f[k][1] + ps[k].bytes
    BY <1>3, <1>5 DEF Place, PlainPlace, Extent
  <1>7. Begin(i, k) = f[k][1] /\ End(i, k) = f[k][2]
    BY <1>2, <1>3, <1>4 DEF Begin, End
  <1> QED
    BY <1>1, <1>3, <1>6, <1>7 DEF Bytes

-----------------------------------------------------------------------------
(* The parameters in front of VaryingSize ones hold their sizes.            *)
HoldsSizes(h, r) ==
  \A k \in Varying(Shapes[r.shape].params) : \A a \in Bytes(r.shape, k - 1, k - 1) :
    h[r.block].cells[a].value = Shapes[r.shape].counts[k]

(* Elements of one vector: only VaryingSize parameters differ in size.      *)
Related(i, j) ==
  /\ i \in DOMAIN Shapes /\ j \in DOMAIN Shapes /\ Shapes[i].params = Shapes[j].params
  /\ \A k \in DOMAIN Shapes[i].params \ Varying(Shapes[i].params) :
       Shapes[i].counts[k] = Shapes[j].counts[k]

(* Up to parameter m they are laid out the same way.                        *)
SameUpTo(i, j, m) ==
  \A k \in 1 .. m : Begin(i, k) = Begin(j, k) /\ End(i, k) = End(j, k)

(* r and s differ in a byte of the size m.                                  *)
DifferAt(h, r, s, m, a) ==
  /\ m \in Parameters(r) /\ Kind(r, m) = "number" /\ SameUpTo(r.shape, s.shape, m)
  /\ a \in Bytes(r.shape, m, m)
  /\ h[r.block].cells[a].value # h[s.block].cells[a].value

(* Elements whose parameters are not at the same places have sizes that     *)
(* differ, the first of them at the same place.                             *)
LEMMA SizesTell ==
  ASSUME NEW h, NEW r, NEW s, Related(r.shape, s.shape), HoldsSizes(h, r), HoldsSizes(h, s)
  PROVE  \/ Congruent(r.shape, s.shape)
         \/ \E m, a : DifferAt(h, r, s, m, a)
  <1> DEFINE i == r.shape
             j == s.shape
             ps == Shapes[i].params
             n == Len(ps)
             D == {k \in 1 .. n : Shapes[i].counts[k] # Shapes[j].counts[k]}
  <1>1. /\ i \in DOMAIN Shapes /\ j \in DOMAIN Shapes /\ Shapes[j].params = ps
        /\ \A k \in DOMAIN ps \ Varying(ps) : Shapes[i].counts[k] = Shapes[j].counts[k]
    BY DEF Related
  <1>2. IsParameterList(ps) /\ n \in Nat /\ DOMAIN ps = 1 .. n
    BY <1>1, ShapeFacts
  <1>3. CASE D = {}
    <2>1. n \in 0 .. n /\ \A k \in 1 .. n : Shapes[i].counts[k] = Shapes[j].counts[k]
      BY <1>2, <1>3
    <2>2. \A k \in 1 .. n : Begin(i, k) = Begin(j, k) /\ End(i, k) = End(j, k)
      BY <1>1, <2>1, SameBeginnings
    <2> QED
      BY <1>1, <1>2, <2>2 DEF Congruent
  <1>4. CASE D # {}
    <2>1. D \subseteq Nat
      BY <1>2
    <2> HIDE DEF D
    <2>2. PICK k \in D : \A m \in D : k <= m
      BY <1>4, <2>1, LeastElement
    <2> DEFINE m == k - 1
               a == Begin(i, m)
    <2>3. /\ k \in 1 .. n /\ Shapes[i].counts[k] # Shapes[j].counts[k]
          /\ k \in Varying(ps)
      BY <1>1, <1>2, <2>2 DEF D
    <2>4. ps[k].type = "varying" /\ k > 1 /\ m \in 1 .. n /\ ps[m].type = "plain"
      BY <1>2, <2>3 DEF IsParameterList, Varying
    <2>5. \A l \in 1 .. m : Shapes[i].counts[l] = Shapes[j].counts[l]
      BY <1>2, <2>2, <2>3, <2>4 DEF D
    <2>6. SameUpTo(i, j, m)
      <3>1. m \in 0 .. n
        BY <2>4
      <3> HIDE DEF m
      <3> QED
        BY <1>1, <2>5, <3>1, SameBeginnings DEF SameUpTo
    <2>7. ps[m].kind = "number"
      BY <1>1, <2>3, SizesAreNumbers
    <2>8. a \in Bytes(i, m, m) /\ a \in Bytes(j, m, m)
      <3>1. a \in Bytes(i, m, m)
        BY <1>1, <1>2, <2>4, PlainHasBytes
      <3>2. m \in 1 .. m
        BY <2>4
      <3> QED
        BY <2>6, <3>1, <3>2 DEF SameUpTo, Bytes
    <2>9. /\ h[r.block].cells[a].value = Shapes[i].counts[k]
          /\ h[s.block].cells[a].value = Shapes[j].counts[k]
      BY <1>1, <2>3, <2>8 DEF HoldsSizes
    <2>10. DifferAt(h, r, s, m, a)
      BY <1>2, <2>3, <2>4, <2>6, <2>7, <2>8, <2>9 DEF DifferAt, Parameters, Kind
    <2> QED
      BY <2>10
  <1> QED
    BY <1>3, <1>4

(* Such elements are not equal, compared in groups or one by one.           *)
LEMMA UnequalIfDiffer ==
  ASSUME NEW h, NEW r, NEW s, Related(r.shape, s.shape), NEW m, NEW a, DifferAt(h, r, s, m, a)
  PROVE  ~ IsEqual(h, r, s) /\ ~ SameValues(h, r, s)
  <1> DEFINE i == r.shape
             j == s.shape
             ps == Shapes[i].params
             kinds == EqualityMemcmpCompatible
             G == EqualityGroups[i]
  <1>1. /\ i \in DOMAIN Shapes /\ j \in DOMAIN Shapes /\ Shapes[j].params = ps
        /\ DOMAIN ps = 1 .. Len(ps) /\ Len(ps) \in Nat
        /\ Parameters(r) = DOMAIN ps /\ Parameters(s) = DOMAIN ps
    <2>1. i \in DOMAIN Shapes /\ j \in DOMAIN Shapes /\ Shapes[j].params = ps
      BY DEF Related
    <2> QED
      BY <2>1, ShapeFacts DEF Parameters
  <1>2. /\ m \in DOMAIN ps /\ m \in Int /\ Kind(r, m) = "number" /\ Kind(s, m) = "number"
        /\ ps[m].kind = "number"
        /\ SameUpTo(i, j, m) /\ m \in 1 .. m
        /\ a \in Bytes(i, m, m) /\ h[r.block].cells[a].value # h[s.block].cells[a].value
    BY <1>1 DEF DifferAt, Kind
  <1>3. a \in Bytes(j, m, m)
    BY <1>2 DEF SameUpTo, Bytes
  <1>4. ASSUME NEW kind, kind # "float" PROVE ValueAt(h, r, kind, a) # ValueAt(h, s, kind, a)
    BY <1>2, <1>4, ComparedAsBytes
  <1>5. ~ SameValues(h, r, s)
    <2>1. SameExtent(i, j, m, m) /\ m <= m
      BY <1>1, <1>2 DEF SameExtent, SameUpTo
    <2> DEFINE number == "number"
               v == ValuesOf(h, r, m, m, number)
               w == ValuesOf(h, s, m, m, number)
               same == \A c \in Bytes(i, m, m) : ValueAt(h, r, number, c) = ValueAt(h, s, number, c)
    <2>2. number # "float" /\ Kind(r, m) = number /\ Kind(s, m) = number
      BY <1>2
    <2>3. /\ r.shape \in DOMAIN Shapes /\ s.shape \in DOMAIN Shapes /\ m \in Parameters(r)
          /\ SameExtent(r.shape, s.shape, m, m)
      BY <1>1, <1>2, <2>1
    <2> HIDE DEF number
    <2>4. v = w <=> same
      BY <2>1, <2>3, EqualByByte
    <2>5. ~ same
      BY <1>2, <1>4, <2>2
    <2>6. v # w
      BY <2>4, <2>5
    <2> HIDE DEF v, w, same
    <2>7. ASSUME SameValues(h, r, s) PROVE v = w
      BY <2>2, <2>3, <2>7 DEF SameValues, v, w
    <2> QED
      BY <2>6, <2>7
  <1>6. PICK k \in DOMAIN G : k <= m /\ m <= G[k][2] /\ IsGroup(ps, kinds, k, G[k][2])
    <2> DEFINE H == Groups(ps, kinds)
    <2>1. G = H
      BY <1>1 DEF EqualityGroups
    <2>0. DOMAIN ps = 1 .. Len(ps) /\ Len(ps) \in Nat
      BY <1>1
    <2> HIDE DEF ps, kinds, G
    <2>2. /\ \A k \in DOMAIN H : H[k] = <<k, H[k][2]>> /\ IsGroup(ps, kinds, k, H[k][2])
          /\ \A l \in DOMAIN ps : \E k \in DOMAIN H : k <= l /\ l <= H[k][2]
      BY <2>0, GroupsCover
    <2> HIDE DEF H
    <2> QED
      BY <1>2, <2>1, <2>2
  <1> DEFINE l == G[k][2]
             byte == "byte"
             v == ValuesOf(h, r, k, l, byte)
             w == ValuesOf(h, s, k, l, byte)
  <1>7. /\ k \in DOMAIN ps /\ l \in DOMAIN ps /\ k <= l /\ k \in Int /\ l \in Int
        /\ Kind(r, k) \in kinds
    <2>1. /\ k \in DOMAIN ps /\ l \in DOMAIN ps /\ k <= l /\ k \in Int /\ l \in Int
      BY <1>1, <1>6 DEF IsGroup
    <2>2. ASSUME ps[k].kind \notin kinds PROVE FALSE
      <3>1. l = k
        BY <1>6, <2>2 DEF IsGroup
      <3>2. m = k
        BY <1>2, <1>6, <2>1, <3>1
      <3> QED
        BY <1>2, <2>2, <3>2 DEF EqualityMemcmpCompatible
    <2> QED
      BY <2>1, <2>2 DEF Kind
  <1>8. a \in Bytes(i, k, l) /\ a \in Bytes(j, k, l)
    <2>1. Bytes(i, m, m) \subseteq Bytes(i, k, l)
      BY <1>1, <1>2, <1>6, <1>7, BytesOfGroup
    <2>2. Bytes(j, m, m) \subseteq Bytes(j, k, l)
      BY <1>1, <1>2, <1>6, <1>7, BytesOfGroup
    <2> QED
      BY <1>2, <1>3, <2>1, <2>2
  <1>9. v # w
    <2> DEFINE b == Begin(i, k)
               nr == End(i, l) - b
               ns == End(j, l) - b
               x == a - b + 1
    <2>0. /\ r.shape \in DOMAIN Shapes /\ k \in Parameters(r) /\ l \in Parameters(r) /\ k <= l
          /\ s.shape \in DOMAIN Shapes /\ k \in Parameters(s) /\ l \in Parameters(s)
          /\ byte # "float"
      BY <1>1, <1>7
    <2> HIDE DEF byte, l
    <2>1. /\ b \in Nat /\ nr \in Nat /\ Bytes(i, k, l) = b .. b + nr - 1
          /\ v = [y \in 1 .. nr |-> ValueAt(h, r, byte, b + y - 1)]
      BY <2>0, ValuesByByte
    <2>2. Begin(j, k) = b
      BY <1>1, <1>2, <1>6, <1>7 DEF SameUpTo
    <2>3. /\ ns \in Nat /\ Bytes(j, k, l) = b .. b + ns - 1
          /\ w = [y \in 1 .. ns |-> ValueAt(h, s, byte, b + y - 1)]
      BY <2>0, <2>2, ValuesByByte
    <2> HIDE DEF b, nr, ns, v, w
    <2>4. x \in 1 .. nr /\ x \in 1 .. ns /\ b + x - 1 = a
      BY <1>8, <2>1, <2>3
    <2> HIDE DEF x
    <2>5. v[x] = ValueAt(h, r, byte, a) /\ w[x] = ValueAt(h, s, byte, a)
      BY <2>1, <2>3, <2>4
    <2> QED
      BY <1>4, <2>0, <2>5
  <1>10. ~ IsEqual(h, r, s)
    <2>1. ASSUME IsEqual(h, r, s) PROVE v = w
      <3> DEFINE memcmp == Kind(r, k) \in kinds
                 values(x) == ValuesOf(h, x, k, G[k][2], IF memcmp THEN byte ELSE Kind(r, k))
      <3>1. IsEqualOne(memcmp, values(r), values(s))
        BY <1>6, <2>1 DEF IsEqual
      <3>2. memcmp
        BY <1>7
      <3>3. values(r) = values(s)
        BY <3>1, <3>2 DEF IsEqualOne
      <3> QED
        BY <3>2, <3>3
    <2> QED
      BY <1>9, <2>1
  <1> QED
    BY <1>5, <1>10

(* x is less than y in parameter j and the same in front of it.             *)
FirstLess(h, x, y, j) ==
  /\ IsLess(ValuesOf(h, x, j, j, Kind(x, j)), ValuesOf(h, y, j, j, Kind(y, j)))
  /\ \A m \in 1 .. j - 1 : ValuesOf(h, x, m, m, Kind(x, m)) = ValuesOf(h, y, m, m, Kind(y, m))

(* The first group, of parameters 1 to l, lies in x as in i.                *)
StartsLike(i, l, x) ==
  /\ x.shape \in DOMAIN Shapes /\ Shapes[x.shape].params = Shapes[i].params
  /\ SameUpTo(i, x.shape, l)

(* The first group decides in its first parameter that differs.             *)
LEMMA LessInGroup ==
  ASSUME NEW h, NEW i \in DOMAIN Shapes, NEW l,
         IsGroup(Shapes[i].params, LexicographicalMemcmpCompatible, 1, l),
         \A a \in Bytes(i, 1, l) :
           \E j \in 1 .. l : j \in DOMAIN Shapes[i].params /\ a \in Bytes(i, j, j),
         NEW x, NEW y, StartsLike(i, l, x), StartsLike(i, l, y),
         IsLess(ValuesOf(h, x, 1, l, Kind(x, 1)), ValuesOf(h, y, 1, l, Kind(y, 1)))
  PROVE  \E j \in 1 .. l : FirstLess(h, x, y, j)
  <1> DEFINE ps == Shapes[i].params
             kinds == LexicographicalMemcmpCompatible
             one == 1
             See(k, a) == ValueAt(h, x, k, a) = ValueAt(h, y, k, a)
  <1>1. /\ DOMAIN ps = 1 .. Len(ps) /\ Len(ps) \in Nat /\ Len(ps) > 0
        /\ \A k \in DOMAIN ps : Begin(i, k) \in Nat /\ End(i, k) \in Nat
        /\ \A j, k \in DOMAIN ps : j < k => End(i, j) <= Begin(i, k)
    BY ShapeFacts
  <1>2. /\ one \in DOMAIN ps /\ l \in DOMAIN ps /\ one <= l /\ l \in Int
        /\ \A j \in 1 .. l : j \in DOMAIN ps /\ j \in Int
    BY <1>1 DEF IsGroup
  <1>3. /\ x.shape \in DOMAIN Shapes /\ y.shape \in DOMAIN Shapes
        /\ Shapes[x.shape].params = ps /\ Shapes[y.shape].params = ps
        /\ Parameters(x) = DOMAIN ps /\ Parameters(y) = DOMAIN ps
        /\ \A j \in DOMAIN ps : Kind(x, j) = ps[j].kind /\ Kind(y, j) = ps[j].kind
    BY DEF StartsLike, Parameters, Kind
  <1>4. \A j \in 1 .. l : /\ Begin(x.shape, j) = Begin(i, j) /\ End(x.shape, j) = End(i, j)
                          /\ Begin(y.shape, j) = Begin(i, j) /\ End(y.shape, j) = End(i, j)
    BY DEF StartsLike, SameUpTo
  <1>5. ASSUME NEW j \in 1 .. l, NEW k \in 1 .. l, j <= k
        PROVE  /\ Bytes(x.shape, j, k) = Bytes(i, j, k) /\ SameExtent(x.shape, y.shape, j, k)
               /\ j \in Parameters(x) /\ k \in Parameters(x)
    BY <1>2, <1>3, <1>4 DEF Bytes, SameExtent
  <1>6. one \in 1 .. l /\ l \in 1 .. l /\ Kind(x, one) = Kind(y, one)
    BY <1>2, <1>3
  <1>7. "float" \notin kinds /\ GroupKind(x, kinds, one) = Kind(x, one)
        /\ GroupKind(y, kinds, one) = Kind(y, one)
    BY DEF LexicographicalMemcmpCompatible, GroupKind
  <1>8. ASSUME NEW j \in 1 .. l, NEW a
        PROVE  /\ ValueAt(h, x, Kind(x, one), a) = ValueAt(h, x, Kind(x, j), a)
               /\ ValueAt(h, y, Kind(y, one), a) = ValueAt(h, y, Kind(y, j), a)
    <2>1. DOMAIN ps \subseteq Int /\ j \in one .. l
      BY <1>1
    <2>2. IsGroup(ps, kinds, one, l)
      OBVIOUS
    <2> HIDE DEF one, ps, kinds
    <2>3. ValueAt(h, x, GroupKind(x, kinds, one), a) = ValueAt(h, x, Kind(x, j), a)
      BY <1>3, <1>7, <2>1, <2>2, GroupSees
    <2>4. ValueAt(h, y, GroupKind(y, kinds, one), a) = ValueAt(h, y, Kind(y, j), a)
      BY <1>3, <1>7, <2>1, <2>2, GroupSees
    <2> QED
      BY <1>7, <2>3, <2>4
  <1> DEFINE kind == Kind(x, one)
             bytes == Bytes(i, one, l)
  <1>9. PICK a : LessAt(h, x, y, kind, bytes, a)
    <2>1. /\ IsLess(ValuesOf(h, x, one, l, kind), ValuesOf(h, y, one, l, kind))
          /\ one \in Parameters(x) /\ l \in Parameters(x) /\ SameExtent(x.shape, y.shape, one, l)
          /\ Bytes(x.shape, one, l) = bytes
      BY <1>2, <1>5, <1>6
    <2> HIDE DEF one, kind, bytes
    <2> QED
      BY <1>2, <1>3, <2>1, LessByByte
  <1>10. PICK j \in 1 .. l : a \in Bytes(i, j, j)
    BY <1>9 DEF LessAt
  <1>11. j \in DOMAIN ps /\ j \in Int /\ Kind(x, j) = Kind(y, j) /\ j <= j
    BY <1>2, <1>3
  <1>12. ASSUME NEW m \in 1 .. l PROVE Bytes(i, m, m) \subseteq bytes
    <2>1. m \in DOMAIN ps /\ one <= m /\ m <= l
      BY <1>2
    <2> QED
      BY <1>2, <2>1, BytesOfGroup
  <1>13. \A m \in 1 .. l : \A c : /\ ValueAt(h, x, kind, c) = ValueAt(h, x, Kind(x, m), c)
                                  /\ ValueAt(h, y, kind, c) = ValueAt(h, y, Kind(x, m), c)
    BY <1>2, <1>3, <1>6, <1>8
  <1> HIDE DEF kind, bytes, ps, one
  <1>14. LessAt(h, x, y, Kind(x, j), Bytes(i, j, j), a)
    BY <1>9, <1>10, <1>12, <1>13 DEF LessAt
  <1>15. IsLess(ValuesOf(h, x, j, j, Kind(x, j)), ValuesOf(h, y, j, j, Kind(y, j)))
    <2>1. /\ SameExtent(x.shape, y.shape, j, j) /\ j \in Parameters(x)
          /\ Bytes(x.shape, j, j) = Bytes(i, j, j)
      BY <1>5, <1>11
    <2> QED
      BY <1>3, <1>11, <1>14, <2>1, LessByByte
  <1>16. ASSUME NEW m \in 1 .. j - 1
         PROVE  ValuesOf(h, x, m, m, Kind(x, m)) = ValuesOf(h, y, m, m, Kind(y, m))
    <2>1. m \in 1 .. l /\ m < j /\ m <= m
      BY <1>2, <1>11
    <2>2. /\ SameExtent(x.shape, y.shape, m, m) /\ m \in Parameters(x)
          /\ Bytes(x.shape, m, m) = Bytes(i, m, m) /\ m \in DOMAIN ps
      BY <1>2, <1>5, <2>1
    <2>3. End(i, m) <= Begin(i, j) /\ End(i, m) \in Int /\ Begin(i, j) \in Int
          /\ Begin(i, m) \in Int /\ End(i, j) \in Int
      BY <1>1, <1>11, <2>1, <2>2
    <2>4. \A c \in Bytes(i, m, m) : c < a
      BY <1>10, <2>3 DEF Bytes
    <2>5. \A c \in Bytes(i, m, m) : See(Kind(x, m), c)
      BY <1>9, <1>12, <1>13, <2>1, <2>4 DEF LessAt
    <2> DEFINE type == Kind(x, m)
    <2>6. /\ x.shape \in DOMAIN Shapes /\ y.shape \in DOMAIN Shapes
          /\ \A c \in Bytes(x.shape, m, m) : ValueAt(h, x, type, c) = ValueAt(h, y, type, c)
      BY <1>3, <2>2, <2>5
    <2> HIDE DEF type
    <2>7. ValuesOf(h, x, m, m, type) = ValuesOf(h, y, m, m, type)
      BY <2>1, <2>2, <2>6, EqualByByte
    <2> QED
      BY <1>3, <2>2, <2>7 DEF type
  <1> QED
    BY <1>15, <1>16 DEF FirstLess

-----------------------------------------------------------------------------
(* Elements that differ first in opposite directions: not if the values are *)
(* numbers.                                                                 *)
LEMMA LessOneWay ==
  ASSUME NEW h, NEW i \in DOMAIN Shapes, NEW l \in Nat, NEW r, NEW s,
         StartsLike(i, l, r), StartsLike(i, l, s),
         NEW j \in 1 .. l, 1 .. l \subseteq DOMAIN Shapes[i].params,
         \A m \in 1 .. l : \A a \in Bytes(i, m, m) :
           h[r.block].cells[a].value \in Int /\ h[s.block].cells[a].value \in Int,
         NEW k \in DOMAIN Shapes[i].params, FirstLess(h, s, r, j), FirstLess(h, r, s, k)
  PROVE  FALSE
  <1> DEFINE ps == Shapes[i].params
  <1>1. /\ DOMAIN ps = 1 .. Len(ps) /\ Len(ps) \in Nat
        /\ \A m \in DOMAIN ps : Begin(i, m) \in Nat /\ End(i, m) \in Nat
    BY ShapeFacts
  <1>2. ASSUME NEW m \in 1 .. l
        PROVE  /\ r.shape \in DOMAIN Shapes /\ s.shape \in DOMAIN Shapes /\ m <= m
               /\ m \in Parameters(r) /\ m \in Parameters(s) /\ Kind(r, m) = Kind(s, m)
               /\ SameExtent(r.shape, s.shape, m, m) /\ SameExtent(s.shape, r.shape, m, m)
               /\ Bytes(r.shape, m, m) = Bytes(i, m, m) /\ Bytes(s.shape, m, m) = Bytes(i, m, m)
    <2>1. m \in DOMAIN ps
      OBVIOUS
    <2>2. m \in Int
      BY <1>1, <2>1
    <2> QED
      BY <2>1, <2>2 DEF StartsLike, SameUpTo, SameExtent, Bytes, Parameters, Kind
  <1>3. ASSUME NEW m \in 1 .. l, NEW a \in Bytes(i, m, m), NEW kind
        PROVE  ValueAt(h, r, kind, a) \in Int /\ ValueAt(h, s, kind, a) \in Int
    BY <1>3 DEF ValueAt, Compared
  <1>4. ASSUME NEW m \in 1 .. l
        PROVE  LET v == ValuesOf(h, r, m, m, Kind(r, m))
                   w == ValuesOf(h, s, m, m, Kind(s, m))
               IN  /\ IsLess(v, w) => v # w /\ ~ IsLess(w, v)
                   /\ IsLess(w, v) => v # w
    <2> DEFINE v == ValuesOf(h, r, m, m, Kind(r, m))
               w == ValuesOf(h, s, m, m, Kind(s, m))
               kind == Kind(r, m)
               bytes == Bytes(i, m, m)
    <2>1. v = w <=> \A a \in bytes : ValueAt(h, r, kind, a) = ValueAt(h, s, kind, a)
      <3>1. /\ r.shape \in DOMAIN Shapes /\ s.shape \in DOMAIN Shapes /\ m <= m
            /\ m \in Parameters(r) /\ SameExtent(r.shape, s.shape, m, m)
            /\ w = ValuesOf(h, s, m, m, kind) /\ bytes = Bytes(r.shape, m, m)
        BY <1>2
      <3> HIDE DEF kind, w, bytes
      <3>2. ValuesOf(h, r, m, m, kind) = ValuesOf(h, s, m, m, kind)
              <=> \A a \in Bytes(r.shape, m, m) : ValueAt(h, r, kind, a) = ValueAt(h, s, kind, a)
        BY <3>1, EqualByByte
      <3> QED
        BY <3>1, <3>2 DEF kind
    <2>2. IsLess(v, w) <=> \E a : LessAt(h, r, s, kind, bytes, a)
      <3>1. /\ r.shape \in DOMAIN Shapes /\ s.shape \in DOMAIN Shapes /\ m <= m
            /\ m \in Parameters(r) /\ SameExtent(r.shape, s.shape, m, m)
            /\ w = ValuesOf(h, s, m, m, kind) /\ bytes = Bytes(r.shape, m, m)
        BY <1>2
      <3> HIDE DEF kind, w, bytes
      <3>2. IsLess(ValuesOf(h, r, m, m, kind), ValuesOf(h, s, m, m, kind))
              <=> \E a : LessAt(h, r, s, kind, Bytes(r.shape, m, m), a)
        BY <3>1, LessByByte
      <3> QED
        BY <3>1, <3>2 DEF kind
    <2>3. IsLess(w, v) <=> \E a : LessAt(h, s, r, kind, bytes, a)
      <3>1. /\ r.shape \in DOMAIN Shapes /\ s.shape \in DOMAIN Shapes /\ m <= m
            /\ m \in Parameters(s) /\ SameExtent(s.shape, r.shape, m, m)
            /\ w = ValuesOf(h, s, m, m, kind) /\ bytes = Bytes(s.shape, m, m)
        BY <1>2
      <3> HIDE DEF kind, w, bytes
      <3>2. IsLess(ValuesOf(h, s, m, m, kind), ValuesOf(h, r, m, m, kind))
              <=> \E a : LessAt(h, s, r, kind, Bytes(s.shape, m, m), a)
        BY <3>1, LessByByte
      <3> QED
        BY <3>1, <3>2 DEF kind
    <2>4. \A a \in bytes : /\ a \in Int
                           /\ ValueAt(h, r, kind, a) \in Int /\ ValueAt(h, s, kind, a) \in Int
      <3>1. m \in DOMAIN ps
        OBVIOUS
      <3>2. Begin(i, m) \in Int /\ End(i, m) \in Int
        BY <1>1, <3>1
      <3>3. \A a \in bytes : a \in Int
        BY <3>2 DEF Bytes
      <3> QED
        BY <1>3, <3>3
    <2> HIDE DEF v, w, kind, bytes
    <2>5. ASSUME NEW a, LessAt(h, r, s, kind, bytes, a) PROVE v # w
      BY <2>1, <2>4, <2>5 DEF LessAt
    <2>6. ASSUME NEW a, LessAt(h, s, r, kind, bytes, a) PROVE v # w
      BY <2>1, <2>4, <2>6 DEF LessAt
    <2>7. ASSUME NEW a, LessAt(h, r, s, kind, bytes, a), NEW c, LessAt(h, s, r, kind, bytes, c)
          PROVE  FALSE
      <3>1. /\ a \in Int /\ c \in Int /\ a \in bytes /\ c \in bytes
            /\ ValueAt(h, r, kind, a) \in Int /\ ValueAt(h, s, kind, a) \in Int
            /\ ValueAt(h, r, kind, c) \in Int /\ ValueAt(h, s, kind, c) \in Int
            /\ ValueAt(h, r, kind, a) < ValueAt(h, s, kind, a)
            /\ ValueAt(h, s, kind, c) < ValueAt(h, r, kind, c)
        BY <2>4, <2>7 DEF LessAt
      <3>2. a < c => ValueAt(h, s, kind, a) = ValueAt(h, r, kind, a)
        BY <2>7, <3>1 DEF LessAt
      <3>3. c < a => ValueAt(h, r, kind, c) = ValueAt(h, s, kind, c)
        BY <2>7, <3>1 DEF LessAt
      <3>4. ~ a < c /\ ~ c < a
        BY <3>1, <3>2, <3>3
      <3>5. a = c
        BY <3>1, <3>4
      <3> QED
        BY <3>1, <3>5
    <2>8. /\ IsLess(v, w) => v # w /\ ~ IsLess(w, v)
          /\ IsLess(w, v) => v # w
      BY <2>2, <2>3, <2>5, <2>6, <2>7
    <2> QED
      BY <2>8 DEF v, w
  <1> DEFINE v(m) == ValuesOf(h, r, m, m, Kind(r, m))
             w(m) == ValuesOf(h, s, m, m, Kind(s, m))
  <1>5. /\ IsLess(w(j), v(j)) /\ \A m \in 1 .. j - 1 : v(m) = w(m)
        /\ IsLess(v(k), w(k)) /\ \A m \in 1 .. k - 1 : v(m) = w(m)
    BY DEF FirstLess
  <1>6. /\ \A m \in 1 .. l : IsLess(v(m), w(m)) => v(m) # w(m) /\ ~ IsLess(w(m), v(m))
        /\ \A m \in 1 .. l : IsLess(w(m), v(m)) => v(m) # w(m)
    BY <1>4
  <1>7. j \in Int /\ k \in Int /\ j \in 1 .. l /\ l \in Int /\ 1 <= k
    <2>1. j \in DOMAIN ps /\ k \in DOMAIN ps
      OBVIOUS
    <2> QED
      BY <1>1, <2>1
  <1> HIDE DEF v, w
  <1>8. CASE j = k
    BY <1>5, <1>6, <1>8
  <1>9. CASE j < k
    <2>1. j \in 1 .. k - 1
      BY <1>7, <1>9
    <2> QED
      BY <1>5, <1>6, <2>1
  <1>10. CASE k < j
    <2>1. k \in 1 .. j - 1 /\ k \in 1 .. l
      BY <1>7, <1>10
    <2> QED
      BY <1>5, <1>6, <2>1
  <1> QED
    BY <1>7, <1>8, <1>9, <1>10

(* v may be the value of byte a of an element of shape i: of an object that *)
(* was moved from, or a number, the one that was stored if it is a size.    *)
ValidByte(i, a, v) ==
  /\ v \in Int \/ (a \in ObjectBytes[i] /\ v = Moved)
  /\ \A k \in Varying(Shapes[i].params) :
       a \in Bytes(i, k - 1, k - 1) => v = Shapes[i].counts[k]

ValidContents(c) ==
  c # Unspecified =>
    c.shape \in DOMAIN Shapes /\ \A a \in DOMAIN c.bytes : ValidByte(c.shape, a, c.bytes[a])

(* The invariant that comparisons rest on, besides that of ownership.       *)
AllValid == \A p \in DOMAIN contents : ValidContents(contents[p])

(* Sizes are not objects.                                                   *)
LEMMA SizesAreBytes ==
  ASSUME NEW i \in DOMAIN Shapes, NEW k \in Varying(Shapes[i].params)
  PROVE  /\ k - 1 \in DOMAIN Shapes[i].params
         /\ Bytes(i, k - 1, k - 1) \cap ObjectBytes[i] = {}
         /\ Bytes(i, k - 1, k - 1) \subseteq ValueBytes[i]
  <1> DEFINE ps == Shapes[i].params
             m == k - 1
  <1>1. IsParameterList(ps) /\ DOMAIN ps = 1 .. Len(ps) /\ Len(ps) \in Nat
    BY ShapeFacts
  <1>2. k \in DOMAIN ps /\ k > 1 /\ ps[m].kind = "number"
    BY <1>1, SizesAreNumbers DEF Varying, IsParameterList
  <1>3. m \in DOMAIN ps
    BY <1>1, <1>2
  <1> HIDE DEF m
  <1>4. ASSUME NEW a \in Bytes(i, m, m), a \in ObjectBytes[i] PROVE FALSE
    <2>1. PICK j \in Manual(ps, TriviallyAssignable) : a \in Bytes(i, j, j)
      BY <1>4 DEF ObjectBytes
    <2>2. j \in DOMAIN ps /\ ps[j].kind \notin TriviallyAssignable
      BY <2>1 DEF Manual
    <2>3. j # m
      BY <1>2, <2>2 DEF TriviallyAssignable, Kinds
    <2> QED
      BY <1>3, <1>4, <2>1, <2>2, <2>3, ParametersApart
  <1>5. Bytes(i, m, m) \subseteq ValueBytes[i]
    BY <1>3 DEF ValueBytes
  <1> QED
    BY <1>3, <1>4, <1>5 DEF m

(* What moving leaves has its sizes still.                                  *)
LEMMA LeftoverIsValid ==
  ASSUME NEW x, NEW y, ValidContents(y), Values!IsLeftover(x, y)
  PROVE  ValidContents(x)
  <1>1. CASE x = Unspecified
    BY <1>1 DEF ValidContents
  <1>2. CASE x # Unspecified
    <2>1. /\ y # Unspecified /\ x.shape = y.shape /\ DOMAIN x.bytes = DOMAIN y.bytes
          /\ \A a \in DOMAIN y.bytes :
               \/ x.bytes[a] = y.bytes[a]
               \/ a \in ObjectBytes[y.shape] /\ x.bytes[a] = Moved
      BY <1>2 DEF Values!IsLeftover
    <2> DEFINE i == y.shape
    <2>2. i \in DOMAIN Shapes /\ \A a \in DOMAIN y.bytes : ValidByte(i, a, y.bytes[a])
      BY <2>1 DEF ValidContents
    <2> HIDE DEF i
    <2>3. ASSUME NEW a \in DOMAIN y.bytes PROVE ValidByte(i, a, x.bytes[a])
      <3>1. CASE x.bytes[a] = y.bytes[a]
        BY <2>2, <3>1
      <3>2. CASE a \in ObjectBytes[i] /\ x.bytes[a] = Moved
        <4>1. \A k \in Varying(Shapes[i].params) : a \notin Bytes(i, k - 1, k - 1)
          BY <2>2, <3>2, SizesAreBytes
        <4> QED
          BY <3>2, <4>1 DEF ValidByte
      <3> QED
        BY <2>1, <3>1, <3>2 DEF i
    <2> QED
      BY <2>1, <2>2, <2>3 DEF ValidContents, i
  <1> QED
    BY <1>1, <1>2

(* Whatever an element holds after a step, one held before it, or moving    *)
(* left it.                                                                 *)
LEMMA NextValid ==
  ASSUME AllValid, [Values!ValuesNext]_contents, NEW p \in DOMAIN contents'
  PROVE  ValidContents(contents'[p])
  <1>1. \E x \in DOMAIN contents :
          contents'[p] = contents[x] \/ Values!IsLeftover(contents'[p], contents[x])
    <2>1. CASE contents' = contents
      BY <2>1
    <2>2. CASE Values!ValuesNext
      <3>1. ASSUME NEW W, Values!OnlyAt(W, contents, contents'), p \notin W
            PROVE  p \in DOMAIN contents /\ contents'[p] = contents[p]
        BY <3>1 DEF Values!OnlyAt
      <3>2. ASSUME NEW x \in Element \cup DOMAIN contents, NEW y \in DOMAIN contents,
                   Values!CopyValue(contents, contents', x, y)
            PROVE  \E z \in DOMAIN contents : contents'[p] = contents[z]
        <4>1. Values!OnlyAt({x}, contents, contents') /\ contents'[x] = contents[y]
          BY <3>2 DEF Values!CopyValue
        <4> QED
          BY <3>1, <4>1
      <3>3. ASSUME NEW x \in Element \cup DOMAIN contents, NEW y \in DOMAIN contents,
                   Values!MoveValue(contents, contents', x, y)
            PROVE  \E z \in DOMAIN contents :
                     contents'[p] = contents[z] \/ Values!IsLeftover(contents'[p], contents[z])
        <4>1. /\ Values!OnlyAt({x, y}, contents, contents') /\ contents'[x] = contents[y]
              /\ Values!IsLeftover(contents'[y], contents[y])
          BY <3>3 DEF Values!MoveValue
        <4> QED
          BY <3>1, <4>1
      <3>4. ASSUME NEW x \in Element \cup DOMAIN contents, NEW y \in DOMAIN contents,
                   Values!Exchange(contents, contents', x, y)
            PROVE  \E z \in DOMAIN contents : contents'[p] = contents[z]
        <4>1. /\ Values!OnlyAt({x, y}, contents, contents') /\ x \in DOMAIN contents
              /\ contents'[x] = contents[y] /\ contents'[y] = contents[x]
          BY <3>4 DEF Values!Exchange
        <4> QED
          BY <3>1, <4>1
      <3>5. ASSUME NEW x, Values!Drop(contents, contents', x)
            PROVE  \E z \in DOMAIN contents : contents'[p] = contents[z]
        <4>1. Values!OnlyAt({x}, contents, contents') /\ x \notin DOMAIN contents'
          BY <3>5 DEF Values!Drop
        <4> QED
          BY <3>1, <4>1
      <3> QED
        BY <2>2, <3>2, <3>3, <3>4, <3>5 DEF Values!ValuesNext
    <2> QED
      BY <2>1, <2>2
  <1>2. PICK x \in DOMAIN contents :
          contents'[p] = contents[x] \/ Values!IsLeftover(contents'[p], contents[x])
    BY <1>1
  <1>3. ValidContents(contents[x])
    BY DEF AllValid
  <1> QED
    BY <1>2, <1>3, LeftoverIsValid

(* The elements of a vector are filled with numbers, and with its sizes.    *)
LEMMA InitValid ==
  ASSUME Init
  PROVE  AllValid
  <1>1. OwnInv /\ AreSlots
    BY InitOwn DEF OwnInv
  <1>2. elements = << >> /\ DOMAIN elements = {}
    BY DEF Init
  <1> DEFINE holds(r, k, a) == a \in Bytes(r.shape, k, k)
             value(r, k, v) == IF k < Len(params) /\ params[k + 1].type = "varying"
                               THEN Shapes[r.shape].counts[k + 1] ELSE v
             cell(r, k, v, s, a) == IF Kind(r, k) = "object" THEN Object(value(r, k, v), s, a)
                                                             ELSE Byte(value(r, k, v))
             byte(r, v, s, a) ==
               IF \E k \in Parameters(r) : holds(r, k, a)
               THEN LET k == CHOOSE k \in Parameters(r) : holds(r, k, a)
                    IN  cell(r, k, v[k], s, a)
               ELSE Byte(Raw)
  <1>3. PICK filling \in Fillings :
          heap = [s \in DOMAIN slots |->
                    [allocator |-> Null,
                     cells |-> [a \in 0 .. SizeInBytes(slots[s]) - 1 |->
                                  byte(slots[s], filling[s], s, a)]]]
    BY Zenon DEF Init
  <1> HIDE DEF byte
  <1>4. \A s \in DOMAIN slots : \A a \in 0 .. SizeInBytes(slots[s]) - 1 :
          heap[s].cells[a] = byte(slots[s], filling[s], s, a)
    BY <1>3
  <1>5. ASSUME NEW s \in DOMAIN slots, NEW a \in ValueBytes[slots[s].shape]
        PROVE  ValidByte(slots[s].shape, a, heap[s].cells[a].value)
    <2> DEFINE r == slots[s]
               i == r.shape
               v == filling[s]
    <2>1. /\ r.block = s /\ i \in DOMAIN Shapes /\ Shapes[i].params = params
          /\ i \in UsedShapes
      BY <1>1, ShapesInUse DEF UsedShapes
    <2>2. a \in 0 .. SizeInBytes(r) - 1
      BY <2>1, ValuesAreCovered DEF SizeInBytes
    <2>3. PICK j \in Parameters(r) : holds(r, j, a)
      BY <2>1 DEF ValueBytes, Parameters
    <2> DEFINE k == CHOOSE k \in Parameters(r) : holds(r, k, a)
    <2>4. k \in Parameters(r) /\ holds(r, k, a)
      BY <2>3
    <2>5. heap[s].cells[a] = cell(r, k, v[k], s, a)
      BY <1>4, <2>2, <2>3 DEF byte
    <2>6. heap[s].cells[a].value = value(r, k, v[k])
      <3> HIDE DEF k, value, r, v
      <3> QED
        BY <2>5 DEF Object, Byte
    <2> HIDE DEF k
    <2>7. IsParameterList(params) /\ DOMAIN params = 1 .. Len(params) /\ Len(params) \in Nat
      BY <2>1, ShapeFacts
    <2>8. k \in 1 .. Len(params)
      BY <2>1, <2>4, <2>7 DEF Parameters
    <2>9. value(r, k, v[k]) \in Int
      <3>1. CASE k < Len(params) /\ params[k + 1].type = "varying"
        <4>1. k + 1 \in DOMAIN Shapes[i].params
          BY <2>1, <2>7, <2>8, <3>1
        <4>2. Shapes[i].counts[k + 1] \in Nat
          BY <2>1, <4>1, ShapeAssumption
        <4> QED
          BY <3>1, <4>2
      <3>2. CASE ~ (k < Len(params) /\ params[k + 1].type = "varying")
        <4>1. PICK vector \in Vectors : slots = [x \in DOMAIN vector |-> Reference(x, vector[x])]
          BY <1>1 DEF AreSlots
        <4>2. s \in DOMAIN vector /\ i = vector[s]
          BY <4>1 DEF Reference
        <4>3. filling[s][k] \in Int
          BY <2>4, <4>2, FillingsAssumption DEF Parameters
        <4> QED
          BY <3>2, <4>3
      <3> QED
        BY <3>1, <3>2
    <2>10. ASSUME NEW m \in Varying(Shapes[i].params), a \in Bytes(i, m - 1, m - 1)
           PROVE  value(r, k, v[k]) = Shapes[i].counts[m]
      <3>1. m - 1 \in DOMAIN Shapes[i].params /\ m \in 1 .. Len(params)
            /\ params[m].type = "varying"
        BY <2>1, <2>7, SizesAreBytes DEF Varying
      <3>2. m - 1 = k
        BY <2>1, <2>4, <2>10, <3>1, ParametersApart DEF Parameters
      <3>3. k < Len(params) /\ k + 1 = m
        BY <2>7, <2>8, <3>1, <3>2
      <3> QED
        BY <3>1, <3>3
    <2> HIDE DEF value, r, v
    <2> QED
      BY <2>6, <2>9, <2>10 DEF ValidByte, r
  <1>6. ASSUME NEW p \in DOMAIN contents PROVE ValidContents(contents[p])
    <2>1. /\ p \in DOMAIN slots /\ ReferenceOf(p) = slots[p] /\ HasValue(p) /\ slots[p].block = p
          /\ slots[p].shape \in DOMAIN Shapes
      BY <1>1, <1>2, PlacesAre, ShapesInUse DEF contents, Places, UsedShapes
    <2>2. contents[p] = [shape |-> slots[p].shape,
                         bytes |-> [a \in ValueBytes[slots[p].shape] |-> heap[p].cells[a].value]]
      BY <2>1 DEF contents, Contents, Places
    <2> QED
      BY <1>5, <2>1, <2>2 DEF ValidContents
  <1> QED
    BY <1>6 DEF AllValid

(* So sizes are what they were stored as, and other values are numbers.     *)
LEMMA SpecValid ==
  ASSUME Calls \subseteq Avoided
  PROVE  Spec => [](ObjInv /\ AllValid)
  <1>1. KeepsToElements /\ WholeUnits
    BY DEF Calls, KeepsToElements, WholeUnits
  <1>2. Init => ObjInv /\ AllValid
    BY InitIntact, InitValid
  <1>3. ObjInv /\ AllValid /\ [Next]_vars => ObjInv' /\ AllValid'
    <2> SUFFICES ASSUME ObjInv, AllValid, [Next]_vars PROVE ObjInv' /\ AllValid'
      OBVIOUS
    <2>1. ObjInv' /\ [Values!ValuesNext]_contents
      BY <1>1, NextIntact
    <2>2. \A p \in DOMAIN contents' : ValidContents(contents'[p])
      BY <2>1, NextValid
    <2>3. AllValid'
      BY <2>2 DEF AllValid, ValidContents, ValidByte
    <2> QED
      BY <2>1, <2>3
  <1> QED
    BY <1>2, <1>3, PTL DEF Spec

-----------------------------------------------------------------------------
(* The elements of a vector are related, and so are copies of them.         *)
LEMMA ShapesRelated ==
  ASSUME AreSlots, NEW i \in UsedShapes, NEW j \in UsedShapes
  PROVE  Related(i, j)
  <1>1. PICK vector \in Vectors : slots = [x \in DOMAIN vector |-> Reference(x, vector[x])]
    BY DEF AreSlots
  <1>2. PICK s \in DOMAIN vector : i = vector[s]
    BY <1>1 DEF UsedShapes, Reference
  <1>3. PICK t \in DOMAIN vector : j = vector[t]
    BY <1>1 DEF UsedShapes, Reference
  <1>4. i \in DOMAIN Shapes /\ j \in DOMAIN Shapes
    BY ShapesInUse
  <1>5. /\ Shapes[i].params = Shapes[j].params
        /\ \A k \in DOMAIN Shapes[i].params \ Varying(Shapes[i].params) :
             Shapes[i].counts[k] = Shapes[j].counts[k]
    BY <1>2, <1>3, VectorsAssumption
  <1> QED
    BY <1>4, <1>5 DEF Related

(* Elements that can be compared hold numbers, and their sizes.             *)
LEMMA ComparableFacts ==
  ASSUME ObjInv, AllValid, SameSizes, NEW p \in Comparable
  PROVE  /\ ReferenceOf(p).shape \in UsedShapes
         /\ HoldsSizes(heap, ReferenceOf(p))
         /\ \A a \in ValueBytes[ReferenceOf(p).shape] :
              heap[ReferenceOf(p).block].cells[a].value \in Int
  <1> DEFINE r == ReferenceOf(p)
             i == r.shape
  <1>1. /\ p \in Places /\ HasValue(p)
        /\ \A a \in Objects(r) : heap[r.block].cells[a].value # Moved
    BY DEF Comparable
  <1>2. i \in UsedShapes /\ i \in DOMAIN Shapes
    BY <1>1, ValueFacts
  <1>3. contents[p] = [shape |-> i, bytes |-> [a \in ValueBytes[i] |-> heap[r.block].cells[a].value]]
    BY <1>1 DEF contents, Contents
  <1>4. ValidContents(contents[p])
    BY <1>1 DEF AllValid, contents
  <1> DEFINE V == ValueBytes[i]
             val(a) == heap[r.block].cells[a].value
             c == [shape |-> i, bytes |-> [a \in V |-> val(a)]]
  <1>5. c # Unspecified
    <2>1. DOMAIN c = {"shape", "bytes"}
      OBVIOUS
    <2>2. DOMAIN Unspecified = {}
      BY DEF Unspecified
    <2> QED
      BY <2>1, <2>2
  <1>6. \A a \in V : ValidByte(i, a, val(a))
    BY <1>3, <1>4, <1>5 DEF ValidContents
  <1>7. \A a \in V : val(a) \in Int
    BY <1>1, <1>6 DEF ValidByte, Objects
  <1>8. HoldsSizes(heap, r)
    BY <1>2, <1>6, SizesAreBytes DEF ValidByte, HoldsSizes
  <1> QED
    BY <1>2, <1>7, <1>8

(* Equal sizes in the same places, and then equal groups, or sizes that     *)
(* differ.                                                                  *)
LEMMA EqualIsByValue ==
  ASSUME ObjInv, AllValid, SameSizes
  PROVE  EqualComparesValues
  <1> SUFFICES ASSUME NEW p \in Comparable, NEW q \in Comparable,
                      ReferenceOf(p).shape \in ComparedWithoutPadding
               PROVE  LET r == ReferenceOf(p)
                          s == ReferenceOf(q)
                          same == \A k \in Parameters(r) : ValueOf(r, k) = ValueOf(s, k)
                      IN  (EqualTo(p, q) <=> same) /\ (DifferentFrom(p, q) <=> ~ same)
    BY DEF EqualComparesValues
  <1> DEFINE r == ReferenceOf(p)
             s == ReferenceOf(q)
             same == \A k \in Parameters(r) : ValueOf(r, k) = ValueOf(s, k)
  <1>1. /\ r.shape \in UsedShapes /\ s.shape \in UsedShapes
        /\ HoldsSizes(heap, r) /\ HoldsSizes(heap, s) /\ AreSlots
    BY ComparableFacts DEF ObjInv, OwnInv
  <1>2. /\ Related(r.shape, s.shape)
        /\ r.shape \in DOMAIN Shapes /\ s.shape \in DOMAIN Shapes
    BY <1>1, ShapesRelated DEF Related
  <1>3. same <=> SameValues(heap, r, s)
    BY DEF SameValues, ValueOf
  <1>4. EqualTo(p, q) <=> IsEqual(heap, r, s)
    BY DEF EqualTo
  <1>5. DifferentFrom(p, q) <=> ~ IsEqual(heap, r, s)
    BY DEF DifferentFrom, Differs
  <1>6. r.shape \in ComparedWithoutPadding
    OBVIOUS
  <1> HIDE DEF r, s
  <1>7. IsEqual(heap, r, s) <=> SameValues(heap, r, s)
    <2>1. CASE Congruent(r.shape, s.shape)
      BY <1>2, <1>6, <2>1, EqualIfSame
    <2>2. CASE \E m, a : DifferAt(heap, r, s, m, a)
      <3>1. PICK m, a : DifferAt(heap, r, s, m, a)
        BY <2>2
      <3> QED
        BY <1>2, <3>1, UnequalIfDiffer
    <2> QED
      BY <1>1, <1>2, <2>1, <2>2, SizesTell
  <1> HIDE DEF same
  <1>8. (EqualTo(p, q) <=> same) /\ (DifferentFrom(p, q) <=> ~ same)
    BY <1>3, <1>4, <1>5, <1>7
  <1> QED
    BY <1>8 DEF same, r, s

-----------------------------------------------------------------------------
(* The first group that the order looks at, and where it lies.              *)
LEMMA FirstGroup ==
  ASSUME NEW i \in DOMAIN Shapes
  PROVE  \E l \in DOMAIN Shapes[i].params :
           /\ 1 \in DOMAIN LexicographicalGroups[i] /\ LexicographicalGroups[i][1] = <<1, l>>
           /\ IsGroup(Shapes[i].params, LexicographicalMemcmpCompatible, 1, l)
  <1> DEFINE ps == Shapes[i].params
             kinds == LexicographicalMemcmpCompatible
             H == Groups(ps, kinds)
             one == 1
  <1>1. DOMAIN ps = 1 .. Len(ps) /\ Len(ps) \in Nat /\ Len(ps) > 0
    BY ShapeFacts
  <1>2. LexicographicalGroups[i] = H
    BY DEF LexicographicalGroups
  <1> HIDE DEF ps, kinds
  <1>3. /\ \A k \in DOMAIN H : H[k] = <<k, H[k][2]>> /\ IsGroup(ps, kinds, k, H[k][2])
        /\ \A j \in DOMAIN ps : \E k \in DOMAIN H : k <= j /\ j <= H[k][2]
    <2>1. DOMAIN ps = 1 .. Len(ps) /\ Len(ps) \in Nat
      BY <1>1
    <2> QED
      BY <2>1, GroupsCover
  <1> HIDE DEF H
  <1>4. one \in DOMAIN ps
    BY <1>1
  <1>5. PICK k \in DOMAIN H : k <= one
    BY <1>3, <1>4
  <1>6. k \in DOMAIN ps
    BY <1>3 DEF IsGroup
  <1>7. k = one
    BY <1>1, <1>5, <1>6
  <1>8. one \in DOMAIN H /\ H[one] = <<one, H[one][2]>> /\ IsGroup(ps, kinds, one, H[one][2])
    BY <1>3, <1>5, <1>7
  <1>9. H[one][2] \in DOMAIN ps
    BY <1>8 DEF IsGroup
  <1> QED
    BY <1>2, <1>8, <1>9 DEF ps, kinds

(* Nothing in it differs in size: sizes in front of VaryingSize parameters  *)
(* are not compared as bytes.                                               *)
LEMMA GroupsStartAlike ==
  ASSUME NEW i \in DOMAIN Shapes, NEW l \in DOMAIN Shapes[i].params,
         IsGroup(Shapes[i].params, LexicographicalMemcmpCompatible, 1, l),
         NEW x, Related(i, x.shape)
  PROVE  StartsLike(i, l, x)
  <1> DEFINE ps == Shapes[i].params
  <1>1. /\ IsParameterList(ps) /\ Len(ps) \in Nat /\ DOMAIN ps = 1 .. Len(ps)
        /\ l \in 1 .. Len(ps)
    BY ShapeFacts
  <1>2. ASSUME NEW k \in 1 .. l PROVE k \in DOMAIN ps /\ k \notin Varying(ps)
    <2>1. k \in DOMAIN ps
      BY <1>1
    <2>2. SUFFICES ASSUME k \in Varying(ps) PROVE FALSE
      BY <2>1
    <2>3. k > 1 /\ ps[k - 1].kind = "number"
      BY <1>1, <2>2, SizesAreNumbers DEF Varying, IsParameterList
    <2>4. k - 1 \in 1 .. l /\ l # 1 /\ 1 \in 1 .. l
      BY <1>1, <2>3
    <2>5. ps[1].kind \in LexicographicalMemcmpCompatible
      BY <2>4 DEF IsGroup
    <2>6. ps[k - 1].kind \in LexicographicalMemcmpCompatible
      BY <2>4, <2>5 DEF IsGroup
    <2> QED
      BY <2>3, <2>6 DEF LexicographicalMemcmpCompatible
  <1>3. \A k \in 1 .. l : Shapes[i].counts[k] = Shapes[x.shape].counts[k]
    BY <1>2 DEF Related
  <1>4. l \in 0 .. Len(ps)
    BY <1>1
  <1>5. SameUpTo(i, x.shape, l)
    BY <1>3, <1>4, SameBeginnings DEF Related, SameUpTo
  <1> QED
    BY <1>5 DEF StartsLike, Related

(* An element that is less is less in the first parameter of the first      *)
(* group that differs.                                                      *)
LEMMA LessDecides ==
  ASSUME NEW i \in DOMAIN Shapes, i \in OrderedWithoutPadding, NEW l \in DOMAIN Shapes[i].params,
         LexicographicalGroups[i][1] = <<1, l>>, 1 \in DOMAIN LexicographicalGroups[i],
         IsGroup(Shapes[i].params, LexicographicalMemcmpCompatible, 1, l),
         NEW x, NEW y, StartsLike(i, l, x), StartsLike(i, l, y), NEW h,
         IsLexicographicallyLess(h, x, y)
  PROVE  \E j \in 1 .. l : FirstLess(h, x, y, j)
  <1> DEFINE one == 1
  <1>1. LexicographicalGroups[x.shape] = LexicographicalGroups[i]
    BY DEF StartsLike, LexicographicalGroups
  <1>2. IsLess(ValuesOf(h, x, 1, l, Kind(x, 1)), ValuesOf(h, y, 1, l, Kind(x, 1)))
    <2>1. one \in DOMAIN LexicographicalGroups[x.shape] /\ LexicographicalGroups[x.shape][one][2] = l
      BY <1>1
    <2> HIDE DEF one
    <2>2. IsLess(ValuesOf(h, x, one, l, Kind(x, one)), ValuesOf(h, y, one, l, Kind(x, one)))
      BY <2>1 DEF IsLexicographicallyLess
    <2> QED
      BY <2>2 DEF one
  <1>3. 1 \in DOMAIN Shapes[i].params
    BY DEF IsGroup
  <1>4. \A a \in Bytes(i, 1, l) :
          \E j \in 1 .. l : j \in DOMAIN Shapes[i].params /\ a \in Bytes(i, j, j)
    <2>1. i \in WithoutPadding(LexicographicalGroups)
      BY DEF OrderedWithoutPadding
    <2> HIDE DEF one
    <2>2. /\ one \in DOMAIN LexicographicalGroups[i]
          /\ LexicographicalGroups[i][one] = <<one, l>> /\ one \in DOMAIN Shapes[i].params
      BY <1>3 DEF one
    <2>3. \A a \in Bytes(i, one, l) :
            \E j \in one .. l : j \in DOMAIN Shapes[i].params /\ a \in Bytes(i, j, j)
      BY <2>1, <2>2, GroupBytes
    <2> QED
      BY <2>3 DEF one
  <1>5. Kind(x, 1) = Kind(y, 1)
    BY DEF StartsLike, Kind
  <1>6. IsLess(ValuesOf(h, x, 1, l, Kind(x, 1)), ValuesOf(h, y, 1, l, Kind(y, 1)))
    BY <1>2, <1>5
  <1> HIDE DEF one
  <1> QED
    BY <1>4, <1>6, LessInGroup

(* The first group decides, unless it has the same values in both.          *)
LEMMA LessIsFirst ==
  ASSUME ObjInv, AllValid, SameSizes
  PROVE  LessIsLexicographic
  <1> SUFFICES ASSUME NEW p \in Comparable, NEW q \in Comparable,
                      ReferenceOf(p).shape \in OrderedWithoutPadding
               PROVE  LET r == ReferenceOf(p)
                          s == ReferenceOf(q)
                      IN  IF Precedes(r, s) THEN AtMost(p, q) /\ AtLeast(q, p)
                                            ELSE ~ LessThan(p, q) /\ ~ GreaterThan(q, p)
    BY DEF LessIsLexicographic
  <1> DEFINE r == ReferenceOf(p)
             s == ReferenceOf(q)
             i == r.shape
  <1>1. /\ r.shape \in UsedShapes /\ s.shape \in UsedShapes /\ AreSlots
        /\ \A a \in ValueBytes[r.shape] : heap[r.block].cells[a].value \in Int
        /\ \A a \in ValueBytes[s.shape] : heap[s.block].cells[a].value \in Int
    BY ComparableFacts DEF ObjInv, OwnInv
  <1>2. Related(i, r.shape) /\ Related(i, s.shape) /\ i \in DOMAIN Shapes
    BY <1>1, ShapesRelated DEF Related
  <1>3. i \in OrderedWithoutPadding
    OBVIOUS
  <1>4. /\ AtMost(p, q) <=> ~ IsLexicographicallyLess(heap, s, r)
        /\ AtLeast(q, p) <=> ~ IsLexicographicallyLess(heap, s, r)
        /\ LessThan(p, q) <=> IsLexicographicallyLess(heap, r, s)
        /\ GreaterThan(q, p) <=> IsLexicographicallyLess(heap, r, s)
    BY DEF AtMost, AtLeast, LessThan, GreaterThan, IsAtMost, IsAtLeast, IsGreater
  <1> HIDE DEF r, s
  <1>5. PICK l \in DOMAIN Shapes[i].params :
          /\ 1 \in DOMAIN LexicographicalGroups[i] /\ LexicographicalGroups[i][1] = <<1, l>>
          /\ IsGroup(Shapes[i].params, LexicographicalMemcmpCompatible, 1, l)
    BY <1>2, FirstGroup
  <1>6. StartsLike(i, l, r) /\ StartsLike(i, l, s)
    BY <1>2, <1>5, GroupsStartAlike
  <1>7. IsLexicographicallyLess(heap, r, s) => \E j \in 1 .. l : FirstLess(heap, r, s, j)
    BY <1>2, <1>3, <1>5, <1>6, LessDecides
  <1>8. IsLexicographicallyLess(heap, s, r) => \E j \in 1 .. l : FirstLess(heap, s, r, j)
    BY <1>2, <1>3, <1>5, <1>6, LessDecides
  <1>9. l \in Nat /\ 1 .. l \subseteq DOMAIN Shapes[i].params
    BY <1>2, ShapeFacts
  <1>10. Kind(s, 1) = Kind(r, 1) /\ \A k : Kind(s, k) = Kind(r, k)
    BY <1>2 DEF Related, Kind
  <1>11. Precedes(r, s) <=> \E k \in DOMAIN Shapes[i].params : FirstLess(heap, r, s, k)
    BY <1>10 DEF Precedes, FirstLess, ValueOf, Parameters
  <1>12. ASSUME NEW m \in 1 .. l, NEW a \in Bytes(i, m, m)
         PROVE  heap[r.block].cells[a].value \in Int /\ heap[s.block].cells[a].value \in Int
    <2>1. m \in DOMAIN Shapes[i].params /\ m \in DOMAIN Shapes[s.shape].params
          /\ s.shape \in DOMAIN Shapes
      BY <1>2, <1>9 DEF Related
    <2>2. Bytes(s.shape, m, m) = Bytes(i, m, m)
      BY <1>6 DEF StartsLike, SameUpTo, Bytes
    <2>3. a \in ValueBytes[i] /\ a \in ValueBytes[s.shape]
      BY <1>2, <2>1, <2>2 DEF ValueBytes
    <2> QED
      BY <1>1, <2>3
  <1>13. ASSUME Precedes(r, s), IsLexicographicallyLess(heap, s, r) PROVE FALSE
    <2>1. PICK j \in 1 .. l : FirstLess(heap, s, r, j)
      BY <1>8, <1>13
    <2>2. PICK k \in DOMAIN Shapes[i].params : FirstLess(heap, r, s, k)
      BY <1>11, <1>13
    <2> QED
      BY <1>2, <1>6, <1>9, <1>12, <2>1, <2>2, LessOneWay
  <1>14. IsLexicographicallyLess(heap, r, s) => Precedes(r, s)
    BY <1>7, <1>9, <1>11
  <1>15. IF Precedes(r, s) THEN AtMost(p, q) /\ AtLeast(q, p)
                           ELSE ~ LessThan(p, q) /\ ~ GreaterThan(q, p)
    BY <1>4, <1>13, <1>14
  <1> QED
    BY <1>15 DEF r, s

-----------------------------------------------------------------------------
(* Elements and references are equal if the objects of all parameters are,  *)
(* though some parameters are compared together as bytes, and though what   *)
(* is compared object by object is not asked where it ends in the second:   *)
(* the sizes in front of VaryingSize parameters are compared before them    *)
(* (elementTraits.hpp:424-451).                                             *)
THEOREM EqualElementsHaveEqualValues ==
  ASSUME Calls \subseteq Avoided
  PROVE  Spec => []EqualComparesValues
  <1>1. SameSizes
    BY DEF SameSizes, Calls
  <1>2. ObjInv /\ AllValid => EqualComparesValues
    BY <1>1, EqualIsByValue
  <1> QED
    BY <1>2, SpecValid, PTL

(* An element that is less comes first in the lexicographic order of the    *)
(* parameters, and one that comes first is not greater, of whichever sizes  *)
(* (elementTraits.hpp:453-481, element.hpp:172-222).                        *)
THEOREM LessElementsComeFirst ==
  ASSUME Calls \subseteq Avoided
  PROVE  Spec => []LessIsLexicographic
  <1>1. SameSizes
    BY DEF SameSizes, Calls
  <1>2. ObjInv /\ AllValid => LessIsLexicographic
    BY <1>1, LessIsFirst
  <1> QED
    BY <1>2, SpecValid, PTL
=============================================================================
