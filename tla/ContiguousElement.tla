------------------------- MODULE ContiguousElement -------------------------
(***************************************************************************)
(* BasicContiguousElement: an element in an allocation of its own, next to *)
(* the elements of a vector.  It is memory_, an AllocatorAwarePointer, and *)
(* reference_, which both copying and moving treat apart from each other.  *)
(*                                                                         *)
(* The elements of the vector (ElementLayout says where they lie) stand    *)
(* here for memory of somebody else that must not be written to by         *)
(* accident; each has bytes of its own.                                    *)
(*                                                                         *)
(* Avoided names the calls that the code does not carry out as the         *)
(* repository's tests let a caller expect.                                 *)
(***************************************************************************)
EXTENDS ElementReferences

CONSTANTS
  Slot,          \* elements of the vector, and their allocations
  Element,       \* the elements of the program's own
  Block,         \* names of allocations, one more than there are elements
  Allocator,     \* allocators of one type
  Traits,        \* what allocator_traits may say of Allocator
  Fillings,      \* what the parameters of the elements of the vector may hold
  Vectors,       \* the vectors to look at: a shape for each of some slots
  Avoided        \* calls the caller does not make

Calls == {"use_moved_from", "other_sizes", "units_as_bytes"}

AllTraits == [copy : BOOLEAN, move : BOOLEAN, swap : BOOLEAN, always_equal : BOOLEAN]

ASSUME ElementTraitsAssumption == Traits \subseteq AllTraits
ASSUME ElementNames ==
  Null \notin Slot \cup Block /\ Slot \cap Block = {} /\ Slot \cap Element = {}
(* However many elements have memory, there is a name left for another one. *)
ASSUME FreshAssumption ==
  \A f \in [Element -> Block \cup {Null}] : Block \ {f[e] : e \in Element} # {}
(* The elements of a vector have the same parameters, and as many objects   *)
(* of each that is not VaryingSize; without those they have the same shape. *)
ASSUME VectorsAssumption ==
  \A vector \in Vectors :
    /\ vector \in [DOMAIN vector -> DOMAIN Shapes]
    /\ DOMAIN vector \in (SUBSET Slot) \ {{}}
    /\ \A s, t \in DOMAIN vector :
         LET p == Shapes[vector[s]]
             q == Shapes[vector[t]]
         IN  /\ p.params = q.params /\ (AllFixed(p.params) => vector[s] = vector[t])
             /\ \A k \in DOMAIN p.params \ Varying(p.params) : p.counts[k] = q.counts[k]
ASSUME ElementCalls == Avoided \subseteq Calls
ASSUME FillingsAssumption ==
  \A filling \in Fillings, vector \in Vectors :
    \A s \in DOMAIN vector : \A k \in DOMAIN Shapes[vector[s]].params : filling[s][k] \in Int

VARIABLES
  traits,     \* propagate_on_container_..., and is_always_equal
  slots,      \* references to the elements of the vector
  elements,   \* the members of every element that exists
  heap,       \* the allocations: who allocated them, what each byte holds
  status      \* "defined", or "undefined" once a call was

vars == <<traits, slots, elements, heap, status>>

-----------------------------------------------------------------------------
params == Shapes[slots[CHOOSE s \in DOMAIN slots : TRUE].shape].params

IsFixedSizeOrPlain == AllFixed(params)

Reference(block, shape) == [block |-> block, shape |-> shape]
Memory(block, units, allocator) ==
  [block |-> block, units |-> units, allocator |-> allocator]

SameAllocator(a, b) == traits.always_equal \/ a = b

Fresh == CHOOSE b \in Block : b \notin DOMAIN heap

Units(bytes) == Allocated(params, bytes) \div Storage(params)

Allocate(h, b, units, allocator) ==
  [c \in DOMAIN h \cup {b} |->
     IF c = b THEN [allocator |-> allocator,
                    cells |-> [a \in 0 .. units * Storage(params) - 1 |-> Byte(Raw)]]
              ELSE h[c]]

Deallocate(h, b) == [c \in DOMAIN h \ {b} |-> h[c]]

MayDeallocate(m) ==
  m.block # Null =>
    /\ m.block \in DOMAIN heap
    /\ SameAllocator(heap[m.block].allocator, m.allocator)
    /\ Cardinality(DOMAIN heap[m.block].cells) = m.units * Storage(params)

(* Faulty: objects are left behind.                                         *)
Destroyed_Never(e) == heap

(* destruct(), where there is memory.                                       *)
Destroyed(e) ==
  LET r == elements[e].reference
  IN  IF elements[e].memory.block = Null THEN heap
      ELSE Overwrite(heap, r.block, [a \in Objects(r) |-> Byte(Raw)])

MayDestroy(e) ==
  elements[e].memory.block # Null => IsAlive(heap, elements[e].reference)

(* Faulty: the pointer stays with the element that gives the memory away.   *)
Released_Kept(e) == elements[e]

(* std::move of memory_ takes only the pointer, reference_ is copied.       *)
Released(e) == [elements[e] EXCEPT !.memory.block = Null]

IsHollow(e) == elements[e].memory.block = Null
HasValue(p) == p \in DOMAIN elements => ~ IsHollow(p)

(* Elements convert to references.                                          *)
ReferenceOf(p) == IF p \in DOMAIN slots THEN slots[p] ELSE elements[p].reference

Places == DOMAIN slots \cup DOMAIN elements

(* The operators of elements, and of elements and references.               *)
EqualTo(p, q) == IsEqual(heap, ReferenceOf(p), ReferenceOf(q))
DifferentFrom(p, q) == Differs(heap, ReferenceOf(p), ReferenceOf(q))
LessThan(p, q) == IsLexicographicallyLess(heap, ReferenceOf(p), ReferenceOf(q))
AtMost(p, q) == IsAtMost(heap, ReferenceOf(p), ReferenceOf(q))
GreaterThan(p, q) == IsGreater(heap, ReferenceOf(p), ReferenceOf(q))
AtLeast(p, q) == IsAtLeast(heap, ReferenceOf(p), ReferenceOf(q))

(* Elements a caller may use, and assign to each other through references.  *)
Usable(p) ==
  p \in Places /\ ("use_moved_from" \in Avoided => HasValue(p))
Assignable(p, q) ==
  /\ Usable(p) /\ Usable(q)
  /\ "other_sizes" \in Avoided => ReferenceOf(p).shape = ReferenceOf(q).shape

MayUseUnits == "units_as_bytes" \in Avoided => Storage(params) = 1

Set(e, memory, reference) ==
  elements' = [x \in DOMAIN elements \cup {e} |->
                 IF x = e THEN [memory |-> memory, reference |-> reference]
                          ELSE elements[x]]

Undefined == status' = "undefined" /\ UNCHANGED <<traits, slots, elements, heap>>
Defined == status' = status /\ UNCHANGED <<traits, slots>>

-----------------------------------------------------------------------------
(* Faulty: objects that were copied byte by byte are not constructed.       *)
Stored_BytesOnly(h, source, n, block, move) ==
  Overwrite(h, block, [a \in 0 .. n - 1 |-> h[source.block].cells[a]])

(* store_and_load: n bytes from the beginning of the source, then every     *)
(* object that these bytes do not make.                                     *)
Stored(h, source, n, block, move) ==
  LET left  == IF move THEN Become(h, source, Moved) ELSE h
      bytes == [a \in 0 .. n - 1 |-> h[source.block].cells[a]]
  IN  Overwrite(left, block, Written(Constructed(h, source, block), bytes))

(* The source is there, and n bytes are where they are read and written.    *)
MayStore(h, source, n, block) ==
  /\ IsAlive(h, source) /\ block \in DOMAIN h
  /\ \A b \in {source.block, block} : n <= Cardinality(DOMAIN h[b].cells)
  /\ SizeInBytes(source) <= Cardinality(DOMAIN h[block].cells)

(* e with this memory, of the heap h, and what is stored in it.             *)
StoreInto(e, h, memory, source, n, move) ==
  IF MayStore(h, source, n, memory.block)
    THEN /\ heap' = Stored(h, source, n, memory.block, move)
         /\ Set(e, memory, Reference(memory.block, source.shape))
         /\ Defined
    ELSE Undefined

StoreIntoNew(e, h, units, allocator, source, n, move) ==
  StoreInto(e, Allocate(h, Fresh, units, allocator), Memory(Fresh, units, allocator),
            source, n, move)

(* reference = reference                                                    *)
AssignThrough(target, source, move) ==
  IF IsAlive(heap, target) /\ IsAlive(heap, source)
    THEN heap' = Assigned(heap, source, target, move) /\ elements' = elements /\ Defined
    ELSE Undefined

-----------------------------------------------------------------------------
Init ==
  /\ traits \in Traits
  /\ \E vector \in Vectors :
       slots = [s \in DOMAIN vector |-> Reference(s, vector[s])]
  /\ \E filling \in Fillings :
       heap = [s \in DOMAIN slots |->
                 LET r == slots[s]
                     holds(k, a) == a \in Bytes(r.shape, k, k)
                     value(k) == IF k < Len(params) /\ params[k + 1].type = "varying"
                                 THEN Shapes[r.shape].counts[k + 1] ELSE filling[s][k]
                     cell(k, a) == IF Kind(r, k) = "object" THEN Object(value(k), s, a)
                                                            ELSE Byte(value(k))
                 IN  [allocator |-> Null,
                      cells |-> [a \in 0 .. SizeInBytes(r) - 1 |->
                                   IF \E k \in Parameters(r) : holds(k, a)
                                   THEN LET k == CHOOSE k \in Parameters(r) : holds(k, a)
                                        IN  cell(k, a)
                                   ELSE Byte(Raw)]]]
  /\ elements = << >>
  /\ status = "defined"

(* From a reference, or from an element and an allocator.                   *)
Construct(e, p, move, allocator) ==
  /\ status = "defined"
  /\ e \notin DOMAIN elements /\ Usable(p)
  /\ LET n == SizeInBytes(ReferenceOf(p))
     IN  StoreIntoNew(e, heap, Units(n), allocator, ReferenceOf(p), n, move)

(* BasicContiguousElement(const BasicContiguousElement&): as many units as  *)
(* the other one has, and whatever allocator its allocator selects.         *)
CopyConstruct(e, f, allocator) ==
  /\ status = "defined"
  /\ e \notin DOMAIN elements /\ f \in DOMAIN elements /\ Usable(f)
  /\ StoreIntoNew(e, heap, elements[f].memory.units, allocator, elements[f].reference,
                  SizeInBytes(elements[f].reference), FALSE)

TakeOver(e, f) ==
  /\ elements' = [x \in DOMAIN elements \cup {e} |->
                    IF x = e THEN elements[f] ELSE IF x = f THEN Released(f) ELSE elements[x]]
  /\ heap' = heap
  /\ Defined

MoveConstruct(e, f) ==
  /\ status = "defined"
  /\ e \notin DOMAIN elements /\ f \in DOMAIN elements
  /\ TakeOver(e, f)

(* The same with an allocator: acquire_memory, acquire_reference, which     *)
(* copies as many bytes as the other one has units.                         *)
MoveConstructWith(e, f, allocator) ==
  /\ status = "defined"
  /\ e \notin DOMAIN elements /\ f \in DOMAIN elements
  /\ IF SameAllocator(allocator, elements[f].memory.allocator)
       THEN TakeOver(e, f)
       ELSE /\ Usable(f) /\ MayUseUnits
            /\ LET units == elements[f].memory.units
               IN  StoreIntoNew(e, heap, units, allocator, elements[f].reference, units, TRUE)

Destruct(e) ==
  /\ status = "defined"
  /\ e \in DOMAIN elements
  /\ IF MayDestroy(e) /\ MayDeallocate(elements[e].memory)
       THEN /\ heap' = Deallocate(heap, elements[e].memory.block)
            /\ elements' = [x \in DOMAIN elements \ {e} |-> elements[x]]
            /\ Defined
       ELSE Undefined

(* Faulty: memory of another allocator is kept when it is large enough.     *)
Replaces_TooSmallOnly(m, o) == m.units < o.units

(* Does memory_ = other.memory_ allocate?                                   *)
Replaces(m, o) ==
  \/ traits.copy /\ ~ SameAllocator(m.allocator, o.allocator)
  \/ m.units < o.units

(* copy_assign: through the references where the sizes are the same and the *)
(* allocator stays, else the objects are constructed anew.                  *)
CopyAssign(e, f) ==
  /\ status = "defined"
  /\ e # f /\ {e, f} \subseteq DOMAIN elements
  /\ Usable(e) /\ Usable(f)
  /\ LET m == elements[e].memory
         o == elements[f].memory
         source == elements[f].reference
         allocator == IF traits.copy THEN o.allocator ELSE m.allocator
     IN  IF IsFixedSizeOrPlain /\ (~ traits.copy \/ traits.always_equal)
           THEN IF IsAlive(heap, elements[e].reference) /\ IsAlive(heap, source)
                  THEN /\ heap' = Assigned(heap, source, elements[e].reference, FALSE)
                       /\ elements' = [elements EXCEPT ![e].memory.allocator = allocator]
                       /\ Defined
                  ELSE Undefined
           ELSE /\ MayUseUnits
                /\ IF ~ MayDestroy(e) \/ (Replaces(m, o) /\ ~ MayDeallocate(m)) THEN Undefined
                   ELSE IF Replaces(m, o)
                     THEN StoreIntoNew(e, Deallocate(heap, m.block), o.units, allocator,
                                       source, o.units, FALSE)
                     ELSE StoreInto(e, Destroyed(e), Memory(m.block, m.units, allocator),
                                    source, o.units, FALSE)

(* steal                                                                    *)
Steal(e, f) ==
  LET m == elements[e].memory
      o == elements[f].memory
      allocator == IF traits.move THEN o.allocator ELSE m.allocator
  IN  IF MayDestroy(e) /\ MayDeallocate(m)
        THEN /\ heap' = Deallocate(heap, m.block)
             /\ elements' = [elements EXCEPT
                  ![e] = [memory    |-> Memory(o.block, o.units, allocator),
                          reference |-> elements[f].reference],
                  ![f] = Released(f)]
             /\ Defined
        ELSE Undefined

(* Faulty: elements always fit into the memory that is there.               *)
Outgrows_Never(e, f) == FALSE

(* Compares bytes with units, so that it may allocate without need.         *)
Outgrows(e, f) == SizeInBytes(elements[f].reference) > elements[e].memory.units

MoveObjects(e, f) ==
  LET m == elements[e].memory
      source == elements[f].reference
  IN  IF IsFixedSizeOrPlain THEN AssignThrough(elements[e].reference, source, TRUE)
      ELSE IF ~ MayDestroy(e) \/ (Outgrows(e, f) /\ ~ MayDeallocate(m)) THEN Undefined
      ELSE IF Outgrows(e, f)
        THEN StoreIntoNew(e, Deallocate(heap, m.block), elements[f].memory.units,
                          m.allocator, source, SizeInBytes(source), TRUE)
        ELSE StoreInto(e, Destroyed(e), m, source, SizeInBytes(source), TRUE)

MoveAssign(e, f) ==
  /\ status = "defined"
  /\ e # f /\ {e, f} \subseteq DOMAIN elements
  /\ IF traits.move \/ SameAllocator(elements[e].memory.allocator, elements[f].memory.allocator)
       THEN Steal(e, f)
       ELSE Usable(e) /\ Usable(f) /\ MoveObjects(e, f)

(* What becomes of memory_ m in a swap with o.  The allocators are swapped  *)
(* if they propagate on swap, else the caller makes sure they are equal.    *)
SwappedMemory(m, o) == [o EXCEPT !.allocator = IF traits.swap THEN @ ELSE m.allocator]

SwapElements(e, f) ==
  LET m == elements[e].memory
      o == elements[f].memory
  IN  /\ status = "defined"
      /\ e # f /\ {e, f} \subseteq DOMAIN elements
      /\ traits.swap \/ SameAllocator(m.allocator, o.allocator)
      /\ elements' = [elements EXCEPT
           ![e] = [memory |-> SwappedMemory(m, o), reference |-> elements[f].reference],
           ![f] = [memory |-> SwappedMemory(o, m), reference |-> elements[e].reference]]
      /\ heap' = heap
      /\ Defined

(* A reference is assigned another one, or an element.                      *)
Assign(p, q, move) ==
  /\ status = "defined"
  /\ p \in DOMAIN slots /\ p # q
  /\ Assignable(p, q)
  /\ AssignThrough(slots[p], ReferenceOf(q), move)

(* An element is assigned a reference, which goes through reference_.       *)
AssignToElement(e, q, move) ==
  /\ status = "defined"
  /\ e \in DOMAIN elements /\ e # q
  /\ Assignable(e, q)
  /\ AssignThrough(elements[e].reference, ReferenceOf(q), move)

SwapReferences(p, q) ==
  /\ status = "defined"
  /\ p # q /\ {p, q} \subseteq Places
  /\ Assignable(p, q)
  /\ IF IsAlive(heap, ReferenceOf(p)) /\ IsAlive(heap, ReferenceOf(q))
       THEN /\ heap' = Swapped(heap, ReferenceOf(p), ReferenceOf(q))
            /\ elements' = elements
            /\ Defined
       ELSE Undefined

Next ==
  \/ \E e \in Element :
       \/ \E p \in Places, move \in BOOLEAN, a \in Allocator : Construct(e, p, move, a)
       \/ Destruct(e)
       \/ \E f \in Element :
            \/ \E a \in Allocator : CopyConstruct(e, f, a) \/ MoveConstructWith(e, f, a)
            \/ MoveConstruct(e, f) \/ CopyAssign(e, f)
            \/ MoveAssign(e, f) \/ SwapElements(e, f)
  \/ \E p \in Places, q \in Places :
       \/ SwapReferences(p, q)
       \/ \E move \in BOOLEAN : Assign(p, q, move) \/ AssignToElement(p, q, move)

Spec == Init /\ [][Next]_vars

-----------------------------------------------------------------------------
(* Every allocation has one owner, however memory_ and reference_ are       *)
(* copied, moved and swapped apart from each other; an element that has     *)
(* memory refers into its own (element.hpp:140-144, 300-371).               *)
SoleOwner ==
  /\ \A e \in DOMAIN elements :
       LET b == elements[e].memory.block
       IN  b # Null => b \in DOMAIN heap \ DOMAIN slots /\ elements[e].reference.block = b
  /\ \A b \in DOMAIN heap \ DOMAIN slots :
       Cardinality({e \in DOMAIN elements : elements[e].memory.block = b}) = 1

(* Memory goes back to an allocator equal to the one it came from, with the *)
(* same number of units (allocator.hpp:49-55, parameter.hpp:46).            *)
ReleasedByItsAllocator ==
  \A e \in DOMAIN elements : MayDeallocate(elements[e].memory)

(* The objects of every element were constructed or assigned where they     *)
(* are, not copied there byte by byte, and none is left behind in memory    *)
(* that nobody will destroy it in (element.hpp:231-240, 379-388).           *)
ObjectsAtHome ==
  /\ \A p \in Places : HasValue(p) => IsAlive(heap, ReferenceOf(p))
  /\ \A b \in DOMAIN heap : \A a \in DOMAIN heap[b].cells :
       heap[b].cells[a].home = <<b, a>> =>
         \E p \in Places : HasValue(p) /\ ReferenceOf(p).block = b /\ a \in Objects(ReferenceOf(p))

(* The calls a caller makes have defined behaviour.                         *)
NeverUndefined == status = "defined"

-----------------------------------------------------------------------------
(* Elements whose objects all have values that can be compared.             *)
Comparable ==
  {p \in Places : HasValue(p) /\ \A a \in Objects(ReferenceOf(p)) :
                     heap[ReferenceOf(p).block].cells[a].value # Moved}

(* Shapes in which every byte that a comparison of groups looks at belongs  *)
(* to an object.                                                            *)
WithoutPadding(groups) ==
  {i \in DOMAIN Shapes :
     BytesIn(i, {groups[i][k] : k \in DOMAIN groups[i]}) = ValueBytes[i]}
ComparedWithoutPadding == WithoutPadding(EqualityGroups)
OrderedWithoutPadding == WithoutPadding(LexicographicalGroups)

(* The objects of parameter k as == and < of their type see them.           *)
ValueOf(r, k) == ValuesOf(heap, r, k, k, Kind(r, k))

(* == and != of elements compare the objects of all parameters, though they *)
(* compare some of them together as bytes, where there is no padding        *)
(* between those (elementTraits.hpp:424-451).                                *)
EqualComparesValues ==
  \A p, q \in Comparable :
    LET r == ReferenceOf(p)
        s == ReferenceOf(q)
        same == \A k \in Parameters(r) : ValueOf(r, k) = ValueOf(s, k)
    IN  r.shape \in ComparedWithoutPadding =>
          (EqualTo(p, q) <=> same) /\ (DifferentFrom(p, q) <=> ~ same)

(* The lexicographic order of the parameters.                               *)
Precedes(r, s) ==
  \E k \in Parameters(r) :
    /\ IsLess(ValueOf(r, k), ValueOf(s, k))
    /\ \A j \in 1 .. k - 1 : ValueOf(r, j) = ValueOf(s, j)

(* An element that is less or greater comes first or last in the            *)
(* lexicographic order of the parameters, also when some of them are        *)
(* compared together as bytes, and one that comes first or last is <= or >= *)
(* (elementTraits.hpp:453-481, element.hpp:172-222).  The converse does not *)
(* hold: elements neither of which is less need not be equal.               *)
LessIsLexicographic ==
  \A p, q \in Comparable :
    LET r == ReferenceOf(p)
        s == ReferenceOf(q)
    IN  r.shape \in OrderedWithoutPadding =>
          IF Precedes(r, s) THEN AtMost(p, q) /\ AtLeast(q, p)
                            ELSE ~ LessThan(p, q) /\ ~ GreaterThan(q, p)

-----------------------------------------------------------------------------
(* What a caller finds in an element: how many objects of each parameter,   *)
(* and what they hold, byte by byte.                                        *)
Unspecified == << >>

Contents(p) ==
  LET r == ReferenceOf(p)
      value(a) == heap[r.block].cells[a].value
  IN  IF HasValue(p) THEN [shape |-> r.shape, bytes |-> [a \in ValueBytes[r.shape] |-> value(a)]]
                     ELSE Unspecified

contents == [p \in Places |-> Contents(p)]

Values == INSTANCE ElementValues WITH value <- contents

(* Elements have values: copies and moves hand them on, swap exchanges      *)
(* them, and no call changes an element it was not given, in a vector or    *)
(* outside (element.hpp:48-144, reference.hpp:70-135).                      *)
ImplementsValues == Values!ValuesSpec
=============================================================================
