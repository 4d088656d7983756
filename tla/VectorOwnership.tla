-------------------------- MODULE VectorOwnership --------------------------
(***************************************************************************)
(* Several ContiguousVectors, their allocators and the memory they own:    *)
(* construction, destruction, copy, move, swap and reserve, down to        *)
(* AllocatorAwarePointer.  Objects have copy and move constructors and     *)
(* destructors that do something; an element takes one unit of memory.     *)
(* The steps of one call are those of FixedVector and VaryingVector, here  *)
(* a call is one step.                                                     *)
(*                                                                         *)
(* Without VaryingSize parameters the locator of a vector counts elements  *)
(* and knows their stride (AllFixedSizeElementLocator), one unit, or 0 for *)
(* a vector that was constructed without sizes.  With them it has a table  *)
(* of offsets, an UnmanagedVector, and a pointer to where the last element *)
(* ends (ElementLocator).  Nobody deallocates a table: one that no vector  *)
(* refers to is lost, and left out here.                                   *)
(*                                                                         *)
(* Which traits the allocator has, and which locator, is chosen once, in   *)
(* Init.  Avoided names the calls that the code does not carry out as the  *)
(* README lets a caller expect, and from which the caller keeps away.      *)
(***************************************************************************)
EXTENDS Naturals, Sequences

CONSTANTS
  Vector,        \* the vectors of the program
  Value,         \* what an element can hold
  Allocator,     \* the allocators, of one type, that are not equal
  Block,         \* names of allocations, one more than there are vectors
  Table,         \* names of tables of offsets, as many
  Null,          \* the pointer of a vector without memory or table
  Raw,           \* a unit that holds no object
  Moved,         \* an object that was moved from and is still alive
  Unspecified,   \* contents of a vector that was moved from
  UnitBytes,     \* alignof(StorageElementType): the bytes of one unit
  MaxCapacity,   \* bound on max_element_count, of the model only
  MaxUnits,      \* bound on the units of one allocation, of the model only
  Avoided        \* calls the caller does not make

Calls == {"use_moved_from", "reserve_default", "copy_empty", "copy_unfilled", "clear_empty",
          "swap_allocators"}

ASSUME NamesAssumption ==
  /\ Null \notin Block \cup Table \cup (Block \X Nat)
  /\ Raw \notin Value /\ Moved \notin Value /\ Raw # Moved
ASSUME UnspecifiedAssumption == Unspecified \notin Seq(Value)
ASSUME FreshAssumption ==   \* the vectors never use up all names
  /\ \A f \in [Vector -> Block \cup {Null}] : Block \ {f[v] : v \in Vector} # {}
  /\ \A f \in [Vector -> Table \cup {Null}] : Table \ {f[v] : v \in Vector} # {}
ASSUME SizesAssumption ==
  MaxCapacity \in Nat /\ MaxUnits \in Nat /\ UnitBytes \in Nat \ {0}
ASSUME CallAssumption == Avoided \subseteq Calls

VARIABLES
  traits,    \* propagate_on_container_copy_assignment, _move_assignment, _swap
  varying,   \* are there VaryingSize parameters?
  vectors,   \* the members of every vector that exists
  heap,      \* the allocations: who allocated them, what each unit holds
  status     \* "defined", or "undefined" once a call was

type == <<traits, varying>>
vars == <<type, vectors, heap, status>>

-----------------------------------------------------------------------------
(* A vector: memory_ (block, units, allocator), max_element_count_ and      *)
(* locator_: element_count_, or the size of the table, stride_, the table   *)
(* with the entries it has room for, and last_element_.                     *)
Members(block, units, allocator, max_element_count, locator) ==
  [block |-> block, units |-> units, allocator |-> allocator,
   max_element_count |-> max_element_count, locator |-> locator]

NoTable == [name |-> Null, entries |-> 0]
NoLocator == [size |-> 0, stride |-> 0, table |-> NoTable, last_element |-> Null]

(* A pointer into an allocation.                                            *)
Pointer(block, unit) == IF block = Null THEN Null ELSE <<block, unit>>

(* UnmanagedVector::reserve of a table that nobody refers to.               *)
NewTable(n) ==
  IF ~ varying THEN NoTable
  ELSE [name |-> CHOOSE t \in Table : \A v \in DOMAIN vectors :
                                       vectors[v].locator.table.name # t,
        entries |-> n]

NewLocator(block, n) ==
  [size |-> 0, stride |-> IF varying THEN 0 ELSE 1, table |-> NewTable(n),
   last_element |-> IF varying THEN Pointer(block, 0) ELSE Null]

(* Faulty: the copy ends in the memory of the other locator.                *)
CopiedLocator_SameEnd(o, block, n) ==
  [o.locator EXCEPT !.size = IF varying THEN o.max_element_count ELSE @, !.table = NewTable(n)]

(* The locator of o for another allocation, with room for n elements: it    *)
(* counts as many entries as o has room for.                                *)
CopiedLocator(o, block, n) ==
  LET end == IF o.locator.last_element = Null THEN 0 ELSE o.locator.last_element[2]
  IN  IF ~ varying THEN o.locator
      ELSE [size |-> o.max_element_count, stride |-> 0, table |-> NewTable(n),
            last_element |-> Pointer(block, end)]

(* A locator that was moved from: the table is gone, not last_element_.     *)
ReleasedLocator(l) == IF varying THEN [l EXCEPT !.size = 0, !.table = NoTable] ELSE l

Set(v, members) ==
  [x \in DOMAIN vectors \cup {v} |-> IF x = v THEN members ELSE vectors[x]]

Units(n) == 0 .. n - 1
RawUnits(n) == [i \in Units(n) |-> Raw]

(* An address that is not in use.                                           *)
Fresh == CHOOSE b \in Block : b \notin DOMAIN heap

Allocate(h, b, allocator, cells) ==
  [c \in DOMAIN h \cup {b} |->
     IF c = b THEN [allocator |-> allocator, cells |-> cells] ELSE h[c]]

Deallocate(h, b) == [c \in DOMAIN h \ {b} |-> h[c]]

(* deallocate() with this allocator and this size is what the allocation    *)
(* was made with; it does nothing without a pointer.                        *)
MayDeallocate(m, allocator) ==
  m.block # Null => /\ m.block \in DOMAIN heap
                    /\ heap[m.block].allocator = allocator
                    /\ DOMAIN heap[m.block].cells = Units(m.units)

(* Every element of m is an object, wherever destruct() or a constructor    *)
(* looks for it.                                                            *)
ElementsExist(m) ==
  m.locator.size > 0 =>
    /\ m.block \in DOMAIN heap
    /\ \A i \in Units(m.locator.size) :
         i \in DOMAIN heap[m.block].cells /\ heap[m.block].cells[i] # Raw

(* The heap with a different content of m's elements.                       *)
Filled(h, m, cell) ==
  IF m.locator.size = 0 THEN h
  ELSE [h EXCEPT ![m.block].cells =
          [i \in DOMAIN @ |-> IF i < m.locator.size THEN cell ELSE @[i]]]

Destroyed(h, m) == Filled(h, m, Raw)

(* data_end() - memory_begin(), the bytes insert_into copies first: both    *)
(* are null without memory, only the former is in an empty vector.          *)
MayInsertFrom(m) ==
  /\ ElementsExist(m)
  /\ m.locator.size = 0 => m.block = Null

(* Faulty: the last element is left out.                                    *)
Inserted_OneShort(m, n) ==
  [i \in Units(n) |-> IF i + 1 < m.locator.size THEN heap[m.block].cells[i] ELSE Raw]

(* n units with the elements of m at their beginning.                       *)
Inserted(m, n) ==
  [i \in Units(n) |-> IF i < m.locator.size THEN heap[m.block].cells[i] ELSE Raw]

(* Faulty: the pointer stays with the vector that gives the memory away.    *)
Released_Kept(m) == m

(* What is left of a vector whose memory another one takes over.            *)
Released(m) == [m EXCEPT !.block = Null, !.locator = ReleasedLocator(m.locator)]

(* A vector that was moved from keeps its sizes, but not its memory.        *)
IsHollow(m) ==
  m.block = Null /\ (m.units > 0 \/ m.locator.size > 0 \/ m.locator.last_element # Null)

Undefined == status' = "undefined" /\ UNCHANGED <<type, vectors, heap>>
Defined == status' = status /\ UNCHANGED type

Usable(v) ==
  /\ status = "defined"
  /\ v \in DOMAIN vectors
  /\ "use_moved_from" \in Avoided => ~ IsHollow(vectors[v])

(* Vectors whose elements may go elsewhere.                                 *)
Insertable(m) ==
  /\ "copy_empty" \in Avoided => m.locator.size > 0 \/ m.block = Null
  /\ "copy_unfilled" \in Avoided /\ varying => m.locator.size = m.max_element_count

-----------------------------------------------------------------------------
Init ==
  /\ traits \in [copy : BOOLEAN, move : BOOLEAN, swap : BOOLEAN]
  /\ varying \in BOOLEAN
  /\ vectors = << >>
  /\ heap = << >>
  /\ status = "defined"

(* BasicContiguousVector(): the stride is 0 until another vector gives one. *)
ConstructDefault(v, allocator) ==
  /\ status = "defined"
  /\ v \notin DOMAIN vectors
  /\ vectors' = Set(v, Members(Null, 0, allocator, 0, NoLocator))
  /\ heap' = heap
  /\ Defined

Construct(v, n, allocator) ==
  /\ status = "defined"
  /\ v \notin DOMAIN vectors
  /\ heap' = Allocate(heap, Fresh, allocator, RawUnits(n))
  /\ vectors' = Set(v, Members(Fresh, n, allocator, n, NewLocator(Fresh, n)))
  /\ Defined

(* ~BasicContiguousVector(): destruct_if_owned(), ~AllocatorAwarePointer(). *)
Destruct(v) ==
  /\ status = "defined"
  /\ v \in DOMAIN vectors
  /\ LET m == vectors[v]
     IN  IF (m.block = Null \/ ElementsExist(m)) /\ MayDeallocate(m, m.allocator)
           THEN /\ vectors' = [x \in DOMAIN vectors \ {v} |-> vectors[x]]
                /\ heap' = Deallocate(heap, m.block)
                /\ Defined
           ELSE Undefined

(* Where emplace_back of the locator puts the next element.                 *)
End(m) ==
  IF varying THEN m.locator.last_element
  ELSE Pointer(m.block, m.locator.stride * m.locator.size)

(* A locator with one element more, at that place.                          *)
Appended(l, end) ==
  [l EXCEPT !.size = l.size + 1,
            !.last_element = IF varying THEN Pointer(end[1], end[2] + 1) ELSE l.last_element]

(* The locator after resize(0).                                             *)
Emptied(l, block) ==
  [l EXCEPT !.size = 0,
            !.last_element = IF varying THEN Pointer(block, 0) ELSE l.last_element]

(* An element that is constructed over another one, because all have the    *)
(* same address, counts as undefined.                                       *)
EmplaceBack(v, e) ==
  /\ Usable(v)
  /\ LET m == vectors[v]
         end == End(m)
     IN  /\ m.locator.size < m.max_element_count
         /\ IF /\ end # Null /\ end[1] \in DOMAIN heap
               /\ end[2] \in DOMAIN heap[end[1]].cells
               /\ heap[end[1]].cells[end[2]] = Raw
               /\ varying => m.locator.size < m.locator.table.entries
              THEN /\ heap' = [heap EXCEPT ![end[1]].cells[end[2]] = e]
                   /\ vectors' = Set(v, [m EXCEPT !.locator = Appended(m.locator, end)])
                   /\ Defined
              ELSE Undefined

(* resize(0) reads the new end from the table, where nobody may have        *)
(* written yet.                                                             *)
Clear(v) ==
  /\ Usable(v)
  /\ LET m == vectors[v]
     IN  /\ "clear_empty" \in Avoided /\ varying => m.locator.size > 0
         /\ IF ElementsExist(m) /\ (varying => m.locator.size > 0)
              THEN /\ heap' = Destroyed(heap, m)
                   /\ vectors' = Set(v, [m EXCEPT !.locator = Emptied(m.locator, m.block)])
                   /\ Defined
              ELSE Undefined

(* calculate_new_memory_size in units: the caller asks for as many bytes as *)
(* the VaryingSize parameters of n elements take.                           *)
NewUnits(m, n) == IF varying THEN n ELSE m.locator.stride * n

(* grow: the elements move to a new allocation, which reset() takes over.   *)
Reserve(v, n) ==
  /\ Usable(v)
  /\ LET m == vectors[v]
         units == NewUnits(m, n)
     IN  /\ n > m.max_element_count
         /\ "reserve_default" \in Avoided => varying \/ m.locator.stride > 0
         /\ Insertable(m)
         /\ IF MayInsertFrom(m) /\ MayDeallocate(m, m.allocator) /\ m.locator.size <= units
              THEN /\ heap' = Allocate(Deallocate(heap, m.block), Fresh, m.allocator,
                                       Inserted(m, units))
                   /\ vectors' = Set(v, Members(Fresh, units, m.allocator, n,
                                                CopiedLocator(m, Fresh, n)))
                   /\ Defined
              ELSE Undefined

-----------------------------------------------------------------------------
(* BasicContiguousVector(const BasicContiguousVector&): as many units as    *)
(* the other one has.  select_on_container_copy_construction is the         *)
(* allocator's own function and may return any allocator.                   *)
CopyConstruct(v, w, allocator) ==
  /\ Usable(w)
  /\ v \notin DOMAIN vectors
  /\ LET o == vectors[w]
     IN  /\ Insertable(o)
         /\ IF MayInsertFrom(o)
              THEN /\ heap' = Allocate(heap, Fresh, allocator, Inserted(o, o.units))
                   /\ vectors' = Set(v, Members(Fresh, o.units, allocator, o.max_element_count,
                                                CopiedLocator(o, Fresh, o.max_element_count)))
                   /\ Defined
              ELSE Undefined

(* BasicContiguousVector(BasicContiguousVector&&) = default: only the       *)
(* pointer is taken from the other vector, every number is copied.          *)
MoveConstruct(v, w) ==
  /\ status = "defined"
  /\ v \notin DOMAIN vectors /\ w \in DOMAIN vectors
  /\ vectors' = [x \in DOMAIN vectors \cup {v} |->
                   IF x = v THEN vectors[w]
                   ELSE IF x = w THEN Released(vectors[w])
                   ELSE vectors[x]]
  /\ heap' = heap
  /\ Defined

(* Faulty: memory of another allocator is kept when it is large enough.     *)
Replaces_TooSmallOnly(m, o) == m.units < o.units

(* Does memory_ = other.memory_ allocate?                                   *)
Replaces(m, o) ==
  \/ traits.copy /\ m.allocator # o.allocator
  \/ m.units < o.units

(* copy_assign: destruct, memory_ = other.memory_, insert_into.  The old    *)
(* memory goes back before the allocator is propagated.                     *)
CopyAssign(v, w) ==
  /\ v # w
  /\ Usable(v) /\ Usable(w)
  /\ LET m == vectors[v]
         o == vectors[w]
         allocator == IF traits.copy THEN o.allocator ELSE m.allocator
         block == IF Replaces(m, o) THEN Fresh ELSE m.block
         units == IF Replaces(m, o) THEN o.units ELSE m.units
         left  == IF Replaces(m, o) THEN Deallocate(heap, m.block)
                                    ELSE Destroyed(heap, m)
     IN  /\ Insertable(o)
         /\ IF /\ ElementsExist(m) /\ MayInsertFrom(o)
               /\ Replaces(m, o) => MayDeallocate(m, m.allocator)
               /\ o.locator.size > 0 => block # Null
              THEN /\ heap' = IF block = Null THEN left
                              ELSE Allocate(left, block,
                                            IF Replaces(m, o) THEN allocator
                                                              ELSE heap[block].allocator,
                                            Inserted(o, units))
                   /\ vectors' = Set(v, Members(block, units, allocator, o.max_element_count,
                                                CopiedLocator(o, block, o.max_element_count)))
                   /\ Defined
              ELSE Undefined

(* Does move assignment take the memory, or does it have to move the        *)
(* elements because its allocator cannot release the other one's memory?    *)
Steals(m, o) == traits.move \/ m.allocator = o.allocator

(* What becomes of m when its memory_ is move-assigned from o's: the        *)
(* allocator comes along only if it propagates.                             *)
TakenOver(m, o) == [o EXCEPT !.allocator = IF traits.move THEN o.allocator ELSE m.allocator]

(* Faulty: the elements go to memory that is too small for them.            *)
Outgrows_Never(m, o) == FALSE

Outgrows(m, o) == o.units > m.units

(* steal: destruct, then take over memory_, its allocator only if it        *)
(* propagates; the other vector is left hollow.                             *)
Steal(v, w) ==
  LET m == vectors[v]
      o == vectors[w]
  IN  IF ElementsExist(m) /\ MayDeallocate(m, m.allocator)
        THEN /\ heap' = Deallocate(heap, m.block)
             /\ vectors' = [vectors EXCEPT ![v] = TakenOver(m, o), ![w] = Released(o)]
             /\ Defined
        ELSE Undefined

(* The elements are moved one by one, into an allocation of as many units   *)
(* as the other vector takes BYTES, or into the memory the vector has.      *)
MoveElements(v, w) ==
  LET m == vectors[v]
      o == vectors[w]
      emptied == Filled(heap, o, Moved)
      block == IF Outgrows(m, o) THEN Fresh ELSE m.block
      locator == CopiedLocator(o, block, o.max_element_count)
  IN  /\ Insertable(o)
      /\ Outgrows(m, o) => o.units * UnitBytes <= MaxUnits
      /\ IF /\ ElementsExist(m) /\ MayInsertFrom(o)
            /\ Outgrows(m, o) => MayDeallocate(m, m.allocator)
            /\ o.locator.size > 0 => block # Null
           THEN /\ IF Outgrows(m, o)
                     THEN /\ heap' = Allocate(Deallocate(emptied, m.block), Fresh, m.allocator,
                                              Inserted(o, o.units * UnitBytes))
                          /\ vectors' = Set(v, Members(Fresh, o.units * UnitBytes, m.allocator,
                                                       o.max_element_count, locator))
                     ELSE /\ heap' = IF m.block = Null THEN emptied
                                     ELSE [emptied EXCEPT ![m.block].cells = Inserted(o, m.units)]
                          /\ vectors' = Set(v, Members(m.block, m.units, m.allocator,
                                                       o.max_element_count, locator))
                /\ Defined
           ELSE Undefined

MoveAssign(v, w) ==
  /\ v # w
  /\ Usable(v) /\ w \in DOMAIN vectors
  /\ ~ Steals(vectors[v], vectors[w]) => Usable(w)
  /\ IF Steals(vectors[v], vectors[w]) THEN Steal(v, w) ELSE MoveElements(v, w)

(* swap.  For memory_ std::swap is a better match than detail::swap, so it  *)
(* is moved to and fro, and the allocators go along if they propagate on    *)
(* MOVE assignment.  A caller swaps vectors with unequal allocators only if *)
(* those propagate on swap.                                                 *)
Swap(v, w) ==
  /\ status = "defined"
  /\ v # w
  /\ v \in DOMAIN vectors /\ w \in DOMAIN vectors
  /\ LET m == vectors[v]
         o == vectors[w]
     IN  /\ m.allocator # o.allocator =>
              /\ traits.swap
              /\ "swap_allocators" \in Avoided => traits.move
         /\ vectors' = [vectors EXCEPT ![v] = TakenOver(m, o), ![w] = TakenOver(o, m)]
  /\ heap' = heap
  /\ Defined

Next ==
  \E v \in Vector :
    \/ \E a \in Allocator : ConstructDefault(v, a)
    \/ \E n \in 0 .. MaxCapacity, a \in Allocator : Construct(v, n, a)
    \/ Destruct(v)
    \/ \E e \in Value : EmplaceBack(v, e)
    \/ Clear(v)
    \/ \E n \in 1 .. MaxCapacity : Reserve(v, n)
    \/ \E w \in Vector, a \in Allocator : CopyConstruct(v, w, a)
    \/ \E w \in Vector : MoveConstruct(v, w)
    \/ \E w \in Vector : CopyAssign(v, w)
    \/ \E w \in Vector : MoveAssign(v, w)
    \/ \E w \in Vector : Swap(v, w)

Spec == Init /\ [][Next]_vars

-----------------------------------------------------------------------------
Owners(b) == {v \in DOMAIN vectors : vectors[v].block = b}

(* Every allocation has one owner: no vector frees memory of another one,   *)
(* none is freed twice and none is forgotten, and no vector records its     *)
(* elements in the table of another one, however vectors are copied, moved  *)
(* and swapped (allocator.hpp:60-124, vector.hpp:301-307, 485-551,          *)
(* unmanagedVector.hpp:26-39).                                              *)
SoleOwner ==
  /\ \A v, w \in DOMAIN vectors :
       v # w /\ vectors[v].locator.table.name = vectors[w].locator.table.name =>
         vectors[v].locator.table = NoTable
  /\ \A v \in DOMAIN vectors : vectors[v].block \in DOMAIN heap \cup {Null}
  /\ \A b \in DOMAIN heap :
       \E v \in DOMAIN vectors : Owners(b) = {v}

(* A vector releases its memory with an allocator equal to the one that     *)
(* acquired it, and with the same number of units (allocator.hpp:49-55;     *)
(* parameter.hpp:46, "used to acquire/release memory").                     *)
ReleasedByItsAllocator ==
  \A v \in DOMAIN vectors : MayDeallocate(vectors[v], vectors[v].allocator)

(* In the memory a vector owns, objects are alive in exactly the places its *)
(* locator says, the next one goes behind them, and memory and table have   *)
(* room for max_element_count_ of them (vector.hpp:395-428, 485-551,        *)
(* elementLocator.hpp:46-56).                                               *)
ObjectsAreElements ==
  \A v \in DOMAIN vectors :
    LET m == vectors[v]
    IN  m.block \in DOMAIN heap =>
          /\ m.locator.size <= m.max_element_count /\ m.max_element_count <= m.units
          /\ varying => m.max_element_count <= m.locator.table.entries
          /\ End(m) = <<m.block, m.locator.size>>
          /\ \A i \in DOMAIN heap[m.block].cells :
               heap[m.block].cells[i] # Raw <=> i < m.locator.size

(* The calls a caller makes have defined behaviour.                         *)
NeverUndefined == status = "defined"

-----------------------------------------------------------------------------
(* What a caller finds in a vector.                                         *)
Contents(m) ==
  IF IsHollow(m) THEN Unspecified
  ELSE IF m.locator.size = 0 THEN << >>
  ELSE LET s == [k \in 1 .. m.locator.size |-> heap[m.block].cells[k - 1]]
       IN  IF \E k \in DOMAIN s : s[k] = Moved THEN Unspecified ELSE s

contents == [v \in DOMAIN vectors |-> Contents(vectors[v])]

Values == INSTANCE VectorValues WITH value <- contents

(* Vectors have values: a copy has the elements of its source and nothing   *)
(* in common with it, a move hands them over, a swap exchanges them, and no *)
(* call changes a vector it was not given (vector.hpp:131-157, 301-307).    *)
ImplementsValues == Values!ValuesSpec
=============================================================================
