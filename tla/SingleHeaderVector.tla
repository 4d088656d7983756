-------------------------- MODULE SingleHeaderVector --------------------------
(***************************************************************************)
(* The vector of the single header cntgs.hpp, an older version of the      *)
(* library that is shipped next to the headers in cntgs/.  Several vectors *)
(* are constructed, filled, erased from, copied, moved, assigned, swapped  *)
(* and destroyed.                                                          *)
(*                                                                         *)
(* A vector locates its elements in one of two ways.  With plain and       *)
(* FixedSize parameters it keeps a pointer to the first one, start_, and   *)
(* counts them; with a VaryingSize parameter it keeps a std::vector of     *)
(* offsets and a pointer to the end of the last one, last_element_.        *)
(* Either pointer, edge below, leads into memory_ and has to follow it     *)
(* wherever it goes.  A pointer is a block and an offset in it.            *)
(*                                                                         *)
(* Memory is counted in units of StorageElementType.  A unit holds a part  *)
(* of an element: its value and which part of it.  With a VaryingSize      *)
(* parameter part 0 is the size in front of the objects.  Whether objects  *)
(* can be copied as bytes, and which traits allocators have, is chosen     *)
(* once, in Init.  Avoided names the calls the caller keeps away from.     *)
(***************************************************************************)
EXTENDS Integers, Sequences

CONSTANTS
  Vector,        \* the vectors of the program
  Value,         \* what an element can hold
  Parts,         \* Parts[v]: the units of v behind a table of offsets
  Allocator,     \* the allocators, of one type, that are not equal
  Block,         \* names of allocations, one more than there are vectors
  Null,          \* the pointer of a vector without memory
  Raw,           \* a unit outside every element
  Moved,         \* an object that was moved from and is still alive
  Unspecified,   \* contents of a vector that was moved from
  UnitBytes,     \* alignof(StorageElementType), sizeof a table entry
  Kinds,         \* the kinds of parameters to look at
  Traits,        \* the traits of allocators to look at
  MaxCapacity,   \* bound on max_element_count, of the model only
  MaxVarying,    \* bound on varying_size_bytes in units, of the model only
  MaxUnits,      \* bound on the units of one allocation, of the model only
  Avoided        \* calls the caller does not make

Calls == {"use_moved_from", "reserve_default", "erase_nothing", "erase_back",
          "erase_narrow", "relocate", "move_into_smaller", "propagating_move",
          "reserve_too_few_bytes", "grow_table", "copy_tables", "compare_sizes",
          "compare_gaps"}

ASSUME NamesAssumption ==
  /\ Null \notin Block /\ Null \notin Block \X Nat
  /\ Moved \notin Value /\ Raw \notin Value \cup {Moved}
  /\ Raw \notin (Value \cup {Moved}) \X Nat
ASSUME UnspecifiedAssumption == Unspecified \notin Seq(Value)
(* However many vectors have memory, there is a name left for another one.  *)
ASSUME FreshAssumption ==
  \A f \in [Vector -> Block \cup {Null}] : Block \ {f[v] : v \in Vector} # {}
ASSUME SizesAssumption ==
  /\ Parts \in [Value -> Nat \ {0}]
  /\ MaxCapacity \in Nat /\ MaxVarying \in Nat /\ MaxUnits \in Nat
  /\ UnitBytes \in Nat \ {0}
ASSUME KindAssumption ==
  /\ Kinds \subseteq [varying : BOOLEAN, nontrivial : BOOLEAN]
  /\ Traits \subseteq [copy : BOOLEAN, move : BOOLEAN, swap : BOOLEAN]
ASSUME CallAssumption == Avoided \subseteq Calls

VARIABLES
  kind,      \* what the compiler knows of the parameters
  traits,    \* propagate_on_container_copy_assignment, _move_assignment, _swap
  vectors,   \* the members of every vector that exists
  heap,      \* the allocations: who allocated them, what each unit holds
  status,    \* "defined", or what ended that: "undefined", "misreleased"
  contents   \* what a caller finds in every vector, see Found

members == <<vectors, heap, status>>
vars == <<kind, traits, members, contents>>

Varying == kind.varying
NonTrivial == kind.nontrivial

-----------------------------------------------------------------------------
(* Allocations.                                                             *)
UnitsOf(n) == 0 .. n - 1

Fresh == CHOOSE b \in Block : b \notin DOMAIN heap

Allocate(h, b, allocator, cells) ==
  [c \in DOMAIN h \cup {b} |->
     IF c = b THEN [allocator |-> allocator, cells |-> cells] ELSE h[c]]

Deallocate(h, b) == [c \in DOMAIN h \ {b} |-> h[c]]

MayDeallocate(m, allocator) ==
  m.block # Null => /\ m.block \in DOMAIN heap
                    /\ heap[m.block].allocator = allocator
                    /\ DOMAIN heap[m.block].cells = UnitsOf(m.units)

-----------------------------------------------------------------------------
(* The elements of one vector m.                                            *)
At(block, offset) == IF block = Null THEN Null ELSE <<block, offset>>

Size(m) == IF Varying THEN Len(m.table) ELSE m.element_count

Width(v) == IF Varying THEN Parts[v] ELSE 1

(* element_address(i), data_end(): the former counts from memory_begin()    *)
(* or from start_, the latter is last_element_ or behind the last stride.   *)
Base(m) == IF Varying \/ m.edge = Null THEN m.block ELSE m.edge[1]
Offset(m, i) == IF Varying THEN m.table[i + 1] ELSE m.edge[2] + m.stride * i

(* data_end() - memory_begin()                                              *)
Used(m) ==
  IF m.edge = Null THEN 0
  ELSE IF Varying THEN m.edge[2] ELSE m.stride * m.element_count

Cell(m, c) ==
  IF Base(m) \in DOMAIN heap /\ c \in DOMAIN heap[Base(m)].cells
    THEN heap[Base(m)].cells[c] ELSE Raw

(* All of the elements are in memory that is allocated.                     *)
IsBacked(m) ==
  Base(m) \in DOMAIN heap /\ UnitsOf(Used(m)) \subseteq DOMAIN heap[Base(m)].cells

(* What element i is: a value, Moved, or Raw if there is no whole element.  *)
ElementAt(m, i) ==
  LET a == Offset(m, i)
      v == Cell(m, a)[1]
  IN  IF Cell(m, a) = Raw THEN Raw
      ELSE IF v = Moved \/ \A k \in UnitsOf(Width(v)) : Cell(m, a + k) = <<v, k>> THEN v
      ELSE Raw

Extent(m, i) ==
  Offset(m, i) .. Offset(m, i)
    + (IF ElementAt(m, i) \in Value THEN Width(ElementAt(m, i)) ELSE 1) - 1

(* Constructors and destructors that run on elements i \in S find them.     *)
Exist(m, S) == NonTrivial => \A i \in S : ElementAt(m, i) # Raw
Elements(m) == UnitsOf(Size(m))

(* Faulty: the objects stay.                                                *)
Destroyed_Never(h, m, S) == h

(* The heap after the elements in S: destroyed, or bytes nobody may read.   *)
Destroyed(h, m, S) ==
  IF S = {} \/ Base(m) \notin DOMAIN h THEN h
  ELSE [h EXCEPT ![Base(m)].cells =
         [c \in DOMAIN @ |-> IF \E i \in S : c \in Extent(m, i) THEN Raw ELSE @[c]]]

(* A moved-from vector whose numbers still describe what it gave away.      *)
IsHollow(m) ==
  \/ m.block = Null /\ m.edge # Null
  \/ Varying /\ m.table = << >> /\ m.edge # At(m.block, 0)

(* What a caller finds in m, and in every vector.                           *)
Contents(m) ==
  IF IsHollow(m) \/ \E i \in Elements(m) : ElementAt(m, i) = Moved THEN Unspecified
  ELSE [k \in 1 .. Size(m) |-> ElementAt(m, k - 1)]

Found == [v \in DOMAIN vectors |-> Contents(vectors[v])]

-----------------------------------------------------------------------------
(* Faulty: start_ and last_element_ stay behind.                            *)
TriviallyCopied_Behind(m, block) == [m EXCEPT !.block = block]

(* trivially_copy_into: how m counts its elements once they are in block.   *)
TriviallyCopied(m, block) ==
  [m EXCEPT !.block = block, !.edge = <<block, IF Varying THEN Used(m) ELSE 0>>]

(* n units that begin with the elements of m.  The bytes are copied; then   *)
(* objects that cannot be copied as bytes are constructed over them.        *)
Copied(m, n) == [c \in UnitsOf(n) |-> IF c < Used(m) THEN Cell(m, c) ELSE Raw]

MayCopy(m) == (Used(m) > 0 => IsBacked(m)) /\ Exist(m, Elements(m))

(* insert_into moves: the elements are first located by a new locator that  *)
(* takes the table away from the vector it then looks for elements in.  So  *)
(* no object behind a table is constructed or destroyed.                    *)
Relocates(m) == Varying /\ NonTrivial /\ Size(m) > 0

Set(v, m) == [x \in DOMAIN vectors \cup {v} |-> IF x = v THEN m ELSE vectors[x]]

Undefined == status' = "undefined" /\ UNCHANGED <<vectors, heap>>

(* Memory is returned with an allocator that did not allocate it.           *)
Misreleased == status' = "misreleased" /\ UNCHANGED <<vectors, heap>>
Defined == status' = status

Usable(v) ==
  /\ status = "defined"
  /\ v \in DOMAIN vectors
  /\ "use_moved_from" \in Avoided => contents[v] # Unspecified

(* clear(), and the target of an assignment: with a table, or nothing to    *)
(* destroy, a vector that was moved from can get a new value.               *)
Assignable(v) ==
  /\ status = "defined"
  /\ v \in DOMAIN vectors
  /\ "use_moved_from" \in Avoided =>
       ~ IsHollow(vectors[v]) \/ Varying \/ ~ NonTrivial

-----------------------------------------------------------------------------
Init ==
  /\ kind \in Kinds
  /\ traits \in Traits
  /\ vectors = << >>
  /\ heap = << >>
  /\ status = "defined"
  /\ contents = << >>

(* BasicContiguousVector(): the stride is 0 until another vector gives one. *)
ConstructDefault(v, allocator) ==
  /\ status = "defined"
  /\ v \notin DOMAIN vectors
  /\ vectors' = Set(v, [max_element_count |-> 0, block |-> Null, units |-> 0,
                        allocator |-> allocator, element_count |-> 0, stride |-> 0,
                        table |-> << >>, edge |-> Null])
  /\ heap' = heap
  /\ Defined

(* calculate_needed_memory_size in units: the size of a VaryingSize         *)
(* parameter is part of every element.                                      *)
NeededUnits(n, varying, stride) == IF Varying THEN n + varying ELSE stride * n

Construct(v, n, varying, allocator) ==
  /\ status = "defined"
  /\ v \notin DOMAIN vectors
  /\ LET units == NeededUnits(n, varying, 1)
     IN  /\ vectors' = Set(v, [max_element_count |-> n, block |-> Fresh, units |-> units,
                               allocator |-> allocator, element_count |-> 0,
                               stride |-> IF Varying THEN 0 ELSE 1,
                               table |-> << >>, edge |-> <<Fresh, 0>>])
         /\ heap' = Allocate(heap, Fresh, allocator, [c \in UnitsOf(units) |-> Raw])
  /\ Defined

(* ~BasicContiguousVector(): destruct_if_owned(), ~AllocatorAwarePointer(). *)
Destruct(v) ==
  /\ status = "defined"
  /\ v \in DOMAIN vectors
  /\ LET m == vectors[v]
     IN  IF (m.block # Null => Exist(m, Elements(m))) /\ MayDeallocate(m, m.allocator)
           THEN /\ vectors' = [x \in DOMAIN vectors \ {v} |-> vectors[x]]
                /\ heap' = Deallocate(heap, m.block)
                /\ Defined
           ELSE Undefined

(* m once it has located one more element, e at a.                          *)
Appended(m, a, e) ==
  IF Varying
    THEN [m EXCEPT !.table = Append(@, a), !.edge = <<@[1], a + Width(e)>>]
    ELSE [m EXCEPT !.element_count = @ + 1]

(* The caller leaves room for one more element: the code does not check.    *)
EmplaceBack(v, e) ==
  /\ Usable(v)
  /\ LET m == vectors[v]
         a == Used(m)
         units == a .. a + Width(e) - 1
     IN  /\ Size(m) < m.max_element_count
         /\ a + Width(e) <= m.units
         /\ IF \/ m.edge = Null \/ m.edge[1] \notin DOMAIN heap
               \/ ~ units \subseteq DOMAIN heap[m.edge[1]].cells
              THEN Undefined
              ELSE /\ heap' = [heap EXCEPT ![m.edge[1]].cells =
                        [c \in DOMAIN @ |-> IF c \in units THEN <<e, c - a>> ELSE @[c]]]
                   /\ vectors' = Set(v, Appended(m, a, e))
                   /\ Defined

-----------------------------------------------------------------------------
(* resize(n) where the entries of the table are as given.                   *)
Resized(m, table, n) ==
  IF Varying
    THEN [m EXCEPT !.table = SubSeq(table, 1, n), !.edge = At(m.block, table[n + 1])]
    ELSE [m EXCEPT !.element_count = n]

(* resize reads the entry behind those that stay.                           *)
MayResize(m, n) == Varying => n < Len(m.table)

(* Faulty: the entries move and the offsets in them do not.                 *)
ShiftedTable_SameOffsets(m, from, to) ==
  [k \in DOMAIN m.table |->
     IF k > to /\ k + (from - to) <= Len(m.table) THEN m.table[k + (from - to)] ELSE m.table[k]]

(* The table when the elements from from on have gone to to.  emplace_at    *)
(* notes where each moved element ends, in the entry behind it; for bytes   *)
(* only the entries are shifted.                                            *)
ShiftedTable(m, from, to) ==
  LET entries == IF NonTrivial THEN Append(m.table, m.edge[2]) ELSE m.table
      gap     == entries[from + 1] - entries[to + 1]
  IN  [k \in DOMAIN m.table |->
         IF k > to /\ k + (from - to) <= Len(entries)
              /\ (NonTrivial => k > to + 1)
           THEN entries[k + (from - to)] - gap ELSE m.table[k]]

(* move_elements_forward: everything from element from up to data_end()     *)
(* goes down to element to; objects are moved one by one and the sources    *)
(* destroyed.                                                               *)
MovedForward(h, m, from, to) ==
  LET source == Offset(m, from)
      target == Offset(m, to)
      end    == IF Varying THEN m.edge[2] ELSE Offset(m, Size(m))
      gap    == source - target
  IN  [h EXCEPT ![Base(m)].cells =
         [c \in DOMAIN @ |->
            IF c >= target /\ c + gap < end THEN @[c + gap]
            ELSE IF c >= target /\ c < end THEN Raw
            ELSE @[c]]]

(* Whether an erase frees fewer units than it has to move.  As bytes: than  *)
(* the new last elements take, whose end resize reads from an old entry of  *)
(* the table.  As objects: than some moved element takes.                   *)
Narrow(m, from, to) ==
  /\ Varying /\ from < Size(m)
  /\ LET gap == Offset(m, from) - Offset(m, to)
     IN  IF NonTrivial
           THEN \E i \in from .. Size(m) - 1 : Width(ElementAt(m, i)) > gap
           ELSE m.edge[2] - Offset(m, Size(m) - (from - to)) > gap

(* pop_back, clear and both versions of erase: the elements first .. last-1 *)
(* are destroyed, moves says whether those behind them are moved, and the   *)
(* locator shrinks.                                                         *)
EraseFrom(v, first, last, moves) ==
  LET m == vectors[v]
      n == Size(m) - (last - first)
  IN  IF \/ ~ Exist(m, Elements(m))
         \/ ~ MayResize(m, n)
         \/ moves /\ Varying /\ last = Size(m) /\ ~ NonTrivial
         \/ moves /\ NonTrivial /\ Narrow(m, last, first)
         \/ Elements(m) # {} /\ ~ IsBacked(m)
        THEN Undefined
        ELSE LET destroyed == Destroyed(heap, m, first .. last - 1)
             IN  /\ heap' = IF moves /\ last < Size(m)
                              THEN MovedForward(destroyed, m, last, first) ELSE destroyed
                 /\ vectors' = Set(v, Resized(m, IF moves /\ Varying /\ last < Size(m)
                                                   THEN ShiftedTable(m, last, first)
                                                   ELSE m.table, n))
                 /\ Defined

PopBack(v) ==
  /\ Usable(v)
  /\ Size(vectors[v]) > 0
  /\ EraseFrom(v, Size(vectors[v]) - 1, Size(vectors[v]), FALSE)

Erase(v, position) ==
  /\ Usable(v)
  /\ position < Size(vectors[v])
  /\ "erase_back" \in Avoided => NonTrivial \/ ~ Varying \/ position + 1 < Size(vectors[v])
  /\ "erase_narrow" \in Avoided => ~ Narrow(vectors[v], position + 1, position)
  /\ EraseFrom(v, position, position + 1, TRUE)

EraseRange(v, first, last) ==
  /\ Usable(v)
  /\ first <= last /\ last <= Size(vectors[v])
  /\ "erase_nothing" \in Avoided => first < last \/ ~ Varying
  /\ "erase_narrow" \in Avoided => first = last \/ ~ Narrow(vectors[v], last, first)
  /\ EraseFrom(v, first, last, last < Size(vectors[v]) /\ first # last)

Clear(v) ==
  /\ Assignable(v)
  /\ "use_moved_from" \in Avoided => ~ IsHollow(vectors[v])
  /\ "erase_nothing" \in Avoided => Size(vectors[v]) > 0 \/ ~ Varying
  /\ EraseFrom(v, 0, Size(vectors[v]), FALSE)

(* emplace of elements that are bytes and have one size: e is appended, the *)
(* elements from position on are moved up over it, so that it needs room    *)
(* for one more, and its copy behind the last one is copied into the gap.   *)
Emplace(v, position, e) ==
  /\ ~ Varying /\ ~ NonTrivial
  /\ Usable(v)
  /\ LET m == vectors[v]
     IN  /\ position < m.element_count
         /\ m.element_count + 2 <= m.units
         /\ m.element_count < m.max_element_count
         /\ IF IsBacked(m) /\ UnitsOf(m.element_count + 2) \subseteq DOMAIN heap[Base(m)].cells
              THEN /\ heap' = [heap EXCEPT ![Base(m)].cells =
                        [c \in DOMAIN @ |->
                           IF c = position THEN <<e, 0>>
                           ELSE IF c > position /\ c <= m.element_count THEN @[c - 1]
                           ELSE @[c]]]
                   /\ vectors' = Set(v, [m EXCEPT !.element_count = @ + 1])
                   /\ Defined
              ELSE Undefined

-----------------------------------------------------------------------------
(* reserve: grow.  The new allocation gets as many units as the elements    *)
(* take bytes.                                                              *)
Reserve(v, n, varying) ==
  /\ Usable(v)
  /\ LET m     == vectors[v]
         units == UnitBytes * NeededUnits(n, varying, m.stride)
     IN  /\ n > m.max_element_count
         /\ units <= MaxUnits
         /\ "reserve_default" \in Avoided => Varying \/ m.stride > 0
         /\ "relocate" \in Avoided => ~ Relocates(m)
         /\ "reserve_too_few_bytes" \in Avoided => Used(m) <= units
         /\ IF MayCopy(m) /\ ~ Relocates(m) /\ Used(m) <= units
                 /\ NeededUnits(n, varying, m.stride) >= n /\ MayDeallocate(m, m.allocator)
              THEN /\ heap' = Allocate(Deallocate(heap, m.block), Fresh, m.allocator,
                                       Copied(m, units))
                   /\ vectors' = Set(v, [TriviallyCopied(m, Fresh) EXCEPT
                                           !.max_element_count = n, !.units = units])
                   /\ Defined
              ELSE Undefined

(* BasicContiguousVector(const BasicContiguousVector&).  The allocator is   *)
(* what select_on_container_copy_construction returns.                      *)
CopyConstruct(v, w, allocator) ==
  /\ Usable(w)
  /\ v \notin DOMAIN vectors
  /\ LET o == vectors[w]
     IN  IF MayCopy(o)
           THEN /\ heap' = Allocate(heap, Fresh, allocator, Copied(o, o.units))
                /\ vectors' = Set(v, [TriviallyCopied(o, Fresh) EXCEPT !.allocator = allocator])
                /\ Defined
           ELSE Undefined

(* Faulty: the pointer stays with the vector that gives its memory away.    *)
Released_Kept(m) == [m EXCEPT !.table = << >>]

(* A vector after another one took its memory and, with a table, that.      *)
Released(m) == [m EXCEPT !.block = Null, !.table = << >>]

MoveConstruct(v, w) ==
  /\ status = "defined"
  /\ v \notin DOMAIN vectors /\ w \in DOMAIN vectors
  /\ vectors' = [x \in DOMAIN vectors \cup {v} |->
                   IF x = v THEN vectors[w]
                   ELSE IF x = w THEN Released(vectors[w]) ELSE vectors[x]]
  /\ heap' = heap
  /\ Defined

(* Faulty: without memory of its own the vector has enough of it.           *)
Replaces_TooSmallOnly(m, o) ==
  \/ traits.copy /\ m.allocator # o.allocator
  \/ m.units < o.units

Replaces_AnyAllocator(m, o) == m.units < o.units \/ m.block = Null

(* Does memory_ = other.memory_ allocate?                                   *)
Replaces(m, o) ==
  \/ traits.copy /\ m.allocator # o.allocator
  \/ m.units < o.units
  \/ m.block = Null

(* copy_assign: destruct, memory_ = other.memory_, insert_into.             *)
CopyAssign(v, w) ==
  /\ v # w
  /\ Assignable(v) /\ Usable(w)
  /\ LET m == vectors[v]
         o == vectors[w]
         allocator == IF traits.copy THEN o.allocator ELSE m.allocator
         replaces  == Replaces(m, o)
         block     == IF replaces THEN Fresh ELSE m.block
         units     == IF replaces THEN o.units ELSE m.units
     IN  IF /\ Exist(m, Elements(m)) /\ MayCopy(o)
            /\ replaces => MayDeallocate(m, m.allocator)
            /\ block # Null
           THEN /\ heap' = IF replaces
                             THEN Allocate(Deallocate(heap, m.block), block, allocator,
                                           Copied(o, units))
                             ELSE [heap EXCEPT ![block].cells = Copied(o, units)]
                /\ vectors' = Set(v, [TriviallyCopied(o, block) EXCEPT
                                        !.units = units, !.allocator = allocator])
                /\ Defined
           ELSE Undefined

-----------------------------------------------------------------------------
Steals(m, o) == traits.move \/ m.allocator = o.allocator

(* steal: memory_ = std::move(other.memory_) propagates the allocator and   *)
(* then releases the old memory with what it now has.                       *)
Steal(v, w) ==
  LET m == vectors[v]
      o == vectors[w]
      allocator == IF traits.move THEN o.allocator ELSE m.allocator
  IN  /\ "propagating_move" \in Avoided => m.block = Null \/ m.allocator = allocator
      /\ IF ~ Exist(m, Elements(m)) THEN Undefined
         ELSE IF ~ MayDeallocate(m, allocator) THEN Misreleased
         ELSE /\ heap' = Deallocate(heap, m.block)
              /\ vectors' = [vectors EXCEPT
                   ![v] = [o EXCEPT !.allocator = allocator],
                   ![w] = Released(o)]
              /\ Defined

(* memory_consumption() of the other vector, whose table is already gone,   *)
(* and of this one, whose table is not.                                     *)
Outgrows(m, o) == o.units * UnitBytes > (m.units + Len(m.table)) * UnitBytes

(* The elements are moved into an allocation of as many units as the other  *)
(* vector takes bytes, or into the memory the vector has.                   *)
MoveElements(v, w) ==
  LET m == vectors[v]
      o == vectors[w]
      grows == Outgrows(m, o)
      units == IF grows THEN o.units * UnitBytes ELSE m.units
      block == IF grows THEN Fresh ELSE m.block
      left  == IF NonTrivial /\ ~ Varying /\ Base(o) \in DOMAIN heap
                 THEN [heap EXCEPT ![Base(o)].cells =
                         [c \in DOMAIN @ |-> IF c < Used(o) THEN <<Moved, 0>> ELSE @[c]]]
                 ELSE heap
  IN  /\ units <= MaxUnits
      /\ "relocate" \in Avoided => ~ Relocates(o)
      /\ "move_into_smaller" \in Avoided => grows \/ m.units >= o.units
      /\ "use_moved_from" \in Avoided => m.block # Null \/ grows
      /\ IF /\ Exist(m, Elements(m)) /\ MayCopy(o) /\ ~ Relocates(o)
            /\ grows => MayDeallocate(m, m.allocator)
            /\ block # Null /\ Used(o) <= units
           THEN /\ heap' = IF grows
                             THEN Allocate(Deallocate(left, m.block), block, m.allocator,
                                           Copied(o, units))
                             ELSE [left EXCEPT ![block].cells = Copied(o, units)]
                /\ vectors' = [vectors EXCEPT
                     ![v] = [TriviallyCopied(o, block) EXCEPT
                               !.units = units, !.allocator = m.allocator],
                     ![w] = [o EXCEPT !.table = << >>]]
                /\ Defined
           ELSE Undefined

MoveAssign(v, w) ==
  /\ v # w
  /\ Assignable(v) /\ w \in DOMAIN vectors
  /\ ~ Steals(vectors[v], vectors[w]) => Usable(w)
  /\ IF Steals(vectors[v], vectors[w]) THEN Steal(v, w) ELSE MoveElements(v, w)

(* swap: detail::swap for memory_, which exchanges the allocators if they   *)
(* propagate.  Otherwise the caller swaps only if they are equal.           *)
Swap(v, w) ==
  /\ status = "defined"
  /\ v # w
  /\ v \in DOMAIN vectors /\ w \in DOMAIN vectors
  /\ vectors[v].allocator # vectors[w].allocator => traits.swap
  /\ vectors' = [vectors EXCEPT ![v] = vectors[w], ![w] = vectors[v]]
  /\ heap' = heap
  /\ Defined

Call ==
  \E v \in Vector :
    \/ \E a \in Allocator : ConstructDefault(v, a)
    \/ \E n \in 0 .. MaxCapacity, varying \in 0 .. MaxVarying, a \in Allocator :
         (Varying \/ varying = 0) /\ Construct(v, n, varying, a)
    \/ Destruct(v)
    \/ \E e \in Value : EmplaceBack(v, e)
    \/ PopBack(v)
    \/ Clear(v)
    \/ \E position \in 0 .. MaxCapacity : Erase(v, position)
    \/ \E first, last \in 0 .. MaxCapacity : EraseRange(v, first, last)
    \/ \E position \in 0 .. MaxCapacity, e \in Value : Emplace(v, position, e)
    \/ \E n \in 1 .. MaxCapacity, varying \in 0 .. MaxVarying :
         (Varying \/ varying = 0) /\ Reserve(v, n, varying)
    \/ \E w \in Vector, a \in Allocator : CopyConstruct(v, w, a)
    \/ \E w \in Vector : MoveConstruct(v, w)
    \/ \E w \in Vector : CopyAssign(v, w)
    \/ \E w \in Vector : MoveAssign(v, w)
    \/ \E w \in Vector : Swap(v, w)

Next == UNCHANGED <<kind, traits>> /\ Call /\ contents' = Found'

Spec == Init /\ [][Next]_vars

-----------------------------------------------------------------------------
(* Every allocation has one owner, however vectors are copied, moved and    *)
(* swapped (cntgs.hpp:811-883, 3851-3857, 4026-4085).                       *)
SoleOwner ==
  /\ \A v \in DOMAIN vectors : vectors[v].block \in DOMAIN heap \cup {Null}
  /\ \A b \in DOMAIN heap :
       \E v \in DOMAIN vectors : {w \in DOMAIN vectors : vectors[w].block = b} = {v}

(* A vector releases its memory with the allocator and the number of units  *)
(* it acquired it with (cntgs.hpp:773-779, 824-883), and it did so whenever *)
(* an assignment took the memory of another one (cntgs.hpp:4026-4032).      *)
ReleasedByItsAllocator ==
  /\ status # "misreleased"
  /\ \A v \in DOMAIN vectors : MayDeallocate(vectors[v], vectors[v].allocator)

(* start_ and last_element_ follow memory_ through every reallocation, copy *)
(* and move, and never lead behind its end (cntgs.hpp:3088-3112,            *)
(* 3198-3214).                                                              *)
EdgeInOwnMemory ==
  \A v \in DOMAIN vectors :
    LET m == vectors[v]
    IN  m.block \in DOMAIN heap =>
          m.edge # Null /\ m.edge[1] = m.block /\ Used(m) <= m.units

(* In the memory a vector owns, objects with destructors are alive in       *)
(* exactly the places where it locates its elements.                        *)
ObjectsAreElements ==
  NonTrivial =>
    \A v \in DOMAIN vectors :
      LET m == vectors[v]
      IN  m.block \in DOMAIN heap =>
            /\ Exist(m, Elements(m))
            /\ \A c \in DOMAIN heap[m.block].cells :
                 \/ heap[m.block].cells[c] = Raw
                 \/ \E i \in Elements(m) : c \in Extent(m, i)

(* The calls a caller makes have defined behaviour.                         *)
NeverUndefined == status = "defined"

-----------------------------------------------------------------------------
Values == INSTANCE VectorValues WITH value <- contents

(* The vector of the single header promises what the one of cntgs/ does:    *)
(* each has a value of its own, and every call changes the values of the    *)
(* vectors it was given as a sequence would change.                         *)
ImplementsValues == Values!ValuesSpec
=============================================================================
