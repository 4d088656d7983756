--------------------------- MODULE VaryingVector ---------------------------
(***************************************************************************)
(* A ContiguousVector with VaryingSize parameters (ElementLocator).  The   *)
(* elements have different sizes, so the locator keeps a table of their    *)
(* offsets, element_addresses_, and a pointer to where the last one ends,  *)
(* last_element_.  The table is allocated once and never initialised: only *)
(* emplace_back and emplace_at write to it.                                *)
(*                                                                         *)
(* Memory is a function from offsets to cells of one unit.  An element of  *)
(* value v takes Units[v] cells: cell 0 holds the size the parameter list  *)
(* starts with, the others the objects of the VaryingSize parameter.       *)
(* A pointer is its offset from memory_begin().                            *)
(*                                                                         *)
(* The interface has calls that the code does not carry out as a reader    *)
(* of the README would expect.  Avoided names the ones the caller keeps    *)
(* away from; with Avoided = {} every call is made that compiles.  Whether  *)
(* the objects need destructors and how elements are aligned is chosen     *)
(* once, in Init.                                                          *)
(***************************************************************************)
EXTENDS Integers, Sequences

CONSTANTS
  Value,            \* what a caller can store
  Units,            \* Units[v]: the cells an element of value v takes
  Raw,              \* a cell without an object
  Indeterminate,    \* a table entry nobody has written
  Kinds,            \* the kinds of VaryingSize parameters to look at
  MaxCapacity,      \* bound on max_element_count, of the model only
  MaxVarying,       \* bound on varying_size_bytes, of the model only
  Avoided           \* calls the caller does not make

Calls == {"erase_nothing", "erase_back", "erase_narrow",
          "reserve_empty", "reserve_unfilled", "reserve_too_few_bytes"}

ASSUME UnitsAssumption == Units \in [Value -> Nat \ {0}]
ASSUME CellAssumption  == Raw \notin Value \X Nat /\ Indeterminate \notin Int
ASSUME KindAssumption  == Kinds \subseteq [nontrivial : BOOLEAN, alignment : Nat \ {0}]
ASSUME SizeAssumption  == MaxCapacity \in Nat /\ MaxVarying \in Nat
ASSUME CallAssumption  == Avoided \subseteq Calls

VARIABLES
  kind,               \* what the compiler knows of the parameters
  max_element_count,  \* vector.hpp:91
  memory,             \* the cells of memory_
  element_addresses,  \* the table, with the capacity it was allocated with
  size,               \* element_addresses_.size_
  last_element,       \* last_element_
  pc,                 \* the method in progress
  to, from, removed   \* loop indices of erase

locator == <<element_addresses, size, last_element>>
loop == <<to, from, removed>>
vars == <<kind, max_element_count, memory, locator, pc, loop>>

NonTrivial == kind.nontrivial   \* has the VaryingSize parameter a destructor?
Alignment == kind.alignment     \* STORAGE_ELEMENT_ALIGNMENT, in units

-----------------------------------------------------------------------------
(* detail::align and its use by align_for_first_parameter.                  *)
AlignUp(a) == ((a + Alignment - 1) \div Alignment) * Alignment

(* calculate_needed_memory_size for a one-unit first parameter, rounded up  *)
(* to whole storage elements by allocate_memory.                            *)
MemorySize(n, varying) ==
  AlignUp(varying + (IF n = 0 THEN 0 ELSE n * Alignment - (Alignment - 1)))

RawMemory(n) == [c \in 0 .. n - 1 |-> Raw]

(* Element i of the table; beyond its allocation as before it was written.  *)
AddressIn(table, i) ==
  IF i \in DOMAIN table THEN table[i] ELSE Indeterminate
Address(i) == AddressIn(element_addresses, i)

Extent(a, v) == a .. a + Units[v] - 1

(* Does mem hold a whole element of value v at a?                           *)
Intact(mem, a, v) ==
  \A c \in Extent(a, v) : c \in DOMAIN mem /\ mem[c] = <<v, c - a>>

Readable(mem, a) == a \in Int /\ \E v \in Value : Intact(mem, a, v)
ValueAt(mem, a) == CHOOSE v \in Value : Intact(mem, a, v)
End(a) == a + Units[ValueAt(memory, a)]

(* ElementTraits::emplace_at                                                *)
Store(mem, a, v) ==
  [c \in DOMAIN mem |-> IF c \in Extent(a, v) THEN <<v, c - a>> ELSE mem[c]]

(* Faulty: the source of a move is not destroyed.                           *)
Destroy_Never(mem, a, v) == mem

(* ElementTraits::destruct of an element of value v at a: its size stays.   *)
Destroy(mem, a, v) ==
  [c \in DOMAIN mem |->
     IF NonTrivial /\ c \in Extent(a, v) \ {a} THEN Raw ELSE mem[c]]

(* The elements first .. last - 1, as destructors see them.                 *)
DestroyRange(first, last) ==
  [c \in DOMAIN memory |->
     IF NonTrivial /\ \E i \in first .. last - 1 :
                        /\ c > element_addresses[i]
                        /\ c < End(element_addresses[i])
       THEN Raw ELSE memory[c]]

(* A destructor or move constructor that runs finds an object.              *)
MayDestroy(first, last) ==
  NonTrivial => \A i \in first .. last - 1 : Readable(memory, Address(i))

(* Faulty: the entry before the right one; the end stays where it was.      *)
Resize_PreviousEntry(table, n) ==
  /\ element_addresses' = table
  /\ last_element' = AddressIn(table, n - 1)
  /\ size' = n

Resize_SameEnd(table, n) ==
  /\ element_addresses' = table
  /\ last_element' = last_element
  /\ size' = n

(* resize(n): last_element_ comes from the table, whatever is there.        *)
Resize(table, n) ==
  /\ element_addresses' = table
  /\ last_element' = AddressIn(table, n)
  /\ size' = n

(* The call has undefined behaviour; nothing is known afterwards.           *)
Undefined ==
  /\ pc' = "undefined"
  /\ UNCHANGED <<max_element_count, memory, locator, loop>>

-----------------------------------------------------------------------------
(* The constructor places no element and leaves the table uninitialised.    *)
Init ==
  /\ kind \in Kinds
  /\ max_element_count \in 0 .. MaxCapacity
  /\ \E varying \in 0 .. MaxVarying :
       memory = RawMemory(MemorySize(max_element_count, varying))
  /\ element_addresses = [i \in 0 .. max_element_count - 1 |-> Indeterminate]
  /\ size = 0
  /\ last_element = 0
  /\ pc = "idle"
  /\ to = 0 /\ from = 0 /\ removed = 0

(* Faulty: without align_for_first_parameter.                               *)
NextStart_Unaligned == last_element

(* Where emplace_back puts an element.                                      *)
NextStart == AlignUp(last_element)

(* The caller leaves room for one more element of this size after the last  *)
(* one: the code does not check.                                            *)
EmplaceBack(v) ==
  /\ pc = "idle"
  /\ size < max_element_count
  /\ IF last_element = Indeterminate
       THEN Undefined
       ELSE LET start == NextStart
            IN  /\ Extent(start, v) \subseteq DOMAIN memory
                /\ memory' = Store(memory, start, v)
                /\ element_addresses' = [element_addresses EXCEPT ![size] = start]
                /\ last_element' = start + Units[v]
                /\ size' = size + 1
                /\ UNCHANGED <<max_element_count, pc, loop>>

PopBack ==
  /\ pc = "idle"
  /\ size > 0
  /\ IF MayDestroy(size - 1, size)
       THEN /\ memory' = DestroyRange(size - 1, size)
            /\ Resize(element_addresses, size - 1)
            /\ UNCHANGED <<max_element_count, pc, loop>>
       ELSE Undefined

Clear ==
  /\ pc = "idle"
  /\ "erase_nothing" \in Avoided => size > 0
  /\ IF MayDestroy(0, size)
       THEN /\ memory' = DestroyRange(0, size)
            /\ Resize(element_addresses, 0)
            /\ UNCHANGED <<max_element_count, pc, loop>>
       ELSE Undefined

-----------------------------------------------------------------------------
Minus(a, diff) == IF a = Indeterminate THEN a ELSE a - diff

(* Whether an erase removes fewer bytes than it has to move.  Trivially:    *)
(* fewer than the new last elements take, for resize then finds the old     *)
(* start of one of those in the table.  Otherwise: fewer than some moved    *)
(* element takes, for it then reaches into its own old place.               *)
Narrow(f, t) ==
  LET erased == Address(f) - Address(t)
  IN  f < size /\
      IF NonTrivial
        THEN \E i \in f .. size - 1 : Units[ValueAt(memory, Address(i))] > erased
        ELSE last_element - Address(size - (f - t)) > erased

(* Faulty: the entries keep their offsets.                                  *)
ShiftedTable_SameOffsets(f, t) ==
  [i \in DOMAIN element_addresses |->
     IF i \in t .. t + (size - f) - 1 THEN Address(i + (f - t)) ELSE Address(i)]

(* The table after the entries from f on went to t.                         *)
ShiftedTable(f, t) ==
  [i \in DOMAIN element_addresses |->
     IF i \in t .. t + (size - f) - 1
       THEN Minus(Address(i + (f - t)), Address(f) - Address(t)) ELSE Address(i)]

(* erase of elements that can be memmoved: move_elements shifts the bytes   *)
(* from element f up to last_element_ to element t, move_elements_forward   *)
(* shifts the entries of the table, and resize reads the new end from it.   *)
ShiftDown(f, t) ==
  LET source == Address(f)
      target == Address(t)
      block  == target .. target + (last_element - source) - 1
  IN  IF \/ Indeterminate \in {source, target, last_element}
         \/ last_element < source
         \/ ~ block \subseteq DOMAIN memory
        THEN Undefined
        ELSE /\ memory' = [c \in DOMAIN memory |->
                             IF c \in block THEN memory[c + (source - target)] ELSE memory[c]]
             /\ Resize(ShiftedTable(f, t), size - (f - t))
             /\ UNCHANGED <<max_element_count, pc, loop>>

(* erase of elements with destructors: the erased ones are destroyed, then  *)
(* the loop of move_elements_forward starts with element f going to t.      *)
DestroyAndMove(first, last, f, t) ==
  IF MayDestroy(first, last)
    THEN /\ memory' = DestroyRange(first, last)
         /\ pc' = "erase"
         /\ to' = t /\ from' = f /\ removed' = last - first
         /\ UNCHANGED <<max_element_count, locator>>
    ELSE Undefined

Erase(position) ==
  /\ pc = "idle"
  /\ position < size
  /\ "erase_back" \in Avoided => NonTrivial \/ position + 1 < size
  /\ "erase_narrow" \in Avoided => ~ Narrow(position + 1, position)
  /\ IF NonTrivial THEN DestroyAndMove(position, position + 1, position + 1, position)
                   ELSE ShiftDown(position + 1, position)

(* Faulty: off by one at the end of the vector.                             *)
Moves_NotLast(first, last) == last + 1 < size /\ first # last

(* Does erase of first .. last - 1 leave a gap to close?                    *)
Moves(first, last) == last < size /\ first # last

EraseRange(first, last) ==
  /\ pc = "idle"
  /\ first <= last
  /\ last <= size
  /\ "erase_nothing" \in Avoided => first < last
  /\ "erase_narrow" \in Avoided => first = last \/ ~ Narrow(last, first)
  /\ LET n == size - (last - first)
     IN  \/ /\ NonTrivial /\ Moves(first, last)
            /\ DestroyAndMove(first, last, last, first)
         \/ /\ NonTrivial /\ ~ Moves(first, last)
            /\ DestroyAndMove(first, last, size, n)
         \/ /\ ~ NonTrivial /\ Moves(first, last)
            /\ ShiftDown(last, first)
         \/ /\ ~ NonTrivial /\ ~ Moves(first, last)
            /\ Resize(element_addresses, n)
            /\ UNCHANGED <<max_element_count, memory, pc, loop>>

(* Faulty: emplace_at does not record where its element ends.               *)
TableAfterMove_SameEnd(target, v) == element_addresses

(* The entry behind the moved element: where it ends.                       *)
TableAfterMove(target, v) ==
  [element_addresses EXCEPT ![to + 1] = target + Units[v]]

(* emplace_at: the element at from is move-constructed where the table says *)
(* that element to starts, object after object, and the next entry becomes  *)
(* the place where it ends; then the source is destroyed.                   *)
EraseMove ==
  /\ pc = "erase"
  /\ from < size
  /\ IF ~ MayDestroy(from, from + 1)
       THEN Undefined
       ELSE LET source == Address(from)
                target == Address(to)
                v      == ValueAt(memory, source)
            IN  /\ memory' = Destroy(Store(memory, target, v), source, v)
                /\ element_addresses' = TableAfterMove(target, v)
                /\ to' = to + 1
                /\ from' = from + 1
                /\ UNCHANGED <<max_element_count, size, last_element, pc, removed>>

EraseEnd ==
  /\ pc = "erase"
  /\ from = size
  /\ Resize(element_addresses, size - removed)
  /\ pc' = "idle"
  /\ to' = 0 /\ from' = 0 /\ removed' = 0
  /\ UNCHANGED <<max_element_count, memory>>

-----------------------------------------------------------------------------
(* Faulty: reserve shrinks the vector, too.                                 *)
Grows_OrShrinks(n) == n # max_element_count

Grows(n) == n > max_element_count

(* The number of bytes reserve copies into the new allocation; the elements *)
(* are then moved over their copies.  data_end() is nullptr when there is   *)
(* no element.                                                              *)
CopiedBytes ==
  IF ~ NonTrivial THEN last_element
  ELSE IF size > 0 THEN End(Address(size - 1))
  ELSE Indeterminate

(* reserve with a larger count: grow.  The new table gets the entries of    *)
(* the old one and the size max_element_count_.                             *)
Reserve(n, varying) ==
  /\ pc = "idle"
  /\ Grows(n)
  /\ "reserve_empty" \in Avoided => size > 0 \/ ~ NonTrivial
  /\ "reserve_unfilled" \in Avoided => size = max_element_count
  /\ "reserve_too_few_bytes" \in Avoided =>
       last_element = Indeterminate \/ last_element <= MemorySize(n, varying)
  /\ LET new_memory == RawMemory(MemorySize(n, varying))
     IN  IF \/ ~ MayDestroy(0, size)
            \/ CopiedBytes = Indeterminate
            \/ ~ 0 .. CopiedBytes - 1 \subseteq DOMAIN new_memory
           THEN Undefined
           ELSE /\ memory' = [c \in DOMAIN new_memory |->
                                IF c < CopiedBytes THEN memory[c] ELSE Raw]
                /\ element_addresses' =
                     [i \in 0 .. n - 1 |->
                        IF i < size THEN element_addresses[i] ELSE Indeterminate]
                /\ size' = max_element_count
                /\ max_element_count' = n
                /\ UNCHANGED <<last_element, pc, loop>>

Call ==
  \/ \E v \in Value : EmplaceBack(v)
  \/ PopBack
  \/ Clear
  \/ \E position \in 0 .. size - 1 : Erase(position)
  \/ \E first, last \in 0 .. size : EraseRange(first, last)
  \/ EraseMove
  \/ EraseEnd
  \/ \E n \in 1 .. MaxCapacity, varying \in 0 .. MaxVarying : Reserve(n, varying)

Next == UNCHANGED kind /\ Call

Spec == Init /\ [][Next]_vars

-----------------------------------------------------------------------------
TypeOK ==
  /\ kind \in Kinds
  /\ max_element_count \in 0 .. MaxCapacity
  /\ \E n \in 0 .. MemorySize(MaxCapacity, MaxVarying) :
       memory \in [0 .. n - 1 -> (Value \X Nat) \cup {Raw}]
  /\ element_addresses \in
       [0 .. max_element_count - 1 -> Int \cup {Indeterminate}]
  /\ size \in 0 .. max_element_count
  /\ last_element \in Int \cup {Indeterminate}
  /\ pc \in {"idle", "erase", "undefined"}
  /\ to \in 0 .. size /\ from \in 0 .. size /\ removed \in 0 .. size

(* The table entries of the elements a caller can see, without the gap of   *)
(* an erase in progress.                                                    *)
Occupied ==
  {i \in 0 .. size - 1 : pc = "erase" => i < to \/ i >= from}

(* Whatever erase, pop_back, clear and reserve did to memory and table,     *)
(* each entry still leads to one whole element (elementLocator.hpp:20-28,   *)
(* 91-105, 158-165).                                                        *)
ElementsIntact ==
  pc # "undefined" => \A i \in Occupied : Readable(memory, Address(i))

(* Elements lie one after the other, and before last_element_, where the    *)
(* next emplace_back writes (elementLocator.hpp:91-95, 148-156).            *)
ElementsInOrder ==
  pc # "undefined" =>
    \A i \in Occupied :
      /\ End(Address(i)) <= last_element
      /\ \A j \in Occupied : i < j => End(Address(i)) <= Address(j)

(* Every element starts where its first parameter may start, as the         *)
(* assertions in parameterTraits.hpp:78 and 87 say.                         *)
ElementsAligned ==
  pc # "undefined" => \A i \in Occupied : Address(i) % Alignment = 0

(* An object outside every element is never destroyed (vector.hpp:448-483). *)
NoStrayObject ==
  NonTrivial /\ pc # "undefined" =>
    \A c \in DOMAIN memory :
      memory[c] = Raw \/ memory[c][2] = 0
        \/ \E i \in Occupied : c \in Address(i) .. End(Address(i)) - 1

(* After erase, pop_back and clear the next element goes right behind the   *)
(* last one that is left (elementLocator.hpp:91-95).  Where bytes are       *)
(* shifted it goes behind the old start of the element before it.           *)
NothingWasted ==
  NonTrivial /\ pc = "idle" =>
    last_element <= IF size = 0 THEN 0 ELSE AlignUp(End(Address(size - 1)))

(* The calls a caller makes have defined behaviour.                         *)
NeverUndefined == pc # "undefined"

-----------------------------------------------------------------------------
(* What the caller reads at a: a value, or rubbish.                         *)
Read(a) == IF Readable(memory, a) THEN ValueAt(memory, a) ELSE Raw

Items ==
  IF pc = "erase"
    THEN [k \in 1 .. size - (from - to) |->
            Read(Address(IF k <= to THEN k - 1 ELSE k - 1 + (from - to)))]
    ELSE [k \in 1 .. size |-> Read(Address(k - 1))]

Container == INSTANCE SequenceContainer WITH
               Husk <- {}, items <- Items, capacity <- max_element_count

(* Elements of different sizes behind a table of offsets behave as the      *)
(* elements of a sequence (README, "modelled after SequenceContainer").     *)
ImplementsContainer == Container!SeqSpec
=============================================================================
