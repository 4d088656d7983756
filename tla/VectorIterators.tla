-------------------------- MODULE VectorIterators --------------------------
(***************************************************************************)
(* ContiguousVectorIterator, and the comparison of vectors, which goes     *)
(* through iterators.  The class is the same in cntgs/iterator.hpp and in  *)
(* the single header; the vectors are those of SingleHeaderVector.         *)
(*                                                                         *)
(* An iterator does not refer to its vector.  It copies memory_ and what   *)
(* the locator uses to find an element: start_ and the stride, or the      *)
(* pointer to the table of offsets.  So this module also knows in which    *)
(* buffer a vector has its table, which is a std::vector with an allocator *)
(* of its own: swapping and copying can make it another than memory_ has.  *)
(*                                                                         *)
(* iterators holds the iterators that the program may still use.  The      *)
(* standard's rules for a std::vector say which calls end that: whatever   *)
(* allocates, assigns or destroys elements in front of or at an iterator.  *)
(***************************************************************************)
EXTENDS SingleHeaderVector

CONSTANTS
  Iterator,   \* the iterators of the program
  Buffer,     \* names of tables, one more than there are vectors; swap may
              \* need two more
  Orders      \* what < of elements can be, see OrdersAssumption

(* However many vectors have a table, there is a name left for another one. *)
ASSUME BufferAssumption ==
  /\ Null \notin Buffer
  /\ \A f \in [Vector -> Buffer \cup {Null}] : Buffer \ {f[v] : v \in Vector} # {}
(* The pairs of a lesser and a greater element; and whether the list is     *)
(* IS_LEXICOGRAPHICAL_MEMCMPABLE.  An element is less if it is in each of   *)
(* its parameters, so that of two elements neither may be less; those that  *)
(* are compared as bytes are all in order.                                  *)
ASSUME OrdersAssumption ==
  /\ Orders \subseteq [less : SUBSET (Value \X Value), bytes : BOOLEAN]
  /\ \A order \in Orders, e, f \in Value :
       /\ <<e, f>> \in order.less => <<f, e>> \notin order.less
       /\ order.bytes => e = f \/ <<e, f>> \in order.less \/ <<f, e>> \in order.less

VARIABLES
  tables,     \* the table of each vector: its buffer, capacity() and allocator
  iterators   \* the iterators that may be used

MaxOf(x, y) == IF x < y THEN y ELSE x

-----------------------------------------------------------------------------
(* element_addresses_: data(), capacity() and get_allocator().              *)
NoTable(allocator) == [buffer |-> Null, capacity |-> 0, allocator |-> allocator]

FreshBuffers == Buffer \ {tables[v].buffer : v \in DOMAIN tables}

TableIn(buffer, n, allocator) ==
  IF Varying /\ n > 0 THEN [buffer |-> buffer, capacity |-> n, allocator |-> allocator]
  ELSE NoTable(allocator)

TableFor(n, allocator) == TableIn(CHOOSE b \in FreshBuffers : TRUE, n, allocator)

Place(v, t) ==
  tables' = [x \in DOMAIN tables \cup {v} |-> IF x = v THEN t ELSE tables[x]]

(* Does emplace_back have to allocate another table?                        *)
IsFull(v) == Varying /\ Size(vectors[v]) = tables[v].capacity

GrownTable(t) == TableFor(MaxOf(1, 2 * t.capacity), t.allocator)

(* insert_into reserves entries in the locator it makes for objects; bytes  *)
(* keep the table they have.                                                *)
TableAfterGrow(v, n) ==
  IF NonTrivial /\ n > tables[v].capacity THEN TableFor(n, tables[v].allocator)
  ELSE tables[v]

(* The allocator is selected for the table as it is for memory_.            *)
CopiedTable(m, allocator) ==
  TableFor(IF NonTrivial THEN m.max_element_count ELSE Size(m), allocator)

(* locator_ = other_locator, which copies entries if there is room; the     *)
(* other one is a copy and has the allocator that was selected for it.      *)
AssignedTable(v, m, selected) ==
  LET allocator == IF traits.copy THEN selected ELSE tables[v].allocator
  IN  IF Size(m) > tables[v].capacity \/ allocator # tables[v].allocator
        THEN TableFor(Size(m), allocator) ELSE tables[v]

(* Assigning a std::vector that is moved takes its buffer, or else copies   *)
(* the entries and leaves its buffer with it.                               *)
TakesTable(v, w) == traits.move \/ tables[v].allocator = tables[w].allocator

EntriesMoved(v, w) ==
  IF Size(vectors[w]) > tables[v].capacity
    THEN TableFor(Size(vectors[w]), tables[v].allocator) ELSE tables[v]

Emptied(v) == NoTable(tables[v].allocator)

HandedOver(v, w) ==
  tables' = [x \in DOMAIN tables \cup {v} |->
               IF x = v THEN tables[w] ELSE IF x = w THEN Emptied(w) ELSE tables[x]]

(* Faulty: the tables stay where they are.                                  *)
Swapped_Kept(v, w) == tables

(* swap of two locators is std::swap: v's is moved out of the way, w's is   *)
(* assigned to v and v's to w.                                              *)
Swapped(v, w) ==
  IF TakesTable(v, w) THEN [tables EXCEPT ![v] = tables[w], ![w] = tables[v]]
  ELSE LET t == TableFor(Size(vectors[w]), tables[v].allocator)
           b == CHOOSE b \in FreshBuffers : b # t.buffer
       IN  [tables EXCEPT
              ![v] = t,
              ![w] = IF Size(vectors[v]) > tables[w].capacity
                       THEN TableIn(b, Size(vectors[v]), @.allocator) ELSE @]

-----------------------------------------------------------------------------
(* ContiguousVectorIterator(vector, n): i_, memory_ and locator_.           *)
IteratorTo(v, n) ==
  LET m == vectors[v]
  IN  IF Varying THEN [i |-> n, memory |-> m.block, buffer |-> tables[v].buffer]
      ELSE [i |-> n, memory |-> m.block, start |-> m.edge, stride |-> m.stride]

BeginOf(v) == IteratorTo(v, 0)
EndOf(v) == IteratorTo(v, Size(vectors[v]))

(* +, -, ++, --, += and -=                                                  *)
Advanced(it, d) == [it EXCEPT !.i = @ + d]

(* Faulty: iterators are compared by index only.                            *)
IsSame_Index(it, other) == it.i = other.i

(* operator==                                                               *)
IsSame(it, other) == it.i = other.i /\ it.memory = other.memory

(* operator<, and with it operator>.                                        *)
IsBefore(it, other) == it.i < other.i /\ it.memory = other.memory

(* operator-                                                                *)
Difference(it, other) == it.i - other.i

(* The entries in the buffer of an iterator, whoever has it now.            *)
Entries(buffer) ==
  LET owners == {v \in DOMAIN tables : tables[v].buffer = buffer /\ buffer # Null}
  IN  IF owners = {} THEN << >> ELSE vectors[CHOOSE v \in owners : TRUE].table

(* locator_: it finds elements as a vector with these members does.         *)
Located(it) ==
  IF Varying THEN [block |-> it.memory, table |-> Entries(it.buffer)]
  ELSE [block |-> it.memory, edge |-> it.start, stride |-> it.stride]

(* operator*, operator[]                                                    *)
Read(it) ==
  IF Varying /\ it.i >= Len(Entries(it.buffer)) THEN Raw ELSE ElementAt(Located(it), it.i)

(* An iterator the program holds, next to which element of which vector it  *)
(* ought to lead to.                                                        *)
Held(it, v, position, element) ==
  [it |-> it, vector |-> v, position |-> position, element |-> element]

Hold(x, h) ==
  iterators' = [y \in DOMAIN iterators \cup {x} |-> IF y = x THEN h ELSE iterators[y]]

(* The iterators that do not lead to v from element n on.                   *)
Spared(v, n) ==
  {x \in DOMAIN iterators : iterators[x].vector = v => iterators[x].position < n}

Keep(S) == iterators' = [x \in S |-> iterators[x]]

(* Elements change hands, from f's domain; iterators past the end do not.   *)
Follow(S, f) ==
  iterators' =
    [x \in {x \in S : iterators[x].vector \in DOMAIN f => iterators[x].element # Null} |->
       IF iterators[x].vector \in DOMAIN f
         THEN [iterators[x] EXCEPT !.vector = f[@]] ELSE iterators[x]]

(* make_iterator, and what erase returns.                                   *)
Returned(v, first) == IteratorTo(v, first)

(* Whether the program keeps the iterator that erase returns, in x.         *)
HoldReturned(v, first, last) ==
  \/ Keep(Spared(v, first))
  \/ \E x \in Iterator :
       iterators' = [y \in Spared(v, first) \cup {x} |->
         IF y = x THEN Held(Returned(v, first), v, first,
                            IF last < Size(vectors[v]) THEN contents[v][last + 1] ELSE Null)
         ELSE iterators[y]]

-----------------------------------------------------------------------------
(* What memcmp sees of a vector: its memory from data_begin() to            *)
(* data_end(), wherever its locator thinks that is.                         *)
Bytes(m) ==
  LET from == Offset(m, 0)
  IN  [k \in 1 .. Used(m) - from |-> Cell(m, from + k - 1)]

(* Elements, one behind the other, as * of the iterators gives them.        *)
Sequence(m) == [k \in 1 .. Size(m) |-> ElementAt(m, k - 1)]

(* std::lexicographical_compare: the first elements of which one is less    *)
(* decide, those in front of them need not be equal.                        *)
IsLess(less, s, t) ==
  \E k \in 1 .. Len(t) :
    /\ k <= Len(s) + 1
    /\ \A j \in 1 .. k - 1 : <<s[j], t[j]>> \notin less /\ <<t[j], s[j]>> \notin less
    /\ k > Len(s) \/ <<s[k], t[k]>> \in less

(* Faulty: compared up to the end of the first vector.                      *)
Equal_FirstEnd(m, o) ==
  IF Size(m) = 0 THEN Size(o) = 0
  ELSE Size(o) > 0 /\ SubSeq(Bytes(o), 1, Len(Bytes(m))) = Bytes(m)

(* equal.  Elements that are bytes are compared as one piece of memory,     *)
(* others with std::equal, which is not told where the second vector ends.  *)
Equal(m, o) ==
  IF NonTrivial THEN \A k \in 1 .. Size(m) : Sequence(m)[k] = Sequence(o)[k]
  ELSE IF Size(m) = 0 THEN Size(o) = 0
  ELSE Size(o) > 0 /\ Bytes(m) = Bytes(o)

(* Faulty: an empty vector is less than any.                                *)
Less_Empty(order, m, o) ==
  \/ Size(m) = 0
  \/ Size(o) > 0 /\ IsLess(order.less, Sequence(m), Sequence(o))

(* lexicographical_compare, of the bytes if the elements have one size.     *)
Less(order, m, o) ==
  IF NonTrivial \/ Varying \/ ~ order.bytes
    THEN IsLess(order.less, Sequence(m), Sequence(o))
  ELSE IF Size(m) = 0 THEN Size(o) > 0
  ELSE Size(o) > 0 /\ IsLess(order.less, [k \in DOMAIN Bytes(m) |-> Bytes(m)[k][1]],
                             [k \in DOMAIN Bytes(o) |-> Bytes(o)[k][1]])

(* The other operators of vectors.                                          *)
Differs(m, o) == ~ Equal(m, o)
AtMost(order, m, o) == ~ Less(order, o, m)
Greater(order, m, o) == Less(order, o, m)
AtLeast(order, m, o) == ~ Less(order, m, o)

-----------------------------------------------------------------------------
(* Calls to vectors, all but emplace, and what they leave of iterators.     *)
ConstructAndPlace(v) ==
  /\ \/ \E a \in Allocator : ConstructDefault(v, a) /\ Place(v, NoTable(a))
     \/ \E n \in 0 .. MaxCapacity, varying \in 0 .. MaxVarying, a \in Allocator :
          (Varying \/ varying = 0) /\ Construct(v, n, varying, a) /\ Place(v, TableFor(n, a))
     \/ \E w \in Vector, a, b \in Allocator :
          /\ CopyConstruct(v, w, a)
          /\ vectors[w].allocator = tables[w].allocator => a = b
          /\ Place(v, CopiedTable(vectors[w], b))
  /\ Keep(DOMAIN iterators)

DestructAndDrop(v) ==
  /\ Destruct(v)
  /\ tables' = [x \in DOMAIN tables \ {v} |-> tables[x]]
  /\ Keep(Spared(v, 0))

(* A table that has to grow takes its iterators with it.                    *)
EmplaceBackAndKeep(v) ==
  /\ \E e \in Value : EmplaceBack(v, e)
  /\ "grow_table" \in Avoided /\ IsFull(v) => Spared(v, 0) = DOMAIN iterators
  /\ Place(v, IF IsFull(v) THEN GrownTable(tables[v]) ELSE tables[v])
  /\ Keep(Spared(v, Size(vectors[v])))

EraseAndKeep(v) ==
  /\ \/ PopBack(v) /\ Keep(Spared(v, Size(vectors[v]) - 1))
     \/ Clear(v) /\ Keep(Spared(v, 0))
     \/ \E position \in 0 .. MaxCapacity :
          Erase(v, position) /\ HoldReturned(v, position, position + 1)
     \/ \E first, last \in 0 .. MaxCapacity :
          EraseRange(v, first, last) /\ HoldReturned(v, first, last)
  /\ UNCHANGED tables

ReserveAndDrop(v) ==
  \E n \in 1 .. MaxCapacity, varying \in 0 .. MaxVarying :
    /\ Varying \/ varying = 0
    /\ Reserve(v, n, varying)
    /\ Place(v, TableAfterGrow(v, n))
    /\ Keep(Spared(v, 0))

CopyAssignAndDrop(v, w) ==
  /\ CopyAssign(v, w)
  /\ \E selected \in Allocator : Place(v, AssignedTable(v, vectors[w], selected))
  /\ Keep(Spared(v, 0))

MoveConstructAndFollow(v, w) ==
  MoveConstruct(v, w) /\ HandedOver(v, w) /\ Follow(DOMAIN iterators, [x \in {w} |-> v])

(* The caller holds no iterators over a step that copies their table.       *)
MayCopyTables(S) == "copy_tables" \in Avoided => S = DOMAIN iterators

StealAndFollow(v, w) ==
  /\ Steals(vectors[v], vectors[w])
  /\ IF TakesTable(v, w) THEN HandedOver(v, w)
     ELSE Place(v, EntriesMoved(v, w)) /\ (Varying => MayCopyTables(Spared(w, 0)))
  /\ Follow(Spared(v, 0), [x \in {w} |-> v])

MoveElementsAndDrop(v, w) ==
  /\ ~ Steals(vectors[v], vectors[w])
  /\ tables' = [tables EXCEPT
       ![v] = IF TakesTable(v, w) THEN TableAfterGrow(w, vectors[w].max_element_count)
              ELSE EntriesMoved(v, w),
       ![w] = Emptied(w)]
  /\ Keep(Spared(v, 0) \cap Spared(w, 0))

MoveAssignAndFollow(v, w) ==
  MoveAssign(v, w) /\ (StealAndFollow(v, w) \/ MoveElementsAndDrop(v, w))

SwapAndFollow(v, w) ==
  /\ Swap(v, w)
  /\ Varying /\ ~ TakesTable(v, w) => MayCopyTables(Spared(v, 0) \cap Spared(w, 0))
  /\ tables' = Swapped(v, w)
  /\ Follow(DOMAIN iterators, [x \in {v, w} |-> IF x = v THEN w ELSE v])

CallAndFollow ==
  \E v \in Vector :
    \/ ConstructAndPlace(v) \/ DestructAndDrop(v)
    \/ EmplaceBackAndKeep(v) \/ EraseAndKeep(v) \/ ReserveAndDrop(v)
    \/ \E w \in Vector :
         \/ CopyAssignAndDrop(v, w) \/ MoveConstructAndFollow(v, w)
         \/ MoveAssignAndFollow(v, w) \/ SwapAndFollow(v, w)

(* The program gets an iterator from a vector and moves it to element n.    *)
Obtain(x, v, n) ==
  /\ Usable(v)
  /\ n <= Size(vectors[v])
  /\ \E it \in {Advanced(BeginOf(v), n), Advanced(EndOf(v), n - Size(vectors[v]))} :
       Hold(x, Held(it, v, n, IF n < Size(vectors[v]) THEN contents[v][n + 1] ELSE Null))
  /\ UNCHANGED <<members, contents, tables>>

IteratorsInit == Init /\ tables = << >> /\ iterators = << >>

IteratorsNext ==
  /\ UNCHANGED <<kind, traits>>
  /\ \/ CallAndFollow /\ contents' = Found'
     \/ \E x \in Iterator, v \in Vector, n \in 0 .. MaxCapacity : Obtain(x, v, n)

IteratorsSpec == IteratorsInit /\ [][IteratorsNext]_<<vars, tables, iterators>>

-----------------------------------------------------------------------------
(* An iterator leads to the element it was obtained for, however that       *)
(* vector grew up to its capacity, lost elements behind it, was swapped or  *)
(* handed its elements on: what it copied from the locator still holds      *)
(* (iterator.hpp:37-47, cntgs.hpp:3261-3311).  So does the iterator         *)
(* that erase returns (cntgs.hpp:3757-3779).                                *)
IteratorsFollow ==
  \A x \in DOMAIN iterators :
    iterators[x].element # Null => Read(iterators[x].it) = iterators[x].element

(* An iterator to an element is equal to just those new iterators of all    *)
(* vectors that lead to this element, and before and behind just those of   *)
(* its vector that lead to elements behind and before it, at the distance   *)
(* of the elements (iterator.hpp:139, 149-177).                             *)
IteratorsTellApart ==
  \A x \in DOMAIN iterators : \A v \in DOMAIN vectors :
    \A n \in 0 .. Size(vectors[v]) - 1 :
      LET h     == iterators[x]
          other == Advanced(BeginOf(v), n)
          of    == h.vector = v
      IN  contents[v] # Unspecified /\ h.element # Null =>
            /\ IsSame(h.it, other) <=> of /\ h.position = n
            /\ IsBefore(h.it, other) <=> of /\ h.position < n
            /\ IsBefore(other, h.it) <=> of /\ n < h.position
            /\ of => Difference(h.it, other) = h.position - n

(* Each element ends where the next one starts, the last one at data_end(); *)
(* some erasures leave a gap.                                               *)
IsPacked(m) ==
  \A i \in Elements(m) :
    Offset(m, i) + Width(ElementAt(m, i)) =
      IF i + 1 < Size(m) THEN Offset(m, i + 1) ELSE Used(m)

(* Vectors that == and < may be asked about.                                *)
Comparable(v, w) ==
  /\ contents[v] # Unspecified /\ contents[w] # Unspecified
  /\ "compare_sizes" \in Avoided /\ NonTrivial => Len(contents[v]) = Len(contents[w])
  /\ "compare_gaps" \in Avoided /\ ~ NonTrivial =>
       IsPacked(vectors[v]) /\ IsPacked(vectors[w])

(* Two vectors are equal if and only if they have the same elements, from   *)
(* wherever these came and whatever is left in the memory behind them       *)
(* (cntgs.hpp:4087-4105).                                                   *)
EqualComparesElements ==
  \A v, w \in DOMAIN vectors :
    Comparable(v, w) => (Equal(vectors[v], vectors[w]) <=> contents[v] = contents[w])

(* Vectors as long as each other, no element less than the one in its place. *)
Unordered(less, s, t) ==
  /\ Len(s) = Len(t)
  /\ \A k \in 1 .. Len(s) : <<s[k], t[k]>> \notin less /\ <<t[k], s[k]>> \notin less

(* Whatever < is for elements, a vector is less than another if and only    *)
(* if its elements lexicographically are, though the bytes of all of them   *)
(* may be compared at once; not both are less, equal ones never, and        *)
(* neither is just where no two elements of theirs are in order.  Where of  *)
(* two different elements one is always less, exactly one of ==, < and >    *)
(* is true and <= and >= are what their names say (cntgs.hpp:3859-3905,     *)
(* 4106-4128); elsewhere <= and >= may both be true of different vectors.   *)
ComparisonsAgree ==
  \A order \in Orders, v, w \in DOMAIN vectors :
    LET m == vectors[v]
        o == vectors[w]
    IN  Comparable(v, w) =>
          /\ Less(order, m, o) <=> IsLess(order.less, contents[v], contents[w])
          /\ ~ (Less(order, m, o) /\ Greater(order, m, o))
          /\ Equal(m, o) => ~ Less(order, m, o) /\ ~ Greater(order, m, o)
          /\ AtMost(order, m, o) /\ AtLeast(order, m, o) <=>
               Unordered(order.less, contents[v], contents[w])
          /\ order.bytes =>
               /\ Differs(m, o) <=> Less(order, m, o) \/ Greater(order, m, o)
               /\ AtMost(order, m, o) <=> Less(order, m, o) \/ Equal(m, o)
               /\ AtLeast(order, m, o) <=> Greater(order, m, o) \/ Equal(m, o)
=============================================================================
