----------------------- MODULE VectorOwnershipProofs -----------------------
(***************************************************************************)
(* Every allocation of VectorOwnership has one owner, which returns it     *)
(* with the allocator it was made with: for any vectors, values,           *)
(* allocators, sizes and traits, and for a caller that avoids no call or,  *)
(* for the second, one.  In the second half, contents: objects are where   *)
(* the locators say, and VectorOwnership implements VectorValues.          *)
(*                                                                         *)
(* SoleOwner is not inductive: that the table of an                        *)
(* AllFixedSizeElementLocator is no table, and that there are always       *)
(* addresses and tables left, has to be known too.  Most actions are two   *)
(* lemmas away from it: v gets new memory (NewMemoryOwn) or keeps its own  *)
(* (SameMemoryOwn); the lemmas about operators say what an action does to  *)
(* the heap.                                                               *)
(***************************************************************************)
EXTENDS VectorOwnership, TLAPS

(* What one unit of an allocation holds, and the shapes of the records.     *)
Cell == Value \cup {Raw, Moved}
Cells == UNION {[Units(n) -> Cell] : n \in Nat}
Memory == [allocator : Allocator, cells : Cells]
Tables == {NoTable} \cup [name : Table, entries : Nat]
Pointers == {Null} \cup (Block \X Nat)
Locators == [size : Nat, stride : {0, 1}, table : Tables, last_element : Pointers]
MembersType ==
  [block : Block \cup {Null}, units : Nat, allocator : Allocator,
   max_element_count : Nat, locator : Locators]

(* A heap that is a function of some blocks.                                *)
IsHeap(h) == DOMAIN h \subseteq Block /\ h \in [DOMAIN h -> Memory]

(* The type of the state; vectors and heap are partial functions.           *)
TypeOK ==
  /\ traits \in [copy : BOOLEAN, move : BOOLEAN, swap : BOOLEAN]
  /\ varying \in BOOLEAN
  /\ status \in {"defined", "undefined"}
  /\ DOMAIN vectors \subseteq Vector
  /\ vectors \in [DOMAIN vectors -> MembersType]
  /\ IsHeap(heap)

(* SoleOwner's share in memory, in a form that a step can be checked        *)
(* against: the vectors with memory and the allocations match one to one.   *)
OneOwner ==
  /\ \A v \in DOMAIN vectors : vectors[v].block \in DOMAIN heap \cup {Null}
  /\ \A b \in DOMAIN heap : \E v \in DOMAIN vectors : vectors[v].block = b
  /\ \A v, w \in DOMAIN vectors :
       v # w /\ vectors[v].block = vectors[w].block => vectors[v].block = Null

(* SoleOwner's share in tables.  A locator without VaryingSize parameters   *)
(* is copied together with its table, so there must not be one.             *)
OwnTables ==
  /\ \A v, w \in DOMAIN vectors :
       v # w /\ vectors[v].locator.table.name = vectors[w].locator.table.name =>
         vectors[v].locator.table = NoTable
  /\ ~ varying => \A v \in DOMAIN vectors : vectors[v].locator.table = NoTable

(* A caller that swaps vectors whose allocators swap() would not exchange   *)
(* leaves memory with the wrong one; any other caller does not.             *)
OwnAllocator == "swap_allocators" \in Avoided => ReleasedByItsAllocator

(* The inductive invariant of ownership.                                    *)
OwnInv == TypeOK /\ OneOwner /\ OwnTables /\ OwnAllocator

-----------------------------------------------------------------------------
(* There is an address that is not in use: every allocation has a vector,   *)
(* and the vectors do not have all of them.                                 *)
LEMMA FreshIsFree ==
  ASSUME TypeOK, OneOwner
  PROVE  Fresh \in Block /\ Fresh \notin DOMAIN heap
  <1> DEFINE f == [v \in Vector |-> IF v \in DOMAIN vectors THEN vectors[v].block ELSE Null]
  <1>1. f \in [Vector -> Block \cup {Null}]
    BY DEF TypeOK, MembersType
  <1>2. PICK b \in Block : b \notin {f[v] : v \in Vector}
    BY <1>1, FreshAssumption
  <1>3. b \notin DOMAIN heap
    <2>1. SUFFICES ASSUME b \in DOMAIN heap PROVE FALSE
      OBVIOUS
    <2>2. PICK v \in DOMAIN vectors : vectors[v].block = b
      BY <2>1 DEF OneOwner
    <2>3. v \in Vector /\ f[v] = b
      BY <2>2 DEF TypeOK
    <2> QED
      BY <1>2, <2>3
  <1> QED
    BY <1>3 DEF Fresh

(* A new table is nobody's, unless it is no table at all.                   *)
LEMMA NewTableIsFree ==
  ASSUME TypeOK, NEW n \in Nat
  PROVE  /\ NewTable(n) \in Tables
         /\ \A v \in DOMAIN vectors :
              vectors[v].locator.table.name = NewTable(n).name => NewTable(n) = NoTable
         /\ ~ varying => NewTable(n) = NoTable
  <1>1. CASE ~ varying
    BY <1>1 DEF NewTable, Tables
  <1>2. CASE varying
    <2> DEFINE f == [v \in Vector |-> IF v \in DOMAIN vectors
                                        THEN vectors[v].locator.table.name ELSE Null]
               IsFree(t) == \A v \in DOMAIN vectors : vectors[v].locator.table.name # t
    <2>1. f \in [Vector -> Table \cup {Null}]
      BY DEF TypeOK, MembersType, Locators, Tables, NoTable
    <2>2. PICK t \in Table : t \notin {f[v] : v \in Vector}
      BY <2>1, FreshAssumption
    <2>3. IsFree(t)
      BY <2>2 DEF TypeOK
    <2>4. PICK s \in Table : NewTable(n) = [name |-> s, entries |-> n] /\ IsFree(s)
      BY <1>2, <2>3 DEF NewTable
    <2> QED
      BY <1>2, <2>4 DEF Tables
  <1> QED
    BY <1>1, <1>2

(* Locators that are constructed or copied for another allocation have a    *)
(* table of their own, or none.                                             *)
LEMMA LocatorTypes ==
  ASSUME TypeOK, NEW block \in Block \cup {Null}, NEW n \in Nat
  PROVE  /\ NewLocator(block, n) \in Locators
         /\ NewLocator(block, n).table = NewTable(n)
         /\ \A o \in MembersType :
              /\ CopiedLocator(o, block, n) \in Locators
              /\ CopiedLocator(o, block, n).table \in {NewTable(n), o.locator.table}
              /\ varying => CopiedLocator(o, block, n).table = NewTable(n)
  <1>1. NewTable(n) \in Tables
    BY NewTableIsFree
  <1>2. NewLocator(block, n) \in Locators /\ NewLocator(block, n).table = NewTable(n)
    BY <1>1 DEF NewLocator, Locators, Pointers, Pointer
  <1>3. ASSUME NEW o \in MembersType
        PROVE  /\ CopiedLocator(o, block, n) \in Locators
               /\ CopiedLocator(o, block, n).table \in {NewTable(n), o.locator.table}
               /\ varying => CopiedLocator(o, block, n).table = NewTable(n)
    BY <1>1 DEF CopiedLocator, MembersType, Locators, Pointers, Pointer
  <1> QED
    BY <1>2, <1>3

-----------------------------------------------------------------------------
(* g is h with an allocation more, or another one, at b.                    *)
AllocatedIn(h, b, a, c, g) ==
  /\ IsHeap(g)
  /\ DOMAIN g = DOMAIN h \cup {b}
  /\ g[b].allocator = a
  /\ g[b].cells = c
  /\ \A x \in DOMAIN h \ {b} : g[x] = h[x]

(* allocate and deallocate take heaps to heaps and leave the rest alone.    *)
LEMMA AllocateHeap ==
  ASSUME NEW h, IsHeap(h), NEW b \in Block, NEW a \in Allocator, NEW c \in Cells
  PROVE  AllocatedIn(h, b, a, c, Allocate(h, b, a, c))
  BY DEF Allocate, IsHeap, Memory, AllocatedIn

LEMMA DeallocateHeap ==
  ASSUME NEW h, IsHeap(h), NEW b
  PROVE  /\ IsHeap(Deallocate(h, b))
         /\ DOMAIN Deallocate(h, b) = DOMAIN h \ {b}
         /\ \A x \in DOMAIN h \ {b} : Deallocate(h, b)[x] = h[x]
  BY DEF Deallocate, IsHeap

(* Cells, whatever their number.                                            *)
LEMMA CellsAreFunctions ==
  ASSUME NEW c \in Cells
  PROVE  /\ \E n \in Nat : c \in [Units(n) -> Cell]
         /\ \A i \in DOMAIN c : c[i] \in Cell
  BY DEF Cells

LEMMA CellsOfSameLength ==
  ASSUME NEW c \in Cells, NEW f \in [DOMAIN c -> Cell]
  PROVE  f \in Cells
  BY DEF Cells

(* g is h with other contents of the allocation b.                          *)
WrittenTo(h, b, f, g) ==
  /\ IsHeap(g)
  /\ DOMAIN g = DOMAIN h
  /\ g[b].allocator = h[b].allocator
  /\ g[b].cells = f
  /\ \A x \in DOMAIN h \ {b} : g[x] = h[x]

(* Cells can be written where there is an allocation of the same length.    *)
LEMMA WrittenHeap ==
  ASSUME NEW h, IsHeap(h), NEW b \in DOMAIN h, NEW f \in Cells
  PROVE  WrittenTo(h, b, f, [h EXCEPT ![b].cells = f])
  <1>1. h[b] \in Memory
    BY DEF IsHeap
  <1> QED
    BY <1>1 DEF IsHeap, Memory, WrittenTo

(* Constructing or destroying the elements of a vector that exist changes   *)
(* these cells and nothing else.                                            *)
LEMMA FilledHeap ==
  ASSUME NEW h, IsHeap(h), NEW m \in MembersType, NEW cell \in Cell,
         m.locator.size > 0 => m.block \in DOMAIN h
  PROVE  /\ IsHeap(Filled(h, m, cell))
         /\ DOMAIN Filled(h, m, cell) = DOMAIN h
         /\ \A x \in DOMAIN h \ {m.block} : Filled(h, m, cell)[x] = h[x]
         /\ \A x \in DOMAIN h :
              /\ Filled(h, m, cell)[x].allocator = h[x].allocator
              /\ DOMAIN Filled(h, m, cell)[x].cells = DOMAIN h[x].cells
         /\ m.block \in DOMAIN h =>
              \A i \in DOMAIN h[m.block].cells :
                Filled(h, m, cell)[m.block].cells[i] =
                  IF i < m.locator.size THEN cell ELSE h[m.block].cells[i]
  <1>0. m.locator.size \in Nat
    BY DEF MembersType, Locators
  <1>1. CASE m.locator.size = 0
    <2>1. ASSUME m.block \in DOMAIN h, NEW i \in DOMAIN h[m.block].cells
          PROVE  ~ i < 0
      <3>1. h[m.block].cells \in Cells
        BY <2>1 DEF IsHeap, Memory
      <3>2. i \in Nat
        BY <2>1, <3>1, CellsAreFunctions DEF Units
      <3> QED
        BY <3>2
    <2> QED
      BY <1>1, <2>1 DEF Filled
  <1>2. CASE m.locator.size > 0
    <2> DEFINE c == h[m.block].cells
               f == [i \in DOMAIN c |-> IF i < m.locator.size THEN cell ELSE c[i]]
    <2>1. c \in Cells
      BY <1>2 DEF IsHeap, Memory
    <2>2. f \in [DOMAIN c -> Cell] /\ f \in Cells
      BY <2>1, CellsAreFunctions, CellsOfSameLength
    <2>3. Filled(h, m, cell) = [h EXCEPT ![m.block].cells = f]
      BY <1>0, <1>2 DEF Filled
    <2>4. \A i \in DOMAIN c : f[i] = IF i < m.locator.size THEN cell ELSE c[i]
      OBVIOUS
    <2> HIDE DEF f
    <2>5. WrittenTo(h, m.block, f, Filled(h, m, cell))
      <3>1. m.block \in DOMAIN h
        BY <1>2
      <3>2. WrittenTo(h, m.block, f, [h EXCEPT ![m.block].cells = f])
        BY <2>2, <3>1, WrittenHeap, Zenon
      <3> QED
        BY <2>3, <3>2, Zenon
    <2>6. \A x \in DOMAIN h :
              /\ Filled(h, m, cell)[x].allocator = h[x].allocator
              /\ DOMAIN Filled(h, m, cell)[x].cells = DOMAIN h[x].cells
      BY <2>2, <2>5 DEF WrittenTo
    <2>7. \A i \in DOMAIN c :
            Filled(h, m, cell)[m.block].cells[i] = IF i < m.locator.size THEN cell ELSE c[i]
      BY <2>4, <2>5 DEF WrittenTo
    <2> QED
      BY <2>5, <2>6, <2>7 DEF WrittenTo
  <1> QED
    BY <1>0, <1>1, <1>2

(* The elements of a vector that exist fill the beginning of new cells.     *)
LEMMA InsertedCells ==
  ASSUME IsHeap(heap), NEW m \in MembersType, ElementsExist(m), NEW n \in Nat
  PROVE  /\ Inserted(m, n) \in Cells
         /\ Inserted(m, n) \in [Units(n) -> Cell]
         /\ \A i \in Units(n) :
              Inserted(m, n)[i] = IF i < m.locator.size THEN heap[m.block].cells[i] ELSE Raw
  <1>1. m.locator.size \in Nat
    BY DEF MembersType, Locators
  <1>2. ASSUME NEW i \in Units(n), i < m.locator.size
        PROVE  heap[m.block].cells[i] \in Cell
    <2>1. m.block \in DOMAIN heap /\ i \in DOMAIN heap[m.block].cells
      BY <1>1, <1>2 DEF ElementsExist, Units
    <2>2. heap[m.block].cells \in Cells
      BY <2>1 DEF IsHeap, Memory
    <2> QED
      BY <2>1, <2>2, CellsAreFunctions
  <1>3. Inserted(m, n) \in [Units(n) -> Cell]
    BY <1>2 DEF Inserted, Cell
  <1> QED
    BY <1>3 DEF Inserted, Cells

(* The memory of v, none before v is constructed.                           *)
BlockOf(v) == IF v \in DOMAIN vectors THEN vectors[v].block ELSE Null

(* The allocations S of h are those of the heap: their owner and length.    *)
SameAllocations(h, S) ==
  \A b \in S : /\ h[b].allocator = heap[b].allocator
               /\ DOMAIN h[b].cells = DOMAIN heap[b].cells

(* m's memory is an allocation of h that m may deallocate.                  *)
Fits(m, h) ==
  m.block # Null => /\ m.block \in DOMAIN h
                    /\ h[m.block].allocator = m.allocator
                    /\ DOMAIN h[m.block].cells = Units(m.units)

(* v has another allocation than before, and a table nobody else has.       *)
LEMMA NewMemoryOwn ==
  ASSUME OwnInv, IsHeap(heap'), Defined,
         NEW v \in Vector, NEW m \in MembersType, NEW n \in Nat,
         m.block = Fresh, m.locator.table \in {NewTable(n), NoTable},
         vectors' = Set(v, m),
         DOMAIN heap' = (DOMAIN heap \ {BlockOf(v)}) \cup {Fresh},
         SameAllocations(heap', DOMAIN heap \ {BlockOf(v)}),
         Fits(m, heap')
  PROVE  OwnInv'
  <1> USE DEF OwnInv, BlockOf
  <1>1. Fresh \in Block /\ Fresh \notin DOMAIN heap /\ Fresh # Null
    BY FreshIsFree, NamesAssumption
  <1>2. /\ DOMAIN vectors' = DOMAIN vectors \cup {v}
        /\ \A x \in DOMAIN vectors' : vectors'[x] = IF x = v THEN m ELSE vectors[x]
    BY DEF Set
  <1>3. TypeOK'
    BY DEF TypeOK, Set, Defined, type
  <1>4. OneOwner'
    BY <1>1, <1>2, NamesAssumption DEF OneOwner, TypeOK
  <1>5. \A x \in DOMAIN vectors :
          vectors[x].locator.table.name = m.locator.table.name =>
             /\ m.locator.table = NoTable
             /\ vectors[x].locator.table = NoTable
    BY NewTableIsFree, NamesAssumption DEF TypeOK, MembersType, Locators, Tables, NoTable
  <1>6. OwnTables'
    BY <1>2, <1>5, NewTableIsFree DEF OwnTables, Defined, type
  <1>7. OwnAllocator'
    BY <1>1, <1>2
    DEF OwnAllocator, ReleasedByItsAllocator, MayDeallocate, Fits, SameAllocations, OneOwner
  <1> QED
    BY <1>3, <1>4, <1>6, <1>7

(* v keeps its allocation; its table is the old one or nobody else's.       *)
LEMMA SameMemoryOwn ==
  ASSUME OwnInv, IsHeap(heap'), Defined,
         NEW v \in DOMAIN vectors, NEW m \in MembersType, NEW n \in Nat,
         m.block = vectors[v].block,
         m.locator.table \in {NewTable(n), NoTable, vectors[v].locator.table},
         vectors' = Set(v, m),
         DOMAIN heap' = DOMAIN heap,
         SameAllocations(heap', DOMAIN heap \ {m.block}),
         "swap_allocators" \in Avoided => Fits(m, heap')
  PROVE  OwnInv'
  <1> USE DEF OwnInv
  <1>2. /\ DOMAIN vectors' = DOMAIN vectors
        /\ \A x \in DOMAIN vectors' : vectors'[x] = IF x = v THEN m ELSE vectors[x]
    BY DEF Set
  <1>3. TypeOK'
    BY DEF TypeOK, Set, Defined, type
  <1>4. OneOwner'
    BY <1>2 DEF OneOwner
  <1>5. \A x \in DOMAIN vectors \ {v} :
          vectors[x].locator.table.name = m.locator.table.name =>
             /\ m.locator.table = NoTable
             /\ vectors[x].locator.table = NoTable
    BY NewTableIsFree, NamesAssumption
    DEF TypeOK, MembersType, Locators, Tables, NoTable, OwnTables
  <1>6. OwnTables'
    BY <1>2, <1>5, NewTableIsFree DEF OwnTables, Defined, type
  <1>7. OwnAllocator'
    BY <1>2
    DEF OwnAllocator, ReleasedByItsAllocator, MayDeallocate, Fits, SameAllocations, OneOwner
  <1> QED
    BY <1>3, <1>4, <1>6, <1>7

-----------------------------------------------------------------------------
(* No vector and no memory at the beginning.                                *)
LEMMA InitOwn == Init => OwnInv
  BY DEF Init, OwnInv, TypeOK, IsHeap, OneOwner, OwnTables, OwnAllocator, ReleasedByItsAllocator

(* A call with undefined behaviour is not followed any further.             *)
LEMMA UndefinedOwn ==
  ASSUME OwnInv, Undefined
  PROVE  OwnInv'
  BY DEF OwnInv, TypeOK, IsHeap, OneOwner, OwnTables, OwnAllocator, ReleasedByItsAllocator,
         MayDeallocate, Undefined, type

(* Constructors: memory is new, or there is none.                           *)
LEMMA ConstructDefaultOwn ==
  ASSUME OwnInv, NEW v \in Vector, NEW a \in Allocator, ConstructDefault(v, a)
  PROVE  OwnInv'
  <1> USE DEF OwnInv, ConstructDefault
  <1> DEFINE m == Members(Null, 0, a, 0, NoLocator)
  <1>1. m \in MembersType /\ m.block = Null /\ m.locator.table = NoTable
    BY DEF Members, MembersType, NoLocator, Locators, Tables, Pointers
  <1> HIDE DEF m
  <1>2. /\ DOMAIN vectors' = DOMAIN vectors \cup {v}
        /\ \A x \in DOMAIN vectors' : vectors'[x] = IF x = v THEN m ELSE vectors[x]
    BY DEF Set, m
  <1>3. vectors' = Set(v, m)
    BY DEF m
  <1>4. TypeOK'
    BY <1>1, <1>3 DEF TypeOK, Set, Defined, type
  <1>5. OneOwner'
    BY <1>1, <1>2, NamesAssumption DEF OneOwner, TypeOK, IsHeap
  <1>6. OwnTables'
    BY <1>1, <1>2, NamesAssumption
    DEF OwnTables, TypeOK, MembersType, Locators, Tables, NoTable, Defined, type
  <1>7. OwnAllocator'
    BY <1>1, <1>2 DEF OwnAllocator, ReleasedByItsAllocator, MayDeallocate
  <1> QED
    BY <1>4, <1>5, <1>6, <1>7

LEMMA ConstructOwn ==
  ASSUME OwnInv, NEW v \in Vector, NEW n \in Nat, NEW a \in Allocator, Construct(v, n, a)
  PROVE  OwnInv'
  <1> USE DEF OwnInv, Construct
  <1>1. Fresh \in Block /\ Fresh \notin DOMAIN heap
    BY FreshIsFree
  <1>2. NewLocator(Fresh, n) \in Locators /\ NewLocator(Fresh, n).table = NewTable(n)
    BY <1>1, LocatorTypes
  <1>3. RawUnits(n) \in Cells /\ DOMAIN RawUnits(n) = Units(n)
    BY DEF RawUnits, Cells, Cell
  <1> DEFINE m == Members(Fresh, n, a, n, NewLocator(Fresh, n))
  <1>4. /\ m \in MembersType /\ m.block = Fresh /\ m.locator.table = NewTable(n)
        /\ m.allocator = a /\ m.units = n
        /\ vectors' = Set(v, m)
    BY <1>1, <1>2 DEF Members, MembersType
  <1> HIDE DEF m
  <1>5. /\ IsHeap(heap')
        /\ DOMAIN heap' = (DOMAIN heap \ {BlockOf(v)}) \cup {Fresh}
        /\ SameAllocations(heap', DOMAIN heap \ {BlockOf(v)})
        /\ Fits(m, heap')
    <2>1. AllocatedIn(heap, Fresh, a, RawUnits(n), heap')
      BY <1>1, <1>3, AllocateHeap DEF TypeOK
    <2> QED
      BY <1>1, <1>3, <1>4, <2>1, NamesAssumption
      DEF TypeOK, IsHeap, BlockOf, SameAllocations, Fits, AllocatedIn
  <1> QED
    BY <1>4, <1>5, NewMemoryOwn

(* v is new or empty-handed, gets an allocation and a copy of o's locator.  *)
LEMMA CopiedOwn ==
  ASSUME OwnInv, Defined, NEW v \in Vector, NEW o \in DOMAIN vectors, NEW a \in Allocator,
         NEW units \in Nat, NEW n \in Nat, NEW h, IsHeap(h),
         DOMAIN h = DOMAIN heap \ {BlockOf(v)},
         SameAllocations(h, DOMAIN h),
         ElementsExist(vectors[o]),
         heap' = Allocate(h, Fresh, a, Inserted(vectors[o], units)),
         vectors' = Set(v, Members(Fresh, units, a, n, CopiedLocator(vectors[o], Fresh, n)))
  PROVE  OwnInv'
  <1> DEFINE l == CopiedLocator(vectors[o], Fresh, n)
             m == Members(Fresh, units, a, n, l)
             c == Inserted(vectors[o], units)
  <1> USE DEF OwnInv
  <1>1. Fresh \in Block /\ Fresh \notin DOMAIN heap
    BY FreshIsFree
  <1>2. vectors[o] \in MembersType
    BY DEF TypeOK
  <1>3. l \in Locators /\ l.table \in {NewTable(n), NoTable}
    BY <1>1, <1>2, LocatorTypes DEF OwnTables
  <1>4. c \in Cells /\ DOMAIN c = Units(units)
    BY <1>2, InsertedCells DEF TypeOK
  <1> HIDE DEF c, l
  <1>5. AllocatedIn(h, Fresh, a, c, heap')
    BY <1>1, <1>4, AllocateHeap DEF c
  <1>6. /\ m \in MembersType /\ m.block = Fresh /\ m.locator = l
        /\ m.allocator = a /\ m.units = units
    BY <1>1, <1>3 DEF Members, MembersType
  <1>7. vectors' = Set(v, m)
    BY DEF l
  <1> HIDE DEF m
  <1>8. /\ IsHeap(heap')
        /\ DOMAIN heap' = (DOMAIN heap \ {BlockOf(v)}) \cup {Fresh}
        /\ SameAllocations(heap', DOMAIN heap \ {BlockOf(v)})
        /\ Fits(m, heap')
    BY <1>1, <1>4, <1>5, <1>6 DEF AllocatedIn, SameAllocations, Fits
  <1> QED
    BY <1>3, <1>6, <1>7, <1>8, NewMemoryOwn

(* Where the next element goes is an address, or none.                      *)
LEMMA EndIsPointer ==
  ASSUME NEW m \in MembersType, varying \in BOOLEAN
  PROVE  End(m) \in Pointers
  <1>1. m.locator.last_element \in Pointers /\ m.block \in Block \cup {Null}
        /\ m.locator.stride * m.locator.size \in Nat
    BY DEF MembersType, Locators
  <1> QED
    BY <1>1 DEF End, Pointers, Pointer

(* The destructor returns the memory of v together with v.                  *)
LEMMA DestructOwn ==
  ASSUME OwnInv, NEW v \in Vector, Destruct(v)
  PROVE  OwnInv'
  <1> USE DEF OwnInv
  <1> DEFINE m == vectors[v]
  <1>1. CASE Undefined
    BY <1>1, UndefinedOwn
  <1>2. CASE ~ Undefined
    <2>1. /\ vectors' = [x \in DOMAIN vectors \ {v} |-> vectors[x]]
          /\ heap' = Deallocate(heap, m.block)
          /\ v \in DOMAIN vectors
          /\ Defined
      BY <1>2 DEF Destruct
    <2>2. /\ IsHeap(heap') /\ DOMAIN heap' = DOMAIN heap \ {m.block}
          /\ \A x \in DOMAIN heap \ {m.block} : heap'[x] = heap[x]
      <3>1. IsHeap(heap)
        BY DEF TypeOK
      <3> QED
        BY <2>1, <3>1, DeallocateHeap, Zenon
    <2>3. /\ DOMAIN vectors' = DOMAIN vectors \ {v}
          /\ \A x \in DOMAIN vectors' : vectors'[x] = vectors[x]
      BY <2>1
    <2>4. TypeOK'
      BY <2>1, <2>2 DEF TypeOK, Defined, type
    <2>5. OneOwner'
      BY <2>1, <2>2, <2>3, NamesAssumption DEF OneOwner, TypeOK, IsHeap
    <2>6. OwnTables'
      BY <2>1, <2>3 DEF OwnTables, Defined, type
    <2>7. OwnAllocator'
      BY <2>1, <2>2, <2>3
      DEF OwnAllocator, ReleasedByItsAllocator, MayDeallocate, OneOwner
    <2> QED
      BY <2>4, <2>5, <2>6, <2>7
  <1> QED
    BY <1>1, <1>2

(* v keeps its allocation and its table.                                    *)
LEMMA OtherLocatorOwn ==
  ASSUME OwnInv, IsHeap(heap'), Defined,
         NEW v \in DOMAIN vectors, NEW l \in Locators,
         l.table = vectors[v].locator.table,
         vectors' = Set(v, [vectors[v] EXCEPT !.locator = l]),
         DOMAIN heap' = DOMAIN heap,
         SameAllocations(heap', DOMAIN heap)
  PROVE  OwnInv'
  <1> DEFINE m == [vectors[v] EXCEPT !.locator = l]
  <1>1. vectors[v] \in MembersType
    BY DEF OwnInv, TypeOK
  <1>2. /\ m \in MembersType /\ m.block = vectors[v].block /\ m.locator = l
        /\ m.allocator = vectors[v].allocator /\ m.units = vectors[v].units
    BY <1>1 DEF MembersType
  <1> HIDE DEF m
  <1>3. vectors' = Set(v, m)
    BY DEF m
  <1>4. "swap_allocators" \in Avoided => Fits(m, heap')
    BY <1>2
    DEF OwnInv, OwnAllocator, ReleasedByItsAllocator, MayDeallocate, Fits, SameAllocations
  <1> QED
    BY <1>2, <1>3, <1>4, SameMemoryOwn DEF SameAllocations

(* Appending and clearing write to the memory that v has.                   *)
LEMMA EmplaceBackOwn ==
  ASSUME OwnInv, NEW v \in Vector, NEW e \in Value, EmplaceBack(v, e)
  PROVE  OwnInv'
  <1> USE DEF OwnInv
  <1>1. CASE Undefined
    BY <1>1, UndefinedOwn
  <1>2. CASE ~ Undefined
    <2> DEFINE m == vectors[v]
               end == End(m)
               c == [heap[end[1]].cells EXCEPT ![end[2]] = e]
    <2>1. /\ v \in DOMAIN vectors /\ m \in MembersType
          /\ end # Null /\ end[1] \in DOMAIN heap /\ end[2] \in DOMAIN heap[end[1]].cells
          /\ heap' = [heap EXCEPT ![end[1]].cells[end[2]] = e]
          /\ vectors' = Set(v, [m EXCEPT !.locator = Appended(m.locator, end)])
          /\ Defined
      BY <1>2 DEF EmplaceBack, Usable, TypeOK
    <2>2. end \in Block \X Nat
      BY <2>1, EndIsPointer DEF TypeOK, Pointers
    <2> HIDE DEF end
    <2>3. Appended(m.locator, end) \in Locators /\ Appended(m.locator, end).table = m.locator.table
      <3>1. m.locator \in Locators /\ end[1] \in Block /\ end[2] + 1 \in Nat
        BY <2>1, <2>2 DEF MembersType
      <3>2. Pointer(end[1], end[2] + 1) \in Pointers
        BY <3>1 DEF Pointers, Pointer
      <3> DEFINE p == IF varying THEN Pointer(end[1], end[2] + 1) ELSE m.locator.last_element
      <3>3. p \in Pointers /\ m.locator.size + 1 \in Nat
        BY <3>1, <3>2 DEF Locators
      <3>4. Appended(m.locator, end) =
              [m.locator EXCEPT !.size = m.locator.size + 1, !.last_element = p]
        BY DEF Appended
      <3> HIDE DEF p
      <3> QED
        BY <3>1, <3>3, <3>4 DEF Locators
    <2>4. heap' = [heap EXCEPT ![end[1]].cells = c]
      BY <2>1 DEF TypeOK, IsHeap
    <2>5. heap[end[1]].cells \in Cells
      BY <2>1 DEF TypeOK, IsHeap, Memory
    <2>6. c \in Cells /\ DOMAIN c = DOMAIN heap[end[1]].cells
      <3>1. c \in [DOMAIN heap[end[1]].cells -> Cell]
        BY <2>5, CellsAreFunctions DEF Cell
      <3> QED
        BY <2>5, <3>1, CellsOfSameLength
    <2> HIDE DEF c
    <2>7. WrittenTo(heap, end[1], c, heap')
      <3>1. IsHeap(heap)
        BY DEF TypeOK
      <3>2. WrittenTo(heap, end[1], c, [heap EXCEPT ![end[1]].cells = c])
        BY <2>1, <2>6, <3>1, WrittenHeap, Zenon
      <3> QED
        BY <2>4, <3>2, Zenon
    <2>8. SameAllocations(heap', DOMAIN heap) /\ IsHeap(heap') /\ DOMAIN heap' = DOMAIN heap
      BY <2>6, <2>7 DEF WrittenTo, SameAllocations
    <2> QED
      BY <2>1, <2>3, <2>8, OtherLocatorOwn
  <1> QED
    BY <1>1, <1>2

LEMMA ClearOwn ==
  ASSUME OwnInv, NEW v \in Vector, Clear(v)
  PROVE  OwnInv'
  <1> USE DEF OwnInv
  <1>1. CASE Undefined
    BY <1>1, UndefinedOwn
  <1>2. CASE ~ Undefined
    <2> DEFINE m == vectors[v]
    <2>1. /\ v \in DOMAIN vectors /\ m \in MembersType
          /\ ElementsExist(m)
          /\ heap' = Filled(heap, m, Raw)
          /\ vectors' = Set(v, [m EXCEPT !.locator = Emptied(m.locator, m.block)])
          /\ Defined
      BY <1>2 DEF Clear, Usable, TypeOK, Destroyed
    <2>2. /\ Emptied(m.locator, m.block) \in Locators
          /\ Emptied(m.locator, m.block).table = m.locator.table
      BY <2>1 DEF Emptied, MembersType, Locators, Pointers, Pointer
    <2>3. SameAllocations(heap', DOMAIN heap) /\ IsHeap(heap') /\ DOMAIN heap' = DOMAIN heap
      BY <2>1, FilledHeap DEF TypeOK, ElementsExist, SameAllocations, Cell
    <2> QED
      BY <2>1, <2>2, <2>3, OtherLocatorOwn
  <1> QED
    BY <1>1, <1>2

(* grow returns the old memory and takes the new one.                       *)
LEMMA ReserveOwn ==
  ASSUME OwnInv, NEW v \in Vector, NEW n \in Nat, Reserve(v, n)
  PROVE  OwnInv'
  <1> USE DEF OwnInv
  <1>1. CASE Undefined
    BY <1>1, UndefinedOwn
  <1>2. CASE ~ Undefined
    <2> DEFINE m == vectors[v]
               units == NewUnits(m, n)
               h == Deallocate(heap, m.block)
    <2>1. /\ v \in DOMAIN vectors /\ m.allocator \in Allocator
          /\ ElementsExist(m)
          /\ heap' = Allocate(h, Fresh, m.allocator, Inserted(m, units))
          /\ vectors' = Set(v, Members(Fresh, units, m.allocator, n, CopiedLocator(m, Fresh, n)))
          /\ Defined
      BY <1>2 DEF Reserve, Usable, TypeOK, MembersType, MayInsertFrom
    <2>3. units \in Nat
      BY <2>1 DEF NewUnits, TypeOK, MembersType, Locators
    <2>2. /\ IsHeap(h)
          /\ DOMAIN h = DOMAIN heap \ {BlockOf(v)}
          /\ SameAllocations(h, DOMAIN h)
      <3>1. /\ IsHeap(h) /\ DOMAIN h = DOMAIN heap \ {m.block}
            /\ \A x \in DOMAIN heap \ {m.block} : h[x] = heap[x]
        BY DeallocateHeap DEF TypeOK
      <3> HIDE DEF h
      <3> QED
        BY <2>1, <3>1 DEF BlockOf, SameAllocations
    <2> HIDE DEF h, units
    <2> QED
      BY <2>1, <2>2, <2>3, CopiedOwn
  <1> QED
    BY <1>1, <1>2

(* The copy has memory of its own and the allocator it was given.           *)
LEMMA CopyConstructOwn ==
  ASSUME OwnInv, NEW v \in Vector, NEW w \in Vector, NEW a \in Allocator,
         CopyConstruct(v, w, a)
  PROVE  OwnInv'
  <1> USE DEF OwnInv
  <1>1. CASE Undefined
    BY <1>1, UndefinedOwn
  <1>2. CASE ~ Undefined
    <2> DEFINE o == vectors[w]
    <2>1. /\ v \notin DOMAIN vectors /\ w \in DOMAIN vectors /\ o \in MembersType
          /\ ElementsExist(o)
          /\ heap' = Allocate(heap, Fresh, a, Inserted(o, o.units))
          /\ vectors' = Set(v, Members(Fresh, o.units, a, o.max_element_count,
                                       CopiedLocator(o, Fresh, o.max_element_count)))
          /\ Defined
      BY <1>2 DEF CopyConstruct, Usable, TypeOK, MayInsertFrom
    <2>2. o.units \in Nat /\ o.max_element_count \in Nat
      BY <2>1 DEF MembersType
    <2>3. /\ IsHeap(heap)
          /\ DOMAIN heap = DOMAIN heap \ {BlockOf(v)}
          /\ SameAllocations(heap, DOMAIN heap)
      BY <2>1, NamesAssumption DEF TypeOK, IsHeap, BlockOf, SameAllocations
    <2> QED
      BY <2>1, <2>2, <2>3, CopiedOwn
  <1> QED
    BY <1>1, <1>2

(* w's allocation and table go to v, which had none or gave its own back.   *)
LEMMA TransferOwn ==
  ASSUME OwnInv, IsHeap(heap'), Defined,
         NEW v \in Vector, NEW w \in DOMAIN vectors, v # w,
         NEW m \in MembersType, m.block = vectors[w].block, m.units = vectors[w].units,
         m.locator = vectors[w].locator,
         MayDeallocate(vectors[w], vectors[w].allocator) => m.allocator = vectors[w].allocator,
         vectors' = [x \in DOMAIN vectors \cup {v} |->
                       IF x = v THEN m ELSE IF x = w THEN Released(vectors[w])
                       ELSE vectors[x]],
         DOMAIN heap' = DOMAIN heap \ {BlockOf(v)},
         \A b \in DOMAIN heap' : heap'[b] = heap[b]
  PROVE  OwnInv'
  <1> USE DEF OwnInv
  <1> DEFINE o == vectors[w]
             left == Released(o)
  <1>1. o \in MembersType
    BY DEF TypeOK
  <1>2. left \in MembersType /\ left.block = Null /\ left.locator.table = NoTable
    <2>1. ReleasedLocator(o.locator) \in Locators /\ ReleasedLocator(o.locator).table = NoTable
      BY <1>1 DEF MembersType, Locators, Tables, ReleasedLocator, OwnTables
    <2> QED
      BY <1>1, <2>1 DEF MembersType, Released
  <1> HIDE DEF left
  <1>3. /\ DOMAIN vectors' = DOMAIN vectors \cup {v}
        /\ \A x \in DOMAIN vectors' :
             vectors'[x] = IF x = v THEN m ELSE IF x = w THEN left ELSE vectors[x]
    BY DEF left
  <1>4. TypeOK'
    BY <1>2, <1>3 DEF TypeOK, Defined, type
  <1>5. OneOwner'
    <2>1. Null \notin DOMAIN heap
      BY NamesAssumption DEF TypeOK, IsHeap
    <2>2. \A x \in DOMAIN vectors' :
            vectors'[x].block =
              IF x = v THEN o.block ELSE IF x = w THEN Null ELSE vectors[x].block
      BY <1>2, <1>3
    <2>3. ASSUME NEW x \in DOMAIN vectors'
          PROVE  vectors'[x].block \in DOMAIN heap' \cup {Null}
      <3>1. CASE x = v
        <4>1. o.block \in DOMAIN heap \cup {Null}
          BY DEF OneOwner
        <4>2. o.block # Null => o.block # BlockOf(v)
          BY DEF OneOwner, BlockOf
        <4> QED
          BY <2>2, <3>1, <4>1, <4>2
      <3>2. CASE x = w
        BY <2>2, <3>2
      <3>3. CASE x # v /\ x # w
        <4>1. x \in DOMAIN vectors /\ vectors'[x].block = vectors[x].block
          BY <1>3, <2>2, <3>3
        <4>2. vectors[x].block \in DOMAIN heap \cup {Null}
          BY <4>1 DEF OneOwner
        <4>3. vectors[x].block # Null => vectors[x].block # BlockOf(v)
          BY <3>3, <4>1 DEF OneOwner, BlockOf
        <4> QED
          BY <4>1, <4>2, <4>3
      <3> QED
        BY <3>1, <3>2, <3>3
    <2>4. \A b \in DOMAIN heap' : \E x \in DOMAIN vectors' : vectors'[x].block = b
      <3> TAKE b \in DOMAIN heap'
      <3>1. PICK x \in DOMAIN vectors : vectors[x].block = b
        BY DEF OneOwner
      <3>2. x # v /\ b # Null
        BY <2>1, <3>1 DEF BlockOf
      <3> QED
        BY <1>3, <2>2, <3>1, <3>2
    <2>5. \A x, y \in DOMAIN vectors' :
            x # y /\ vectors'[x].block = vectors'[y].block => vectors'[x].block = Null
      <3> TAKE x, y \in DOMAIN vectors'
      <3>1. HAVE x # y /\ vectors'[x].block = vectors'[y].block
      <3>2. CASE w \in {x, y}
        BY <2>2, <3>1, <3>2
      <3>3. CASE w \notin {x, y}
        <4> DEFINE p == IF x = v THEN w ELSE x
                   q == IF y = v THEN w ELSE y
        <4>1. p \in DOMAIN vectors /\ q \in DOMAIN vectors /\ p # q
          BY <1>3, <3>1, <3>3
        <4>2. vectors'[x].block = vectors[p].block /\ vectors'[y].block = vectors[q].block
          BY <2>2, <3>3
        <4> QED
          BY <3>1, <4>1, <4>2 DEF OneOwner
      <3> QED
        BY <3>2, <3>3
    <2> QED
      BY <2>3, <2>4, <2>5 DEF OneOwner
  <1>6. \A x \in DOMAIN vectors :
          vectors[x].locator.table.name = Null => vectors[x].locator.table = NoTable
    BY NamesAssumption DEF TypeOK, MembersType, Locators, Tables, NoTable
  <1>7. OwnTables'
    <2>1. \A x \in DOMAIN vectors' :
            vectors'[x].locator.table =
              IF x = v THEN o.locator.table ELSE IF x = w THEN NoTable
              ELSE vectors[x].locator.table
      BY <1>2, <1>3
    <2>2. NoTable.name = Null
      BY DEF NoTable
    <2>3. \A x, y \in DOMAIN vectors' :
            x # y /\ vectors'[x].locator.table.name = vectors'[y].locator.table.name =>
              vectors'[x].locator.table = NoTable
      <3> TAKE x, y \in DOMAIN vectors'
      <3>1. HAVE x # y /\ vectors'[x].locator.table.name = vectors'[y].locator.table.name
      <3>2. CASE w \in {x, y}
        <4>1. vectors'[x].locator.table.name = Null
          BY <2>1, <2>2, <3>1, <3>2
        <4> QED
          BY <1>3, <1>6, <2>1, <4>1
      <3>3. CASE w \notin {x, y}
        <4> DEFINE p == IF x = v THEN w ELSE x
                   q == IF y = v THEN w ELSE y
        <4>1. p \in DOMAIN vectors /\ q \in DOMAIN vectors /\ p # q
          BY <1>3, <3>1, <3>3
        <4>2. /\ vectors'[x].locator.table = vectors[p].locator.table
              /\ vectors'[y].locator.table = vectors[q].locator.table
          BY <2>1, <3>3
        <4> QED
          BY <3>1, <4>1, <4>2 DEF OwnTables
      <3> QED
        BY <3>2, <3>3
    <2>4. ~ varying => \A x \in DOMAIN vectors' : vectors'[x].locator.table = NoTable
      BY <1>3, <2>1 DEF OwnTables
    <2> QED
      <3>1. varying' = varying /\ NoTable = NoTable'
        BY DEF Defined, type, NoTable
      <3> QED
        BY <2>3, <2>4, <3>1 DEF OwnTables
  <1>8. OwnAllocator'
    <2> SUFFICES ASSUME "swap_allocators" \in Avoided, NEW x \in DOMAIN vectors',
                        vectors'[x].block # Null
                 PROVE  Fits(vectors'[x], heap')
      BY DEF OwnAllocator, ReleasedByItsAllocator, MayDeallocate, Fits
    <2>1. \A y \in DOMAIN vectors : MayDeallocate(vectors[y], vectors[y].allocator)
      BY DEF OwnAllocator, ReleasedByItsAllocator
    <2>2. x # w /\ vectors'[x].block \in DOMAIN heap'
      BY <1>2, <1>3, <1>5 DEF OneOwner
    <2>3. CASE x = v
      <3>1. vectors'[x] = m /\ Fits(o, heap) /\ m.allocator = o.allocator
        BY <1>3, <2>1, <2>3 DEF MayDeallocate, Fits
      <3> QED
        BY <2>2, <3>1 DEF Fits
    <2>4. CASE x # v
      <3>1. vectors'[x] = vectors[x] /\ Fits(vectors[x], heap)
        BY <1>3, <2>1, <2>2, <2>4 DEF MayDeallocate, Fits
      <3> QED
        BY <2>2, <3>1 DEF Fits
    <2> QED
      BY <2>3, <2>4
  <1> QED
    BY <1>4, <1>5, <1>7, <1>8

(* The default move constructor leaves no pointer and no table behind.      *)
LEMMA MoveConstructOwn ==
  ASSUME OwnInv, NEW v \in Vector, NEW w \in Vector, MoveConstruct(v, w)
  PROVE  OwnInv'
  <1> USE DEF OwnInv
  <1>1. /\ v # w /\ w \in DOMAIN vectors /\ vectors[w] \in MembersType
        /\ IsHeap(heap) /\ heap' = heap /\ Defined
        /\ BlockOf(v) = Null
    BY DEF MoveConstruct, TypeOK, BlockOf
  <1>2. Null \notin DOMAIN heap
    BY NamesAssumption DEF TypeOK, IsHeap
  <1> QED
    BY <1>1, <1>2, TransferOwn DEF MoveConstruct

(* Everything but the allocator comes along.                                *)
LEMMA TakenOverMembers ==
  ASSUME NEW m \in MembersType, NEW o \in MembersType, traits.move \in BOOLEAN
  PROVE  /\ TakenOver(m, o) \in MembersType
         /\ TakenOver(m, o).block = o.block
         /\ TakenOver(m, o).units = o.units
         /\ TakenOver(m, o).max_element_count = o.max_element_count
         /\ TakenOver(m, o).locator = o.locator
         /\ TakenOver(m, o).allocator = IF traits.move THEN o.allocator ELSE m.allocator
  BY DEF TakenOver, MembersType

(* Move assignment returns the old memory with the old allocator and takes  *)
(* over the other allocator only with the memory it made.                   *)
LEMMA StealOwn ==
  ASSUME OwnInv, NEW v \in DOMAIN vectors, NEW w \in DOMAIN vectors, v # w,
         Steals(vectors[v], vectors[w]), Steal(v, w)
  PROVE  OwnInv'
  <1> USE DEF OwnInv
  <1>1. CASE Undefined
    BY <1>1, UndefinedOwn
  <1>2. CASE ~ Undefined
    <2> DEFINE m == vectors[v]
               o == vectors[w]
    <2>1. /\ heap' = Deallocate(heap, m.block)
          /\ vectors' = [vectors EXCEPT ![v] = TakenOver(m, o), ![w] = Released(o)]
          /\ Defined
          /\ m \in MembersType /\ o \in MembersType /\ traits.move \in BOOLEAN
          /\ v \in Vector
      BY <1>2 DEF Steal, TypeOK
    <2>2. IsHeap(heap') /\ DOMAIN heap' = DOMAIN heap \ {BlockOf(v)}
          /\ \A b \in DOMAIN heap' : heap'[b] = heap[b]
      <3>1. IsHeap(heap) /\ BlockOf(v) = m.block
        BY DEF TypeOK, BlockOf
      <3>2. /\ IsHeap(Deallocate(heap, m.block))
            /\ DOMAIN Deallocate(heap, m.block) = DOMAIN heap \ {m.block}
            /\ \A x \in DOMAIN heap \ {m.block} : Deallocate(heap, m.block)[x] = heap[x]
        BY <3>1, DeallocateHeap
      <3> QED
        BY <2>1, <3>1, <3>2
    <2>3. TakenOver(m, o).allocator = o.allocator
      BY <2>1, TakenOverMembers DEF Steals
    <2>4. vectors' = [x \in DOMAIN vectors \cup {v} |->
                        IF x = v THEN TakenOver(m, o) ELSE IF x = w THEN Released(o)
                        ELSE vectors[x]]
      BY <2>1 DEF TypeOK
    <2>5. /\ TakenOver(m, o) \in MembersType
          /\ TakenOver(m, o).block = o.block /\ TakenOver(m, o).units = o.units
          /\ TakenOver(m, o).locator = o.locator
      BY <2>1, TakenOverMembers
    <2> QED
      BY <2>1, <2>2, <2>3, <2>4, <2>5, TransferOwn
  <1> QED
    BY <1>1, <1>2

(* v keeps its memory, with other objects in it, and gets a copy of the     *)
(* locator of o.                                                            *)
LEMMA CopiedInPlaceOwn ==
  ASSUME OwnInv, IsHeap(heap'), Defined,
         NEW v \in DOMAIN vectors, NEW o \in DOMAIN vectors, NEW n \in Nat, NEW a \in Allocator,
         "swap_allocators" \in Avoided => a = vectors[v].allocator,
         vectors' = Set(v, Members(vectors[v].block, vectors[v].units, a, n,
                                   CopiedLocator(vectors[o], vectors[v].block, n))),
         DOMAIN heap' = DOMAIN heap,
         SameAllocations(heap', DOMAIN heap \ {vectors[v].block}),
         vectors[v].block # Null =>
           /\ heap'[vectors[v].block].allocator = heap[vectors[v].block].allocator
           /\ DOMAIN heap'[vectors[v].block].cells = Units(vectors[v].units)
  PROVE  OwnInv'
  <1> USE DEF OwnInv
  <1> DEFINE old == vectors[v]
             l == CopiedLocator(vectors[o], old.block, n)
             m == Members(old.block, old.units, a, n, l)
  <1>1. old \in MembersType /\ vectors[o] \in MembersType
    BY DEF TypeOK
  <1>2. l \in Locators /\ l.table \in {NewTable(n), NoTable}
    BY <1>1, LocatorTypes DEF OwnTables, MembersType
  <1> HIDE DEF l
  <1>3. /\ m \in MembersType /\ m.block = old.block /\ m.locator = l
        /\ m.allocator = a /\ m.units = old.units
    BY <1>1, <1>2 DEF Members, MembersType
  <1>4. vectors' = Set(v, m)
    BY DEF l
  <1> HIDE DEF m
  <1>5. "swap_allocators" \in Avoided => Fits(m, heap')
    BY <1>3 DEF OwnAllocator, ReleasedByItsAllocator, MayDeallocate, Fits
  <1> QED
    BY <1>2, <1>3, <1>4, <1>5, SameMemoryOwn

(* Copy assignment keeps its memory where that is large enough and the      *)
(* allocator stays; otherwise it returns it before the allocator changes.   *)
LEMMA CopyAssignOwn ==
  ASSUME OwnInv, NEW v \in Vector, NEW w \in Vector, CopyAssign(v, w)
  PROVE  OwnInv'
  <1> USE DEF OwnInv
  <1>1. CASE Undefined
    BY <1>1, UndefinedOwn
  <1>2. CASE ~ Undefined
    <2> DEFINE m == vectors[v]
               o == vectors[w]
               a == IF traits.copy THEN o.allocator ELSE m.allocator
               n == o.max_element_count
    <2>1. /\ v \in DOMAIN vectors /\ w \in DOMAIN vectors
          /\ m \in MembersType /\ o \in MembersType
          /\ ElementsExist(m) /\ ElementsExist(o)
          /\ Defined
      BY <1>2 DEF CopyAssign, Usable, TypeOK, MayInsertFrom
    <2>2. o.units \in Nat /\ m.units \in Nat /\ n \in Nat /\ a \in Allocator
          /\ m.block \in Block \cup {Null} /\ m.allocator \in Allocator
      BY <2>1 DEF MembersType
    <2>3. CASE Replaces(m, o)
      <3> DEFINE h == Deallocate(heap, m.block)
      <3>1. /\ heap' = IF Fresh = Null THEN h ELSE Allocate(h, Fresh, a, Inserted(o, o.units))
            /\ vectors' = Set(v, Members(Fresh, o.units, a, n, CopiedLocator(o, Fresh, n)))
        BY <1>2, <2>3 DEF CopyAssign
      <3>2. Fresh # Null
        BY FreshIsFree, NamesAssumption
      <3>3. /\ IsHeap(h) /\ DOMAIN h = DOMAIN heap \ {m.block}
            /\ \A x \in DOMAIN heap \ {m.block} : h[x] = heap[x]
        <4>1. IsHeap(heap)
          BY DEF TypeOK
        <4> QED
          BY <4>1, DeallocateHeap
      <3> HIDE DEF h
      <3>4. DOMAIN h = DOMAIN heap \ {BlockOf(v)} /\ SameAllocations(h, DOMAIN h)
        BY <2>1, <3>3 DEF BlockOf, SameAllocations
      <3> QED
        BY <2>1, <2>2, <3>1, <3>2, <3>3, <3>4, CopiedOwn
    <2>4. CASE ~ Replaces(m, o)
      <3> DEFINE h == Destroyed(heap, m)
                 c == Inserted(o, m.units)
      <3>1. /\ heap' = IF m.block = Null THEN h
                       ELSE Allocate(h, m.block, heap[m.block].allocator, c)
            /\ vectors' = Set(v, Members(m.block, m.units, a, n, CopiedLocator(o, m.block, n)))
        BY <1>2, <2>4 DEF CopyAssign
      <3>2. "swap_allocators" \in Avoided => a = m.allocator
        BY <2>4 DEF Replaces
      <3>3. /\ IsHeap(h) /\ DOMAIN h = DOMAIN heap
            /\ \A x \in DOMAIN heap \ {m.block} : h[x] = heap[x]
        BY <2>1, FilledHeap DEF TypeOK, ElementsExist, Destroyed, Cell
      <3>4. c \in Cells /\ DOMAIN c = Units(m.units)
        BY <2>1, <2>2, InsertedCells DEF TypeOK
      <3> HIDE DEF h, c
      <3>5. CASE m.block = Null
        <4>1. heap' = h
          BY <3>1, <3>5
        <4> QED
          BY <2>1, <2>2, <3>1, <3>2, <3>3, <3>5, <4>1, CopiedInPlaceOwn DEF SameAllocations
      <3>6. CASE m.block # Null
        <4>1. m.block \in DOMAIN heap /\ heap[m.block].allocator \in Allocator
          BY <2>1, <3>6 DEF OneOwner, TypeOK, IsHeap, Memory
        <4>2. AllocatedIn(h, m.block, heap[m.block].allocator, c, heap')
          BY <2>2, <3>1, <3>3, <3>4, <3>6, <4>1, AllocateHeap
        <4>3. /\ IsHeap(heap') /\ DOMAIN heap' = DOMAIN heap
              /\ SameAllocations(heap', DOMAIN heap \ {m.block})
              /\ heap'[m.block].allocator = heap[m.block].allocator
              /\ DOMAIN heap'[m.block].cells = Units(m.units)
          BY <3>3, <3>4, <4>1, <4>2 DEF AllocatedIn, SameAllocations
        <4> QED
          BY <2>1, <2>2, <3>1, <3>2, <4>3, CopiedInPlaceOwn
      <3> QED
        BY <3>5, <3>6
    <2> QED
      BY <2>3, <2>4
  <1> QED
    BY <1>1, <1>2

(* An element-wise move does not touch the other vector's memory, only what *)
(* is in it.                                                                *)
LEMMA MoveElementsOwn ==
  ASSUME OwnInv, NEW v \in DOMAIN vectors, NEW w \in DOMAIN vectors, MoveElements(v, w)
  PROVE  OwnInv'
  <1> USE DEF OwnInv
  <1>1. CASE Undefined
    BY <1>1, UndefinedOwn
  <1>2. CASE ~ Undefined
    <2> DEFINE m == vectors[v]
               o == vectors[w]
               n == o.max_element_count
               h == Filled(heap, o, Moved)
    <2>1. /\ m \in MembersType /\ o \in MembersType /\ v \in Vector
          /\ ElementsExist(o)
          /\ Defined
      BY <1>2 DEF MoveElements, TypeOK, MayInsertFrom
    <2>2. o.units \in Nat /\ m.units \in Nat /\ n \in Nat /\ m.allocator \in Allocator
          /\ m.block \in Block \cup {Null}
      BY <2>1 DEF MembersType
    <2>3. IsHeap(h) /\ DOMAIN h = DOMAIN heap /\ SameAllocations(h, DOMAIN heap)
      BY <2>1, FilledHeap DEF TypeOK, ElementsExist, SameAllocations, Cell
    <2>4. CASE Outgrows(m, o)
      <3> DEFINE g == Deallocate(h, m.block)
                 units == o.units * UnitBytes
      <3>1. /\ heap' = Allocate(g, Fresh, m.allocator, Inserted(o, units))
            /\ vectors' = Set(v, Members(Fresh, units, m.allocator, n,
                                         CopiedLocator(o, Fresh, n)))
        BY <1>2, <2>4 DEF MoveElements
      <3>2. units \in Nat
        BY <2>2, SizesAssumption
      <3>3. IsHeap(g) /\ DOMAIN g = DOMAIN h \ {m.block}
            /\ \A x \in DOMAIN h \ {m.block} : g[x] = h[x]
        <4> HIDE DEF h
        <4> QED
          BY <2>3, DeallocateHeap
      <3> HIDE DEF h, g, units
      <3>4. DOMAIN g = DOMAIN heap \ {BlockOf(v)} /\ SameAllocations(g, DOMAIN g)
        BY <2>3, <3>3 DEF BlockOf, SameAllocations
      <3> QED
        BY <2>1, <2>2, <3>1, <3>2, <3>3, <3>4, CopiedOwn
    <2>5. CASE ~ Outgrows(m, o)
      <3> DEFINE c == Inserted(o, m.units)
      <3>1. /\ heap' = IF m.block = Null THEN h ELSE [h EXCEPT ![m.block].cells = c]
            /\ vectors' = Set(v, Members(m.block, m.units, m.allocator, n,
                                         CopiedLocator(o, m.block, n)))
        BY <1>2, <2>5 DEF MoveElements
      <3>2. c \in Cells /\ DOMAIN c = Units(m.units)
        BY <2>1, <2>2, InsertedCells DEF TypeOK
      <3> HIDE DEF h, c
      <3>3. CASE m.block = Null
        <4>1. heap' = h
          BY <3>1, <3>3
        <4> QED
          BY <2>1, <2>2, <2>3, <3>1, <3>3, <4>1, CopiedInPlaceOwn DEF SameAllocations
      <3>4. CASE m.block # Null
        <4>1. m.block \in DOMAIN h
          BY <2>1, <2>3, <3>4 DEF OneOwner
        <4>2. heap' = [h EXCEPT ![m.block].cells = c]
          BY <3>1, <3>4
        <4>3. WrittenTo(h, m.block, c, heap')
          <5>1. WrittenTo(h, m.block, c, [h EXCEPT ![m.block].cells = c])
            BY <2>3, <3>2, <4>1, WrittenHeap, Zenon
          <5> QED
            BY <4>2, <5>1, Zenon
        <4>4. /\ IsHeap(heap') /\ DOMAIN heap' = DOMAIN heap
              /\ SameAllocations(heap', DOMAIN heap \ {m.block})
              /\ heap'[m.block].allocator = heap[m.block].allocator
              /\ DOMAIN heap'[m.block].cells = Units(m.units)
          BY <2>3, <3>2, <4>1, <4>3 DEF WrittenTo, SameAllocations
        <4> QED
          BY <2>1, <2>2, <3>1, <4>4, CopiedInPlaceOwn
      <3> QED
        BY <3>3, <3>4
    <2> QED
      BY <2>4, <2>5
  <1> QED
    BY <1>1, <1>2

(* swap exchanges memory and tables; who owns which changes, not how many   *)
(* do.  The allocators must be equal or go along.                           *)
LEMMA SwapOwn ==
  ASSUME OwnInv, NEW v \in Vector, NEW w \in Vector, Swap(v, w)
  PROVE  OwnInv'
  <1> USE DEF OwnInv
  <1> DEFINE m == vectors[v]
             o == vectors[w]
             other(x) == IF x = v THEN w ELSE IF x = w THEN v ELSE x
  <1>1. /\ v # w /\ v \in DOMAIN vectors /\ w \in DOMAIN vectors
        /\ m \in MembersType /\ o \in MembersType
        /\ heap' = heap /\ Defined
        /\ vectors' = [vectors EXCEPT ![v] = TakenOver(m, o), ![w] = TakenOver(o, m)]
        /\ m.allocator # o.allocator /\ "swap_allocators" \in Avoided => traits.move
        /\ traits.move \in BOOLEAN
    BY DEF Swap, TypeOK
  <1>2. /\ DOMAIN vectors' = DOMAIN vectors
        /\ \A x \in DOMAIN vectors' :
             vectors'[x] = IF x = v THEN TakenOver(m, o) ELSE IF x = w THEN TakenOver(o, m)
                           ELSE vectors[x]
    BY <1>1 DEF TypeOK
  <1>3. \A x \in DOMAIN vectors' :
          /\ other(x) \in DOMAIN vectors
          /\ vectors'[x] \in MembersType
          /\ vectors'[x].block = vectors[other(x)].block
          /\ vectors'[x].units = vectors[other(x)].units
          /\ vectors'[x].locator = vectors[other(x)].locator
          /\ "swap_allocators" \in Avoided =>
               vectors'[x].allocator = vectors[other(x)].allocator
    BY <1>1, <1>2, TakenOverMembers DEF TypeOK
  <1>4. \A x, y \in DOMAIN vectors : other(x) = other(y) => x = y
    BY <1>1
  <1>5. \A x \in DOMAIN vectors : other(x) \in DOMAIN vectors' /\ other(other(x)) = x
    BY <1>1, <1>2
  <1>6. TypeOK'
    BY <1>1, <1>2, <1>3 DEF TypeOK, Defined, type
  <1> HIDE DEF other
  <1>7. OneOwner'
    BY <1>1, <1>2, <1>3, <1>4, <1>5 DEF OneOwner
  <1>8. OwnTables'
    <2>1. ASSUME NEW x \in DOMAIN vectors', NEW y \in DOMAIN vectors', x # y,
                 vectors'[x].locator.table.name = vectors'[y].locator.table.name
          PROVE  vectors'[x].locator.table = NoTable
      <3>1. other(x) # other(y)
        BY <1>2, <1>4, <2>1
      <3> QED
        BY <1>3, <2>1, <3>1 DEF OwnTables
    <2>2. ~ varying => \A x \in DOMAIN vectors' : vectors'[x].locator.table = NoTable
      BY <1>3 DEF OwnTables
    <2>3. varying' = varying /\ NoTable' = NoTable
      BY <1>1 DEF Defined, type, NoTable
    <2> QED
      BY <2>1, <2>2, <2>3 DEF OwnTables
  <1>9. OwnAllocator'
    BY <1>1, <1>3 DEF OwnAllocator, ReleasedByItsAllocator, MayDeallocate
  <1> QED
    BY <1>6, <1>7, <1>8, <1>9

-----------------------------------------------------------------------------
(* Every call preserves the invariant.                                      *)
LEMMA NextOwn == OwnInv /\ [Next]_vars => OwnInv'
  <1> SUFFICES ASSUME OwnInv, [Next]_vars PROVE OwnInv'
    OBVIOUS
  <1>1. CASE UNCHANGED vars
    BY <1>1 DEF OwnInv, TypeOK, OneOwner, OwnTables, OwnAllocator, ReleasedByItsAllocator,
         MayDeallocate, vars, type
  <1>2. CASE Next
    <2> SUFFICES ASSUME NEW v \in Vector,
                        \/ \E a \in Allocator : ConstructDefault(v, a)
                        \/ \E n \in 0 .. MaxCapacity, a \in Allocator : Construct(v, n, a)
                        \/ Destruct(v)
                        \/ \E e \in Value : EmplaceBack(v, e)
                        \/ Clear(v)
                        \/ \E n \in 1 .. MaxCapacity : Reserve(v, n)
                        \/ \E w \in Vector, a \in Allocator : CopyConstruct(v, w, a)
                        \/ \E w \in Vector : MoveConstruct(v, w)
                        \/ \E w \in Vector : CopyAssign(v, w)
                        \/ \E w \in Vector : MoveAssign(v, w)
                        \/ \E w \in Vector : Swap(v, w)
                 PROVE  OwnInv'
      BY <1>2 DEF Next
    <2>1. ASSUME NEW a \in Allocator, ConstructDefault(v, a) PROVE OwnInv'
      BY <2>1, ConstructDefaultOwn
    <2>2. ASSUME NEW n \in 0 .. MaxCapacity, NEW a \in Allocator, Construct(v, n, a)
          PROVE  OwnInv'
      BY <2>2, ConstructOwn, SizesAssumption
    <2>3. ASSUME NEW e \in Value, EmplaceBack(v, e) PROVE OwnInv'
      BY <2>3, EmplaceBackOwn
    <2>4. ASSUME NEW n \in 1 .. MaxCapacity, Reserve(v, n) PROVE OwnInv'
      BY <2>4, ReserveOwn, SizesAssumption
    <2>5. ASSUME NEW w \in Vector, NEW a \in Allocator, CopyConstruct(v, w, a) PROVE OwnInv'
      BY <2>5, CopyConstructOwn
    <2>6. ASSUME NEW w \in Vector, MoveAssign(v, w) PROVE OwnInv'
      <3>1. v # w /\ v \in DOMAIN vectors /\ w \in DOMAIN vectors
        BY <2>6 DEF MoveAssign, Usable
      <3>2. CASE Steals(vectors[v], vectors[w])
        BY <2>6, <3>1, <3>2, StealOwn DEF MoveAssign
      <3>3. CASE ~ Steals(vectors[v], vectors[w])
        BY <2>6, <3>1, <3>3, MoveElementsOwn DEF MoveAssign
      <3> QED
        BY <3>2, <3>3
    <2> QED
      BY <2>1, <2>2, <2>3, <2>4, <2>5, <2>6, DestructOwn, ClearOwn, MoveConstructOwn,
         CopyAssignOwn, SwapOwn
  <1> QED
    BY <1>1, <1>2

LEMMA SpecOwn == Spec => []OwnInv
  BY InitOwn, NextOwn, PTL DEF Spec

(* No allocation is freed twice, leaked or shared, nor is a table of        *)
(* offsets, whatever calls a program makes, on hollow vectors too, up to    *)
(* the first with undefined behaviour (allocator.hpp:60-124,                *)
(* vector.hpp:301-307, 485-551, unmanagedVector.hpp:26-39).                 *)
THEOREM MemoryHasOneOwner == Spec => []SoleOwner
  <1>1. OwnInv => SoleOwner
    <2> SUFFICES ASSUME OwnInv PROVE SoleOwner
      OBVIOUS
    <2>1. ASSUME NEW b \in DOMAIN heap
          PROVE  \E v \in DOMAIN vectors : Owners(b) = {v}
      <3>1. PICK v \in DOMAIN vectors : vectors[v].block = b
        BY DEF OwnInv, OneOwner
      <3>2. b # Null
        BY NamesAssumption DEF OwnInv, TypeOK, IsHeap
      <3>3. Owners(b) = {v}
        BY <3>1, <3>2 DEF OwnInv, OneOwner, Owners
      <3> QED
        BY <3>3
    <2> QED
      BY <2>1 DEF OwnInv, OneOwner, OwnTables, SoleOwner
  <1> QED
    BY <1>1, SpecOwn, PTL

(* Memory goes back to an allocator equal to the one it came from, with the *)
(* size it was allocated with, as long as nobody swaps vectors whose        *)
(* unequal allocators propagate on swap and not on move assignment          *)
(* (allocator.hpp:49-55, 84-124).                                           *)
THEOREM ReleasedWhereAcquired ==
  ASSUME "swap_allocators" \in Avoided
  PROVE  Spec => []ReleasedByItsAllocator
  <1>1. OwnInv => ReleasedByItsAllocator
    BY DEF OwnInv, OwnAllocator
  <1> QED
    BY <1>1, SpecOwn, PTL

-----------------------------------------------------------------------------
(* Contents.  What a caller that keeps to the calls the code supports can   *)
(* rely on: objects are where the locators say, and nothing it calls is     *)
(* undefined.  This needs ownership: a step that writes to the memory of    *)
(* one vector must not write to that of another.                            *)
(* NeverUndefined needs ObjectsAreElements, which says that the objects a   *)
(* call runs over exist; ObjectsAreElements is kept only by calls that are  *)
(* defined; they are proved together.                                       *)
(* The lemma of a call says first which effect it has (BecomesEmpty,        *)
(* GetsCopy, TakesOver, ...), then that this effect is sound;               *)
(* the refinement uses the effects again.                                   *)

(* The strengthening of ObjectsAreElements: a vector without memory is      *)
(* described as well, and one without VaryingSize parameters has no         *)
(* last_element_, but the stride of an element if it has room for any.  m   *)
(* is sound with regard to a heap, which is not always the current one.     *)
Sound(m, h) ==
  /\ m.locator.size <= m.max_element_count
  /\ m.max_element_count <= m.units
  /\ ~ varying => m.locator.last_element = Null
  /\ ~ varying => m.locator.stride = 1 \/ m.max_element_count = 0
  /\ m.block = Null /\ varying => m.locator.size = 0
  /\ m.block # Null =>
       /\ varying => m.max_element_count <= m.locator.table.entries
       /\ End(m) = <<m.block, m.locator.size>>
       /\ \A i \in DOMAIN h[m.block].cells :
            h[m.block].cells[i] # Raw <=> i < m.locator.size

AllSound == \A v \in DOMAIN vectors : Sound(vectors[v], heap)

(* The inductive invariant of what is in memory.                            *)
Inv == OwnInv /\ AllSound /\ status = "defined"

(* The caller keeps away from all calls that the README's promises do not   *)
(* cover; only for this one the properties are claimed.                     *)
Careful == Avoided = Calls

-----------------------------------------------------------------------------
(* The members of a vector have their types.                                *)
LEMMA MemberTypes ==
  ASSUME NEW m \in MembersType
  PROVE  /\ m.block \in Block \cup {Null}
         /\ m.units \in Nat /\ m.max_element_count \in Nat
         /\ m.locator \in Locators /\ m.locator.size \in Nat /\ m.locator.stride \in {0, 1}
         /\ m.locator.table \in Tables /\ m.locator.last_element \in Pointers
         /\ m.allocator \in Allocator
  BY DEF MembersType, Locators

(* What is to be shown of the vectors and the heap after a step.            *)
LEMMA SoundNext ==
  ASSUME Defined, \A x \in DOMAIN vectors' : Sound(vectors'[x], heap')
  PROVE  AllSound'
  BY DEF AllSound, Sound, End, Pointer, Defined, type

(* Soundness is about the memory and the members except the allocator.      *)
LEMMA SameSound ==
  ASSUME NEW m, NEW n, NEW h, NEW g, Sound(m, h),
         n.block = m.block, n.units = m.units, n.max_element_count = m.max_element_count,
         n.locator = m.locator,
         m.block # Null => g[m.block] = h[m.block]
  PROVE  Sound(n, g)
  BY DEF Sound, End

(* Memory that a vector has is there, with its size and its allocator.      *)
LEMMA Allocated ==
  ASSUME OwnInv, Careful, NEW v \in DOMAIN vectors, vectors[v].block # Null
  PROVE  /\ vectors[v].block \in DOMAIN heap
         /\ DOMAIN heap[vectors[v].block].cells = Units(vectors[v].units)
         /\ heap[vectors[v].block].allocator = vectors[v].allocator
  BY DEF OwnInv, OneOwner, OwnAllocator, ReleasedByItsAllocator, MayDeallocate, Careful, Calls

(* Where the code runs over elements, there are objects, and it may give    *)
(* back the memory.                                                         *)
LEMMA ElementsAreThere ==
  ASSUME Inv, Careful, NEW v \in DOMAIN vectors, vectors[v].block # Null \/ ~ IsHollow(vectors[v])
  PROVE  /\ ElementsExist(vectors[v])
         /\ MayDeallocate(vectors[v], vectors[v].allocator)
  <1> DEFINE m == vectors[v]
  <1>1. /\ m.locator.size \in Nat /\ m.max_element_count \in Nat /\ m.units \in Nat
        /\ Sound(m, heap)
    BY MemberTypes DEF Inv, OwnInv, TypeOK, AllSound
  <1>2. CASE m.block = Null
    BY <1>1, <1>2 DEF IsHollow, ElementsExist, MayDeallocate
  <1>3. CASE m.block # Null
    <2>1. /\ m.block \in DOMAIN heap
          /\ DOMAIN heap[m.block].cells = Units(m.units)
          /\ heap[m.block].allocator = m.allocator
      BY <1>3, Allocated DEF Inv
    <2>2. ASSUME NEW i \in Units(m.locator.size)
          PROVE  i \in DOMAIN heap[m.block].cells /\ heap[m.block].cells[i] # Raw
      BY <1>1, <1>3, <2>1 DEF Units, Sound
    <2> QED
      BY <2>1, <2>2 DEF ElementsExist, MayDeallocate
  <1> QED
    BY <1>2, <1>3

(* A vector that was not moved from can be copied if it has all elements or *)
(* none, and no memory in the latter case.                                  *)
LEMMA InsertableVectors ==
  ASSUME Inv, Careful, NEW v \in DOMAIN vectors, Usable(v), Insertable(vectors[v])
  PROVE  /\ MayInsertFrom(vectors[v])
         /\ varying => vectors[v].locator.size = vectors[v].max_element_count
         /\ vectors[v].block = Null => vectors[v].locator.size = 0 /\ vectors[v].units = 0
  <1>1. ~ IsHollow(vectors[v])
    BY DEF Usable, Careful, Calls
  <1>2. vectors[v].locator.size \in Nat /\ vectors[v].units \in Nat
    BY MemberTypes DEF Inv, OwnInv, TypeOK
  <1>3. ElementsExist(vectors[v])
    BY <1>1, ElementsAreThere
  <1> QED
    BY <1>1, <1>2, <1>3 DEF Insertable, MayInsertFrom, IsHollow, Careful, Calls

(* Where the copy of a vector's locator ends.                               *)
LEMMA CopiedEnd ==
  ASSUME Inv, Careful, NEW w \in DOMAIN vectors, Usable(w), Insertable(vectors[w]),
         NEW block \in Block \cup {Null}, NEW n \in Nat
  PROVE  LET o == vectors[w]
             l == CopiedLocator(o, block, n)
         IN  /\ l.size = o.locator.size
             /\ l.last_element = IF varying THEN Pointer(block, o.locator.size) ELSE Null
             /\ IF varying THEN l.table.entries = n ELSE l.stride = o.locator.stride
  <1> DEFINE o == vectors[w]
             l == CopiedLocator(o, block, n)
  <1>1. /\ varying => o.locator.size = o.max_element_count
        /\ o.block = Null => o.locator.size = 0
        /\ ~ IsHollow(o)
    BY InsertableVectors DEF Usable, Careful, Calls
  <1>2. /\ o \in MembersType /\ o.locator.size \in Nat
        /\ o.block \in Block \cup {Null}
        /\ Sound(o, heap)
    BY MemberTypes DEF Inv, OwnInv, TypeOK, AllSound
  <1>3. CASE ~ varying
    BY <1>2, <1>3 DEF CopiedLocator, Sound
  <1>4. CASE varying
    <2>1. NewTable(n).entries = n
      BY <1>4 DEF NewTable
    <2>2. o.locator.last_element = Pointer(o.block, o.locator.size)
      BY <1>1, <1>2, <1>4 DEF Sound, End, Pointer, IsHollow
    <2>3. CASE o.block = Null
      BY <1>1, <1>2, <1>4, <2>1, <2>2, <2>3 DEF CopiedLocator, Pointer
    <2>4. CASE o.block # Null
      <3>1. o.locator.last_element = <<o.block, o.locator.size>> /\ o.locator.last_element # Null
        BY <1>2, <2>2, <2>4, NamesAssumption DEF Pointer
      <3> QED
        BY <1>1, <1>4, <2>1, <3>1 DEF CopiedLocator
    <2> QED
      BY <2>3, <2>4
  <1> QED
    BY <1>3, <1>4

(* The copy of a vector's elements and locator, wherever they fit.          *)
LEMMA CopiedSound ==
  ASSUME Inv, Careful, NEW w \in DOMAIN vectors, Usable(w), Insertable(vectors[w]),
         NEW block \in Block \cup {Null}, NEW units \in Nat, NEW a, NEW n \in Nat,
         vectors[w].max_element_count <= n, n <= units,
         ~ varying => vectors[w].locator.stride = 1 \/ n = 0,
         NEW h,
         block # Null => h[block].cells = Inserted(vectors[w], units),
         block = Null => units = 0
  PROVE  Sound(Members(block, units, a, n, CopiedLocator(vectors[w], block, n)), h)
  <1> DEFINE o == vectors[w]
             l == CopiedLocator(o, block, n)
             m == Members(block, units, a, n, l)
  <1>1. MayInsertFrom(o)
    BY InsertableVectors
  <1>2. /\ o \in MembersType /\ o.locator.size \in Nat /\ o.max_element_count \in Nat
        /\ Sound(o, heap)
        /\ varying \in BOOLEAN
    BY MemberTypes DEF Inv, OwnInv, TypeOK, AllSound
  <1>4. /\ l.size = o.locator.size
        /\ l.last_element = IF varying THEN Pointer(block, o.locator.size) ELSE Null
        /\ IF varying THEN l.table.entries = n ELSE l.stride = o.locator.stride
    BY CopiedEnd
  <1> HIDE DEF l
  <1>5. m.block = block /\ m.units = units /\ m.max_element_count = n /\ m.locator = l
    BY DEF Members
  <1>6. End(m) = Pointer(block, o.locator.size)
    <2>1. CASE varying
      BY <1>4, <1>5, <2>1 DEF End
    <2>2. CASE ~ varying
      <3>1. o.locator.stride \in {0, 1} /\ (o.locator.stride = 1 \/ o.locator.size = 0)
        BY <1>2, <2>2, MemberTypes DEF Sound
      <3>2. o.locator.stride * o.locator.size = o.locator.size
        BY <1>2, <3>1
      <3> QED
        BY <1>4, <1>5, <2>2, <3>2 DEF End
    <2> QED
      BY <2>1, <2>2
  <1>7. ASSUME block # Null, NEW i \in DOMAIN h[block].cells
        PROVE  h[block].cells[i] # Raw <=> i < o.locator.size
    <2>1. /\ i \in Units(units)
          /\ h[block].cells[i] =
               IF i < o.locator.size THEN heap[o.block].cells[i] ELSE Raw
      BY <1>7 DEF Inserted
    <2>2. i < o.locator.size => heap[o.block].cells[i] # Raw
      BY <1>1, <1>2, <2>1 DEF MayInsertFrom, ElementsExist, Units
    <2> QED
      BY <2>1, <2>2
  <1> HIDE DEF m
  <1> QED
    BY <1>2, <1>4, <1>5, <1>6, <1>7 DEF Sound, Pointer, m, l

-----------------------------------------------------------------------------
(* What a step does to vectors and to what they hold.                       *)
Untouched(v) == \A b \in DOMAIN heap \ {BlockOf(v)} : heap'[b].cells = heap[b].cells

BecomesEmpty(v) ==
  /\ \E m : vectors' = Set(v, m) /\ m.locator.size = 0 /\ ~ IsHollow(m)
  /\ Untouched(v)

Disappears(v) ==
  /\ vectors' = [x \in DOMAIN vectors \ {v} |-> vectors[x]]
  /\ Untouched(v)

Gains(v, e) ==
  LET m == vectors[v]
  IN  /\ v \in DOMAIN vectors /\ m.block # Null /\ ~ IsHollow(m)
      /\ \E new : /\ vectors' = Set(v, new)
                  /\ new.block = m.block
                  /\ new.locator.size = m.locator.size + 1
      /\ \A i \in 0 .. m.locator.size :
           heap'[m.block].cells[i] = IF i = m.locator.size THEN e ELSE heap[m.block].cells[i]
      /\ Untouched(v)

(* v holds a copy of the elements of w and has room for n; the others hold  *)
(* what they hold in h.                                                     *)
GetsCopy(v, w, n, h) ==
  /\ \E block \in Block \cup {Null}, units \in Nat, a \in Allocator :
       /\ vectors[w].max_element_count <= n /\ n <= units
       /\ ~ varying => vectors[w].locator.stride = 1 \/ n = 0
       /\ block = Null => units = 0
       /\ vectors' = Set(v, Members(block, units, a, n, CopiedLocator(vectors[w], block, n)))
       /\ block # Null => heap'[block].cells = Inserted(vectors[w], units)
  /\ \A b \in DOMAIN heap \ {BlockOf(v)} : heap'[b].cells = h[b].cells

TakesOver(v, w) ==
  /\ \E m \in MembersType :
       /\ m.block = vectors[w].block /\ m.units = vectors[w].units
       /\ m.max_element_count = vectors[w].max_element_count
       /\ m.locator = vectors[w].locator
       /\ vectors' = [x \in DOMAIN vectors \cup {v} |->
                        IF x = v THEN m ELSE IF x = w THEN Released(vectors[w])
                        ELSE vectors[x]]
  /\ Untouched(v)

(* The one vector that gets new members is sound; what the others hold is   *)
(* as it was.                                                               *)
LEMMA OthersSound ==
  ASSUME Inv, Careful, Defined, NEW v, NEW m, vectors' = Set(v, m), Sound(m, heap'),
         Untouched(v)
  PROVE  AllSound'
  <1>1. /\ DOMAIN vectors' = DOMAIN vectors \cup {v}
        /\ \A x \in DOMAIN vectors' : vectors'[x] = IF x = v THEN m ELSE vectors[x]
    BY DEF Set
  <1>2. ASSUME NEW x \in DOMAIN vectors, x # v
        PROVE  Sound(vectors[x], heap')
    <2>1. Sound(vectors[x], heap)
      BY DEF Inv, AllSound
    <2>2. vectors[x].block # Null => vectors[x].block \in DOMAIN heap \ {BlockOf(v)}
      BY <1>2 DEF Inv, OwnInv, OneOwner, BlockOf
    <2> QED
      BY <2>1, <2>2 DEF Sound, Untouched
  <1> QED
    BY <1>1, <1>2, SoundNext

(* The calls, one by one: what they do, and that it is sound.               *)
LEMMA ConstructDefaultSound ==
  ASSUME Inv, Careful, NEW v \in Vector, NEW a \in Allocator, ConstructDefault(v, a)
  PROVE  Defined /\ AllSound' /\ BecomesEmpty(v)
  <1> DEFINE m == Members(Null, 0, a, 0, NoLocator)
  <1>1. vectors' = Set(v, m) /\ heap' = heap /\ Defined
    BY DEF ConstructDefault
  <1>2. Sound(m, heap')
    BY DEF Sound, Members, NoLocator, End, Pointer
  <1>3. m.locator.size = 0 /\ ~ IsHollow(m)
    BY DEF Members, NoLocator, IsHollow
  <1>4. Untouched(v)
    BY <1>1 DEF Untouched
  <1> HIDE DEF m
  <1> QED
    BY <1>1, <1>2, <1>3, <1>4, OthersSound DEF BecomesEmpty

(* All units of a new vector are raw, the first element goes to the first.  *)
LEMMA ConstructSound ==
  ASSUME Inv, Careful, NEW v \in Vector, NEW n \in Nat, NEW a \in Allocator, Construct(v, n, a)
  PROVE  Defined /\ AllSound' /\ BecomesEmpty(v)
  <1> DEFINE m == Members(Fresh, n, a, n, NewLocator(Fresh, n))
  <1>1. /\ vectors' = Set(v, m) /\ Defined
        /\ heap' = Allocate(heap, Fresh, a, RawUnits(n))
    BY DEF Construct
  <1>2. Fresh \in Block /\ Fresh \notin DOMAIN heap /\ Fresh # Null
    BY FreshIsFree, NamesAssumption DEF Inv, OwnInv
  <1>3. RawUnits(n) \in Cells
    BY DEF RawUnits, Cells, Cell
  <1>4. AllocatedIn(heap, Fresh, a, RawUnits(n), heap')
    BY <1>1, <1>2, <1>3, AllocateHeap DEF Inv, OwnInv, TypeOK
  <1>5. /\ varying => NewTable(n).entries = n
        /\ varying \in BOOLEAN
    BY DEF NewTable, Inv, OwnInv, TypeOK
  <1>6. /\ m.block = Fresh /\ m.units = n /\ m.max_element_count = n
        /\ m.locator.size = 0 /\ m.locator.table = NewTable(n)
        /\ m.locator.last_element = IF varying THEN <<Fresh, 0>> ELSE Null
        /\ ~ varying => m.locator.stride = 1
    BY <1>2 DEF Members, NewLocator, Pointer
  <1> HIDE DEF m
  <1>7. End(m) = <<Fresh, 0>>
    <2>1. ~ varying => m.locator.stride * m.locator.size = 0
      BY <1>6
    <2> QED
      BY <1>2, <1>5, <1>6, <2>1 DEF End, Pointer
  <1>8. \A i \in DOMAIN heap'[Fresh].cells : heap'[Fresh].cells[i] = Raw /\ ~ i < 0
    BY <1>4 DEF AllocatedIn, RawUnits, Units
  <1>9. Sound(m, heap')
    BY <1>2, <1>5, <1>6, <1>7, <1>8 DEF Sound
  <1>10. Untouched(v)
    BY <1>2, <1>4 DEF AllocatedIn, Untouched
  <1> QED
    BY <1>1, <1>2, <1>6, <1>9, <1>10, OthersSound DEF BecomesEmpty, IsHollow

(* Destructors find the elements and the allocation that they expect.       *)
LEMMA DestructSound ==
  ASSUME Inv, Careful, NEW v \in Vector, Destruct(v)
  PROVE  Defined /\ AllSound' /\ v \in DOMAIN vectors /\ Disappears(v)
  <1> DEFINE m == vectors[v]
  <1>1. v \in DOMAIN vectors
    BY DEF Destruct
  <1>2. (m.block = Null \/ ElementsExist(m)) /\ MayDeallocate(m, m.allocator)
    BY <1>1, ElementsAreThere DEF MayDeallocate
  <1>3. /\ vectors' = [x \in DOMAIN vectors \ {v} |-> vectors[x]]
        /\ heap' = Deallocate(heap, m.block)
        /\ Defined
    BY <1>2 DEF Destruct
  <1>4. \A x \in DOMAIN heap \ {m.block} : heap'[x] = heap[x]
    BY <1>3 DEF Deallocate
  <1>5. /\ DOMAIN vectors' = DOMAIN vectors \ {v}
        /\ \A x \in DOMAIN vectors' : vectors'[x] = vectors[x]
    BY <1>3
  <1>6. ASSUME NEW x \in DOMAIN vectors'
        PROVE  Sound(vectors'[x], heap')
    <2>1. Sound(vectors[x], heap) /\ vectors'[x] = vectors[x]
      BY <1>5 DEF Inv, AllSound
    <2>2. vectors[x].block # Null => vectors[x].block \in DOMAIN heap \ {m.block}
      BY <1>1, <1>5 DEF Inv, OwnInv, OneOwner
    <2> QED
      BY <1>4, <2>1, <2>2 DEF Sound
  <1> QED
    BY <1>1, <1>3, <1>4, <1>6, SoundNext DEF Disappears, Untouched, BlockOf

(* A vector that is not full has a raw unit behind its elements, and an     *)
(* entry of its table.                                                      *)
LEMMA EmplaceBackSound ==
  ASSUME Inv, Careful, NEW v \in Vector, NEW e \in Value, EmplaceBack(v, e)
  PROVE  Defined /\ AllSound' /\ Gains(v, e)
  <1> DEFINE m == vectors[v]
             end == End(m)
             l == Appended(m.locator, end)
             new == [m EXCEPT !.locator = l]
             c == [heap[m.block].cells EXCEPT ![m.locator.size] = e]
  <1>1. /\ v \in DOMAIN vectors /\ ~ IsHollow(m) /\ m.locator.size < m.max_element_count
    BY DEF EmplaceBack, Usable, Careful, Calls
  <1>2. /\ m \in MembersType /\ m.locator \in Locators
        /\ m.units \in Nat /\ m.max_element_count \in Nat /\ m.locator.size \in Nat
        /\ Sound(m, heap) /\ varying \in BOOLEAN
    BY <1>1, MemberTypes DEF Inv, OwnInv, TypeOK, AllSound
  <1>3. m.block # Null
    BY <1>1, <1>2 DEF Sound, IsHollow
  <1>4. m.block \in DOMAIN heap /\ DOMAIN heap[m.block].cells = Units(m.units)
        /\ heap[m.block] \in Memory /\ m.block \in Block
    BY <1>1, <1>3, Allocated DEF Inv, OwnInv, TypeOK, IsHeap
  <1>5. end = <<m.block, m.locator.size>> /\ end # Null
    BY <1>2, <1>3, <1>4, NamesAssumption DEF Sound
  <1>6. /\ m.locator.size \in Units(m.units)
        /\ heap[m.block].cells[m.locator.size] = Raw
        /\ ~ varying => m.locator.stride = 1
    <2>1. m.locator.size \in Units(m.units) /\ (~ varying => m.locator.stride = 1)
      BY <1>1, <1>2 DEF Sound, Units
    <2> QED
      BY <1>2, <1>3, <1>4, <2>1 DEF Sound
  <1>7. varying => m.locator.size < m.locator.table.entries
    <2>1. ASSUME varying PROVE m.max_element_count <= m.locator.table.entries
      BY <1>2, <1>3, <2>1 DEF Sound
    <2>2. ASSUME varying PROVE m.locator.table.entries \in Nat
      BY <1>2 DEF Locators, Tables, NoTable
    <2> QED
      BY <1>1, <1>2, <2>1, <2>2
  <1> HIDE DEF end
  <1>8. /\ heap' = [heap EXCEPT ![m.block].cells[m.locator.size] = e]
        /\ vectors' = Set(v, new)
        /\ Defined
    <2>1. end = End(m) /\ end[1] = m.block /\ end[2] = m.locator.size
      BY <1>5 DEF end
    <2> QED
      BY <1>4, <1>5, <1>6, <1>7, <2>1 DEF EmplaceBack
  <1>9. /\ l.size = m.locator.size + 1 /\ l.table = m.locator.table
        /\ l.stride = m.locator.stride
        /\ l.last_element =
             IF varying THEN <<m.block, m.locator.size + 1>> ELSE m.locator.last_element
    BY <1>2, <1>3, <1>5 DEF Appended, Locators, Pointer
  <1> HIDE DEF l
  <1>10. /\ new.block = m.block /\ new.units = m.units
         /\ new.max_element_count = m.max_element_count /\ new.locator = l
    BY <1>2 DEF MembersType
  <1> HIDE DEF new
  <1>11. End(new) = <<m.block, l.size>>
    <2>1. ~ varying => l.stride * l.size = l.size
      BY <1>2, <1>6, <1>9
    <2> QED
      BY <1>2, <1>3, <1>9, <1>10, <2>1 DEF End, Pointer
  <1>12. /\ DOMAIN heap'[m.block].cells = Units(m.units)
         /\ \A i \in Units(m.units) :
              heap'[m.block].cells[i] = IF i = m.locator.size THEN e ELSE heap[m.block].cells[i]
         /\ \A b \in DOMAIN heap \ {m.block} : heap'[b] = heap[b]
    BY <1>4, <1>8 DEF Memory, Cells
  <1>13. \A i \in DOMAIN heap'[m.block].cells : heap'[m.block].cells[i] # Raw <=> i < l.size
    BY <1>2, <1>3, <1>4, <1>9, <1>12, NamesAssumption DEF Sound, Units
  <1>14. Sound(new, heap')
    BY <1>1, <1>2, <1>3, <1>6, <1>9, <1>10, <1>11, <1>13 DEF Sound
  <1>15. Untouched(v)
    BY <1>1, <1>12 DEF Untouched, BlockOf
  <1>16. \A i \in 0 .. m.locator.size : i \in Units(m.units)
    BY <1>2, <1>6 DEF Units
  <1>17. Gains(v, e)
    BY <1>1, <1>3, <1>8, <1>9, <1>10, <1>12, <1>15, <1>16 DEF Gains
  <1> QED
    BY <1>8, <1>14, <1>15, <1>17, OthersSound

(* Clearing is defined unless the first offset was never written.           *)
LEMMA ClearSound ==
  ASSUME Inv, Careful, NEW v \in Vector, Clear(v)
  PROVE  Defined /\ AllSound' /\ v \in DOMAIN vectors /\ BecomesEmpty(v)
  <1> DEFINE m == vectors[v]
             l == Emptied(m.locator, m.block)
             new == [m EXCEPT !.locator = l]
  <1>1. /\ v \in DOMAIN vectors /\ ~ IsHollow(m)
        /\ varying => m.locator.size > 0
    BY DEF Clear, Usable, Careful, Calls
  <1>2. /\ m \in MembersType /\ m.locator \in Locators
        /\ m.units \in Nat /\ m.max_element_count \in Nat /\ m.locator.size \in Nat
        /\ Sound(m, heap) /\ varying \in BOOLEAN /\ IsHeap(heap)
    BY <1>1, MemberTypes DEF Inv, OwnInv, TypeOK, AllSound
  <1>3. ElementsExist(m)
    BY <1>1, ElementsAreThere
  <1>4. /\ heap' = Filled(heap, m, Raw)
        /\ vectors' = Set(v, new)
        /\ Defined
    BY <1>1, <1>3 DEF Clear, Destroyed
  <1>5. /\ l.size = 0 /\ l.table = m.locator.table /\ l.stride = m.locator.stride
        /\ l.last_element = IF varying THEN Pointer(m.block, 0) ELSE m.locator.last_element
    BY <1>2 DEF Emptied, Locators
  <1> HIDE DEF l
  <1>6. /\ new.block = m.block /\ new.units = m.units
        /\ new.max_element_count = m.max_element_count /\ new.locator = l
    BY <1>2 DEF MembersType
  <1> HIDE DEF new
  <1>7. /\ \A b \in DOMAIN heap \ {m.block} : heap'[b] = heap[b]
        /\ m.block \in DOMAIN heap =>
             /\ DOMAIN heap'[m.block].cells = DOMAIN heap[m.block].cells
             /\ \A i \in DOMAIN heap[m.block].cells :
                  heap'[m.block].cells[i] =
                    IF i < m.locator.size THEN Raw ELSE heap[m.block].cells[i]
    BY <1>2, <1>3, <1>4, FilledHeap DEF ElementsExist, Cell
  <1>8. ASSUME m.block # Null, NEW i \in DOMAIN heap'[m.block].cells
        PROVE  heap'[m.block].cells[i] = Raw /\ ~ i < 0
    <2>1. m.block \in DOMAIN heap /\ DOMAIN heap[m.block].cells = Units(m.units)
      BY <1>1, <1>8, Allocated DEF Inv
    <2>2. i \in Units(m.units)
      BY <1>7, <1>8, <2>1
    <2>3. heap[m.block].cells[i] # Raw <=> i < m.locator.size
      BY <1>2, <1>8, <2>1, <2>2 DEF Sound
    <2> QED
      BY <1>2, <1>7, <2>1, <2>2, <2>3 DEF Units
  <1>9. Sound(new, heap')
    <2>1. l.stride * l.size = 0
      BY <1>2, <1>5, MemberTypes
    <2>2. End(new) = Pointer(m.block, 0)
      BY <1>5, <1>6, <2>1 DEF End
    <2> QED
      BY <1>2, <1>5, <1>6, <1>8, <2>2 DEF Sound, Pointer
  <1>10. Untouched(v)
    BY <1>1, <1>7 DEF Untouched, BlockOf
  <1>11. ~ IsHollow(new)
    BY <1>1, <1>2, <1>5, <1>6 DEF IsHollow, Pointer
  <1> QED
    BY <1>1, <1>4, <1>5, <1>6, <1>9, <1>10, <1>11, OthersSound DEF BecomesEmpty

(* v gets an allocation of its own with a copy of w's elements, and gives   *)
(* back the one it had.                                                     *)
LEMMA CopiedToFresh ==
  ASSUME Inv, Careful, Defined, NEW v \in Vector, NEW w \in DOMAIN vectors,
         Usable(w), Insertable(vectors[w]),
         NEW a \in Allocator, NEW units \in Nat, NEW n \in Nat,
         vectors[w].max_element_count <= n, n <= units,
         ~ varying => vectors[w].locator.stride = 1 \/ n = 0,
         NEW h, IsHeap(h), DOMAIN h = DOMAIN heap,
         heap' = Allocate(Deallocate(h, BlockOf(v)), Fresh, a, Inserted(vectors[w], units)),
         vectors' = Set(v, Members(Fresh, units, a, n, CopiedLocator(vectors[w], Fresh, n)))
  PROVE  GetsCopy(v, w, n, h)
  <1> DEFINE g == Deallocate(h, BlockOf(v))
  <1>1. Fresh \in Block /\ Fresh \notin DOMAIN heap /\ Fresh # Null
    BY FreshIsFree, NamesAssumption DEF Inv, OwnInv
  <1>2. ElementsExist(vectors[w]) /\ vectors[w] \in MembersType /\ IsHeap(heap)
    BY InsertableVectors DEF MayInsertFrom, Inv, OwnInv, TypeOK
  <1>3. Inserted(vectors[w], units) \in Cells
    BY <1>2, InsertedCells
  <1>4. IsHeap(g) /\ DOMAIN g = DOMAIN h \ {BlockOf(v)} /\ \A b \in DOMAIN g : g[b] = h[b]
    BY DeallocateHeap
  <1> HIDE DEF g
  <1>5. AllocatedIn(g, Fresh, a, Inserted(vectors[w], units), heap')
    BY <1>1, <1>3, <1>4, AllocateHeap DEF g
  <1>6. /\ heap'[Fresh].cells = Inserted(vectors[w], units)
        /\ \A b \in DOMAIN heap \ {BlockOf(v)} : heap'[b].cells = h[b].cells
    BY <1>1, <1>4, <1>5 DEF AllocatedIn
  <1> QED
    BY <1>1, <1>6 DEF GetsCopy

(* grow moves the elements to an allocation with room for n.                *)
LEMMA ReserveStep ==
  ASSUME Inv, Careful, NEW v \in Vector, NEW n \in Nat, Reserve(v, n)
  PROVE  /\ Defined /\ v \in DOMAIN vectors
         /\ Usable(v) /\ Insertable(vectors[v])
         /\ GetsCopy(v, v, n, heap)
  <1> DEFINE m == vectors[v]
  <1>1. /\ v \in DOMAIN vectors /\ Usable(v) /\ Insertable(m) /\ n > m.max_element_count
        /\ ~ IsHollow(m)
        /\ varying \/ m.locator.stride > 0
    BY DEF Reserve, Usable, Careful, Calls
  <1>2. /\ m \in MembersType /\ m.max_element_count \in Nat /\ m.allocator \in Allocator
        /\ m.locator.stride \in {0, 1} /\ m.locator.size \in Nat
        /\ m.locator.size <= m.max_element_count
        /\ IsHeap(heap)
    BY <1>1, MemberTypes DEF Inv, OwnInv, TypeOK, AllSound, Sound
  <1>3. MayInsertFrom(m) /\ MayDeallocate(m, m.allocator)
    BY <1>1, InsertableVectors, ElementsAreThere
  <1>4. NewUnits(m, n) = n /\ (~ varying => m.locator.stride = 1) /\ m.locator.size <= n
    BY <1>1, <1>2 DEF NewUnits
  <1>5. /\ heap' = Allocate(Deallocate(heap, BlockOf(v)), Fresh, m.allocator, Inserted(m, n))
        /\ vectors' = Set(v, Members(Fresh, n, m.allocator, n, CopiedLocator(m, Fresh, n)))
        /\ Defined
    BY <1>1, <1>3, <1>4 DEF Reserve, BlockOf
  <1> QED
    BY <1>1, <1>2, <1>4, <1>5, CopiedToFresh

(* The copy has room for as many elements as the original.                  *)
LEMMA CopyConstructStep ==
  ASSUME Inv, Careful, NEW v \in Vector, NEW w \in Vector, NEW a \in Allocator,
         CopyConstruct(v, w, a)
  PROVE  /\ Defined /\ v \notin DOMAIN vectors /\ w \in DOMAIN vectors
         /\ Usable(w) /\ Insertable(vectors[w])
         /\ GetsCopy(v, w, vectors[w].max_element_count, heap)
  <1> DEFINE o == vectors[w]
             n == o.max_element_count
  <1>1. /\ w \in DOMAIN vectors /\ Usable(w) /\ Insertable(o) /\ v \notin DOMAIN vectors
    BY DEF CopyConstruct, Usable
  <1>2. /\ o \in MembersType /\ n \in Nat /\ o.units \in Nat /\ n <= o.units
        /\ ~ varying => o.locator.stride = 1 \/ n = 0
        /\ IsHeap(heap)
    BY <1>1, MemberTypes DEF Inv, OwnInv, TypeOK, AllSound, Sound
  <1>3. MayInsertFrom(o)
    BY <1>1, InsertableVectors
  <1>4. heap = Deallocate(heap, BlockOf(v))
    BY <1>1, <1>2, NamesAssumption DEF BlockOf, IsHeap, Deallocate
  <1>5. /\ heap' = Allocate(heap, Fresh, a, Inserted(o, o.units))
        /\ vectors' = Set(v, Members(Fresh, o.units, a, n, CopiedLocator(o, Fresh, n)))
        /\ Defined
    BY <1>1, <1>3 DEF CopyConstruct
  <1> QED
    BY <1>1, <1>2, <1>4, <1>5, CopiedToFresh

(* In its own memory or in another, v has what w has.                       *)
LEMMA CopyAssignStep ==
  ASSUME Inv, Careful, NEW v \in Vector, NEW w \in Vector, CopyAssign(v, w)
  PROVE  /\ Defined /\ v # w /\ v \in DOMAIN vectors /\ w \in DOMAIN vectors
         /\ Usable(w) /\ Insertable(vectors[w])
         /\ GetsCopy(v, w, vectors[w].max_element_count, heap)
  <1> DEFINE m == vectors[v]
             o == vectors[w]
             a == IF traits.copy THEN o.allocator ELSE m.allocator
             n == o.max_element_count
  <1>1. /\ v # w /\ v \in DOMAIN vectors /\ w \in DOMAIN vectors
        /\ Usable(v) /\ Usable(w) /\ Insertable(o)
        /\ ~ IsHollow(m) /\ ~ IsHollow(o)
    BY DEF CopyAssign, Usable, Careful, Calls
  <1>2. /\ m \in MembersType /\ o \in MembersType /\ IsHeap(heap)
        /\ m.units \in Nat /\ o.units \in Nat /\ n \in Nat /\ o.locator.size \in Nat
        /\ a \in Allocator /\ m.block \in Block \cup {Null}
        /\ o.locator.size <= n /\ n <= o.units
        /\ ~ varying => o.locator.stride = 1 \/ n = 0
    BY <1>1, MemberTypes DEF Inv, OwnInv, TypeOK, AllSound, Sound
  <1>3. /\ ElementsExist(m) /\ MayDeallocate(m, m.allocator) /\ MayInsertFrom(o)
        /\ ElementsExist(o)
    BY <1>1, ElementsAreThere, InsertableVectors
  <1>4. m.block = Null => m.units = 0
    BY <1>1, <1>2 DEF IsHollow
  <1>5. CASE Replaces(m, o)
    <2>1. Fresh \in Block /\ Fresh # Null
      BY FreshIsFree, NamesAssumption DEF Inv, OwnInv
    <2>2. /\ heap' = Allocate(Deallocate(heap, BlockOf(v)), Fresh, a, Inserted(o, o.units))
          /\ vectors' = Set(v, Members(Fresh, o.units, a, n, CopiedLocator(o, Fresh, n)))
          /\ Defined
      BY <1>1, <1>3, <1>5, <2>1 DEF CopyAssign, BlockOf
    <2> HIDE DEF a
    <2> QED
      BY <1>1, <1>2, <2>2, CopiedToFresh
  <1>6. CASE ~ Replaces(m, o)
    <2> DEFINE h == Destroyed(heap, m)
               c == Inserted(o, m.units)
    <2>1. o.units <= m.units
      BY <1>2, <1>6 DEF Replaces
    <2>2. o.locator.size > 0 => m.block # Null
      BY <1>2, <1>4, <2>1
    <2>3. /\ heap' = IF m.block = Null THEN h
                     ELSE Allocate(h, m.block, heap[m.block].allocator, c)
          /\ vectors' = Set(v, Members(m.block, m.units, a, n, CopiedLocator(o, m.block, n)))
          /\ Defined
      BY <1>1, <1>3, <1>6, <2>2 DEF CopyAssign
    <2>4. /\ IsHeap(h) /\ DOMAIN h = DOMAIN heap
          /\ \A b \in DOMAIN heap \ {m.block} : h[b] = heap[b]
      BY <1>2, <1>3, FilledHeap DEF ElementsExist, Destroyed, Cell
    <2> HIDE DEF h, a
    <2>5. /\ m.block # Null => heap'[m.block].cells = c
          /\ \A b \in DOMAIN heap \ {m.block} : heap'[b] = heap[b]
      <3>1. CASE m.block = Null
        BY <2>3, <2>4, <3>1
      <3>2. CASE m.block # Null
        <4>1. m.block \in DOMAIN heap
          BY <1>1, <3>2, Allocated DEF Inv
        <4> QED
          BY <2>3, <2>4, <3>2, <4>1 DEF Allocate
      <3> QED
        BY <3>1, <3>2
    <2>6. n <= m.units
      BY <1>2, <2>1
    <2> QED
      BY <1>1, <1>2, <1>4, <2>3, <2>5, <2>6 DEF GetsCopy, BlockOf
  <1> QED
    BY <1>5, <1>6

(* A vector that got a copy is sound.                                       *)
LEMMA CopyStepSound ==
  ASSUME Inv, Careful, Defined, NEW v, NEW w \in DOMAIN vectors, NEW n \in Nat,
         Usable(w), Insertable(vectors[w]), GetsCopy(v, w, n, heap)
  PROVE  AllSound'
  <1>1. PICK block \in Block \cup {Null}, units \in Nat, a \in Allocator :
          /\ vectors[w].max_element_count <= n /\ n <= units
          /\ ~ varying => vectors[w].locator.stride = 1 \/ n = 0
          /\ block = Null => units = 0
          /\ vectors' = Set(v, Members(block, units, a, n, CopiedLocator(vectors[w], block, n)))
          /\ block # Null => heap'[block].cells = Inserted(vectors[w], units)
    BY DEF GetsCopy
  <1>2. Sound(Members(block, units, a, n, CopiedLocator(vectors[w], block, n)), heap')
    BY <1>1, CopiedSound
  <1>3. Untouched(v)
    BY DEF GetsCopy, Untouched
  <1> QED
    BY <1>1, <1>2, <1>3, OthersSound

(* Members that go from w to v, which gives its own memory back.            *)
LEMMA TakesOverSound ==
  ASSUME Inv, Careful, Defined, NEW v \in Vector, NEW w \in DOMAIN vectors, v # w,
         TakesOver(v, w)
  PROVE  AllSound'
  <1> DEFINE o == vectors[w]
             left == Released(o)
  <1>1. /\ o \in MembersType /\ o.locator \in Locators
        /\ o.locator.size \in Nat /\ o.max_element_count \in Nat
        /\ Sound(o, heap) /\ varying \in BOOLEAN
    BY MemberTypes DEF Inv, OwnInv, TypeOK, AllSound
  <1>2. ASSUME NEW x \in DOMAIN vectors, x # v
        PROVE  Sound(vectors[x], heap')
    <2>1. Sound(vectors[x], heap)
      BY DEF Inv, AllSound
    <2>2. vectors[x].block # Null => vectors[x].block \in DOMAIN heap \ {BlockOf(v)}
      BY <1>2 DEF Inv, OwnInv, OneOwner, BlockOf
    <2> QED
      BY <2>1, <2>2 DEF Sound, TakesOver, Untouched
  <1>3. PICK m \in MembersType :
          /\ m.block = o.block /\ m.units = o.units
          /\ m.max_element_count = o.max_element_count /\ m.locator = o.locator
          /\ vectors' = [x \in DOMAIN vectors \cup {v} |->
                           IF x = v THEN m ELSE IF x = w THEN left ELSE vectors[x]]
    BY DEF TakesOver
  <1>4. Sound(left, heap')
    <2>1. /\ left.block = Null /\ left.units = o.units
          /\ left.max_element_count = o.max_element_count
          /\ left.locator = ReleasedLocator(o.locator)
      BY <1>1 DEF Released, MembersType
    <2>2. CASE varying
      <3>1. left.locator.size = 0
        BY <1>1, <2>1, <2>2 DEF ReleasedLocator, Locators
      <3> HIDE DEF left
      <3> QED
        BY <1>1, <2>1, <2>2, <3>1 DEF Sound
    <2>3. CASE ~ varying
      <3>1. left.locator = o.locator
        BY <2>1, <2>3 DEF ReleasedLocator
      <3> HIDE DEF left
      <3> QED
        BY <1>1, <2>1, <2>3, <3>1 DEF Sound
    <2> QED
      BY <1>1, <2>2, <2>3
  <1>5. Sound(m, heap')
    <2>1. Sound(o, heap')
      BY <1>2
    <2> QED
      BY <1>3, <2>1, SameSound
  <1> HIDE DEF left
  <1>6. /\ DOMAIN vectors' = DOMAIN vectors \cup {v}
        /\ \A x \in DOMAIN vectors' :
             vectors'[x] = IF x = v THEN m ELSE IF x = w THEN left ELSE vectors[x]
    BY <1>3
  <1> QED
    BY <1>2, <1>4, <1>5, <1>6, SoundNext

(* Move construction and stealing hand over all members.                    *)
LEMMA MoveConstructStep ==
  ASSUME Inv, NEW v \in Vector, NEW w \in Vector, MoveConstruct(v, w)
  PROVE  Defined /\ v # w /\ w \in DOMAIN vectors /\ TakesOver(v, w)
  BY DEF MoveConstruct, TakesOver, Untouched, Inv, OwnInv, TypeOK

LEMMA StealStep ==
  ASSUME Inv, Careful, NEW v \in DOMAIN vectors, NEW w \in DOMAIN vectors, v # w,
         Usable(v), Steal(v, w)
  PROVE  Defined /\ TakesOver(v, w)
  <1> DEFINE m == vectors[v]
             o == vectors[w]
  <1>1. ElementsExist(m) /\ MayDeallocate(m, m.allocator)
    BY ElementsAreThere DEF Usable, Careful, Calls
  <1>2. /\ heap' = Deallocate(heap, m.block)
        /\ vectors' = [vectors EXCEPT ![v] = TakenOver(m, o), ![w] = Released(o)]
        /\ Defined
    BY <1>1 DEF Steal
  <1>3. \A b \in DOMAIN heap \ {BlockOf(v)} : heap'[b] = heap[b]
    BY <1>2 DEF Deallocate, BlockOf
  <1>4. vectors' = [x \in DOMAIN vectors \cup {v} |->
                      IF x = v THEN TakenOver(m, o) ELSE IF x = w THEN Released(o)
                      ELSE vectors[x]]
    BY <1>2 DEF Inv, OwnInv, TypeOK
  <1>5. m \in MembersType /\ o \in MembersType /\ traits.move \in BOOLEAN /\ v \in Vector
    BY DEF Inv, OwnInv, TypeOK
  <1>6. /\ TakenOver(m, o) \in MembersType
        /\ TakenOver(m, o).block = o.block /\ TakenOver(m, o).units = o.units
        /\ TakenOver(m, o).max_element_count = o.max_element_count
        /\ TakenOver(m, o).locator = o.locator
    BY <1>5, TakenOverMembers
  <1>7. Untouched(v)
    BY <1>3 DEF Untouched
  <1> QED
    BY <1>2, <1>4, <1>6, <1>7 DEF TakesOver

(* The elements of w are moved from, those of a third vector are not.       *)
LEMMA MovedOut ==
  ASSUME Inv, Careful, NEW w \in DOMAIN vectors, Usable(w)
  PROVE  LET o == vectors[w]
             h == Filled(heap, o, Moved)
         IN  /\ IsHeap(h) /\ DOMAIN h = DOMAIN heap
             /\ \A b \in DOMAIN heap \ {o.block} : h[b] = heap[b]
             /\ o.block # Null =>
                  /\ o.block \in DOMAIN heap
                  /\ DOMAIN h[o.block].cells = Units(o.units)
                  /\ \A i \in Units(o.units) :
                       h[o.block].cells[i] =
                         IF i < o.locator.size THEN Moved ELSE heap[o.block].cells[i]
             /\ Sound(o, h)
  <1> DEFINE o == vectors[w]
             h == Filled(heap, o, Moved)
  <1>1. ElementsExist(o) /\ IsHeap(heap) /\ o \in MembersType /\ Sound(o, heap)
    BY ElementsAreThere DEF Usable, Careful, Calls, Inv, OwnInv, TypeOK, AllSound
  <1>2. /\ IsHeap(h) /\ DOMAIN h = DOMAIN heap
        /\ \A b \in DOMAIN heap \ {o.block} : h[b] = heap[b]
        /\ o.block \in DOMAIN heap =>
             /\ DOMAIN h[o.block].cells = DOMAIN heap[o.block].cells
             /\ \A i \in DOMAIN heap[o.block].cells :
                  h[o.block].cells[i] =
                    IF i < o.locator.size THEN Moved ELSE heap[o.block].cells[i]
    BY <1>1, FilledHeap DEF ElementsExist, Cell
  <1> HIDE DEF h
  <1>3. o.block # Null =>
          o.block \in DOMAIN heap /\ DOMAIN heap[o.block].cells = Units(o.units)
    BY Allocated DEF Inv
  <1>4. Sound(o, h)
    <2>1. ASSUME o.block # Null, NEW i \in DOMAIN h[o.block].cells
          PROVE  h[o.block].cells[i] # Raw <=> i < o.locator.size
      BY <1>1, <1>2, <1>3, <2>1, NamesAssumption DEF Sound
    <2> QED
      BY <1>1, <2>1 DEF Sound
  <1> QED
    BY <1>2, <1>3, <1>4 DEF h

(* Elements are moved to v's memory, or to another that is large enough     *)
(* even though its size is multiplied by the size of a unit once too often. *)
LEMMA MoveElementsStep ==
  ASSUME Inv, Careful, NEW v \in DOMAIN vectors, NEW w \in DOMAIN vectors, v # w,
         Usable(v), Usable(w), MoveElements(v, w)
  PROVE  /\ Defined /\ Insertable(vectors[w])
         /\ GetsCopy(v, w, vectors[w].max_element_count, Filled(heap, vectors[w], Moved))
  <1> DEFINE m == vectors[v]
             o == vectors[w]
             n == o.max_element_count
             h == Filled(heap, o, Moved)
             units == o.units * UnitBytes
  <1>1. /\ ~ IsHollow(m) /\ ~ IsHollow(o) /\ Insertable(o) /\ v \in Vector
    BY DEF MoveElements, Usable, Careful, Calls, Inv, OwnInv, TypeOK
  <1>2. /\ m \in MembersType /\ o \in MembersType /\ IsHeap(heap)
        /\ m.units \in Nat /\ o.units \in Nat /\ n \in Nat /\ o.locator.size \in Nat
        /\ m.allocator \in Allocator /\ m.block \in Block \cup {Null}
        /\ o.locator.size <= n /\ n <= o.units
        /\ ~ varying => o.locator.stride = 1 \/ n = 0
    BY <1>1, MemberTypes DEF Inv, OwnInv, TypeOK, AllSound, Sound
  <1>3. ElementsExist(m) /\ MayDeallocate(m, m.allocator) /\ MayInsertFrom(o)
    BY <1>1, ElementsAreThere, InsertableVectors
  <1>4. m.block = Null => m.units = 0
    BY <1>1, <1>2 DEF IsHollow
  <1>5. IsHeap(h) /\ DOMAIN h = DOMAIN heap
    BY MovedOut
  <1>6. CASE Outgrows(m, o)
    <2>1. units \in Nat /\ n <= units
      <3>1. UnitBytes \in Nat /\ UnitBytes >= 1
        BY SizesAssumption
      <3>2. units \in Nat /\ o.units <= units
        BY <1>2, <3>1
      <3> QED
        BY <1>2, <3>2
    <2>2. /\ heap' = Allocate(Deallocate(h, BlockOf(v)), Fresh, m.allocator, Inserted(o, units))
          /\ vectors' = Set(v, Members(Fresh, units, m.allocator, n, CopiedLocator(o, Fresh, n)))
          /\ Defined
      BY <1>3, <1>6, FreshIsFree, NamesAssumption DEF MoveElements, Inv, OwnInv, BlockOf
    <2> HIDE DEF h, units
    <2>3. GetsCopy(v, w, n, h)
      BY <1>1, <1>2, <1>5, <2>1, <2>2, CopiedToFresh
    <2> QED
      BY <1>1, <2>2, <2>3 DEF h
  <1>7. CASE ~ Outgrows(m, o)
    <2> DEFINE c == Inserted(o, m.units)
    <2>1. o.units <= m.units /\ n <= m.units
      BY <1>2, <1>7 DEF Outgrows
    <2>2. o.locator.size > 0 => m.block # Null
      BY <1>2, <1>4, <2>1
    <2>3. /\ heap' = IF m.block = Null THEN h ELSE [h EXCEPT ![m.block].cells = c]
          /\ vectors' = Set(v, Members(m.block, m.units, m.allocator, n,
                                       CopiedLocator(o, m.block, n)))
          /\ Defined
      BY <1>3, <1>7, <2>2 DEF MoveElements
    <2> HIDE DEF h
    <2>4. /\ m.block # Null => heap'[m.block].cells = c
          /\ \A b \in DOMAIN heap \ {m.block} : heap'[b] = h[b]
      <3>1. CASE m.block = Null
        BY <2>3, <3>1
      <3>2. CASE m.block # Null
        <4>1. m.block \in DOMAIN h /\ h[m.block] \in Memory
          BY <1>5, <3>2, Allocated DEF Inv, IsHeap
        <4> HIDE DEF c
        <4> QED
          BY <1>5, <2>3, <3>2, <4>1 DEF Memory
      <3> QED
        BY <3>1, <3>2
    <2>5. GetsCopy(v, w, n, h)
      BY <1>1, <1>2, <1>4, <2>1, <2>3, <2>4 DEF GetsCopy, BlockOf
    <2> QED
      BY <1>1, <2>3, <2>5 DEF h
  <1> QED
    BY <1>6, <1>7

(* Elements that were moved from are objects, so w is sound as well.        *)
LEMMA MoveElementsSound ==
  ASSUME Inv, Careful, Defined, NEW v \in DOMAIN vectors, NEW w \in DOMAIN vectors, v # w,
         Usable(w), Insertable(vectors[w]),
         GetsCopy(v, w, vectors[w].max_element_count, Filled(heap, vectors[w], Moved))
  PROVE  AllSound'
  <1> DEFINE o == vectors[w]
             n == o.max_element_count
             h == Filled(heap, o, Moved)
  <1>1. /\ \A b \in DOMAIN heap \ {o.block} : h[b] = heap[b]
        /\ Sound(o, h)
    BY MovedOut
  <1> HIDE DEF h
  <1>2. PICK block \in Block \cup {Null}, units \in Nat, a \in Allocator :
          /\ n <= units
          /\ ~ varying => o.locator.stride = 1 \/ n = 0
          /\ block = Null => units = 0
          /\ vectors' = Set(v, Members(block, units, a, n, CopiedLocator(o, block, n)))
          /\ block # Null => heap'[block].cells = Inserted(o, units)
    BY DEF GetsCopy
  <1> DEFINE new == Members(block, units, a, n, CopiedLocator(o, block, n))
  <1>3. n \in Nat
    BY MemberTypes DEF Inv, OwnInv, TypeOK
  <1>4. Sound(new, heap')
    BY <1>2, <1>3, CopiedSound
  <1>5. \A b \in DOMAIN heap \ {BlockOf(v)} : heap'[b].cells = h[b].cells
    BY DEF GetsCopy, h
  <1> HIDE DEF new
  <1>6. /\ DOMAIN vectors' = DOMAIN vectors
        /\ \A x \in DOMAIN vectors' : vectors'[x] = IF x = v THEN new ELSE vectors[x]
    BY <1>2 DEF Set, new
  <1>7. ASSUME NEW x \in DOMAIN vectors, x # v
        PROVE  Sound(vectors[x], heap')
    <2>1. vectors[x].block # Null => vectors[x].block \in DOMAIN heap \ {BlockOf(v)}
      BY <1>7 DEF Inv, OwnInv, OneOwner, BlockOf
    <2>2. CASE x = w
      BY <1>1, <1>5, <2>1, <2>2 DEF Sound
    <2>3. CASE x # w
      <3>1. vectors[x].block # Null => vectors[x].block # o.block
        BY <2>3 DEF Inv, OwnInv, OneOwner
      <3>2. Sound(vectors[x], heap)
        BY DEF Inv, AllSound
      <3> QED
        BY <1>1, <1>5, <2>1, <3>1, <3>2 DEF Sound
    <2> QED
      BY <2>2, <2>3
  <1> QED
    BY <1>4, <1>6, <1>7, SoundNext

(* Exchanged members are as sound as they were.                             *)
LEMMA SwapSound ==
  ASSUME Inv, Careful, NEW v \in Vector, NEW w \in Vector, Swap(v, w)
  PROVE  Defined /\ AllSound'
  <1> DEFINE m == vectors[v]
             o == vectors[w]
  <1>1. /\ v # w /\ v \in DOMAIN vectors /\ w \in DOMAIN vectors
        /\ m \in MembersType /\ o \in MembersType /\ traits.move \in BOOLEAN
        /\ heap' = heap /\ Defined
        /\ vectors' = [vectors EXCEPT ![v] = TakenOver(m, o), ![w] = TakenOver(o, m)]
    BY DEF Swap, Inv, OwnInv, TypeOK
  <1>2. Sound(m, heap) /\ Sound(o, heap)
    BY <1>1 DEF Inv, AllSound
  <1>3. Sound(TakenOver(m, o), heap')
    BY <1>1, <1>2, SameSound, TakenOverMembers
  <1>4. Sound(TakenOver(o, m), heap')
    BY <1>1, <1>2, SameSound, TakenOverMembers
  <1>5. ASSUME NEW x \in DOMAIN vectors'
        PROVE  Sound(vectors'[x], heap')
    <2>1. vectors'[x] = IF x = v THEN TakenOver(m, o) ELSE IF x = w THEN TakenOver(o, m)
                        ELSE vectors[x]
      BY <1>1 DEF Inv, OwnInv, TypeOK
    <2>2. x \in DOMAIN vectors
      BY <1>1 DEF Inv, OwnInv, TypeOK
    <2>3. Sound(vectors[x], heap')
      BY <1>1, <2>2 DEF Inv, AllSound
    <2> QED
      BY <1>3, <1>4, <2>1, <2>3
  <1> QED
    BY <1>1, <1>5, SoundNext

-----------------------------------------------------------------------------
(* Every call preserves the invariant, and none is undefined.               *)
LEMMA InitContents == Init => Inv
  BY InitOwn DEF Init, Inv, AllSound

LEMMA NextContents == Careful /\ Inv /\ [Next]_vars => Inv'
  <1> SUFFICES ASSUME Careful, Inv, [Next]_vars PROVE Inv'
    OBVIOUS
  <1>1. OwnInv'
    BY NextOwn DEF Inv
  <1>2. CASE UNCHANGED vars
    <2>1. Defined
      BY <1>2 DEF Defined, vars, type
    <2>2. \A x \in DOMAIN vectors' : Sound(vectors'[x], heap')
      BY <1>2 DEF Inv, AllSound, vars
    <2> QED
      BY <1>1, <2>1, <2>2, SoundNext DEF Inv, Defined
  <1>3. CASE Next
    <2>1. PICK v \in Vector :
            \/ \E a \in Allocator : ConstructDefault(v, a)
            \/ \E n \in 0 .. MaxCapacity, a \in Allocator : Construct(v, n, a)
            \/ Destruct(v)
            \/ \E e \in Value : EmplaceBack(v, e)
            \/ Clear(v)
            \/ \E n \in 1 .. MaxCapacity : Reserve(v, n)
            \/ \E w \in Vector, a \in Allocator : CopyConstruct(v, w, a)
            \/ \E w \in Vector : MoveConstruct(v, w)
            \/ \E w \in Vector : CopyAssign(v, w)
            \/ \E w \in Vector : MoveAssign(v, w)
            \/ \E w \in Vector : Swap(v, w)
      BY <1>3 DEF Next
    <2> DEFINE Good == Defined /\ AllSound'
    <2>2. ASSUME NEW a \in Allocator, ConstructDefault(v, a) PROVE Good
      BY <2>2, ConstructDefaultSound
    <2>3. ASSUME NEW n \in 0 .. MaxCapacity, NEW a \in Allocator, Construct(v, n, a) PROVE Good
      BY <2>3, ConstructSound, SizesAssumption
    <2>4. ASSUME NEW e \in Value, EmplaceBack(v, e) PROVE Good
      BY <2>4, EmplaceBackSound
    <2>5. ASSUME NEW n \in 1 .. MaxCapacity, Reserve(v, n) PROVE Good
      <3>1. n \in Nat
        BY SizesAssumption
      <3> QED
        BY <2>5, <3>1, ReserveStep, CopyStepSound
    <2>6. ASSUME NEW w \in Vector, NEW a \in Allocator, CopyConstruct(v, w, a) PROVE Good
      <3>1. w \in DOMAIN vectors /\ vectors[w].max_element_count \in Nat
        BY <2>6, CopyConstructStep, MemberTypes DEF Inv, OwnInv, TypeOK
      <3> QED
        BY <2>6, <3>1, CopyConstructStep, CopyStepSound
    <2>7. ASSUME NEW w \in Vector, MoveAssign(v, w) PROVE Good
      <3>1. v # w /\ v \in DOMAIN vectors /\ w \in DOMAIN vectors /\ Usable(v)
        BY <2>7 DEF MoveAssign, Usable
      <3>2. CASE Steals(vectors[v], vectors[w])
        BY <2>7, <3>1, <3>2, StealStep, TakesOverSound DEF MoveAssign
      <3>3. CASE ~ Steals(vectors[v], vectors[w])
        BY <2>7, <3>1, <3>3, MoveElementsStep, MoveElementsSound DEF MoveAssign
      <3> QED
        BY <3>2, <3>3
    <2>9. ASSUME NEW w \in Vector, CopyAssign(v, w) PROVE Good
      <3>1. w \in DOMAIN vectors /\ vectors[w].max_element_count \in Nat
        BY <2>9, CopyAssignStep, MemberTypes DEF Inv, OwnInv, TypeOK
      <3> QED
        BY <2>9, <3>1, CopyAssignStep, CopyStepSound
    <2>10. ASSUME NEW w \in Vector, MoveConstruct(v, w) PROVE Good
      BY <2>10, MoveConstructStep, TakesOverSound
    <2> HIDE DEF Good
    <2>8. Good
      BY <2>1, <2>2, <2>3, <2>4, <2>5, <2>6, <2>7, <2>9, <2>10,
         DestructSound, ClearSound, SwapSound DEF Good
    <2> QED
      BY <1>1, <2>8 DEF Good, Inv, Defined
  <1> QED
    BY <1>2, <1>3

LEMMA SpecContents ==
  ASSUME Careful
  PROVE  Spec => []Inv
  <1>1. Inv /\ [Next]_vars => Inv'
    BY NextContents
  <1> QED
    BY <1>1, InitContents, PTL DEF Spec

(* Between calls, exactly the elements of a vector are objects in its       *)
(* memory, and memory and table have room for as many as it says            *)
(* (vector.hpp:395-428, 485-551, elementLocator.hpp:46-56).                 *)
THEOREM ContentsAreElements ==
  ASSUME Careful
  PROVE  Spec => []ObjectsAreElements
  <1>1. Inv => ObjectsAreElements
    <2> SUFFICES ASSUME Inv, NEW v \in DOMAIN vectors, vectors[v].block \in DOMAIN heap
                 PROVE  LET m == vectors[v]
                        IN  /\ m.locator.size <= m.max_element_count
                            /\ m.max_element_count <= m.units
                            /\ varying => m.max_element_count <= m.locator.table.entries
                            /\ End(m) = <<m.block, m.locator.size>>
                            /\ \A i \in DOMAIN heap[m.block].cells :
                                 heap[m.block].cells[i] # Raw <=> i < m.locator.size
      BY DEF ObjectsAreElements
    <2>1. Sound(vectors[v], heap)
      BY DEF Inv, AllSound
    <2>2. vectors[v].block # Null
      BY NamesAssumption DEF Inv, OwnInv, TypeOK, IsHeap
    <2> QED
      BY <2>1, <2>2 DEF Sound
  <1> QED
    BY <1>1, SpecContents, PTL

(* None of the calls such a caller makes runs over raw memory, returns      *)
(* memory that it did not get, or writes beyond memory or table             *)
(* (vector.hpp:301-307, 485-551, elementLocator.hpp:60-78, 233-246).        *)
THEOREM CallsAreDefined ==
  ASSUME Careful
  PROVE  Spec => []NeverUndefined
  <1>1. Inv => NeverUndefined
    BY DEF Inv, NeverUndefined
  <1> QED
    BY <1>1, SpecContents, PTL

-----------------------------------------------------------------------------
(* VectorOwnership implements VectorValues.  The value of a vector is read  *)
(* from its memory, so it changes if any call writes to it: that only the   *)
(* vector's own calls do is the ownership invariant, that they find its     *)
(* elements there is the one of what is in memory.                          *)

(* What a vector with members m holds if the heap is h.                     *)
ContentsIn(m, h) ==
  IF IsHollow(m) THEN Unspecified
  ELSE IF m.locator.size = 0 THEN << >>
  ELSE LET s == [k \in 1 .. m.locator.size |-> h[m.block].cells[k - 1]]
       IN  IF \E k \in DOMAIN s : s[k] = Moved THEN Unspecified ELSE s

(* What a vector holds depends on its size, its memory and whether it has   *)
(* lost it.                                                                 *)
LEMMA SameContents ==
  ASSUME NEW m, NEW n, NEW h, NEW g, m.locator.size \in Nat,
         IsHollow(n) <=> IsHollow(m),
         n.locator.size = m.locator.size,
         ~ IsHollow(m) => \A i \in Units(m.locator.size) :
                            g[n.block].cells[i] = h[m.block].cells[i]
  PROVE  ContentsIn(n, g) = ContentsIn(m, h)
  <1>1. CASE IsHollow(m) \/ m.locator.size = 0
    BY <1>1 DEF ContentsIn
  <1>2. CASE ~ IsHollow(m) /\ m.locator.size # 0
    <2> DEFINE s(l, b) == [k \in 1 .. m.locator.size |-> l[b].cells[k - 1]]
    <2>1. \A k \in 1 .. m.locator.size : k - 1 \in Units(m.locator.size)
      BY DEF Units
    <2>2. s(g, n.block) = s(h, m.block)
      BY <1>2, <2>1
    <2> QED
      BY <1>2, <2>2 DEF ContentsIn
  <1> QED
    BY <1>1, <1>2

(* All memory but that of v has the same content in both heaps.             *)
Agree(h, g, v) == \A b \in DOMAIN heap \ {BlockOf(v)} : g[b].cells = h[b].cells

(* No step but one that gives v other elements changes what they are.       *)
LEMMA OthersKeep ==
  ASSUME Inv, Careful, NEW v, NEW x \in DOMAIN vectors, x # v, NEW h, NEW g,
         Agree(h, g, v)
  PROVE  ContentsIn(vectors[x], g) = ContentsIn(vectors[x], h)
  <1>1. vectors[x].locator.size \in Nat
    BY MemberTypes DEF Inv, OwnInv, TypeOK
  <1>2. CASE vectors[x].block = Null
    <2>1. ~ IsHollow(vectors[x]) => vectors[x].locator.size = 0
      BY <1>1, <1>2 DEF IsHollow
    <2> QED
      BY <2>1 DEF ContentsIn
  <1>3. CASE vectors[x].block # Null
    <2>1. vectors[x].block \in DOMAIN heap \ {BlockOf(v)}
      BY <1>3 DEF Inv, OwnInv, OneOwner, BlockOf
    <2> QED
      BY <1>1, <2>1, SameContents DEF Agree
  <1> QED
    BY <1>2, <1>3

(* A step that gives v new members is one that gives it a new value.        *)
LEMMA GiveRefines ==
  ASSUME Inv, Careful, NEW v, NEW m, vectors' = Set(v, m), Untouched(v),
         NEW s, ContentsIn(m, heap') = s
  PROVE  Values!Give(v, s)
  <1>1. /\ DOMAIN vectors' = DOMAIN vectors \cup {v}
        /\ \A x \in DOMAIN vectors' : vectors'[x] = IF x = v THEN m ELSE vectors[x]
    BY DEF Set
  <1>2. ASSUME NEW x \in DOMAIN vectors, x # v
        PROVE  ContentsIn(vectors[x], heap') = ContentsIn(vectors[x], heap)
    <2>1. Agree(heap, heap', v)
      BY DEF Agree, Untouched
    <2> QED
      BY <1>2, <2>1, OthersKeep
  <1>3. \A x \in DOMAIN vectors' :
          ContentsIn(vectors'[x], heap') = IF x = v THEN s ELSE ContentsIn(vectors[x], heap)
    BY <1>1, <1>2
  <1>4. /\ \A x \in DOMAIN vectors : Contents(vectors[x]) = ContentsIn(vectors[x], heap)
        /\ \A x \in DOMAIN vectors' : Contents(vectors[x])' = ContentsIn(vectors'[x], heap')
    BY DEF Contents, ContentsIn, IsHollow
  <1> QED
    BY <1>1, <1>3, <1>4 DEF contents, Values!Give

(* What the effects of calls are to their values.                           *)
LEMMA EmptyRefines ==
  ASSUME Inv, Careful, NEW v, BecomesEmpty(v)
  PROVE  Values!Give(v, << >>)
  <1>1. PICK m : vectors' = Set(v, m) /\ m.locator.size = 0 /\ ~ IsHollow(m)
    BY DEF BecomesEmpty
  <1>2. ContentsIn(m, heap') = << >>
    BY <1>1 DEF ContentsIn
  <1> QED
    BY <1>1, <1>2, GiveRefines DEF BecomesEmpty

LEMMA DropRefines ==
  ASSUME Inv, Careful, NEW v \in DOMAIN vectors, Disappears(v)
  PROVE  Values!Drop(v)
  <1>1. /\ DOMAIN vectors' = DOMAIN vectors \ {v}
        /\ \A x \in DOMAIN vectors' : vectors'[x] = vectors[x]
    BY DEF Disappears
  <1>2. ASSUME NEW x \in DOMAIN vectors, x # v
        PROVE  ContentsIn(vectors[x], heap') = ContentsIn(vectors[x], heap)
    <2>1. Agree(heap, heap', v)
      BY DEF Agree, Disappears, Untouched
    <2> QED
      BY <1>2, <2>1, OthersKeep
  <1>3. /\ \A x \in DOMAIN vectors : Contents(vectors[x]) = ContentsIn(vectors[x], heap)
        /\ \A x \in DOMAIN vectors' : Contents(vectors[x])' = ContentsIn(vectors'[x], heap')
    BY DEF Contents, ContentsIn, IsHollow
  <1> QED
    BY <1>1, <1>2, <1>3 DEF contents, Values!Drop

(* An element behind the others; behind one that was moved from, nothing is *)
(* known of the value before or after.                                      *)
LEMMA AppendRefines ==
  ASSUME Inv, Careful, NEW v \in Vector, NEW e \in Value, Gains(v, e)
  PROVE  Values!AppendTo(v, e)
  <1> DEFINE m == vectors[v]
             n == m.locator.size
             c == heap[m.block].cells
             d == heap'[m.block].cells
             s == [k \in 1 .. n |-> c[k - 1]]
             t == [k \in 1 .. n + 1 |-> d[k - 1]]
  <1>1. PICK new : /\ vectors' = Set(v, new)
                   /\ new.block = m.block
                   /\ new.locator.size = n + 1
    BY DEF Gains
  <1>2. /\ v \in DOMAIN vectors /\ m.block # Null /\ ~ IsHollow(m) /\ Untouched(v)
        /\ \A i \in 0 .. n : d[i] = IF i = n THEN e ELSE c[i]
    BY DEF Gains
  <1>3. n \in Nat /\ Sound(m, heap) /\ n <= m.units /\ m.units \in Nat
        /\ DOMAIN c = Units(m.units) /\ m.block \in DOMAIN heap
        /\ heap[m.block] \in Memory
    <2>1. /\ n \in Nat /\ Sound(m, heap) /\ m.units \in Nat /\ m.max_element_count \in Nat
          /\ IsHeap(heap)
      BY <1>2, MemberTypes DEF Inv, OwnInv, TypeOK, AllSound
    <2>2. m.block \in DOMAIN heap /\ DOMAIN c = Units(m.units)
      BY <1>2, Allocated DEF Inv
    <2> QED
      BY <2>1, <2>2 DEF Sound, IsHeap
  <1>4. \A i \in Units(n) : c[i] \in Value \cup {Moved}
    <2>1. ASSUME NEW i \in Units(n)
          PROVE  c[i] \in Value \cup {Moved}
      <3>1. i \in DOMAIN c
        BY <1>3 DEF Units
      <3>2. c[i] # Raw
        <4>1. i \in Nat /\ i < n
          BY <1>3 DEF Units
        <4> QED
          BY <1>2, <1>3, <3>1, <4>1 DEF Sound
      <3>3. c[i] \in Cell
        BY <1>3, <3>1, CellsAreFunctions DEF Memory
      <3> QED
        BY <3>2, <3>3 DEF Cell
    <2> QED
      BY <2>1
  <1> HIDE DEF c, d
  <1>5. \A k \in 1 .. n + 1 : t[k] = IF k = n + 1 THEN e ELSE s[k]
    BY <1>2, <1>3
  <1>6. \A k \in 1 .. n : s[k] \in Value \cup {Moved}
    BY <1>3, <1>4 DEF Units
  <1>7. ContentsIn(m, heap) =
          IF \E k \in 1 .. n : s[k] = Moved THEN Unspecified ELSE s
    BY <1>2, <1>3 DEF ContentsIn, c
  <1>8. ContentsIn(new, heap') =
          IF \E k \in 1 .. n + 1 : t[k] = Moved THEN Unspecified ELSE t
    BY <1>1, <1>2, <1>3 DEF ContentsIn, IsHollow, d
  <1>9. ContentsIn(new, heap') =
          IF ContentsIn(m, heap) = Unspecified THEN Unspecified ELSE Append(ContentsIn(m, heap), e)
    <2> HIDE DEF s, t
    <2>1. e # Moved
      BY NamesAssumption
    <2>2. CASE \E k \in 1 .. n : s[k] = Moved
      <3>1. \E k \in 1 .. n + 1 : t[k] = Moved
        BY <1>3, <1>5, <2>2
      <3> QED
        BY <1>7, <1>8, <2>2, <3>1
    <2>3. CASE ~ \E k \in 1 .. n : s[k] = Moved
      <3>1. ~ \E k \in 1 .. n + 1 : t[k] = Moved
        BY <1>3, <1>5, <2>1, <2>3
      <3>2. s \in Seq(Value) /\ Len(s) = n
        <4>1. s \in [1 .. n -> Value]
          BY <1>6, <2>3 DEF s
        <4> QED
          BY <1>3, <4>1
      <3>3. t = Append(s, e)
        <4>1. \A k \in 1 .. n : s[k] \in Value
          BY <1>6, <2>3
        <4>2. t \in [1 .. n + 1 -> Value]
          <5>1. \A k \in 1 .. n + 1 : t[k] \in Value
            BY <1>3, <1>5, <4>1
          <5> QED
            BY <5>1 DEF t
        <4>3. Append(s, e) \in Seq(Value) /\ Len(Append(s, e)) = n + 1
          BY <3>2
        <4>4. \A k \in 1 .. n + 1 : Append(s, e)[k] = t[k]
          BY <1>3, <1>5, <3>2
        <4>5. t \in Seq(Value) /\ Len(t) = n + 1
          BY <1>3, <4>2
        <4> QED
          BY <4>3, <4>4, <4>5
      <3>4. s # Unspecified
        BY <3>2, UnspecifiedAssumption
      <3> QED
        BY <1>7, <1>8, <2>3, <3>1, <3>3, <3>4
    <2> QED
      BY <2>2, <2>3
  <1>10. Contents(m) = ContentsIn(m, heap)
    BY DEF Contents, ContentsIn
  <1> QED
    BY <1>1, <1>2, <1>9, <1>10, GiveRefines DEF contents, Values!AppendTo

(* The copy holds what the original held.                                   *)
LEMMA CopiedContents ==
  ASSUME Inv, Careful, NEW v, NEW w \in DOMAIN vectors, NEW n \in Nat,
         Usable(w), Insertable(vectors[w]), NEW h, GetsCopy(v, w, n, h)
  PROVE  \E m : /\ vectors' = Set(v, m)
                /\ ContentsIn(m, heap') = ContentsIn(vectors[w], heap)
  <1> DEFINE o == vectors[w]
  <1>1. PICK block \in Block \cup {Null}, units \in Nat, a \in Allocator :
          /\ o.max_element_count <= n /\ n <= units
          /\ block = Null => units = 0
          /\ vectors' = Set(v, Members(block, units, a, n, CopiedLocator(o, block, n)))
          /\ block # Null => heap'[block].cells = Inserted(o, units)
    BY DEF GetsCopy
  <1> DEFINE l == CopiedLocator(o, block, n)
             m == Members(block, units, a, n, l)
  <1>2. /\ l.size = o.locator.size
        /\ l.last_element = IF varying THEN Pointer(block, o.locator.size) ELSE Null
    BY CopiedEnd
  <1> HIDE DEF l
  <1>3. m.block = block /\ m.units = units /\ m.locator = l
    BY DEF Members
  <1>4. /\ o.locator.size \in Nat /\ o.max_element_count \in Nat
        /\ o.locator.size <= o.max_element_count /\ ~ IsHollow(o)
    BY MemberTypes DEF Usable, Careful, Calls, Inv, OwnInv, TypeOK, AllSound, Sound
  <1>5. block = Null => o.locator.size = 0
    BY <1>1, <1>4
  <1> HIDE DEF m
  <1>6. ~ IsHollow(m)
    BY <1>1, <1>2, <1>3, <1>5 DEF IsHollow, Pointer
  <1>7. \A i \in Units(o.locator.size) : heap'[block].cells[i] = heap[o.block].cells[i]
    BY <1>1, <1>4, <1>5 DEF Inserted, Units
  <1>8. ContentsIn(m, heap') = ContentsIn(o, heap)
    BY <1>2, <1>3, <1>4, <1>6, <1>7, SameContents
  <1> QED
    BY <1>1, <1>8 DEF m, l

(* Copying gives v the value of w and leaves w its own.                     *)
LEMMA CopyRefines ==
  ASSUME Inv, Careful, NEW v, NEW w \in DOMAIN vectors, NEW n \in Nat,
         Usable(w), Insertable(vectors[w]), GetsCopy(v, w, n, heap)
  PROVE  Values!Give(v, Contents(vectors[w]))
  <1>1. PICK m : vectors' = Set(v, m) /\ ContentsIn(m, heap') = ContentsIn(vectors[w], heap)
    BY CopiedContents
  <1>2. Untouched(v)
    BY DEF GetsCopy, Untouched
  <1>3. ContentsIn(vectors[w], heap) = Contents(vectors[w])
    BY DEF Contents, ContentsIn
  <1> QED
    BY <1>1, <1>2, <1>3, GiveRefines

(* The elements of w go to v, and w is left with as many that were moved    *)
(* from.                                                                    *)
LEMMA MoveElementsRefines ==
  ASSUME Inv, Careful, NEW v \in DOMAIN vectors, NEW w \in DOMAIN vectors, v # w,
         Usable(w), Insertable(vectors[w]),
         NEW h, h = Filled(heap, vectors[w], Moved),
         GetsCopy(v, w, vectors[w].max_element_count, h)
  PROVE  Values!Move(v, w)
  <1> DEFINE o == vectors[w]
             left == ContentsIn(o, h)
  <1>1. vectors[w].max_element_count \in Nat /\ o.locator.size \in Nat
    BY MemberTypes DEF Inv, OwnInv, TypeOK
  <1>2. PICK m : vectors' = Set(v, m) /\ ContentsIn(m, heap') = ContentsIn(o, heap)
    BY <1>1, CopiedContents
  <1>3. /\ DOMAIN vectors' = DOMAIN vectors \cup {v}
        /\ \A x \in DOMAIN vectors' : vectors'[x] = IF x = v THEN m ELSE vectors[x]
    BY <1>2 DEF Set
  <1>4. /\ \A b \in DOMAIN heap \ {o.block} : h[b] = heap[b]
        /\ o.block # Null =>
             \A i \in Units(o.units) :
               h[o.block].cells[i] =
                 IF i < o.locator.size THEN Moved ELSE heap[o.block].cells[i]
    BY MovedOut
  <1>5. left \in {Unspecified, << >>}
    <2>1. o.locator.size <= o.units /\ o.units \in Nat /\ ~ IsHollow(o)
      BY MemberTypes DEF Usable, Careful, Calls, Inv, OwnInv, TypeOK, AllSound, Sound
    <2>2. CASE o.locator.size = 0
      BY <2>1, <2>2 DEF ContentsIn
    <2>3. CASE o.locator.size # 0
      <3>1. o.block # Null
        BY <1>1, <2>1, <2>3 DEF IsHollow
      <3>2. h[o.block].cells[0] = Moved
        BY <1>1, <1>4, <2>1, <2>3, <3>1 DEF Units
      <3>3. 1 \in 1 .. o.locator.size
        BY <1>1, <2>3
      <3>4. \E k \in 1 .. o.locator.size : h[o.block].cells[k - 1] = Moved
        BY <3>2, <3>3
      <3> QED
        BY <2>1, <2>3, <3>4 DEF ContentsIn
    <2> QED
      BY <2>2, <2>3
  <1>6. ASSUME NEW x \in DOMAIN vectors, x # v
        PROVE  ContentsIn(vectors[x], heap') = IF x = w THEN left ELSE ContentsIn(vectors[x], heap)
    <2>1. Agree(h, heap', v)
      BY DEF Agree, GetsCopy
    <2>2. ContentsIn(vectors[x], heap') = ContentsIn(vectors[x], h)
      BY <1>6, <2>1, OthersKeep
    <2>3. ASSUME x # w PROVE ContentsIn(vectors[x], h) = ContentsIn(vectors[x], heap)
      <3>1. Agree(heap, h, w)
        BY <1>4 DEF Agree, BlockOf
      <3> QED
        BY <2>3, <3>1, OthersKeep
    <2> QED
      BY <2>2, <2>3
  <1>7. /\ \A x \in DOMAIN vectors : Contents(vectors[x]) = ContentsIn(vectors[x], heap)
        /\ \A x \in DOMAIN vectors' : Contents(vectors[x])' = ContentsIn(vectors'[x], heap')
    BY DEF Contents, ContentsIn, IsHollow
  <1> HIDE DEF left
  <1>8. \A x \in DOMAIN vectors' :
          ContentsIn(vectors'[x], heap') =
            IF x = v THEN ContentsIn(o, heap) ELSE IF x = w THEN left
            ELSE ContentsIn(vectors[x], heap)
    BY <1>2, <1>3, <1>6
  <1> QED
    BY <1>3, <1>5, <1>7, <1>8 DEF contents, Values!Move

(* The memory of w goes to v; w is left without, and hollow if it had any.  *)
LEMMA TakeOverRefines ==
  ASSUME Inv, Careful, NEW v, NEW w \in DOMAIN vectors, v # w, TakesOver(v, w)
  PROVE  Values!Move(v, w)
  <1> DEFINE o == vectors[w]
             r == Released(o)
             left == ContentsIn(r, heap')
  <1>1. PICK m \in MembersType :
          /\ m.block = o.block /\ m.units = o.units /\ m.locator = o.locator
          /\ vectors' = [x \in DOMAIN vectors \cup {v} |->
                           IF x = v THEN m ELSE IF x = w THEN r ELSE vectors[x]]
    BY DEF TakesOver
  <1>2. o \in MembersType /\ o.locator \in Locators /\ o.locator.size \in Nat
    BY MemberTypes DEF Inv, OwnInv, TypeOK
  <1>3. left \in {Unspecified, << >>}
    <2>1. r.block = Null /\ r.locator = ReleasedLocator(o.locator)
      BY <1>2 DEF Released, MembersType
    <2>2. r.locator.size \in Nat
      BY <1>2, <2>1 DEF ReleasedLocator, Locators
    <2> HIDE DEF r
    <2>3. ~ IsHollow(r) => r.locator.size = 0
      BY <2>1, <2>2 DEF IsHollow
    <2> QED
      BY <2>3 DEF ContentsIn
  <1> HIDE DEF r, left
  <1>4. ASSUME NEW x \in DOMAIN vectors, x # v
        PROVE  ContentsIn(vectors[x], heap') = ContentsIn(vectors[x], heap)
    <2>1. Agree(heap, heap', v)
      BY DEF Agree, TakesOver, Untouched
    <2> QED
      BY <1>4, <2>1, OthersKeep
  <1>5. ContentsIn(m, heap') = ContentsIn(o, heap)
    <2>1. ContentsIn(m, heap') = ContentsIn(o, heap')
      BY <1>1, <1>2, SameContents DEF IsHollow
    <2> QED
      BY <1>4, <2>1
  <1>6. /\ DOMAIN vectors' = DOMAIN vectors \cup {v}
        /\ \A x \in DOMAIN vectors' :
             vectors'[x] = IF x = v THEN m ELSE IF x = w THEN r ELSE vectors[x]
    BY <1>1
  <1>7. \A x \in DOMAIN vectors' :
          ContentsIn(vectors'[x], heap') =
            IF x = v THEN ContentsIn(o, heap) ELSE IF x = w THEN left
            ELSE ContentsIn(vectors[x], heap)
    BY <1>4, <1>5, <1>6 DEF left
  <1>8. /\ \A x \in DOMAIN vectors : Contents(vectors[x]) = ContentsIn(vectors[x], heap)
        /\ \A x \in DOMAIN vectors' : Contents(vectors[x])' = ContentsIn(vectors'[x], heap')
    BY DEF Contents, ContentsIn, IsHollow
  <1> QED
    BY <1>3, <1>6, <1>7, <1>8 DEF contents, Values!Move

(* Each of the two has what the other had.                                  *)
LEMMA SwapRefines ==
  ASSUME Inv, NEW v \in Vector, NEW w \in Vector, Swap(v, w)
  PROVE  Values!Exchange(v, w)
  <1> DEFINE m == vectors[v]
             o == vectors[w]
  <1>1. /\ v # w /\ v \in DOMAIN vectors /\ w \in DOMAIN vectors
        /\ m \in MembersType /\ o \in MembersType /\ traits.move \in BOOLEAN
        /\ m.locator.size \in Nat /\ o.locator.size \in Nat
        /\ heap' = heap
        /\ vectors' = [vectors EXCEPT ![v] = TakenOver(m, o), ![w] = TakenOver(o, m)]
    BY MemberTypes DEF Swap, Inv, OwnInv, TypeOK
  <1>2. /\ TakenOver(m, o).block = o.block /\ TakenOver(m, o).units = o.units
        /\ TakenOver(m, o).locator = o.locator
        /\ TakenOver(o, m).block = m.block /\ TakenOver(o, m).units = m.units
        /\ TakenOver(o, m).locator = m.locator
    BY <1>1, TakenOverMembers
  <1>3. /\ ContentsIn(TakenOver(m, o), heap) = ContentsIn(o, heap)
        /\ ContentsIn(TakenOver(o, m), heap) = ContentsIn(m, heap)
    BY <1>1, <1>2, SameContents DEF IsHollow
  <1>4. /\ DOMAIN vectors' = DOMAIN vectors
        /\ \A x \in DOMAIN vectors' :
             vectors'[x] = IF x = w THEN TakenOver(o, m) ELSE IF x = v THEN TakenOver(m, o)
                           ELSE vectors[x]
    BY <1>1 DEF Inv, OwnInv, TypeOK
  <1>5. /\ \A x \in DOMAIN vectors : Contents(vectors[x]) = ContentsIn(vectors[x], heap)
        /\ \A x \in DOMAIN vectors' : Contents(vectors[x])' = ContentsIn(vectors'[x], heap')
    BY DEF Contents, ContentsIn, IsHollow
  <1> QED
    BY <1>1, <1>3, <1>4, <1>5 DEF contents, Values!Exchange

-----------------------------------------------------------------------------
(* No vectors, no values.                                                   *)
LEMMA InitRefines == Init => Values!ValuesInit
  BY DEF Init, contents, Values!ValuesInit

(* A call that gives v the elements of v has done nothing to its value.     *)
LEMMA ReserveRefines ==
  ASSUME Inv, Careful, NEW v \in Vector, NEW n \in Nat, Reserve(v, n)
  PROVE  UNCHANGED contents
  <1>1. v \in DOMAIN vectors /\ Values!Give(v, Contents(vectors[v]))
    BY ReserveStep, CopyRefines
  <1> QED
    BY <1>1 DEF contents, Values!Give

(* Every call is a step of VectorValues, or none that it can see.           *)
LEMMA StepRefines ==
  ASSUME Inv, Careful, [Next]_vars
  PROVE  [Values!ValuesNext]_contents
  <1>1. CASE UNCHANGED vars
    <2>1. contents' = contents
      BY <1>1 DEF vars, contents, Contents, IsHollow
    <2> QED
      BY <2>1
  <1>2. CASE Next
    <2>1. PICK v \in Vector :
            \/ \E a \in Allocator : ConstructDefault(v, a)
            \/ \E n \in 0 .. MaxCapacity, a \in Allocator : Construct(v, n, a)
            \/ Destruct(v)
            \/ \E e \in Value : EmplaceBack(v, e)
            \/ Clear(v)
            \/ \E n \in 1 .. MaxCapacity : Reserve(v, n)
            \/ \E w \in Vector, a \in Allocator : CopyConstruct(v, w, a)
            \/ \E w \in Vector : MoveConstruct(v, w)
            \/ \E w \in Vector : CopyAssign(v, w)
            \/ \E w \in Vector : MoveAssign(v, w)
            \/ \E w \in Vector : Swap(v, w)
      BY <1>2 DEF Next
    <2>3. ASSUME NEW a \in Allocator, ConstructDefault(v, a) PROVE Values!Create(v)
      BY <2>3, ConstructDefaultSound, EmptyRefines DEF contents, Values!Create, ConstructDefault
    <2>4. ASSUME NEW n \in 0 .. MaxCapacity, NEW a \in Allocator, Construct(v, n, a)
          PROVE  Values!Create(v)
      BY <2>4, ConstructSound, EmptyRefines, SizesAssumption DEF contents, Values!Create, Construct
    <2>5. ASSUME Destruct(v) PROVE Values!Drop(v)
      BY <2>5, DestructSound, DropRefines
    <2>6. ASSUME NEW e \in Value, EmplaceBack(v, e) PROVE Values!AppendTo(v, e)
      BY <2>6, EmplaceBackSound, AppendRefines
    <2>7. ASSUME Clear(v) PROVE Values!Empty(v)
      BY <2>7, ClearSound, EmptyRefines DEF contents, Values!Empty
    <2>8. ASSUME NEW n \in 1 .. MaxCapacity, Reserve(v, n) PROVE contents' = contents
      BY <2>8, ReserveRefines, SizesAssumption
    <2>9. ASSUME NEW w \in Vector, NEW a \in Allocator, CopyConstruct(v, w, a)
          PROVE  Values!CreateCopy(v, w)
      <3>1. w \in DOMAIN vectors /\ vectors[w].max_element_count \in Nat
        BY <2>9, CopyConstructStep, MemberTypes DEF Inv, OwnInv, TypeOK
      <3> QED
        BY <2>9, <3>1, CopyConstructStep, CopyRefines DEF contents, Values!CreateCopy
    <2>10. ASSUME NEW w \in Vector, MoveConstruct(v, w) PROVE Values!Move(v, w)
      BY <2>10, MoveConstructStep, TakeOverRefines
    <2>11. ASSUME NEW w \in Vector, CopyAssign(v, w) PROVE Values!Copy(v, w)
      <3>1. w \in DOMAIN vectors /\ vectors[w].max_element_count \in Nat
        BY <2>11, CopyAssignStep, MemberTypes DEF Inv, OwnInv, TypeOK
      <3> QED
        BY <2>11, <3>1, CopyAssignStep, CopyRefines DEF contents, Values!Copy
    <2>12. ASSUME NEW w \in Vector, MoveAssign(v, w) PROVE Values!Move(v, w)
      <3>1. v # w /\ v \in DOMAIN vectors /\ w \in DOMAIN vectors /\ Usable(v)
        BY <2>12 DEF MoveAssign, Usable
      <3>2. CASE Steals(vectors[v], vectors[w])
        BY <2>12, <3>1, <3>2, StealStep, TakeOverRefines DEF MoveAssign
      <3>3. CASE ~ Steals(vectors[v], vectors[w])
        BY <2>12, <3>1, <3>3, MoveElementsStep, MoveElementsRefines DEF MoveAssign
      <3> QED
        BY <3>2, <3>3
    <2>13. ASSUME NEW w \in Vector, Swap(v, w) PROVE Values!Exchange(v, w)
      BY <2>13, SwapRefines
    <2>14. ASSUME \/ Values!Create(v) \/ Values!Drop(v) \/ Values!Empty(v)
                  \/ \E e \in Value : Values!AppendTo(v, e)
                  \/ \E w \in Vector : \/ Values!CreateCopy(v, w) \/ Values!Copy(v, w)
                                       \/ Values!Move(v, w) \/ Values!Exchange(v, w)
           PROVE  Values!ValuesNext
      BY <2>14 DEF Values!ValuesNext
    <2>15. Values!ValuesNext \/ contents' = contents
      BY <2>1, <2>3, <2>4, <2>5, <2>6, <2>7, <2>8, <2>9, <2>10, <2>11, <2>12, <2>13, <2>14
    <2> QED
      BY <2>15
  <1> QED
    BY <1>1, <1>2

(* Vectors have values, whatever they do with memory and allocators: a copy *)
(* equals its source and is independent of it, a move hands the elements    *)
(* over, swap exchanges them, reserve changes nothing, and no call changes  *)
(* a vector it was not given (vector.hpp:131-157, 301-307, 485-551).        *)
THEOREM VectorsHaveValues ==
  ASSUME Careful
  PROVE  Spec => ImplementsValues
  <1>1. Inv /\ [Next]_vars => [Values!ValuesNext]_contents
    BY StepRefines
  <1> QED
    BY <1>1, InitRefines, SpecContents, PTL DEF Spec, ImplementsValues, Values!ValuesSpec
=============================================================================
