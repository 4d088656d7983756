# Specifications of contiguous

TLA+ specifications of [contiguous](../src/README.md), a header-only C++17
library whose `cntgs::ContiguousVector` stores, in one allocation, elements
that are made of several objects: one per *plain* parameter, a number fixed for
the whole vector per `FixedSize` parameter, and a number of its own per
`VaryingSize` parameter. The specifications are translated from the headers in
`src/src/cntgs` and from `src/src/cntgs.hpp`; paths below are relative to the
former unless they start with `test/` or name `cntgs.hpp` or the repository's
`README.md`.

The repository ships the library twice. `cntgs.hpp`, the "single header"
(`README.md:20`), is not generated from the headers in `cntgs/`: it is an older
version with another locator, another order of the steps of copy and move, other
sizes of elements and a `VaryingSize<T>` that brings its own size along. Both are
specified; "modular" below is the version in `cntgs/`.

The library is sequential and has neither I/O nor persistent state. What makes
it hard is the bookkeeping: raw bytes and object lifetimes that are tracked by
a count, a table of offsets and a pointer to the end that every method updates
on its own; sizes and alignments computed at compile time that have to agree
with what run-time code does with addresses; methods that are loops and that an
exception may leave in the middle; memory, allocators and sizes that are copied,
moved and swapped separately.

## 1. Inventory

| part | code | state | operations | correct when | specified in |
|---|---|---|---|---|---|
| vector of plain and `FixedSize` parameters | `vector.hpp`, `AllFixedSizeElementLocator` in `detail/elementLocator.hpp` | `max_element_count_`, `memory_`, `element_count_`, `stride_` | `emplace_back`, `pop_back`, `erase` (2), `clear`, `reserve` | an object is alive exactly where an element is; the elements are those of a sequence; methods return | `FixedVector` |
| vector with `VaryingSize` parameters | `vector.hpp`, `ElementLocator`, `detail/unmanagedVector.hpp` | the same and the table `element_addresses_` with its size, `last_element_` | the same | table, bytes and end stay in step; elements do not overlap and start aligned | `VaryingVector` |
| layout | `detail/elementTraits.hpp`, `detail/parameterTraits.hpp`, `detail/memory.hpp`, `detail/sizeGetter.hpp`, `parameter.hpp`; their like in `cntgs.hpp` | none: sizes, strides, alignments, placement; the offset of `Storage` | `store`, `load`, `calculate_element_size`, `calculate_needed_memory_size`; what `reserve` does to them | objects aligned, disjoint, inside the allocation; a copied element reads back | `ElementTraits`, `SingleHeaderTraits`, `ElementLayout` |
| ownership | `vector.hpp` (special members, `swap`, `grow`), `detail/allocator.hpp`, `detail/storage.hpp`, the locators and `detail/unmanagedVector.hpp` | pointer, size in units, allocator of `memory_`; count, or table and end | construct, copy, move, assign, swap, grow, destroy | one owner per allocation and table; released by its allocator with its size; vectors have separate values | `VectorOwnership`, `VectorValues` |
| single header vector | `cntgs.hpp:2917-4154` | the same; `start_` and a count, or a `std::vector` of offsets and `last_element_` | all of a vector's, of fixed and varying parameters, and its special members | the above, and the pointer into memory follows the memory | `SingleHeaderVector` |
| interface | the repository's `README.md`, `vector.hpp` | a sequence and a capacity | the calls of a caller | (abstract specification) | `SequenceContainer` |
| element | `element.hpp` | an allocation of one element, a reference into it | construct from a reference, copy, move, assign, swap, compare | one owner per allocation; every object constructed where it is; elements have separate values | `ContiguousElement`, `ElementValues` |
| reference, span | `reference.hpp`, `span.hpp`, `detail/reference.hpp`, `detail/vectorTraits.hpp` | pointers into an element | assign, swap, compare | every parameter is assigned, swapped, compared once; comparison by bytes is comparison by value | `ElementReferences` |
| iterator | `iterator.hpp`, `detail/iterator.hpp`; the same class in `cntgs.hpp` | index, and a copy of memory and locator of the vector | arithmetic, dereference, comparison; comparison of vectors | valid until what the standard says invalidates it; vectors compare as their elements | `VectorIterators` |
| traits and helpers | `detail/typeTraits.hpp`, `detail/utility.hpp`, ... | none | compile-time predicates | | which types are bytes: `ElementReferences`; otherwise constants of the models |

How they interact. A vector asks its locator where element *i* lies, and its
`ElementTraits` to construct, move or destroy objects there; the locator and
`ElementTraits` share nothing but addresses, so a locator that is wrong by one
entry shows only when an object is used. `reserve` builds a new allocation and a
new locator next to the old ones and swaps them in. An iterator and a reference
hold copies of locator and addresses and are not told of changes. `memory_`
knows its allocator and size but not what is constructed in it; the vector knows
what is constructed but copies `memory_` and locator separately when it is
copied, moved and swapped.

Hard behaviours, all listed as hazards with their lines in `PROJECT.json`: the
table entry that `resize` takes the end from; moves of elements onto themselves
or their neighbours; null `data_end()` of an empty vector in pointer arithmetic;
exceptions between two moves of `grow`; the locator's size after `grow`;
alignments decided at compile time; the stride of elements that start inside a
storage unit, and the offset at which they do; memory taken over under unequal or propagating allocators;
moved-from vectors that still count their elements; a table, a start and an end
that have to go where the memory goes; iterators that keep a copy of them;
vectors compared as bytes, gaps and lengths included; objects that are copied as
bytes, in runs of parameters found at compile time, next to objects that must
not be. There are no threads, messages, timeouts or restarts in this code, and the
specifications have none.

## 2. Modules

Abstract specifications:

* `SequenceContainer` - a vector is a sequence `items` and a `capacity`.
  `erase` is one step. `reserve` may fail; the elements are then as many as
  before but each may be a *husk*, an element that was moved from.
* `VectorValues` - several vectors, each with a value of its own: copy, move and
  swap act on values, a moved-from vector has an unspecified one.
* `ElementValues` - the same for elements, inside a vector or outside: a value is
  the number of objects of each parameter (the element's shape) and what their
  bytes hold, without padding, memory or allocators. Moving leaves everything as
  it is but the non-trivial objects.

Detailed specifications:

* `FixedVector` - element *i* is at `stride_ * i`, so memory is a function from
  slots to elements, an element a function from parameters to cells. A cell is a
  value, `Raw` or `Moved`. `NonTrivial` is the set of parameters with
  non-trivial move and destruction. A call that is a loop in the code is a loop
  here: `pc` says which method runs, `to` and `from` are its indices, each
  iteration (`EraseMove`, `GrowMove`) is a step, and `GrowThrow` leaves `reserve`
  through an exception, after any object of the element that is being moved.
  `erase` has no such step because `emplace_at` is `noexcept`: an exception there
  terminates the program. Refines `SequenceContainer`.
* `VaryingVector` - memory is a function from units to cells; the table
  `element_addresses` has `Indeterminate` entries where the code leaves memory
  uninitialised, and reading one is undefined behaviour (`pc = "undefined"`).
  Every element starts with the size of its `VaryingSize` parameter. Whether the
  objects have destructors and how elements are aligned, `kind`, is chosen in
  `Init`. Refines `SequenceContainer`.
* `ElementTraits` - a parameter list is a sequence of type, alignment and size.
  `Bracket`, `SizeFromFirst` and `SizeAroundLargest` are the compile-time
  computations, `Placement` is what `store` and `load` do at run time.
* `SingleHeaderTraits` - the same for `cntgs.hpp`, over the same lists.
* `ElementLayout` - a state machine that places elements of any sizes a caller may
  ask for, with the operators of one of the two, `header`, and grows the vector:
  `offset` is where `Storage` says the first element of an allocation starts.
* `VectorOwnership` - several vectors, a heap of allocations and the allocators
  they came from. `traits` are the three propagation traits and `varying` whether
  the locator has a table, both chosen in `Init`; a table's name is kept, so that
  two vectors that share one show. Without a table the stride is part of the
  locator: it is 0 in a vector that was constructed without sizes. `last_element_` is a block and an offset in it:
  it is a difference of two allocations that carries it from one to the other.
  A call is one step. Refines `VectorValues`.
* `SingleHeaderVector` - several vectors of the single header and the heap. `edge`
  is `start_` or `last_element_`, whichever the locator has, again a block and an
  offset. Here the vectors are also erased from, so the bytes in an allocation,
  the table and the edge are tracked as in `VaryingVector`, with elements of one
  and two parts; `contents` is what a caller finds when reading them. Refines
  `VectorValues`.
* `VectorIterators` - extends it with the `std::vector`s that hold the tables and
  with iterators the program holds: copies of memory and table, and the position
  they were made at. A table has an allocator of its own, which need not stay the
  one of the memory: copying selects it twice, and `swap` of the locators is
  `std::swap`, which follows the trait for moves where `swap` of the memory follows
  the one for swap. It says which calls leave an iterator valid (`Spared`) and
  compares vectors as `==` and `<` do, for each relation of `Orders` that the `<` of
  elements may be.
* `ElementReferences` - assignment, swap and comparison of elements. The objects of
  a parameter are of a `kind` that says what the type traits say of them; `Runs`
  are the runs of parameters that are handled as bytes at once, from the first
  byte to the last with the padding in between. A byte holds a value and, if it
  is a non-trivial object, the place it was constructed at (`home`); bytes of an
  object copied elsewhere have another home and are none.
* `ContiguousElement` - elements with memory of their own and elements of a vector,
  whose memory is a heap of bytes placed by `ElementTraits`. `memory_` and
  `reference_` are separate, as in the code: moving takes the pointer out of
  `memory_` (`Released`) and leaves the reference behind. A call is one step. All
  six comparisons are defined as the code derives them from `==` and `<`.
  Extends `ElementReferences`, refines `ElementValues`.

`MC...` modules give the constants their values. Theorems are in modules of
their own, each on top of the module it is about (section 4):
`FixedVectorProofs`, `VaryingVectorProofs`, `VectorOwnershipProofs`,
`SingleHeaderProofs`, `VectorIteratorsProofs` on top of that,
`ElementTraitsProofs` (lemmas about layout only), `ElementLayoutProofs` and
`ContiguousElementProofs`, the last two on top of `ElementTraitsProofs`.

From code to model: methods keep their names in capitals (`emplace_back` is
`EmplaceBack`), variables keep theirs without the trailing underscore, helper
operators carry the name of the function they translate, and `PROJECT.json`
names the lines of each. Definitions called `X_SomeFault` are never used: they
are plausible bugs of the code behind `X`, put in its place to see that the
properties notice.

### Calls a caller avoids

Some preconditions are part of the actions. Vectors whose allocators are unequal are
swapped only if the allocators propagate on swap, as the standard asks of its
containers; `test/test-vector.cpp:158-180` swaps vectors over different memory
resources all the same and then compares elements, not who frees the memory.
`emplace_back` is called when there is room. No vector or element is assigned to
or swapped with itself.

Some calls compile and are plausible, but the code does not carry them out. So
that everything else can be checked, the specifications of vectors and elements
have a constant `Avoided` that names the calls the caller keeps away from, and
`FixedVector` has `ReservesEmpty`; three of the runs that expect a violation make
one of these calls. Section 5 says what each does.

| name | the caller does not |
|---|---|
| `erase_nothing` | `clear()` an empty varying vector, `erase(it, it)` |
| `erase_back` | `erase(it)` of the last element of a varying vector of trivial objects |
| `erase_narrow` | erase less from a varying vector than an element behind it takes |
| `reserve_empty`, `ReservesEmpty` | `reserve` on an empty vector of non-trivial objects |
| `reserve_unfilled` | `reserve` on a varying vector that is not full |
| `reserve_too_few_bytes` | `reserve` fewer varying bytes than are in use |
| `use_moved_from` | use a vector or element that was moved from, other than to assign it to another by stealing, swap, move from or destroy it |
| `copy_empty` | copy, grow or element-wise move an empty vector of non-trivial objects that has memory |
| `copy_unfilled` | the same with a varying vector that is not full |
| `clear_empty` | `clear()` an empty varying vector (in `VectorOwnership`) |
| `swap_allocators` | swap vectors with unequal allocators that propagate on swap but not on move assignment |
| `other_sizes` | assign or swap, through references, elements with another number of `VaryingSize` objects |
| `units_as_bytes` | copy assign elements that do not take the assignment through references, or move construct one with an unequal allocator, if a storage unit has more than one byte |
| `reserve_default` | `reserve` on a default-constructed vector of plain and fixed parameters (modular and single header) |
| `relocate` | single header: `reserve`, or an element-wise move, of varying elements with non-trivial objects |
| `move_into_smaller` | single header: an element-wise move assignment into an allocation smaller than the other |
| `propagating_move` | single header: move assignment to a vector with memory that takes over an unequal allocator |
| `grow_table` | hold an iterator over an `emplace_back` that makes the table of the single header grow |
| `copy_tables` | hold an iterator over a swap or a move assignment of the single header that copies the entries of a table, because the allocators of the two tables are unequal and do not propagate on move assignment |
| `compare_sizes` | compare, element by element, vectors of different sizes |
| `compare_gaps` | compare, as bytes, vectors with a gap between two elements |

## 3. Runs

| run | what it shows | bounds |
|---|---|---|
| `fixed_trivial` | the vector of trivial objects is a sequence with a capacity | 3 values, 3 parameters, capacity 5 |
| `fixed_objects` | the loops keep object lifetimes right at every iteration, with and without exceptions; they end; the caller sees single steps | the same, two of three parameters non-trivial |
| `varying` | table, bytes and `last_element_` stay in step for elements of three sizes; elements of bytes stay aligned; `erase` moves objects one by one and destroys each once | capacity 3, 5 varying units; bytes aligned to 2 units, and objects |
| `layout` | compile-time sizes and run-time places agree, in the modular and in the single header | lists below, alignments 1, 2, 4, sizes 1 to 4, counts 0 and 3, varying counts 0, 1, 3, 6 or 12 varying bytes, 2 elements |
| `ownership` | each allocation and table has one owner and goes back to its allocator; vectors have separate values | 2 vectors, 2 allocators, 2 values, capacity 3, allocations up to 6 units, all 8 combinations of traits, with and without a table |
| `single_header` | the same for the single header, and `start_` or `last_element_` lies in the vector's own memory | 2 vectors, 2 allocators, values of 1 and 2 units, capacity 2, allocations up to 4 units, all four kinds of elements, allocators that stay or go along |
| `iterators` | an iterator that should be valid leads to its element; vectors and iterators compare as elements do | 1 iterator, otherwise as above with allocations up to 3 units of one byte and allocators that stay; elements in order one way or the other, or neither less |
| `elements` | each allocation has one owner, every object is where it was made, elements have separate values and compare by them | 2 elements and 2 elements of a vector, 2 allocators, 5 combinations of traits; 6 pairs of shapes |

The four runs `varying_erase_narrow`, `varying_reserve_unfilled`,
`layout_varying_short` and `swap_allocators` expect a violation; section 5.

Why the bounds are enough. In the vectors a method looks at an element, the one
it moves to and the end; five slots (three for varying elements) hold a prefix
that stays, a gap of one or more, elements that overlap their own source and
elements that do not, and a rest. Three values, one per size in the varying
case, tell an element from its neighbours. Element sizes 1, 2 and 3 units cover
"erased less, as much, more than what is behind it". Two elements are enough for
layout since the third is placed as the second was; sizes of 3 bytes are those
that are no multiple of an alignment; a count of 0 is an empty `FixedSize`
parameter. In `ownership` and `single_header` a storage unit has two bytes,
because `move_assign` allocates bytes as units and the difference must show. A
call names at most two vectors, and whatever goes wrong with a third one, which
it was not given, does so by sharing something with one of the two, which
`SoleOwner` forbids; so two vectors are enough. Two capacities above zero make
one allocation fit into another and not the other way round. In `iterators` one
iterator is enough: iterators do not know of each other, and the comparisons are
made with every other one the vector could give. Its allocators stay with their
vector, so every `swap` it reaches exchanges the tables; the swaps that copy them
need allocators that go along with `swap` alone and two more names for tables,
which is more than the run has room for, and are left to the theorem
`IteratorsLeadToElements`, which is about all traits. In `elements` the shapes cover
runs with and without padding inside, an object between, behind and in front of a
run, runs for assignment that are longer than those for comparison, a float that
is equal to one with other bytes, and `VaryingSize` parameters of two lengths with
objects and with bytes; propagation on swap matters to swap alone, so it is
varied together with that on copy.

Symmetry is used over vectors, elements, allocators, iterators and the names of
allocations and tables, and in `ownership` over the values, which have one size
there: no operator tells them apart and no liveness is checked in these runs.

`layout` takes all lists of up to three plain and fixed parameters, and of a
`VaryingSize` parameter with its size, alone, between others, or twice, as far
as the code computes their sizes rightly (`RightLists`; section 5 lists the
others). For the single header these are the lists in which no parameter is
aligned more strictly than the allocation, the first objects are no stricter than
the size in front of them, and the parameter behind the last `VaryingSize` one is
aligned to a whole storage unit. `MCElementLayout` also evaluates, as assumptions,
the sizes that the repository's tests expect of `memory_consumption()`
(`TestedConsumption`) and those a compiled program gets from the single header
(`CompiledConsumption`).

Fairness. Only `fixed_objects` needs it: weak fairness of `Continue`, the
iterations and ends of the loops of `erase` and `reserve`. A method that was
entered is sequential code and goes on; nothing makes a caller call. Exceptions
are not part of it: `MethodsReturn` must hold whether or not one occurs. The
other specifications have no steps inside a call and no liveness to claim.

Deadlock is checked in the two runs of `FixedVector`, which can always do
something. Elsewhere it is not: a full vector whose caller avoids the remaining
calls has nothing to do, an undefined state has no next one, and `ElementLayout`
never removes elements.

## 4. Proofs

The theorems hold for every value of the constants: any sets of values, vectors,
allocators and parameters, any sizes, alignments and bounds. In the models of vectors
with a `status`, and of elements, a call with undefined behaviour is the last one, so
"all" callers below are all up to such a call.

| theorem | what is proved | of which callers |
|---|---|---|
| `FixedVectorProofs!TypeCorrect` | `[]TypeOK` | all |
| `FixedVectorProofs!LifetimesMatchContents` | `[]ObjectsAreElements` | all |
| `FixedVectorProofs!GrowMatchesLoop` | `[]GrowIsConsistent` | all |
| `FixedVectorProofs!Refinement` | `ImplementsContainer` | all; moves may throw or not |
| `VaryingVectorProofs!TypeCorrect` | `[]TypeOK` | careful |
| `VaryingVectorProofs!TableLeadsToElements` | `[]ElementsIntact` | careful |
| `VaryingVectorProofs!NoElementOverlaps` | `[]ElementsInOrder` | careful |
| `VaryingVectorProofs!StartsAreAligned` | `[]ElementsAligned` | careful; see below |
| `VaryingVectorProofs!NoObjectForgotten` | `[]NoStrayObject` | careful |
| `VaryingVectorProofs!CallsAreDefined` | `[]NeverUndefined` | careful |
| `VaryingVectorProofs!EndFollowsLastElement` | `[]NothingWasted` | careful |
| `VaryingVectorProofs!Refinement` | `ImplementsContainer` | careful |
| `VectorOwnershipProofs!MemoryHasOneOwner` | `[]SoleOwner` | all |
| `VectorOwnershipProofs!ReleasedWhereAcquired` | `[]ReleasedByItsAllocator` | those that avoid `swap_allocators` |
| `VectorOwnershipProofs!ContentsAreElements` | `[]ObjectsAreElements` | careful |
| `VectorOwnershipProofs!CallsAreDefined` | `[]NeverUndefined` | careful |
| `VectorOwnershipProofs!VectorsHaveValues` | `ImplementsValues` | careful |
| `SingleHeaderProofs!MemoryHasOneOwner` | `[]SoleOwner` | all |
| `SingleHeaderProofs!ReleasedWhereAcquired` | `[]ReleasedByItsAllocator` | those that avoid `propagating_move` |
| `SingleHeaderProofs!EdgeFollowsMemory` | `[]EdgeInOwnMemory` | careful |
| `SingleHeaderProofs!ElementsAreObjects` | `[]ObjectsAreElements` | careful |
| `SingleHeaderProofs!CallsAreDefined` | `[]NeverUndefined` | careful |
| `SingleHeaderProofs!VectorsHaveValues` | `ImplementsValues` | careful |
| `VectorIteratorsProofs!IteratorsLeadToElements` | `[]IteratorsFollow` | careful, and avoid `grow_table`, `copy_tables` |
| `VectorIteratorsProofs!IteratorsCompare` | `[]IteratorsTellApart` | the same |
| `VectorIteratorsProofs!EqualVectorsHaveEqualElements` | `[]EqualComparesElements` | careful, and avoid `compare_sizes`, `compare_gaps` |
| `VectorIteratorsProofs!ComparisonsAreConsistent` | `[]ComparisonsAgree` | the same |
| `ContiguousElementProofs!MemoryHasOneOwner` | `[]SoleOwner` | all |
| `ContiguousElementProofs!ReleasedWhereAcquired` | `[]ReleasedByItsAllocator` | those that avoid `other_sizes` |
| `ContiguousElementProofs!CallsAreDefined` | `[]NeverUndefined` | those that avoid `other_sizes` and `use_moved_from` |
| `ContiguousElementProofs!ObjectsStayAtHome` | `[]ObjectsAtHome` | the same |
| `ContiguousElementProofs!ElementsHaveValues` | `ImplementsValues` | careful |
| `ContiguousElementProofs!EqualElementsHaveEqualValues` | `[]EqualComparesValues` | careful |
| `ContiguousElementProofs!LessElementsComeFirst` | `[]LessIsLexicographic` | careful |
| `ElementLayoutProofs!ObjectsStayAligned` | `[]ObjectsAligned` | all; modular header, lists without an offset |
| `ElementLayoutProofs!ObjectsStayApart` | `[]ObjectsDisjoint` | the same |
| `ElementLayoutProofs!CopiesReadBack` | `[]CopyReadsBack` | all; modular header, any list (the property is about those without an offset) |
| `ElementLayoutProofs!FixedElementsFit` | `[]ElementsFit` | all; modular header, lists without an offset and without `VaryingSize` |

A careful caller (`Careful`) makes none of the calls in the module's `Calls`, that
is `Avoided = Calls`, as in the passing runs, or, in `SingleHeaderProofs` and
`VectorIteratorsProofs`, none of the nine that are about the vector itself; in
`ContiguousElementProofs`, at least those in `Calls`. Section 5 says what each of
these calls breaks, and four runs show it. The assumptions are those named in the
modules: `Null`, `Raw`, `Moved`, `Indeterminate` and `Unspecified` are no names,
values, pairs of these with a number (pointers and units) or sequences of values,
sizes are numbers, an element takes at least one unit, an alignment is at
least 1, and (`FreshAssumption`) the vectors, or elements, together do not use up
the names of allocations and tables, so that an allocation, which does not fail
here, gets one of its own (`BufferAssumption` says the same of the single
header's tables, and the two theorems about iterators ask for two names more,
`EnoughBuffers`). Of two elements not both are less than the other, and if they are
compared as bytes one is less unless they are equal (`OrdersAssumption`); otherwise
two different elements may be in no order. Elements of a vector, elements with memory and
allocations have different names (`ElementNames`); the elements of one vector have
the same parameters, and as many objects of each that is not a `VaryingSize`, so
that without those they have the same shape (`VectorsAssumption`); what they are
filled with are numbers (`FillingsAssumption`), and what stands in front of a
`VaryingSize` parameter is compared as one (`SizesAreNumbers`: these values "are
stored along with a `std::size_t`", `parameter.hpp:13`). A parameter list (`IsParameterList`) is not empty, its
objects take at least one byte, a `VaryingSize` parameter follows a plain one, and
alignments are powers of two, without which `alignas(N)` in `Aligned`
(`detail/memory.hpp:33`) does not compile. TLC evaluates them in every run.

### The vector of fixed elements

`ObjectsAreElements` is not inductive. It speaks of the slots outside the gap
`to .. from - 1` of an unfinished `erase`, so one has to know that the gap keeps
its width (`removed`) and begins before it ends; and of the memory that `grow`
will put in place, so one has to know what `new_memory` holds so far
(`GrowIsConsistent`). The strengthening adds these, the idle values of the loop
indices, and that loops run only over non-trivial parameters; every action has
a lemma that preserves it, and the module's header lists the parts. The
refinement proof uses it: an iteration of a loop leaves `Items` and the
capacity unchanged, the first step of `erase` is the abstract erase, `GrowEnd`
the abstract `reserve`, and `GrowThrow` the abstract failure.

### The vector of varying elements

The invariant `IInv` says that there are values `val`, one per element, such that
each element is whole where its table entry says, they lie one after the other
(`Laid`), and, for objects with destructors, no object is alive outside of them.
To keep this it needs three more facts:

* `EraseInv`: the gap that the loop of `erase` fills keeps its width in entries,
  the place it fills next is behind the elements kept, and no element behind the
  gap is wider than the gap is in units. The last one is what `erase_narrow` is
  about; without it a move would run into the element it moves from.
* `PackedInv`: the entry of an element is at most the aligned end of the one in
  front. `resize` takes the entry behind the last element that is left as
  `last_element_`; that this is where the vector ends, and not somewhere behind,
  is `EndFollowsLastElement`.
* `Aligned`: entries are multiples of the alignment. `erase` shifts the elements
  behind the gap by the difference of two of them, so they stay multiples. The
  loop of `erase` of objects takes the end of one element for the start of the
  next, without padding (section 5), so `StartsAreAligned` supposes that kinds of
  objects with destructors have alignment 1. The run checks kinds of that sort.

In the refinement `StartErase` is the abstract `erase`: what a caller reads
(`Items`) already skips the gap. `EraseMove` and `EraseEnd` are stutters, which
takes `ItemsRead`, that `Items` are the values `val` of the elements that are left.
`pop_back`, `clear` and the erasure of the last elements are the abstract erase of a
range at the end.

### Ownership

`SoleOwner` is proved by `OwnInv`, which says it element by element: vectors with
memory and allocations match one to one, as do tables, and a locator without
`VaryingSize` parameters, which is copied with its table pointer, has none. It needs
no hypothesis on the caller. `ReleasedByItsAllocator` needs one call avoided, the
one of the run `swap_allocators`. In the single header, `OwnInv` also says that an
allocation has the size its owner counts, since there memory changes hands
together with its size. There the one call that releases memory with another
allocator is a move assignment that propagates one (`cntgs.hpp:4030`); the model
records it (`status = "misreleased"`), `ReleasedByItsAllocator` forbids it, and
`ReleasedWhereAcquired` shows that no other call does it (`NextReleases`).

`ObjectsAreElements` and `NeverUndefined` of `VectorOwnership` are proved together
(`Inv`), since each step that is defined keeps the objects in place and objects in
place make each step defined. Both rest on `OwnInv`: a call that writes to the
memory of one vector must not write to that of another. `VectorsHaveValues`
then is a statement about frames: what a vector holds is read from its own memory, and
only calls it was given to change that.

### Contents of the single header's vectors

`Inv` joins `OwnInv`, `contents = Found`, no undefined state, and that every vector is
`Sound`. TLC checked it as an invariant of the run `single_header` before it was
proved. What `Sound` adds to the properties:

* `Numbers`: offsets in the table are numbers, a vector without a table counts no
  more elements than it has room for, and only a default-constructed one has the
  stride 0.
* `start_` or `last_element_` is an offset in the vector's own block, and the bytes
  in use are fewer than the units. `reserve` compares nothing with the bytes in use,
  so the caller has to ask for enough of them (`reserve_too_few_bytes`). The run's
  bounds never let a caller ask for fewer; the theorem has no such bounds.
* `Laid`: an element is `Whole`, a value with all of its parts in order, where its
  offset says; they lie one behind the other, maybe with gaps, the first one at the
  begin of the memory, the last one in front of its end.
* `NoStray`: if they are objects, nothing else is alive in the memory.

A call then has one of a few effects, read off the contents: `Gives` a vector a
sequence of values, `Loses` some of them, `Hands` them to another vector, `GivesAway`
its memory. Each is a step of `VectorValues`, and `CallSound` says that every call
of a careful caller is defined and has one. That the other vectors keep their values
is again that memory has one owner.

### Iterators and comparisons of the single header

An iterator keeps working because what it copied stays true, so `IteratorsInv` has to
say what that is. TLC checked its parts as invariants of the run `iterators` first.

* `AllLead`: the program obtained the iterator for an element, and its memory, index
  and locator are those of the vector that has this element now, at the same index.
  `IteratorsFollow` only says what is read through it, and a step that moved the
  memory and left the elements would keep that and break the next step.
* `BuffersOwned`: no two vectors have the same table, and a table has room for the
  entries of its vector (`Room`). Without the first part `*` could read the entries
  of another vector; without the second a vector with elements could have no table
  at all.

A step of `VectorIterators` is one of `SingleHeaderVector` (`StepOfVectors`), so the
contents behind it are known from there. What is left to show per call is where the
table and the iterators go: an iterator that is kept finds its vector `Unmoved`, or
`Follows` its element to the vector that has it (`StillLeads`). For `erase` this is
where elements in front of the erased ones keep their place (`SparedFollow`), and
the returned iterator leads to what has moved up. `swap` and move assignment
give up or exchange tables (`HandedOverIs`, `SwappedIs`), or copy their entries into
tables that are no one else's; over the latter the caller holds no iterators, which
is why `IteratorsLeadToElements` and `IteratorsCompare` ask for `copy_tables`.

`==` and `<` are decided in different ways, and both theorems go back to the
contents. Bytes without gaps are the elements one behind the other (`HasBytes`), and
if two vectors have the same bytes, then by the least index at which they could
differ they have the same elements (`SameBytesPrefix`), which is not obvious where
the elements have different sizes. That `<` is the order of the contents (`LessIs`)
needs no packed vectors, since it looks at elements or at units of one size, and
holds of any relation of elements; that not both of two vectors are less needs that
not both of two elements are (`LessIsAsymmetric`). `<` of vectors need not be
transitive: elements that are in no order count as equal to
`std::lexicographical_compare`.

### Layout

What the code computes over a list of parameters is a recursive function in the
model. A theorem about all lists is an induction over their length, for which no
backend has a schema, so `ElementTraitsProofs` makes one of its own: the inclusion
of finite sets is well-founded (a theorem of the library), hence a set of natural
numbers has a least element (`LeastElement`), hence `Induction` on sets of numbers.
With it, `PlacementIsFunction` and `BracketIsFunction` say that the functions the
model chooses satisfy their recursion equations.

`Known` is what a bracket, the compile-time knowledge behind a parameter, says of
the address `e` where that parameter ends: `e - offset` is a multiple of
`alignment`, and `e` of `trailing`, unless that is 0. `PlainIsKnown` and
`SpanIsKnown` show that this stays true whatever the number of objects, and
`FirstIsAligned` that a parameter is aligned where `align_if` decided not to look.
That takes powers of two: of two of them the greater is a multiple of the other
(`PowersDivide`). Without an offset every element is placed from a multiple of the
storage's alignment (`PlacedAt`), which is what `LayoutInv` adds to the
properties: with strides since the stride is such a multiple (`SizeOfFixed`),
behind a `VaryingSize` parameter since `emplace_back` aligns unless the last
bracket says that it need not. The elements keep their places in `reserve`
(`ElementsStay`), and `n` elements with strides, the last without its padding, are
what was allocated (`MemoryForElements`).

### Elements

`OwnInv` of `ContiguousElementProofs` says element by element that one with memory
owns an allocation that no other element owns, with its reference leading there,
and that every allocation outside of a vector has such an owner.
`ReleasedByItsAllocator` needs that the allocation also keeps its size, and that is
a matter of layout: what construction, assignment and swap write lies between the
first and the last byte of the element (`BytesInside`, from `PlacesInOrder`), and
that is inside if source and target have the same sizes; a caller who makes them
differ (`other_sizes`) writes past the target.

The other properties need to know what the bytes hold. `ObjInv` adds that every
element with a value is `Intact`: its objects, and no other bytes of its
allocation, were constructed where they are. `ObjectsAtHome` alone is not
inductive: it says nothing of the homes that other bytes have, and bytes that are
copied into another allocation must not turn into objects there.
`AssignedIntact`, `SwappedIntact` and `StoredIntact` are about the three ways in
which elements are written. Each goes over runs of bytes and over objects; what
joins the two is that runs spare the objects (`RunsSpareObjects`) and that both
together leave out nothing but padding (`ValuesAreCovered`). An intact element
passes every check that a call makes, which is `CallsAreDefined`. `StepIntact`
then reduces each step to the one or two elements it was given, the others being
`Untouched` because memory has one owner. The steps of `ElementValues` come out of
the same lemmas, as long as a number of storage units is a number of bytes
(`units_as_bytes`), since `copy_assign` and `move_assign` copy as many bytes as the
memory has units.

The comparisons look at elements of different sizes, and where `==` goes object by
object it does not ask where the second one ends (`IsPrefix`). It need not, because
the size is a value in front of the `VaryingSize` parameter: `AllValid` says that this value is the size the element
was laid out with, and that other values are numbers. It is an invariant of
`ElementValues`, so `NextValid` does not look at the steps of `ContiguousElement`
any more; TLC checked it first. Two elements then have their parameters at the same
places, or there is a first parameter at which they do not, and they differ in the
size in front of it, which lies at the same place in both (`SizesTell`). In the
first case the bytes of a group are those of its parameters (`GroupBytes`, which is
where padding is excluded) and are compared as each parameter would be
(`GroupSees`). In the second, the size is in a group that is compared, so the
elements are unequal (`UnequalIfDiffer`). `<` needs the first group to be less
(`LessDecides`); in it nothing differs in size (`GroupsStartAlike`), so that the
first byte that differs is in the first parameter that differs (`LessInGroup`), and
no two elements can each be less than the other there (`LessOneWay`). The code asks
the later groups as well, which makes `<` true of fewer elements and does not
matter to the theorem.

### Left to TLC

* `MethodsReturn`, liveness under fairness.
* Of `ElementLayout`: `ElementsFit` of lists with a `VaryingSize` parameter, whose
  computed size is an upper bound and not the place where an element ends (and for
  some lists no upper bound, `layout_varying_short`); lists with an offset, where
  the code is right only for some (section 5); and the single header, whose
  computations are others (`SingleHeaderTraits`).
* Nothing of `ContiguousElement`, for those callers. The comparisons are claimed
  only of shapes in which a group has no padding (`WithoutPadding`), by the run
  and by the theorems.
* The theorems above for callers who avoid fewer calls, where only a run with
  small bounds could tell which calls go together.

## 5. Where code and documentation disagree

Each of these was met when writing a model; the runs named expect the violation.

* `varying_erase_narrow` - erasing a small element in front of a large one leaves
  the old start of the large one in the table, where `resize` takes
  `last_element_` from (`detail/elementLocator.hpp:93`); the next `emplace_back`
  overwrites a live element.
* `varying_reserve_unfilled` - `grow` resizes the new table to the old capacity
  instead of the old size (`detail/elementLocator.hpp:58`); a vector that was not
  full then counts elements that were never stored.
* `layout_varying_short` - a less aligned parameter behind the last `VaryingSize`
  one makes the computed stride too small (`detail/parameterTraits.hpp:128`).
* `swap_allocators` - `swap` of the vectors finds `std::swap` for `memory_`, so
  allocators follow the move-assignment trait instead of the swap trait
  (`vector.hpp:305`).

Without a run of their own, in the modular header:

* `reserve` on an empty vector with a non-trivial `VaryingSize` parameter, as in
  `test/test-vector.cpp:94`: `insert_into` copies `data_end() - memory_begin()`
  bytes, and `data_end()` is null (`vector.hpp:421`).
* `clear()` or `erase(it, it)` on a varying vector that never had as many
  elements reads an entry of the table nobody wrote; `erase` of the last trivial
  element reads the entry behind the table (`vector.hpp:201`).
* `erase` of non-trivial varying elements constructs them at unaligned addresses
  (`detail/elementLocator.hpp:163`), or over their own source.
* `reserve` compares nothing with the bytes in use (`vector.hpp:187`).
* `reserve` on a default-constructed vector of plain and `FixedSize` parameters:
  `stride_` is 0 (`detail/elementLocator.hpp:194`), so `calculate_new_memory_size`
  gives 0 bytes (`detail/elementLocator.hpp:279`) while `max_element_count_` is what
  was asked for; every element is then constructed at the begin of memory that has
  no bytes.
* `cntgs::ContiguousElement` (`element.hpp:26`) has `std::byte` as its storage
  element, while `allocate_memory` passes a number of storage units
  (`detail/elementTraits.hpp:307`): where a unit has more than one byte it allocates
  too little. `ContiguousElement` models the `value_type` of a vector, whose
  allocator is rebound to units (`vector.hpp:55`).
* Element lists with an offset, those with a stricter parameter behind the first:
  sizes of the wrong `FixedSize` parameter (`detail/elementTraits.hpp:244`) give an
  allocation that is too small, `<FixedSize<uint8_t>, FixedSize<AlignAs<uint64_t, 8>>>`
  with `{20, 1}`; parameters between two alignments are misplaced; a copied
  element and a copied vector lose the offset (`element.hpp:235`,
  `detail/storage.hpp:31`). `reserve` on such a vector of trivial objects copies
  `stride * count` bytes from the first element on, which ends behind the old
  allocation (`detail/elementLocator.hpp:289`). `Storage` finds its old offset by
  subtracting pointers to storage elements, so that it comes out as 0
  (`detail/storage.hpp:66`); only therefore is the new offset right.
* A fixed vector that was moved from keeps its count, so that `clear` or an
  assignment to it destroys objects through a null pointer (`vector.hpp:490`).
* `move_assign` under unequal allocators allocates bytes as units
  (`vector.hpp:511`); `VectorOwnership` models it as it is.
* `copy_assign` destroys its elements before it allocates, unlike `move_assign`,
  which allocates "first because it might throw" (`vector.hpp:510`).
* When a move constructor throws in `grow`, what was built in the new memory is
  not destroyed (`vector.hpp:430`); the table of offsets is never deallocated
  (`detail/unmanagedVector.hpp:64`).
* A copy of a varying vector that is not full takes the entries of its table that
  nobody wrote for elements, and fails an assertion (`detail/parameterTraits.hpp:78`).
* `copy_assign` of elements, and move construction with an unequal allocator, pass
  the size of memory in storage units as the number of bytes to copy
  (`element.hpp:283`, `element.hpp:316`); `test/test-element.cpp:170` is named
  "VaryingSize can be copy assigned", but where a unit has eight bytes, as with
  `<AlignAs<size_t, 8>, VaryingSize<unsigned char>>`, only an eighth of the element
  is. `move_assign` compares bytes with units (`element.hpp:353`) and at worst
  allocates without need.
* An element that was moved from keeps its reference (`element.hpp:326`); assigning
  to it where this goes through the reference (`element.hpp:309`, `element.hpp:347`)
  writes into memory it gave away. Copying it copies a size and reads there.
* Assigning through references an element with more `VaryingSize` objects writes
  past the target, and leaves the size it was placed with
  (`detail/elementTraits.hpp:392`).
* `==` of elements compares padding between two parameters that `memcmp` may
  compare, as in `<AlignAs<unsigned, 4>, unsigned char, AlignAs<unsigned, 4>>`
  (`detail/elementTraits.hpp:438`); nothing writes that padding.
  `EqualComparesValues` is therefore stated of shapes without it.
* `<` of elements holds if every parameter is less (`detail/elementTraits.hpp:480`,
  `cntgs.hpp:2186`): of `{1, 2}` and `{1, 3}` neither is, so both `<=` and `>=` hold
  though they are not equal, and of vectors of them too
  (`test/test-vector-comparison.cpp:70-80` compares such elements).
  `LessIsLexicographic` is the direction that does hold of elements, and
  `ComparisonsAgree` says of vectors what holds for any such `<`.
* Equality of spans ignores the length of the second
  (`detail/parameterTraits.hpp:254`); the size parameter in front of it, compared
  before, makes up for that.
* Assigning a `const` element to a reference names a member that does not exist
  (`reference.hpp:89`) and does not compile.
* `==` of vectors that are compared element by element does not look at the size of
  the second: one of floats is equal to any that it is a prefix of
  (`vector.hpp:570`). Vectors compared as bytes are compared with the gap that an
  `erase` left between two elements.
* The constructor of an all-plain vector from a count and an allocator, and the
  copy constructor of a vector of trivial fixed parameters, do not compile
  (`vector.hpp:125`, `vector.hpp:417`).
* The repository's `README.md:102` declares a `VaryingSize` parameter first; the
  code reads its size from the parameter in front (`detail/sizeGetter.hpp:63`); the
  single header is as declared there.

And in the single header:

* `reserve` and element-wise move assignment allocate as many units as they need
  bytes (`cntgs.hpp:3941`, `cntgs.hpp:4053`).
* `reserve` of varying elements with non-trivial objects looks for the elements with
  a locator whose table was just taken (`cntgs.hpp:3960`).
* Element-wise move assignment compares `memory_consumption()` of the two vectors,
  which counts the table of this one and no longer that of the other, to decide
  whether the elements fit (`cntgs.hpp:4050`).
* Move assignment that propagates an unequal allocator releases the old memory with
  the new allocator (`cntgs.hpp:4030`).
* `emplace_back` may make the table grow before the vector is full, after a move of
  trivial elements; iterators keep the old table (`cntgs.hpp:3068`).
* `swap` and move assignment of varying vectors under allocators that do not
  propagate on move copy the entries of tables with unequal allocators instead of
  exchanging the tables (`std::swap` at `cntgs.hpp:3856`; `cntgs.hpp:4031`);
  iterators keep the tables as they were. Tables can have other allocators than
  memory since `swap` of the memory follows the trait for swap.
* Of the modular header's facts above, those about an erased last element, narrow and
  empty erasures, moved-from vectors, parameters behind the last `VaryingSize` one
  `reserve` on a default-constructed vector (`cntgs.hpp:3939`) and `==` of vectors
  hold here too.

## 6. Not modelled, and the plan

Not modelled: `emplace`, which is unfinished in `vector.hpp` and whose tests are
skipped; compile-time type traits, whose results are constants of the models;
elements, references and exceptions of the single header; whether an operation
compiles: `ParameterTraits<VaryingSize>` has no `copy`, `move` or `swap` of its own
(`detail/parameterTraits.hpp:311-370`; those of `FixedSize` are at 457-473), which
assignment and swap through references need for a `VaryingSize` parameter whose
objects are no bytes, and which the model carries out as it does for `FixedSize`; conversions between
iterators, references and elements of different constness or allocator type;
tests, examples, benchmarks. Values of objects are abstract, except that an object
is alive, moved from or gone. `FixedVector` treats an element as a slot and leaves
the bytes inside it to `ElementLayout`; `VectorOwnership` treats a call as one step
and leaves its steps to `FixedVector` and `VaryingVector`. `ContiguousElement` has
no exceptions, and its vector only stands for memory of somebody else. The tables
that are lost (section 5) are not part of the state of `VectorOwnership`.

Next:

1. Ownership: copies and allocations that throw, in the modular vector and in the
   element; the old vector must still be destructible.
2. Iterators over the modular vector, whose table `reserve` replaces, and its
   comparisons, which go through the same code.
3. Elements of the single header, on top of `ElementReferences`.
4. Proofs: `ElementsFit` for `VaryingSize` parameters; layout in the single header.
