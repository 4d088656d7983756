------------------------- MODULE SingleHeaderProofs -------------------------
(***************************************************************************)
(* Every allocation of SingleHeaderVector has one owner, which returns it  *)
(* with the allocator and the size it was made with: for any vectors,      *)
(* values, allocators and sizes, any traits, and a caller that avoids no   *)
(* call at all.  A caller that keeps away from those of Careful finds in   *)
(* the vectors what was put there: locators follow memory, objects are     *)
(* where the elements are, no call is undefined, and SingleHeaderVector    *)
(* implements VectorValues.                                                *)
(*                                                                         *)
(* Ownership comes first, in all of its states.                            *)
(* The two properties are not inductive one by one: memory that is         *)
(* released has to be nobody else's, and one that is handed over has to    *)
(* fit its new owner.  OwnInv joins them and says what kind of functions   *)
(* vectors and heap are.  What elements, tables and edges hold is left     *)
(* open: nothing here depends on it.  An action then is one of four        *)
(* things: every vector keeps its memory (SameMemoryOwn), one gets new     *)
(* memory (NewMemoryOwn), one takes another's (TransferOwn), or two are    *)
(* exchanged (SwapOwn).                                                    *)
(***************************************************************************)
EXTENDS SingleHeaderVector, SequenceTheorems, TLAPS

Fields == {"max_element_count", "block", "units", "allocator", "element_count",
           "stride", "table", "edge"}

IsMembers(m) == m = [f \in Fields |-> m[f]]

IsAllocation(a) == a = [allocator |-> a.allocator, cells |-> a.cells]

(* A heap is a function of some blocks.                                     *)
IsHeap(h) ==
  /\ h = [b \in DOMAIN h |-> h[b]]
  /\ DOMAIN h \subseteq Block
  /\ \A b \in DOMAIN h : IsAllocation(h[b])

AreVectors(s) ==
  /\ s = [v \in DOMAIN s |-> s[v]]
  /\ DOMAIN s \subseteq Vector
  /\ \A v \in DOMAIN s : IsMembers(s[v])

(* SoleOwner in a form that a step can be checked against: the vectors with *)
(* memory and the allocations match one to one.                             *)
OneOwner ==
  /\ \A v \in DOMAIN vectors : vectors[v].block \in DOMAIN heap \cup {Null}
  /\ \A b \in DOMAIN heap : \E v \in DOMAIN vectors : vectors[v].block = b
  /\ \A v, w \in DOMAIN vectors :
       v # w /\ vectors[v].block = vectors[w].block => vectors[v].block = Null

(* m's memory is an allocation of h that m may deallocate.                  *)
Fits(m, h) ==
  m.block # Null => /\ m.block \in DOMAIN h
                    /\ h[m.block].allocator = m.allocator
                    /\ DOMAIN h[m.block].cells = UnitsOf(m.units)

AllFit == \A v \in DOMAIN vectors : Fits(vectors[v], heap)

(* The inductive invariant of ownership.                                    *)
OwnInv == IsHeap(heap) /\ AreVectors(vectors) /\ OneOwner /\ AllFit

-----------------------------------------------------------------------------
(* There is an address that is not in use: every allocation has a vector,   *)
(* and the vectors do not have all of them.                                 *)
LEMMA FreshIsFree ==
  ASSUME OwnInv
  PROVE  Fresh \in Block /\ Fresh \notin DOMAIN heap /\ Fresh # Null
  <1> DEFINE f == [v \in Vector |-> IF v \in DOMAIN vectors THEN vectors[v].block ELSE Null]
  <1>1. f \in [Vector -> Block \cup {Null}]
    BY DEF OwnInv, OneOwner, IsHeap
  <1>2. PICK b \in Block : b \notin {f[v] : v \in Vector}
    BY <1>1, FreshAssumption
  <1>3. b \notin DOMAIN heap
    <2>1. SUFFICES ASSUME b \in DOMAIN heap PROVE FALSE
      OBVIOUS
    <2>2. PICK v \in DOMAIN vectors : vectors[v].block = b
      BY <2>1 DEF OwnInv, OneOwner
    <2>3. v \in Vector /\ f[v] = b
      BY <2>2 DEF OwnInv, AreVectors
    <2> QED
      BY <1>2, <2>3
  <1> QED
    BY <1>3, NamesAssumption DEF Fresh

-----------------------------------------------------------------------------
(* The allocations S of g are those of h: their owner and length.           *)
SameAllocations(h, g, S) ==
  \A b \in S : g[b].allocator = h[b].allocator /\ DOMAIN g[b].cells = DOMAIN h[b].cells

(* g is h with other contents.                                              *)
Kept(h, g) == IsHeap(g) /\ DOMAIN g = DOMAIN h /\ SameAllocations(h, g, DOMAIN h)

(* Writing cells where there are as many keeps the allocations, and so does *)
(* writing where there are none.                                            *)
LEMMA WrittenHeap ==
  ASSUME NEW h, IsHeap(h), NEW b, NEW f, b \in DOMAIN h => DOMAIN f = DOMAIN h[b].cells
  PROVE  Kept(h, [h EXCEPT ![b].cells = f])
  <1> DEFINE g == [h EXCEPT ![b].cells = f]
  <1>1. h = [c \in DOMAIN h |-> h[c]] /\ DOMAIN h \subseteq Block
    BY DEF IsHeap
  <1>2. \A c \in DOMAIN h : c # b => g[c] = h[c]
    BY <1>1
  <1>3. ASSUME b \in DOMAIN h
        PROVE  g[b] = [allocator |-> h[b].allocator, cells |-> f]
    BY <1>1, <1>3 DEF IsHeap, IsAllocation
  <1>4. DOMAIN g = DOMAIN h /\ g = [c \in DOMAIN g |-> g[c]]
    BY <1>1
  <1> HIDE DEF g
  <1>5. ASSUME NEW c \in DOMAIN h
        PROVE  IsAllocation(g[c]) /\ g[c].allocator = h[c].allocator
               /\ DOMAIN g[c].cells = DOMAIN h[c].cells
    BY <1>2, <1>3 DEF IsHeap, IsAllocation
  <1>6. Kept(h, g)
    BY <1>1, <1>4, <1>5 DEF Kept, SameAllocations, IsHeap
  <1> QED
    BY <1>6 DEF g

LEMMA KeptIsTransitive ==
  ASSUME NEW h, NEW g, NEW k, Kept(h, g), Kept(g, k)
  PROVE  Kept(h, k)
  BY DEF Kept, SameAllocations

LEMMA HeapIsKept ==
  ASSUME NEW h, IsHeap(h)
  PROVE  Kept(h, h)
  BY DEF Kept, SameAllocations

(* g is h with an allocation more, or another one, at b.                    *)
AllocatedIn(h, b, a, c, g) ==
  /\ IsHeap(g)
  /\ DOMAIN g = DOMAIN h \cup {b}
  /\ g[b].allocator = a
  /\ g[b].cells = c
  /\ SameAllocations(h, g, DOMAIN h \ {b})

(* allocate and deallocate take heaps to heaps and leave the rest alone.    *)
LEMMA AllocateHeap ==
  ASSUME NEW h, IsHeap(h), NEW b \in Block, NEW a, NEW c
  PROVE  AllocatedIn(h, b, a, c, Allocate(h, b, a, c))
  BY DEF Allocate, IsHeap, IsAllocation, SameAllocations, AllocatedIn

LEMMA DeallocateHeap ==
  ASSUME NEW h, IsHeap(h), NEW b
  PROVE  /\ IsHeap(Deallocate(h, b))
         /\ DOMAIN Deallocate(h, b) = DOMAIN h \ {b}
         /\ SameAllocations(h, Deallocate(h, b), DOMAIN h \ {b})
  BY DEF Deallocate, IsHeap, SameAllocations

LEMMA DestroyedHeap ==
  ASSUME NEW h, IsHeap(h), NEW m, NEW S
  PROVE  Kept(h, Destroyed(h, m, S))
  <1> DEFINE f == [c \in DOMAIN h[Base(m)].cells |->
                     IF \E i \in S : c \in Extent(m, i) THEN Raw ELSE h[Base(m)].cells[c]]
  <1>1. Destroyed(h, m, S) = h \/ Destroyed(h, m, S) = [h EXCEPT ![Base(m)].cells = f]
    BY DEF Destroyed
  <1>2. DOMAIN f = DOMAIN h[Base(m)].cells
    OBVIOUS
  <1> HIDE DEF f
  <1>3. Kept(h, [h EXCEPT ![Base(m)].cells = f])
    BY <1>2, WrittenHeap, Zenon
  <1> QED
    BY <1>1, <1>3, HeapIsKept

LEMMA MovedForwardHeap ==
  ASSUME NEW h, IsHeap(h), NEW m, NEW from, NEW to
  PROVE  Kept(h, MovedForward(h, m, from, to))
  <1> DEFINE d == h[Base(m)].cells
             source == Offset(m, from)
             target == Offset(m, to)
             end == IF Varying THEN m.edge[2] ELSE Offset(m, Size(m))
             gap == source - target
             f == [c \in DOMAIN d |-> IF c >= target /\ c + gap < end THEN d[c + gap]
                                      ELSE IF c >= target /\ c < end THEN Raw ELSE d[c]]
  <1>1. MovedForward(h, m, from, to) = [h EXCEPT ![Base(m)].cells = f]
    BY DEF MovedForward
  <1>2. DOMAIN f = DOMAIN h[Base(m)].cells
    OBVIOUS
  <1> HIDE DEF f
  <1>3. Kept(h, [h EXCEPT ![Base(m)].cells = f])
    BY <1>2, WrittenHeap, Zenon
  <1> QED
    BY <1>1, <1>3

-----------------------------------------------------------------------------
(* The memory of v, none before v is constructed.                           *)
BlockOf(v) == IF v \in DOMAIN vectors THEN vectors[v].block ELSE Null

SameMemory(m, n) ==
  m.block = n.block /\ m.units = n.units /\ m.allocator = n.allocator

(* The vectors s and t have the same memory.                                *)
SameMemories(s, t) ==
  DOMAIN s = DOMAIN t /\ \A x \in DOMAIN t : SameMemory(s[x], t[x])

(* Every vector keeps its memory, whatever it says of its elements.         *)
LEMMA SameMemoryOwn ==
  ASSUME OwnInv, Kept(heap, heap'), AreVectors(vectors'), SameMemories(vectors', vectors)
  PROVE  OwnInv'
  <1>1. IsHeap(heap)' /\ AreVectors(vectors)'
    BY DEF Kept
  <1>2. OneOwner'
    BY DEF OwnInv, OneOwner, Kept, SameMemory, SameMemories
  <1>3. AllFit'
    BY DEF OwnInv, AllFit, Fits, Kept, SameAllocations, SameMemory, SameMemories
  <1> QED
    BY <1>1, <1>2, <1>3 DEF OwnInv

(* v has another allocation than before.                                    *)
LEMMA NewMemoryOwn ==
  ASSUME OwnInv, NEW v \in Vector, AreVectors(vectors'),
         DOMAIN vectors' = DOMAIN vectors \cup {v},
         \A x \in DOMAIN vectors \ {v} : SameMemory(vectors'[x], vectors[x]),
         vectors'[v].block = Fresh, Fits(vectors'[v], heap'),
         IsHeap(heap'), DOMAIN heap' = (DOMAIN heap \ {BlockOf(v)}) \cup {Fresh},
         SameAllocations(heap, heap', DOMAIN heap \ {BlockOf(v)})
  PROVE  OwnInv'
  <1> USE DEF BlockOf
  <1>1. Fresh \in Block /\ Fresh \notin DOMAIN heap /\ Fresh # Null
    BY FreshIsFree
  <1>2. OneOwner'
    <2>1. ASSUME NEW x \in DOMAIN vectors' PROVE vectors'[x].block \in DOMAIN heap' \cup {Null}
      BY <1>1 DEF OwnInv, OneOwner, SameMemory
    <2>2. ASSUME NEW b \in DOMAIN heap' PROVE \E x \in DOMAIN vectors' : vectors'[x].block = b
      BY <1>1 DEF OwnInv, OneOwner, SameMemory
    <2>3. ASSUME NEW x \in DOMAIN vectors', NEW y \in DOMAIN vectors', x # y,
                 vectors'[x].block = vectors'[y].block
          PROVE  vectors'[x].block = Null
      BY <1>1, <2>3 DEF OwnInv, OneOwner, SameMemory
    <2> QED
      BY <2>1, <2>2, <2>3 DEF OneOwner
  <1>3. AllFit'
    BY <1>1 DEF OwnInv, AllFit, Fits, SameAllocations, SameMemory, OneOwner
  <1> QED
    BY <1>2, <1>3 DEF OwnInv

(* v returns its memory, if it has any, and takes w's; w has none any more. *)
LEMMA TransferOwn ==
  ASSUME OwnInv, NEW v \in Vector, NEW w \in DOMAIN vectors, v # w, AreVectors(vectors'),
         DOMAIN vectors' = DOMAIN vectors \cup {v},
         \A x \in DOMAIN vectors \ {v, w} : vectors'[x] = vectors[x],
         SameMemory(vectors'[v], vectors[w]), vectors'[w].block = Null,
         IsHeap(heap'), DOMAIN heap' = DOMAIN heap \ {BlockOf(v)},
         SameAllocations(heap, heap', DOMAIN heap \ {BlockOf(v)})
  PROVE  OwnInv'
  <1> USE DEF BlockOf
  <1>0. Null \notin DOMAIN heap
    BY NamesAssumption DEF OwnInv, IsHeap
  <1>1. OneOwner'
    <2>1. ASSUME NEW x \in DOMAIN vectors' PROVE vectors'[x].block \in DOMAIN heap' \cup {Null}
      BY <1>0 DEF OwnInv, OneOwner, SameMemory
    <2>2. ASSUME NEW b \in DOMAIN heap' PROVE \E x \in DOMAIN vectors' : vectors'[x].block = b
      <3>1. PICK x \in DOMAIN vectors : vectors[x].block = b /\ x # v
        BY <1>0 DEF OwnInv, OneOwner
      <3> QED
        BY <3>1 DEF SameMemory
    <2>3. ASSUME NEW x \in DOMAIN vectors', NEW y \in DOMAIN vectors', x # y,
                 vectors'[x].block = vectors'[y].block
          PROVE  vectors'[x].block = Null
      BY <1>0, <2>3 DEF OwnInv, OneOwner, SameMemory
    <2> QED
      BY <2>1, <2>2, <2>3 DEF OneOwner
  <1>2. AllFit'
    BY <1>0 DEF OwnInv, AllFit, Fits, SameAllocations, SameMemory, OneOwner
  <1> QED
    BY <1>1, <1>2 DEF OwnInv

(* The members of one vector are set.                                       *)
LEMMA SetMembers ==
  ASSUME AreVectors(vectors), NEW v \in Vector, NEW m, IsMembers(m), vectors' = Set(v, m)
  PROVE  /\ AreVectors(vectors')
         /\ DOMAIN vectors' = DOMAIN vectors \cup {v}
         /\ vectors'[v] = m
         /\ \A x \in DOMAIN vectors \ {v} : vectors'[x] = vectors[x]
  BY DEF Set, AreVectors

(* The members that change when elements come and go.                       *)
LEMMA SetSameMemoryOwn ==
  ASSUME OwnInv, NEW v \in DOMAIN vectors, NEW m, IsMembers(m), SameMemory(m, vectors[v]),
         vectors' = Set(v, m), Kept(heap, heap')
  PROVE  OwnInv'
  <1>1. v \in Vector /\ AreVectors(vectors)
    BY DEF OwnInv, AreVectors
  <1>2. /\ AreVectors(vectors')
        /\ DOMAIN vectors' = DOMAIN vectors \cup {v}
        /\ vectors'[v] = m
        /\ \A x \in DOMAIN vectors \ {v} : vectors'[x] = vectors[x]
    BY <1>1, SetMembers, Zenon
  <1>3. SameMemories(vectors', vectors)
    BY <1>2 DEF SameMemory, SameMemories
  <1> QED
    BY <1>2, <1>3, SameMemoryOwn

(* The old memory goes back, and v gets n units of new memory.              *)
LEMMA SetNewMemoryOwn ==
  ASSUME OwnInv, NEW v \in Vector, NEW m, IsMembers(m), NEW n, NEW c, NEW h,
         m.block = Fresh, m.units = n, DOMAIN c = UnitsOf(n),
         vectors' = Set(v, m),
         IsHeap(h), DOMAIN h = DOMAIN heap \ {BlockOf(v)},
         SameAllocations(heap, h, DOMAIN heap \ {BlockOf(v)}),
         heap' = Allocate(h, Fresh, m.allocator, c)
  PROVE  OwnInv'
  <1>1. Fresh \in Block /\ Fresh \notin DOMAIN heap
    BY FreshIsFree
  <1>2. AllocatedIn(h, Fresh, m.allocator, c, heap')
    BY <1>1, AllocateHeap
  <1>3. /\ AreVectors(vectors')
        /\ DOMAIN vectors' = DOMAIN vectors \cup {v}
        /\ vectors'[v] = m
        /\ \A x \in DOMAIN vectors \ {v} : SameMemory(vectors'[x], vectors[x])
    BY SetMembers DEF OwnInv, SameMemory
  <1>4. Fits(m, heap')
    BY <1>2 DEF AllocatedIn, Fits
  <1>5. /\ IsHeap(heap') /\ DOMAIN heap' = (DOMAIN heap \ {BlockOf(v)}) \cup {Fresh}
        /\ SameAllocations(heap, heap', DOMAIN heap \ {BlockOf(v)})
    BY <1>1, <1>2 DEF AllocatedIn, SameAllocations
  <1> QED
    BY <1>3, <1>4, <1>5, NewMemoryOwn

LEMMA UnchangedOwn ==
  ASSUME OwnInv, UNCHANGED <<vectors, heap>>
  PROVE  OwnInv'
  BY DEF OwnInv, OneOwner, AllFit, AreVectors, IsHeap
LEMMA InitOwn == Init => OwnInv
  BY DEF Init, OwnInv, IsHeap, AreVectors, OneOwner, AllFit

-----------------------------------------------------------------------------
LEMMA ConstructDefaultOwn ==
  ASSUME OwnInv, NEW v \in Vector, NEW a \in Allocator, ConstructDefault(v, a)
  PROVE  OwnInv'
  <1> DEFINE m == [max_element_count |-> 0, block |-> Null, units |-> 0,
                   allocator |-> a, element_count |-> 0, stride |-> 0,
                   table |-> << >>, edge |-> Null]
  <1>1. v \notin DOMAIN vectors /\ vectors' = Set(v, m) /\ heap' = heap
    BY DEF ConstructDefault
  <1>2. IsMembers(m) /\ m.block = Null
    BY DEF IsMembers, Fields
  <1> HIDE DEF m
  <1>3. /\ AreVectors(vectors')
        /\ DOMAIN vectors' = DOMAIN vectors \cup {v}
        /\ vectors'[v] = m
        /\ \A x \in DOMAIN vectors \ {v} : vectors'[x] = vectors[x]
    BY <1>1, <1>2, SetMembers, Zenon DEF OwnInv
  <1>4. OneOwner'
    BY <1>1, <1>2, <1>3, NamesAssumption DEF OwnInv, OneOwner, IsHeap
  <1>5. AllFit'
    BY <1>1, <1>2, <1>3 DEF OwnInv, AllFit, Fits
  <1> QED
    BY <1>1, <1>3, <1>4, <1>5 DEF OwnInv

LEMMA ConstructOwn ==
  ASSUME OwnInv, NEW v \in Vector, NEW n, NEW varying_bytes, NEW a \in Allocator,
         Construct(v, n, varying_bytes, a)
  PROVE  OwnInv'
  <1> DEFINE units == NeededUnits(n, varying_bytes, 1)
             m == [max_element_count |-> n, block |-> Fresh, units |-> units,
                   allocator |-> a, element_count |-> 0,
                   stride |-> IF Varying THEN 0 ELSE 1,
                   table |-> << >>, edge |-> <<Fresh, 0>>]
             c == [i \in UnitsOf(units) |-> Raw]
  <1>1. v \notin DOMAIN vectors /\ vectors' = Set(v, m) /\ heap' = Allocate(heap, Fresh, a, c)
    BY DEF Construct
  <1>2. IsMembers(m) /\ m.block = Fresh /\ m.units = units /\ m.allocator = a
    BY DEF IsMembers, Fields
  <1>3. DOMAIN c = UnitsOf(units)
    OBVIOUS
  <1>4. IsHeap(heap) /\ BlockOf(v) = Null /\ Null \notin DOMAIN heap
    BY <1>1, NamesAssumption DEF OwnInv, BlockOf, IsHeap
  <1> HIDE DEF m, c, units
  <1>5. /\ DOMAIN heap = DOMAIN heap \ {BlockOf(v)}
        /\ SameAllocations(heap, heap, DOMAIN heap \ {BlockOf(v)})
    BY <1>4 DEF SameAllocations
  <1>6. heap' = Allocate(heap, Fresh, m.allocator, c)
    BY <1>1, <1>2
  <1> QED
    BY <1>1, <1>2, <1>3, <1>4, <1>5, <1>6, SetNewMemoryOwn

(* The destructor returns the memory of v together with v.                  *)
LEMMA DestructOwn ==
  ASSUME OwnInv, NEW v \in Vector, Destruct(v)
  PROVE  OwnInv'
  <1>1. CASE Undefined
    BY <1>1, UnchangedOwn DEF Undefined
  <1>2. CASE ~ Undefined
    <2> DEFINE b == vectors[v].block
    <2>1. /\ v \in DOMAIN vectors
          /\ vectors' = [x \in DOMAIN vectors \ {v} |-> vectors[x]]
          /\ heap' = Deallocate(heap, b)
      BY <1>2 DEF Destruct
    <2>2. /\ AreVectors(vectors')
          /\ DOMAIN vectors' = DOMAIN vectors \ {v}
          /\ \A x \in DOMAIN vectors' : vectors'[x] = vectors[x]
      BY <2>1 DEF OwnInv, AreVectors
    <2>3. /\ IsHeap(heap') /\ DOMAIN heap' = DOMAIN heap \ {b}
          /\ SameAllocations(heap, heap', DOMAIN heap \ {b})
      BY <2>1, DeallocateHeap DEF OwnInv
    <2>4. Null \notin DOMAIN heap
      BY NamesAssumption DEF OwnInv, IsHeap
    <2>5. OneOwner'
      BY <2>1, <2>2, <2>3, <2>4 DEF OwnInv, OneOwner
    <2>6. AllFit'
      BY <2>1, <2>2, <2>3 DEF OwnInv, OneOwner, AllFit, Fits, SameAllocations
    <2> QED
      BY <2>2, <2>3, <2>5, <2>6 DEF OwnInv
  <1> QED
    BY <1>1, <1>2

LEMMA AppendedMembers ==
  ASSUME NEW m, IsMembers(m), NEW a, NEW e
  PROVE  IsMembers(Appended(m, a, e)) /\ SameMemory(Appended(m, a, e), m)
  <1>1. ASSUME Varying
        PROVE  IsMembers(Appended(m, a, e)) /\ SameMemory(Appended(m, a, e), m)
    <2> DEFINE t == Append(m.table, a)
               g == <<m.edge[1], a + Width(e)>>
    <2>1. Appended(m, a, e) = [m EXCEPT !.table = t, !.edge = g]
      BY <1>1 DEF Appended, IsMembers, Fields
    <2> HIDE DEF t, g
    <2> QED
      BY <2>1 DEF IsMembers, SameMemory, Fields
  <1>2. ASSUME ~ Varying
        PROVE  IsMembers(Appended(m, a, e)) /\ SameMemory(Appended(m, a, e), m)
    <2> DEFINE n == m.element_count + 1
    <2>1. Appended(m, a, e) = [m EXCEPT !.element_count = n]
      BY <1>2 DEF Appended, IsMembers, Fields
    <2> HIDE DEF n
    <2> QED
      BY <2>1 DEF IsMembers, SameMemory, Fields
  <1> QED
    BY <1>1, <1>2

LEMMA EmplaceBackOwn ==
  ASSUME OwnInv, NEW v \in Vector, NEW e \in Value, EmplaceBack(v, e)
  PROVE  OwnInv'
  <1>1. CASE Undefined
    BY <1>1, UnchangedOwn DEF Undefined
  <1>2. CASE ~ Undefined
    <2> DEFINE m == vectors[v]
               a == Used(m)
               b == m.edge[1]
               units == a .. a + Width(e) - 1
               f == [c \in DOMAIN heap[b].cells |->
                       IF c \in units THEN <<e, c - a>> ELSE heap[b].cells[c]]
    <2>1. v \in DOMAIN vectors /\ vectors' = Set(v, Appended(m, a, e))
      BY <1>2 DEF EmplaceBack, Usable
    <2>2. heap' = [heap EXCEPT ![b].cells = f]
      BY <1>2 DEF EmplaceBack
    <2>3. DOMAIN f = DOMAIN heap[b].cells
      OBVIOUS
    <2> HIDE DEF f
    <2>4. Kept(heap, [heap EXCEPT ![b].cells = f])
      BY <2>3, WrittenHeap, Zenon DEF OwnInv
    <2>5. Kept(heap, heap')
      BY <2>2, <2>4
    <2>6. IsMembers(Appended(m, a, e)) /\ SameMemory(Appended(m, a, e), m)
      BY <2>1, AppendedMembers DEF OwnInv, AreVectors
    <2> QED
      BY <2>1, <2>5, <2>6, SetSameMemoryOwn, Zenon
  <1> QED
    BY <1>1, <1>2

LEMMA EmplaceOwn ==
  ASSUME OwnInv, NEW v \in Vector, NEW position, NEW e \in Value, Emplace(v, position, e)
  PROVE  OwnInv'
  <1>1. CASE Undefined
    BY <1>1, UnchangedOwn DEF Undefined
  <1>2. CASE ~ Undefined
    <2> DEFINE m == vectors[v]
               d == heap[Base(m)].cells
               f == [c \in DOMAIN d |->
                       IF c = position THEN <<e, 0>>
                       ELSE IF c > position /\ c <= m.element_count THEN d[c - 1] ELSE d[c]]
               n == m.element_count + 1
               k == [m EXCEPT !.element_count = n]
    <2>1. v \in DOMAIN vectors /\ IsMembers(m)
      BY <1>2 DEF Emplace, Usable, OwnInv, AreVectors
    <2>2. heap' = [heap EXCEPT ![Base(m)].cells = f]
      BY <1>2 DEF Emplace
    <2>3. vectors' = Set(v, k)
      BY <1>2, <2>1 DEF Emplace, IsMembers, Fields
    <2>4. DOMAIN f = DOMAIN heap[Base(m)].cells
      OBVIOUS
    <2> HIDE DEF f, n
    <2>5. Kept(heap, [heap EXCEPT ![Base(m)].cells = f])
      BY <2>4, WrittenHeap, Zenon DEF OwnInv
    <2>6. Kept(heap, heap')
      BY <2>2, <2>5
    <2>7. IsMembers(k) /\ SameMemory(k, m)
      BY <2>1 DEF IsMembers, SameMemory, Fields
    <2> HIDE DEF k
    <2> QED
      BY <2>1, <2>3, <2>6, <2>7, SetSameMemoryOwn, Zenon
  <1> QED
    BY <1>1, <1>2

(* pop_back, clear and both versions of erase.                              *)
LEMMA EraseFromOwn ==
  ASSUME OwnInv, NEW v \in DOMAIN vectors, NEW first, NEW last, NEW moves,
         EraseFrom(v, first, last, moves)
  PROVE  OwnInv'
  <1>1. CASE Undefined
    BY <1>1, UnchangedOwn DEF Undefined
  <1>2. CASE ~ Undefined
    <2> DEFINE m == vectors[v]
               n == Size(m) - (last - first)
               t == IF moves /\ Varying /\ last < Size(m)
                      THEN ShiftedTable(m, last, first) ELSE m.table
               destroyed == Destroyed(heap, m, first .. last - 1)
    <2>1. /\ heap' = IF moves /\ last < Size(m)
                       THEN MovedForward(destroyed, m, last, first) ELSE destroyed
          /\ vectors' = Set(v, Resized(m, t, n))
      BY <1>2 DEF EraseFrom
    <2> HIDE DEF t, n
    <2>2. IsMembers(m)
      BY DEF OwnInv, AreVectors
    <2>3. IsMembers(Resized(m, t, n)) /\ SameMemory(Resized(m, t, n), m)
      BY <2>2 DEF Resized, IsMembers, SameMemory, Fields
    <2>4. Kept(heap, destroyed)
      BY DestroyedHeap DEF OwnInv
    <2> HIDE DEF destroyed
    <2>5. Kept(heap, MovedForward(destroyed, m, last, first))
      <3>1. IsHeap(destroyed)
        BY <2>4 DEF Kept
      <3>2. Kept(destroyed, MovedForward(destroyed, m, last, first))
        BY <3>1, MovedForwardHeap
      <3> QED
        BY <2>4, <3>2, KeptIsTransitive
    <2>6. Kept(heap, heap')
      BY <2>1, <2>4, <2>5
    <2> QED
      BY <2>1, <2>3, <2>6, SetSameMemoryOwn, Zenon
  <1> QED
    BY <1>1, <1>2

-----------------------------------------------------------------------------
LEMMA CopiedCells ==
  ASSUME NEW m, NEW n
  PROVE  DOMAIN Copied(m, n) = UnitsOf(n)
  BY DEF Copied

LEMMA TriviallyCopiedMembers ==
  ASSUME NEW m, IsMembers(m), NEW block
  PROVE  /\ IsMembers(TriviallyCopied(m, block))
         /\ TriviallyCopied(m, block).block = block
         /\ TriviallyCopied(m, block).units = m.units
         /\ TriviallyCopied(m, block).allocator = m.allocator
  <1> DEFINE edge == <<block, IF Varying THEN Used(m) ELSE 0>>
  <1>1. TriviallyCopied(m, block) = [m EXCEPT !.block = block, !.edge = edge]
    BY DEF TriviallyCopied
  <1> HIDE DEF edge
  <1> QED
    BY <1>1 DEF IsMembers, Fields

LEMMA ReleasedMembers ==
  ASSUME NEW m, IsMembers(m)
  PROVE  IsMembers(Released(m)) /\ Released(m).block = Null
  BY DEF Released, IsMembers, Fields

LEMMA ReserveOwn ==
  ASSUME OwnInv, NEW v \in Vector, NEW n, NEW varying_bytes, Reserve(v, n, varying_bytes)
  PROVE  OwnInv'
  <1>1. CASE Undefined
    BY <1>1, UnchangedOwn DEF Undefined
  <1>2. CASE ~ Undefined
    <2> DEFINE m == vectors[v]
               units == UnitBytes * NeededUnits(n, varying_bytes, m.stride)
               h == Deallocate(heap, m.block)
               t == TriviallyCopied(m, Fresh)
               k == [t EXCEPT !.max_element_count = n, !.units = units]
               c == Copied(m, units)
    <2>1. /\ v \in DOMAIN vectors
          /\ vectors' = Set(v, k)
          /\ heap' = Allocate(h, Fresh, m.allocator, c)
      BY <1>2 DEF Reserve, Usable
    <2>2. IsMembers(m) /\ IsHeap(heap) /\ BlockOf(v) = m.block
      BY <2>1 DEF OwnInv, AreVectors, BlockOf
    <2>3. /\ IsHeap(h) /\ DOMAIN h = DOMAIN heap \ {BlockOf(v)}
          /\ SameAllocations(heap, h, DOMAIN heap \ {BlockOf(v)})
      BY <2>2, DeallocateHeap
    <2>4. DOMAIN c = UnitsOf(units)
      BY CopiedCells
    <2>5. IsMembers(t) /\ t.block = Fresh /\ t.allocator = m.allocator
      BY <2>2, TriviallyCopiedMembers
    <2> HIDE DEF h, t, c, units
    <2>6. IsMembers(k) /\ k.block = Fresh /\ k.units = units /\ k.allocator = m.allocator
      BY <2>5 DEF IsMembers, Fields
    <2> HIDE DEF k
    <2>7. heap' = Allocate(h, Fresh, k.allocator, c)
      BY <2>1, <2>6
    <2> QED
      BY <2>1, <2>3, <2>4, <2>6, <2>7, SetNewMemoryOwn
  <1> QED
    BY <1>1, <1>2

LEMMA CopyConstructOwn ==
  ASSUME OwnInv, NEW v \in Vector, NEW w \in Vector, NEW a \in Allocator,
         CopyConstruct(v, w, a)
  PROVE  OwnInv'
  <1>1. CASE Undefined
    BY <1>1, UnchangedOwn DEF Undefined
  <1>2. CASE ~ Undefined
    <2> DEFINE o == vectors[w]
               t == TriviallyCopied(o, Fresh)
               k == [t EXCEPT !.allocator = a]
               c == Copied(o, o.units)
    <2>1. /\ v \notin DOMAIN vectors /\ w \in DOMAIN vectors
          /\ vectors' = Set(v, k)
          /\ heap' = Allocate(heap, Fresh, a, c)
      BY <1>2 DEF CopyConstruct, Usable
    <2>2. IsMembers(o) /\ IsHeap(heap) /\ BlockOf(v) = Null /\ Null \notin DOMAIN heap
      BY <2>1, NamesAssumption DEF OwnInv, AreVectors, BlockOf, IsHeap
    <2>3. /\ DOMAIN heap = DOMAIN heap \ {BlockOf(v)}
          /\ SameAllocations(heap, heap, DOMAIN heap \ {BlockOf(v)})
      BY <2>2 DEF SameAllocations
    <2>4. DOMAIN c = UnitsOf(o.units)
      BY CopiedCells
    <2>5. IsMembers(t) /\ t.block = Fresh /\ t.units = o.units
      BY <2>2, TriviallyCopiedMembers
    <2> HIDE DEF t, c
    <2>6. IsMembers(k) /\ k.block = Fresh /\ k.units = o.units /\ k.allocator = a
      BY <2>5 DEF IsMembers, Fields
    <2> HIDE DEF k
    <2>7. heap' = Allocate(heap, Fresh, k.allocator, c)
      BY <2>1, <2>6
    <2> QED
      BY <2>1, <2>2, <2>3, <2>4, <2>6, <2>7, SetNewMemoryOwn
  <1> QED
    BY <1>1, <1>2

LEMMA MoveConstructOwn ==
  ASSUME OwnInv, NEW v \in Vector, NEW w \in Vector, MoveConstruct(v, w)
  PROVE  OwnInv'
  <1> DEFINE left == Released(vectors[w])
  <1>1. /\ v \notin DOMAIN vectors /\ w \in DOMAIN vectors
        /\ vectors' = [x \in DOMAIN vectors \cup {v} |->
                         IF x = v THEN vectors[w] ELSE IF x = w THEN left ELSE vectors[x]]
        /\ heap' = heap
    BY DEF MoveConstruct
  <1>2. IsMembers(left) /\ left.block = Null
    BY <1>1, ReleasedMembers DEF OwnInv, AreVectors
  <1> HIDE DEF left
  <1>3. /\ AreVectors(vectors')
        /\ DOMAIN vectors' = DOMAIN vectors \cup {v}
        /\ \A x \in DOMAIN vectors \ {v, w} : vectors'[x] = vectors[x]
        /\ vectors'[v] = vectors[w] /\ vectors'[w].block = Null
    BY <1>1, <1>2 DEF OwnInv, AreVectors
  <1>4. IsHeap(heap) /\ BlockOf(v) = Null /\ Null \notin DOMAIN heap
    BY <1>1, NamesAssumption DEF OwnInv, BlockOf, IsHeap
  <1>5. /\ IsHeap(heap') /\ DOMAIN heap' = DOMAIN heap \ {BlockOf(v)}
        /\ SameAllocations(heap, heap', DOMAIN heap \ {BlockOf(v)})
    BY <1>1, <1>4 DEF SameAllocations
  <1>6. SameMemory(vectors'[v], vectors[w]) /\ v # w
    BY <1>1, <1>3 DEF SameMemory
  <1> QED
    BY <1>1, <1>3, <1>5, <1>6, TransferOwn

(* Move assignment: a vector that takes over memory returns its own, with   *)
(* the allocator it has by then, which had better be the same.              *)
LEMMA StealOwn ==
  ASSUME OwnInv, NEW v \in DOMAIN vectors, NEW w \in DOMAIN vectors, v # w,
         Steals(vectors[v], vectors[w]), Steal(v, w)
  PROVE  OwnInv'
  <1>1. CASE Undefined \/ Misreleased
    BY <1>1, UnchangedOwn DEF Undefined, Misreleased
  <1>2. CASE ~ (Undefined \/ Misreleased)
    <2> DEFINE m == vectors[v]
               o == vectors[w]
               a == IF traits.move THEN o.allocator ELSE m.allocator
               k == [o EXCEPT !.allocator = a]
               left == Released(o)
    <2>1. /\ heap' = Deallocate(heap, m.block)
          /\ vectors' = [vectors EXCEPT ![v] = k, ![w] = left]
      BY <1>2 DEF Steal
    <2>2. IsMembers(m) /\ IsMembers(o) /\ IsHeap(heap) /\ BlockOf(v) = m.block /\ v \in Vector
      BY DEF OwnInv, AreVectors, BlockOf
    <2>3. IsMembers(left) /\ left.block = Null
      BY <2>2, ReleasedMembers
    <2>4. a = o.allocator
      BY DEF Steals
    <2>5. IsMembers(k) /\ SameMemory(k, o)
      BY <2>2, <2>4 DEF IsMembers, SameMemory, Fields
    <2> HIDE DEF k, left, a
    <2>6. /\ AreVectors(vectors')
          /\ DOMAIN vectors' = DOMAIN vectors \cup {v}
          /\ \A x \in DOMAIN vectors \ {v, w} : vectors'[x] = vectors[x]
          /\ vectors'[v] = k /\ vectors'[w].block = Null
      BY <2>1, <2>3, <2>5 DEF OwnInv, AreVectors
    <2>7. /\ IsHeap(heap') /\ DOMAIN heap' = DOMAIN heap \ {BlockOf(v)}
          /\ SameAllocations(heap, heap', DOMAIN heap \ {BlockOf(v)})
      BY <2>1, <2>2, DeallocateHeap
    <2> QED
      BY <2>2, <2>5, <2>6, <2>7, TransferOwn
  <1> QED
    BY <1>1, <1>2

LEMMA CopyAssignOwn ==
  ASSUME OwnInv, NEW v \in Vector, NEW w \in Vector, CopyAssign(v, w)
  PROVE  OwnInv'
  <1>1. CASE Undefined
    BY <1>1, UnchangedOwn DEF Undefined
  <1>2. CASE ~ Undefined
    <2> DEFINE m == vectors[v]
               o == vectors[w]
               a == IF traits.copy THEN o.allocator ELSE m.allocator
               replaces == Replaces(m, o)
               block == IF replaces THEN Fresh ELSE m.block
               units == IF replaces THEN o.units ELSE m.units
               t == TriviallyCopied(o, block)
               k == [t EXCEPT !.units = units, !.allocator = a]
               c == Copied(o, units)
               h == Deallocate(heap, m.block)
    <2>1. /\ v \in DOMAIN vectors /\ w \in DOMAIN vectors
          /\ block # Null
          /\ heap' = IF replaces THEN Allocate(h, block, a, c)
                     ELSE [heap EXCEPT ![block].cells = c]
          /\ vectors' = Set(v, k)
      BY <1>2 DEF CopyAssign, Usable, Assignable
    <2>2. IsMembers(m) /\ IsMembers(o) /\ IsHeap(heap) /\ BlockOf(v) = m.block
      BY <2>1 DEF OwnInv, AreVectors, BlockOf
    <2>3. DOMAIN c = UnitsOf(units)
      BY CopiedCells
    <2>4. IsMembers(t) /\ t.block = block
      BY <2>2, TriviallyCopiedMembers
    <2>5. IsMembers(k) /\ k.block = block /\ k.units = units /\ k.allocator = a
      <3> HIDE DEF t, a, block, units
      <3> QED
        BY <2>4 DEF IsMembers, Fields
    <2> HIDE DEF k, c, h
    <2>6. CASE replaces
      <3>1. block = Fresh /\ units = o.units
        BY <2>6
      <3>2. /\ IsHeap(h) /\ DOMAIN h = DOMAIN heap \ {BlockOf(v)}
            /\ SameAllocations(heap, h, DOMAIN heap \ {BlockOf(v)})
        BY <2>2, DeallocateHeap DEF h
      <3>3. heap' = Allocate(h, Fresh, k.allocator, c)
        BY <2>1, <2>5, <2>6
      <3> HIDE DEF block, units
      <3> QED
        BY <2>1, <2>3, <2>5, <3>1, <3>2, <3>3, SetNewMemoryOwn
    <2>7. CASE ~ replaces
      <3>1. block = m.block /\ units = m.units /\ a = m.allocator
        BY <2>7 DEF Replaces
      <3>2. SameMemory(k, m)
        BY <2>5, <3>1 DEF SameMemory
      <3>3. m.block \in DOMAIN heap /\ DOMAIN heap[m.block].cells = UnitsOf(m.units)
        BY <2>1, <3>1 DEF OwnInv, AllFit, Fits
      <3>4. heap' = [heap EXCEPT ![m.block].cells = c] /\ DOMAIN c = DOMAIN heap[m.block].cells
        BY <2>1, <2>3, <2>7, <3>1, <3>3
      <3>5. Kept(heap, [heap EXCEPT ![m.block].cells = c])
        BY <2>2, <3>4, WrittenHeap, Zenon
      <3>6. Kept(heap, heap')
        BY <3>4, <3>5
      <3> QED
        BY <2>1, <2>5, <3>2, <3>6, SetSameMemoryOwn, Zenon
    <2> QED
      BY <2>6, <2>7
  <1> QED
    BY <1>1, <1>2

(* v gets new memory and w says something else of its own.                  *)
LEMMA NewMemoryForOneOwn ==
  ASSUME OwnInv, NEW v \in DOMAIN vectors, NEW w \in DOMAIN vectors, v # w,
         NEW m, IsMembers(m), NEW o, IsMembers(o), SameMemory(o, vectors[w]),
         vectors' = [vectors EXCEPT ![v] = m, ![w] = o],
         m.block = Fresh, NEW c, DOMAIN c = UnitsOf(m.units),
         NEW h, IsHeap(h), DOMAIN h = DOMAIN heap \ {BlockOf(v)},
         SameAllocations(heap, h, DOMAIN heap \ {BlockOf(v)}),
         heap' = Allocate(h, Fresh, m.allocator, c)
  PROVE  OwnInv'
  <1>1. Fresh \in Block /\ Fresh \notin DOMAIN heap /\ v \in Vector
    BY FreshIsFree DEF OwnInv, AreVectors
  <1>2. AllocatedIn(h, Fresh, m.allocator, c, heap')
    BY <1>1, AllocateHeap
  <1>3. /\ AreVectors(vectors')
        /\ DOMAIN vectors' = DOMAIN vectors \cup {v}
        /\ vectors'[v] = m
        /\ \A x \in DOMAIN vectors \ {v} : SameMemory(vectors'[x], vectors[x])
    BY DEF OwnInv, AreVectors, SameMemory
  <1>4. Fits(m, heap')
    BY <1>2 DEF AllocatedIn, Fits
  <1>5. /\ IsHeap(heap') /\ DOMAIN heap' = (DOMAIN heap \ {BlockOf(v)}) \cup {Fresh}
        /\ SameAllocations(heap, heap', DOMAIN heap \ {BlockOf(v)})
    BY <1>1, <1>2 DEF AllocatedIn, SameAllocations
  <1> QED
    BY <1>1, <1>3, <1>4, <1>5, NewMemoryOwn

(* Move assignment element by element, into new memory or into the old.     *)
LEMMA MoveElementsOwn ==
  ASSUME OwnInv, NEW v \in DOMAIN vectors, NEW w \in DOMAIN vectors, v # w, MoveElements(v, w)
  PROVE  OwnInv'
  <1>1. CASE Undefined
    BY <1>1, UnchangedOwn DEF Undefined
  <1>2. CASE ~ Undefined
    <2> DEFINE m == vectors[v]
               o == vectors[w]
               grows == Outgrows(m, o)
               units == IF grows THEN o.units * UnitBytes ELSE m.units
               block == IF grows THEN Fresh ELSE m.block
               d == heap[Base(o)].cells
               f == [i \in DOMAIN d |-> IF i < Used(o) THEN <<Moved, 0>> ELSE d[i]]
               left == IF NonTrivial /\ ~ Varying /\ Base(o) \in DOMAIN heap
                         THEN [heap EXCEPT ![Base(o)].cells = f] ELSE heap
               h == Deallocate(left, m.block)
               c == Copied(o, units)
               t == TriviallyCopied(o, block)
               k == [t EXCEPT !.units = units, !.allocator = m.allocator]
               rest == [o EXCEPT !.table = << >>]
    <2>1. /\ block # Null
          /\ heap' = IF grows THEN Allocate(h, block, m.allocator, c)
                     ELSE [left EXCEPT ![block].cells = c]
          /\ vectors' = [vectors EXCEPT ![v] = k, ![w] = rest]
      BY <1>2 DEF MoveElements
    <2>2. IsMembers(m) /\ IsMembers(o) /\ IsHeap(heap) /\ BlockOf(v) = m.block
      BY DEF OwnInv, AreVectors, BlockOf
    <2>3. DOMAIN c = UnitsOf(units)
      BY CopiedCells
    <2>4. IsMembers(t) /\ t.block = block
      BY <2>2, TriviallyCopiedMembers
    <2>5. IsMembers(k) /\ k.block = block /\ k.units = units /\ k.allocator = m.allocator
      <3> HIDE DEF t, block, units
      <3> QED
        BY <2>4 DEF IsMembers, Fields
    <2>6. IsMembers(rest) /\ SameMemory(rest, o)
      BY <2>2 DEF IsMembers, Fields, SameMemory
    <2>7. Kept(heap, left)
      <3>1. DOMAIN f = DOMAIN heap[Base(o)].cells
        OBVIOUS
      <3> HIDE DEF f
      <3>2. Kept(heap, [heap EXCEPT ![Base(o)].cells = f])
        BY <2>2, <3>1, WrittenHeap, Zenon
      <3> QED
        BY <2>2, <3>2, HeapIsKept
    <2> HIDE DEF k, c, h, rest, left
    <2>8. CASE grows
      <3>1. block = Fresh
        BY <2>8
      <3>2. /\ IsHeap(h) /\ DOMAIN h = DOMAIN heap \ {BlockOf(v)}
            /\ SameAllocations(heap, h, DOMAIN heap \ {BlockOf(v)})
        <4>1. IsHeap(left) /\ DOMAIN left = DOMAIN heap
          BY <2>7 DEF Kept
        <4>2. /\ IsHeap(h) /\ DOMAIN h = DOMAIN left \ {m.block}
              /\ SameAllocations(left, h, DOMAIN left \ {m.block})
          BY <4>1, DeallocateHeap DEF h
        <4> QED
          BY <2>2, <2>7, <4>1, <4>2 DEF Kept, SameAllocations
      <3>3. heap' = Allocate(h, Fresh, k.allocator, c)
        BY <2>1, <2>5, <2>8
      <3> HIDE DEF block, units
      <3> QED
        BY <2>1, <2>3, <2>5, <2>6, <3>1, <3>2, <3>3, NewMemoryForOneOwn
    <2>9. CASE ~ grows
      <3>1. block = m.block /\ units = m.units
        BY <2>9
      <3>2. SameMemory(k, m)
        BY <2>5, <3>1 DEF SameMemory
      <3>3. m.block \in DOMAIN heap /\ DOMAIN heap[m.block].cells = UnitsOf(m.units)
        BY <2>1, <3>1 DEF OwnInv, AllFit, Fits
      <3>4. heap' = [left EXCEPT ![m.block].cells = c] /\ DOMAIN c = DOMAIN left[m.block].cells
        BY <2>1, <2>3, <2>7, <2>9, <3>1, <3>3 DEF Kept, SameAllocations
      <3>5. Kept(left, [left EXCEPT ![m.block].cells = c])
        BY <2>7, <3>4, WrittenHeap, Zenon DEF Kept
      <3>6. Kept(heap, heap')
        BY <2>7, <3>4, <3>5, KeptIsTransitive
      <3>7. AreVectors(vectors')
        BY <2>1, <2>5, <2>6 DEF OwnInv, AreVectors
      <3>8. SameMemories(vectors', vectors)
        BY <2>1, <2>6, <3>2 DEF OwnInv, AreVectors, SameMemories, SameMemory
      <3> QED
        BY <3>6, <3>7, <3>8, SameMemoryOwn
    <2> QED
      BY <2>8, <2>9
  <1> QED
    BY <1>1, <1>2

LEMMA SwapOwn ==
  ASSUME OwnInv, NEW v \in Vector, NEW w \in Vector, Swap(v, w)
  PROVE  OwnInv'
  <1>1. /\ v # w /\ v \in DOMAIN vectors /\ w \in DOMAIN vectors
        /\ vectors' = [vectors EXCEPT ![v] = vectors[w], ![w] = vectors[v]]
        /\ heap' = heap
    BY DEF Swap
  <1> DEFINE other(x) == IF x = v THEN w ELSE IF x = w THEN v ELSE x
  <1>2. /\ DOMAIN vectors' = DOMAIN vectors
        /\ \A x \in DOMAIN vectors :
             other(x) \in DOMAIN vectors /\ vectors'[x] = vectors[other(x)]
    BY <1>1 DEF OwnInv, AreVectors
  <1>3. \A x, y \in DOMAIN vectors : x # y => other(x) # other(y)
    BY <1>1
  <1>4. \A x \in DOMAIN vectors : other(other(x)) = x
    BY <1>1
  <1> HIDE DEF other
  <1>5. AreVectors(vectors')
    BY <1>1 DEF OwnInv, AreVectors
  <1>6. OneOwner'
    BY <1>1, <1>2, <1>3, <1>4 DEF OwnInv, OneOwner
  <1>7. AllFit'
    BY <1>1, <1>2 DEF OwnInv, AllFit, Fits
  <1> QED
    BY <1>1, <1>5, <1>6, <1>7 DEF OwnInv

-----------------------------------------------------------------------------
LEMMA NextOwn == OwnInv /\ [Next]_vars => OwnInv'
  <1> SUFFICES ASSUME OwnInv, [Next]_vars PROVE OwnInv'
    OBVIOUS
  <1>1. CASE UNCHANGED vars
    BY <1>1, UnchangedOwn DEF vars, members
  <1>2. CASE Next
    <2> SUFFICES ASSUME NEW v \in Vector,
                        \/ \E a \in Allocator : ConstructDefault(v, a)
                        \/ \E n \in 0 .. MaxCapacity, varying \in 0 .. MaxVarying,
                              a \in Allocator :
                             (Varying \/ varying = 0) /\ Construct(v, n, varying, a)
                        \/ Destruct(v)
                        \/ \E e \in Value : EmplaceBack(v, e)
                        \/ PopBack(v)
                        \/ Clear(v)
                        \/ \E position \in 0 .. MaxCapacity : Erase(v, position)
                        \/ \E first, last \in 0 .. MaxCapacity : EraseRange(v, first, last)
                        \/ \E position \in 0 .. MaxCapacity, e \in Value :
                             Emplace(v, position, e)
                        \/ \E n \in 1 .. MaxCapacity, varying \in 0 .. MaxVarying :
                             (Varying \/ varying = 0) /\ Reserve(v, n, varying)
                        \/ \E w \in Vector, a \in Allocator : CopyConstruct(v, w, a)
                        \/ \E w \in Vector : MoveConstruct(v, w)
                        \/ \E w \in Vector : CopyAssign(v, w)
                        \/ \E w \in Vector : MoveAssign(v, w)
                        \/ \E w \in Vector : Swap(v, w)
                 PROVE  OwnInv'
      BY <1>2 DEF Next, Call
    <2>1. ASSUME NEW a \in Allocator, ConstructDefault(v, a) PROVE OwnInv'
      BY <2>1, ConstructDefaultOwn
    <2>2. ASSUME NEW n, NEW varying, NEW a \in Allocator, Construct(v, n, varying, a)
          PROVE  OwnInv'
      BY <2>2, ConstructOwn
    <2>3. CASE Destruct(v)
      BY <2>3, DestructOwn
    <2>4. ASSUME NEW e \in Value, EmplaceBack(v, e) PROVE OwnInv'
      BY <2>4, EmplaceBackOwn
    <2>5. CASE PopBack(v)
      BY <2>5, EraseFromOwn DEF PopBack, Usable
    <2>6. CASE Clear(v)
      BY <2>6, EraseFromOwn DEF Clear, Assignable
    <2>7. ASSUME NEW position, Erase(v, position) PROVE OwnInv'
      BY <2>7, EraseFromOwn DEF Erase, Usable
    <2>8. ASSUME NEW first, NEW last, EraseRange(v, first, last) PROVE OwnInv'
      BY <2>8, EraseFromOwn DEF EraseRange, Usable
    <2>9. ASSUME NEW position, NEW e \in Value, Emplace(v, position, e) PROVE OwnInv'
      BY <2>9, EmplaceOwn
    <2>10. ASSUME NEW n, NEW varying, Reserve(v, n, varying) PROVE OwnInv'
      BY <2>10, ReserveOwn
    <2>11. ASSUME NEW w \in Vector, NEW a \in Allocator, CopyConstruct(v, w, a) PROVE OwnInv'
      BY <2>11, CopyConstructOwn
    <2>12. ASSUME NEW w \in Vector, MoveConstruct(v, w) PROVE OwnInv'
      BY <2>12, MoveConstructOwn
    <2>13. ASSUME NEW w \in Vector, CopyAssign(v, w) PROVE OwnInv'
      BY <2>13, CopyAssignOwn
    <2>14. ASSUME NEW w \in Vector, MoveAssign(v, w) PROVE OwnInv'
      <3>1. /\ v # w /\ v \in DOMAIN vectors /\ w \in DOMAIN vectors
            /\ \/ Steals(vectors[v], vectors[w]) /\ Steal(v, w)
               \/ MoveElements(v, w)
        BY <2>14 DEF MoveAssign, Assignable
      <3> QED
        BY <3>1, StealOwn, MoveElementsOwn
    <2>15. ASSUME NEW w \in Vector, Swap(v, w) PROVE OwnInv'
      BY <2>15, SwapOwn
    <2> QED
      BY <2>1, <2>2, <2>3, <2>4, <2>5, <2>6, <2>7, <2>8, <2>9, <2>10, <2>11, <2>12,
         <2>13, <2>14, <2>15
  <1> QED
    BY <1>1, <1>2

LEMMA SpecOwn == Spec => []OwnInv
  BY InitOwn, NextOwn, PTL DEF Spec

(* No allocation of the single header is freed twice, leaked or shared,     *)
(* whatever calls a program makes, up to the first with undefined behaviour *)
(* (cntgs.hpp:811-883, 3851-3857, 4026-4085).                               *)
THEOREM MemoryHasOneOwner == Spec => []SoleOwner
  <1>1. OwnInv => SoleOwner
    <2> SUFFICES ASSUME OwnInv PROVE SoleOwner
      OBVIOUS
    <2>1. ASSUME NEW b \in DOMAIN heap
          PROVE  \E v \in DOMAIN vectors : {w \in DOMAIN vectors : vectors[w].block = b} = {v}
      <3>1. PICK v \in DOMAIN vectors : vectors[v].block = b
        BY DEF OwnInv, OneOwner
      <3>2. b # Null
        BY NamesAssumption DEF OwnInv, IsHeap
      <3>3. {w \in DOMAIN vectors : vectors[w].block = b} = {v}
        BY <3>1, <3>2 DEF OwnInv, OneOwner
      <3> QED
        BY <3>3
    <2> QED
      BY <2>1 DEF OwnInv, OneOwner, SoleOwner
  <1> QED
    BY <1>1, SpecOwn, PTL

(* No call has returned memory with another allocator.                      *)
ReleasedRightly == status # "misreleased"

LEMMA StealReleases ==
  ASSUME OwnInv, "propagating_move" \in Avoided,
         NEW v \in DOMAIN vectors, NEW w \in DOMAIN vectors, Steal(v, w)
  PROVE  Undefined \/ Defined
  <1> DEFINE m == vectors[v]
             a == IF traits.move THEN vectors[w].allocator ELSE m.allocator
  <1>1. m.block = Null \/ m.allocator = a
    BY DEF Steal
  <1>2. MayDeallocate(m, a)
    BY <1>1 DEF OwnInv, AllFit, Fits, MayDeallocate
  <1> QED
    BY <1>2 DEF Steal

LEMMA NextReleases ==
  ASSUME OwnInv, "propagating_move" \in Avoided, ReleasedRightly, [Next]_vars
  PROVE  ReleasedRightly'
  <1>1. CASE UNCHANGED vars
    BY <1>1 DEF vars, members, ReleasedRightly
  <1>2. ASSUME NEW v, NEW first, NEW last, NEW moves, EraseFrom(v, first, last, moves)
        PROVE  Undefined \/ Defined
    BY <1>2 DEF EraseFrom
  <1>3. CASE Next
    <2> SUFFICES ASSUME NEW v \in Vector,
                        \/ \E a \in Allocator : ConstructDefault(v, a)
                        \/ \E n \in 0 .. MaxCapacity, varying \in 0 .. MaxVarying,
                              a \in Allocator :
                             (Varying \/ varying = 0) /\ Construct(v, n, varying, a)
                        \/ Destruct(v)
                        \/ \E e \in Value : EmplaceBack(v, e)
                        \/ PopBack(v)
                        \/ Clear(v)
                        \/ \E position \in 0 .. MaxCapacity : Erase(v, position)
                        \/ \E first, last \in 0 .. MaxCapacity : EraseRange(v, first, last)
                        \/ \E position \in 0 .. MaxCapacity, e \in Value :
                             Emplace(v, position, e)
                        \/ \E n \in 1 .. MaxCapacity, varying \in 0 .. MaxVarying :
                             (Varying \/ varying = 0) /\ Reserve(v, n, varying)
                        \/ \E w \in Vector, a \in Allocator : CopyConstruct(v, w, a)
                        \/ \E w \in Vector : MoveConstruct(v, w)
                        \/ \E w \in Vector : CopyAssign(v, w)
                        \/ \E w \in Vector : MoveAssign(v, w)
                        \/ \E w \in Vector : Swap(v, w)
                 PROVE  Undefined \/ Defined
      BY <1>3 DEF Next, Call, Undefined, Defined, ReleasedRightly
    <2>1. ASSUME NEW a, ConstructDefault(v, a) PROVE Undefined \/ Defined
      BY <2>1 DEF ConstructDefault
    <2>2. ASSUME NEW n, NEW varying, NEW a, Construct(v, n, varying, a)
          PROVE  Undefined \/ Defined
      BY <2>2 DEF Construct
    <2>3. CASE Destruct(v)
      BY <2>3 DEF Destruct
    <2>4. ASSUME NEW e, EmplaceBack(v, e) PROVE Undefined \/ Defined
      BY <2>4 DEF EmplaceBack
    <2>5. CASE PopBack(v) \/ Clear(v)
      BY <2>5, <1>2 DEF PopBack, Clear
    <2>6. ASSUME NEW first, NEW last, EraseRange(v, first, last) PROVE Undefined \/ Defined
      BY <2>6, <1>2 DEF EraseRange
    <2>7. ASSUME NEW position, Erase(v, position) PROVE Undefined \/ Defined
      BY <2>7, <1>2 DEF Erase
    <2>8. ASSUME NEW position, NEW e, Emplace(v, position, e) PROVE Undefined \/ Defined
      BY <2>8 DEF Emplace
    <2>9. ASSUME NEW n, NEW varying, Reserve(v, n, varying) PROVE Undefined \/ Defined
      BY <2>9 DEF Reserve
    <2>10. ASSUME NEW w, NEW a, CopyConstruct(v, w, a) PROVE Undefined \/ Defined
      BY <2>10 DEF CopyConstruct
    <2>11. ASSUME NEW w, MoveConstruct(v, w) \/ CopyAssign(v, w) \/ Swap(v, w)
           PROVE  Undefined \/ Defined
      BY <2>11 DEF MoveConstruct, CopyAssign, Swap
    <2>12. ASSUME NEW w, MoveAssign(v, w) PROVE Undefined \/ Defined
      <3>1. CASE Steals(vectors[v], vectors[w])
        <4>1. v \in DOMAIN vectors /\ w \in DOMAIN vectors /\ Steal(v, w)
          BY <2>12, <3>1 DEF MoveAssign, Assignable
        <4> QED
          BY <4>1, StealReleases
      <3>2. CASE ~ Steals(vectors[v], vectors[w])
        BY <2>12, <3>2 DEF MoveAssign, MoveElements
      <3> QED
        BY <3>1, <3>2
    <2> QED
      BY <2>1, <2>2, <2>3, <2>4, <2>5, <2>6, <2>7, <2>8, <2>9, <2>10, <2>11, <2>12
  <1> QED
    BY <1>1, <1>3

(* In a program that makes no move assignment which propagates an allocator *)
(* to a vector with memory of another one (cntgs.hpp:4030), no call returns *)
(* memory with another allocator or size than it was acquired with, and     *)
(* none leaves a vector that would: swap, which separates memory and        *)
(* allocator in the modular header, exchanges both here (cntgs.hpp:773-779, *)
(* 824-883, 3851-3857, 4026-4032).                                          *)
THEOREM ReleasedWhereAcquired ==
  ASSUME "propagating_move" \in Avoided
  PROVE  Spec => []ReleasedByItsAllocator
  <1>1. Init => ReleasedRightly
    BY DEF Init, ReleasedRightly
  <1>2. OwnInv /\ ReleasedRightly /\ [Next]_vars => ReleasedRightly'
    BY NextReleases
  <1>3. OwnInv /\ ReleasedRightly => ReleasedByItsAllocator
    BY DEF ReleasedRightly, OwnInv, AllFit, Fits, ReleasedByItsAllocator, MayDeallocate
  <1> QED
    BY <1>1, <1>2, <1>3, SpecOwn, PTL DEF Spec

-----------------------------------------------------------------------------
(* What elements, tables and edges hold.  Inv says that each vector is      *)
(* Sound: its locator leads to whole elements, one behind the other, in     *)
(* the memory it owns, objects are nowhere else in it, and contents is      *)
(* what a caller finds.  It needs OwnInv, since a call writes to a block    *)
(* and may assume of the other vectors only that they have another one.     *)
(* Every action lemma shows that a careful caller's call is defined, that   *)
(* all vectors are Sound behind it (AllSound'), and which vector got which  *)
(* value (Gives, Hands, GivesAway); the refinement is read off these.       *)

(* The calls of the README and the tests.                                   *)
Careful ==
  {"use_moved_from", "reserve_default", "erase_nothing", "erase_back", "erase_narrow",
   "relocate", "move_into_smaller", "propagating_move", "reserve_too_few_bytes"}
    \subseteq Avoided

(* What can be alive in memory.                                             *)
Things == IF NonTrivial /\ ~ Varying THEN Value \cup {Moved} ELSE Value

(* The cells d hold an element at a, and it ends at EndAt(d, a).            *)
Whole(d, a) ==
  /\ a \in DOMAIN d
  /\ d[a][1] \in Things
  /\ \A k \in UnitsOf(Width(d[a][1])) : a + k \in DOMAIN d /\ d[a + k] = <<d[a][1], k>>

EndAt(d, a) == a + Width(d[a][1])

(* The elements of m lie in d one behind the other, the first at its begin. *)
Laid(m, d) ==
  /\ Used(m) \in Nat
  /\ \A i \in Elements(m) :
       /\ Offset(m, i) \in Nat /\ Whole(d, Offset(m, i))
       /\ EndAt(d, Offset(m, i)) <= Used(m)
  /\ \A i, j \in Elements(m) : i < j => EndAt(d, Offset(m, i)) <= Offset(m, j)
  /\ Elements(m) # {} => Offset(m, 0) = 0

NoStray(m, d) ==
  \A c \in DOMAIN d :
    d[c] = Raw \/ \E i \in Elements(m) : Offset(m, i) <= c /\ c < EndAt(d, Offset(m, i))

Numbers(m) ==
  /\ m.units \in Nat /\ m.max_element_count \in Nat /\ m.element_count \in Nat
  /\ m.table \in Seq(Nat)
  /\ ~ Varying => /\ m.table = << >>
                  /\ m.stride \in {0, 1}
                  /\ m.stride = 0 => m.max_element_count = 0
                  /\ m.element_count <= m.max_element_count

(* m describes what is in memory.                                           *)
Sound(m, h) ==
  /\ Numbers(m)
  /\ m.block = Null =>
       /\ m.table = << >>
       /\ m.edge = Null => m.element_count = 0 /\ m.max_element_count = 0
  /\ m.block # Null =>
       /\ m.edge = <<m.block, m.edge[2]>> /\ m.edge[2] \in Nat
       /\ ~ Varying => m.edge[2] = 0
       /\ Used(m) <= m.units
       /\ Laid(m, h[m.block].cells)
       /\ NonTrivial => ~ IsHollow(m) /\ NoStray(m, h[m.block].cells)

AllSound == \A v \in DOMAIN vectors : Sound(vectors[v], heap)

Inv == OwnInv /\ AllSound /\ status = "defined" /\ contents = Found

(* What a caller finds in m, read from the memory h.                        *)
Thing(m, h, i) == h[m.block].cells[Offset(m, i)][1]
ThingsOf(m, h) == [k \in 1 .. Size(m) |-> Thing(m, h, k - 1)]
HasMoved(m, h) == \E i \in Elements(m) : Thing(m, h, i) = Moved
ValueOf(m, h) == IF IsHollow(m) \/ HasMoved(m, h) THEN Unspecified ELSE ThingsOf(m, h)

(* Sound is the same for the members and the heap behind a step.            *)
LEMMA SoundNext ==
  ASSUME UNCHANGED kind, \A x \in DOMAIN vectors' : Sound(vectors'[x], heap')
  PROVE  AllSound'
  <1> SUFFICES ASSUME NEW x \in DOMAIN vectors' PROVE Sound(vectors[x], heap)'
    BY DEF AllSound
  <1> DEFINE m == vectors[x]
             d == heap[m.block].cells
  <1>1. Varying' = Varying /\ NonTrivial' = NonTrivial /\ Things' = Things
    BY DEF Varying, NonTrivial, Things
  <1>2. /\ Size(m)' = Size(m') /\ Elements(m)' = Elements(m') /\ Used(m)' = Used(m')
        /\ Numbers(m)' <=> Numbers(m')
        /\ IsHollow(m)' <=> IsHollow(m')
    BY <1>1 DEF Size, Elements, UnitsOf, Used, Numbers, IsHollow, At
  <1>3. ASSUME NEW i PROVE Offset(m, i)' = Offset(m', i)
    BY <1>1 DEF Offset
  <1>4. ASSUME NEW a
        PROVE  (Whole(d, a)' <=> Whole(d', a)) /\ EndAt(d, a)' = EndAt(d', a)
    BY <1>1 DEF Whole, EndAt, Width, UnitsOf
  <1> HIDE DEF d, m
  <1>5. (Laid(m, d)' <=> Laid(m', d')) /\ (NoStray(m, d)' <=> NoStray(m', d'))
    BY <1>2, <1>3, <1>4 DEF Laid, NoStray
  <1>6. Sound(m', heap')
    BY DEF m
  <1>7. (Laid(m, heap[m.block].cells)' <=> Laid(m', heap'[m'.block].cells))
        /\ (NoStray(m, heap[m.block].cells)' <=> NoStray(m', heap'[m'.block].cells))
    BY <1>5 DEF d
  <1>8. Sound(m, heap)'
    BY <1>1, <1>2, <1>6, <1>7 DEF Sound
  <1> QED
    BY <1>8 DEF m

(* Everything alive takes at least one unit.                                *)
LEMMA Widths ==
  ASSUME NEW x \in Things
  PROVE  Width(x) \in Nat /\ Width(x) >= 1
  BY SizesAssumption DEF Width, Things

LEMMA SizeIsNat ==
  ASSUME NEW m, Numbers(m)
  PROVE  Size(m) \in Nat /\ \A i \in Elements(m) : i \in Nat /\ i < Size(m)
  BY DEF Numbers, Size, Elements, UnitsOf

(* An element is found where the locator leads.                             *)
LEMMA ElementFound ==
  ASSUME NEW m, Sound(m, heap), m.block # Null, m.block \in DOMAIN heap, NEW i \in Elements(m)
  PROVE  /\ Base(m) = m.block
         /\ ElementAt(m, i) = Thing(m, heap, i)
         /\ Thing(m, heap, i) \in Things
         /\ \A c : c \in Extent(m, i) <=>
              c \in Int /\ Offset(m, i) <= c /\ c < EndAt(heap[m.block].cells, Offset(m, i))
  <1> DEFINE d == heap[m.block].cells
             a == Offset(m, i)
             x == d[a][1]
  <1>1. Base(m) = m.block
    BY DEF Sound, Base
  <1>2. a \in Nat /\ Whole(d, a)
    BY DEF Sound, Laid
  <1>3. /\ x \in Things /\ a \in DOMAIN d
        /\ \A k \in UnitsOf(Width(x)) : a + k \in DOMAIN d /\ d[a + k] = <<x, k>>
    BY <1>2 DEF Whole
  <1>4. Width(x) \in Nat /\ Width(x) >= 1
    BY <1>3, Widths
  <1>5. d[a] = <<x, 0>>
    <2>1. 0 \in UnitsOf(Width(x)) /\ a + 0 = a
      BY <1>2, <1>4 DEF UnitsOf
    <2> QED
      BY <1>3, <2>1
  <1>6. Cell(m, a) = <<x, 0>> /\ <<x, 0>> # Raw /\ Cell(m, a)[1] = x
    BY <1>1, <1>3, <1>5, NamesAssumption DEF Cell, Things
  <1>7. \A k \in UnitsOf(Width(x)) : Cell(m, a + k) = <<x, k>>
    BY <1>1, <1>3 DEF Cell
  <1>8. ElementAt(m, i) = x
    BY <1>6, <1>7 DEF ElementAt
  <1>9. x \in Value \/ (x = Moved /\ x \notin Value /\ Width(x) = 1)
    BY <1>3, NamesAssumption DEF Things, Width
  <1>10. Extent(m, i) = a .. a + Width(x) - 1
    <2>1. CASE x \in Value
      BY <1>8, <2>1 DEF Extent
    <2>2. CASE x \notin Value
      <3>1. Width(x) = 1 /\ Extent(m, i) = a .. a + 1 - 1
        BY <1>8, <1>9, <2>2 DEF Extent
      <3> QED
        BY <3>1
    <2> QED
      BY <2>1, <2>2
  <1> QED
    BY <1>1, <1>2, <1>3, <1>4, <1>8, <1>10 DEF Thing, EndAt

(* What a caller finds.                                                     *)
LEMMA FoundValue ==
  ASSUME OwnInv, AllSound, NEW v \in DOMAIN vectors
  PROVE  Found[v] = ValueOf(vectors[v], heap)
  <1> DEFINE m == vectors[v]
  <1>1. Found[v] = Contents(m)
    BY DEF Found
  <1>2. Sound(m, heap) /\ Numbers(m)
    BY DEF AllSound, Sound
  <1>3. m.block # Null => m.block \in DOMAIN heap
    BY DEF OwnInv, OneOwner
  <1>4. ASSUME m.block = Null, ~ IsHollow(m)
        PROVE  Size(m) = 0
    BY <1>2, <1>4 DEF Sound, IsHollow, Size
  <1>5. Size(m) \in Nat /\ Elements(m) = 0 .. Size(m) - 1
    BY <1>2, SizeIsNat DEF Elements, UnitsOf
  <1>6. ASSUME ~ IsHollow(m), NEW i \in Elements(m)
        PROVE  ElementAt(m, i) = Thing(m, heap, i)
    BY <1>2, <1>3, <1>4, <1>5, <1>6, ElementFound
  <1>7. ASSUME NEW k \in 1 .. Size(m)
        PROVE  k - 1 \in Elements(m)
    BY <1>5
  <1> HIDE DEF m
  <1>8. CASE IsHollow(m)
    BY <1>1, <1>8 DEF Contents, ValueOf, m
  <1>9. CASE ~ IsHollow(m)
    <2>1. (\E i \in Elements(m) : ElementAt(m, i) = Moved) <=> HasMoved(m, heap)
      BY <1>6, <1>9 DEF HasMoved
    <2>2. [k \in 1 .. Size(m) |-> ElementAt(m, k - 1)] = ThingsOf(m, heap)
      BY <1>6, <1>7, <1>9 DEF ThingsOf
    <2> QED
      BY <1>1, <1>9, <2>1, <2>2 DEF Contents, ValueOf, m
  <1> QED
    BY <1>8, <1>9 DEF m

(* The same without parameters, so that it can be primed.                   *)
LEMMA FoundValueForm ==
  OwnInv /\ AllSound => \A v \in DOMAIN vectors : Found[v] = ValueOf(vectors[v], heap)
  BY FoundValue

LEMMA FoundValueNext ==
  (OwnInv /\ AllSound => \A v \in DOMAIN vectors : Found[v] = ValueOf(vectors[v], heap))'
  BY FoundValueForm, PTL

(* contents behind a step is read from the members and the heap behind it.  *)
LEMMA ValueNext ==
  ASSUME UNCHANGED kind, OwnInv', AllSound', contents' = Found', NEW v \in DOMAIN vectors'
  PROVE  contents'[v] = ValueOf(vectors'[v], heap')
  <1>1. contents'[v] = ValueOf(vectors[v], heap)'
    BY FoundValueNext
  <1> QED
    BY <1>1 DEF ValueOf, IsHollow, HasMoved, ThingsOf, Thing, Elements, UnitsOf, Size, Offset,
           At, Varying

(* Soundness and value depend on the members and the memory of a vector.    *)
LEMMA SameSound ==
  ASSUME NEW m, NEW n, NEW h, NEW g,
         n.block = m.block, n.units = m.units, n.max_element_count = m.max_element_count,
         n.element_count = m.element_count, n.stride = m.stride, n.table = m.table,
         n.edge = m.edge,
         m.block # Null => g[m.block].cells = h[m.block].cells,
         Sound(m, h)
  PROVE  Sound(n, g) /\ ValueOf(n, g) = ValueOf(m, h)
  <1>1. /\ Size(n) = Size(m) /\ Elements(n) = Elements(m)
        /\ \A i : Offset(n, i) = Offset(m, i)
        /\ Used(n) = Used(m) /\ (IsHollow(n) <=> IsHollow(m))
        /\ Numbers(n) <=> Numbers(m)
    BY DEF Size, Elements, Offset, Used, IsHollow, Numbers
  <1>2. m.block # Null => /\ Laid(n, g[n.block].cells) <=> Laid(m, h[m.block].cells)
                          /\ NoStray(n, g[n.block].cells) <=> NoStray(m, h[m.block].cells)
    BY <1>1 DEF Laid, NoStray
  <1>3. Sound(n, g)
    BY <1>1, <1>2 DEF Sound
  <1>4. ~ IsHollow(m) /\ m.block = Null => Size(m) = 0 /\ Elements(m) = {}
    BY DEF Sound, IsHollow, Size, Elements, UnitsOf
  <1>5. ~ IsHollow(m) => /\ HasMoved(n, g) <=> HasMoved(m, h)
                         /\ ThingsOf(n, g) = ThingsOf(m, h)
    <2>1. CASE m.block = Null
      BY <1>1, <1>4, <2>1 DEF HasMoved, ThingsOf
    <2>2. CASE m.block # Null
      BY <1>1, <2>2 DEF HasMoved, ThingsOf, Thing
    <2> QED
      BY <2>1, <2>2
  <1> QED
    BY <1>1, <1>3, <1>5 DEF ValueOf

-----------------------------------------------------------------------------
(* v gets the value s, the others keep theirs.                              *)
Gives(v, s) ==
  /\ DOMAIN vectors' = DOMAIN vectors \cup {v}
  /\ \A x \in DOMAIN vectors' :
       ValueOf(vectors'[x], heap') = IF x = v THEN s ELSE ValueOf(vectors[x], heap)

Untouched(v) == \A b \in DOMAIN heap \ {BlockOf(v)} : heap'[b].cells = heap[b].cells

(* A vector whose memory a call does not write to.                          *)
LEMMA OtherSound ==
  ASSUME Inv, NEW v, Untouched(v), NEW x \in DOMAIN vectors, x # v
  PROVE  /\ Sound(vectors[x], heap')
         /\ ValueOf(vectors[x], heap') = ValueOf(vectors[x], heap)
  <1>1. Sound(vectors[x], heap)
    BY DEF Inv, AllSound
  <1>2. vectors[x].block # Null => vectors[x].block \in DOMAIN heap \ {BlockOf(v)}
    BY DEF Inv, OwnInv, OneOwner, BlockOf
  <1>3. vectors[x].block # Null => heap'[vectors[x].block].cells = heap[vectors[x].block].cells
    BY <1>2 DEF Untouched
  <1> QED
    BY <1>1, <1>3, SameSound

(* v gets new members and memory; the other vectors are left alone.         *)
LEMMA OthersSound ==
  ASSUME Inv, UNCHANGED kind, NEW v, NEW m, vectors' = Set(v, m), Sound(m, heap'), Untouched(v)
  PROVE  AllSound' /\ Gives(v, ValueOf(m, heap'))
  <1>1. /\ DOMAIN vectors' = DOMAIN vectors \cup {v}
        /\ \A x \in DOMAIN vectors' : vectors'[x] = IF x = v THEN m ELSE vectors[x]
    BY DEF Set
  <1>2. ASSUME NEW x \in DOMAIN vectors, x # v
        PROVE  /\ Sound(vectors[x], heap')
               /\ ValueOf(vectors[x], heap') = ValueOf(vectors[x], heap)
    BY <1>2, OtherSound
  <1>3. AllSound'
    BY <1>1, <1>2, SoundNext
  <1> QED
    BY <1>1, <1>2, <1>3 DEF Gives

(* The copy of a vector's elements and locator, wherever they fit.          *)
LEMMA CopiedSound ==
  ASSUME Inv, NEW w \in DOMAIN vectors, NEW o, o = vectors[w], ~ IsHollow(o),
         NEW n, n.block \in Block, n.edge = <<n.block, IF Varying THEN Used(o) ELSE 0>>,
         n.units \in Nat, Used(o) <= n.units,
         n.max_element_count \in Nat, o.max_element_count <= n.max_element_count,
         ~ Varying /\ o.stride = 0 => n.max_element_count = 0,
         n.element_count = o.element_count, n.stride = o.stride, n.table = o.table,
         NEW h, h[n.block].cells = Copied(o, n.units)
  PROVE  Sound(n, h) /\ ValueOf(n, h) = ValueOf(o, heap)
  <1> DEFINE d == h[n.block].cells
             c == heap[o.block].cells
  <1>0. /\ Sound(o, heap)
        /\ o.block # Null => o.block \in DOMAIN heap /\ o.block \in Block
    BY DEF Inv, AllSound, OwnInv, OneOwner, IsHeap
  <1>1. Numbers(o) /\ Numbers(n)
    BY <1>0 DEF Sound, Numbers
  <1>2. /\ Size(n) = Size(o) /\ Elements(n) = Elements(o)
        /\ Size(o) \in Nat /\ Elements(o) = 0 .. Size(o) - 1
    BY <1>1, SizeIsNat DEF Size, Elements, UnitsOf
  <1>3. CASE o.block = Null
    <2>1. o.edge = Null /\ o.table = << >> /\ o.element_count = 0
      BY <1>0, <1>3 DEF Sound, IsHollow
    <2>2. Used(o) = 0 /\ Size(o) = 0 /\ Elements(o) = {}
      BY <1>2, <2>1 DEF Size, Used
    <2>3. n.edge = <<n.block, 0>> /\ n.edge # Null
      BY <2>2, NamesAssumption
    <2>4. Used(n) = 0
      BY <1>1, <1>2, <2>1, <2>3 DEF Used, Numbers
    <2>5. ~ IsHollow(n)
      BY <2>3, NamesAssumption DEF IsHollow, At
    <2>6. \A i \in DOMAIN d : d[i] = Raw
      BY <2>2 DEF Copied, UnitsOf
    <2>7. Laid(n, d) /\ NoStray(n, d)
      BY <1>2, <2>2, <2>4, <2>6 DEF Laid, NoStray
    <2>8. Sound(n, h)
      BY <1>1, <2>3, <2>4, <2>5, <2>7, NamesAssumption DEF Sound
    <2>9. ValueOf(n, h) = ValueOf(o, heap)
      BY <1>2, <2>2, <2>5 DEF ValueOf, HasMoved, ThingsOf
    <2> QED
      BY <2>8, <2>9
  <1>4. CASE o.block # Null
    <2>0. /\ o.edge = <<o.block, o.edge[2]>> /\ o.edge[2] \in Nat
          /\ ~ Varying => o.edge[2] = 0
          /\ Used(o) <= o.units /\ Laid(o, c) /\ (NonTrivial => NoStray(o, c))
      BY <1>0, <1>4 DEF Sound
    <2>1. o.edge # Null /\ o.edge[1] = o.block /\ o.block \in DOMAIN heap
      BY <1>0, <1>4, <2>0, NamesAssumption
    <2>2. Base(o) = o.block
      BY <2>0, <2>1 DEF Base
    <2>30. Used(o) \in Nat
      BY <2>0, <2>1 DEF Laid
    <2>3. /\ n.edge # Null /\ n.edge[1] = n.block
          /\ n.edge = <<n.block, n.edge[2]>> /\ n.edge[2] \in Nat
          /\ n.edge[2] = IF Varying THEN Used(o) ELSE 0
      BY <2>30, NamesAssumption
    <2>4. Used(n) = Used(o) /\ \A i : Offset(n, i) = Offset(o, i)
      BY <2>0, <2>1, <2>3 DEF Used, Offset
    <2>5. DOMAIN d = UnitsOf(n.units)
          /\ \A i \in DOMAIN d : d[i] = IF i < Used(o) THEN Cell(o, i) ELSE Raw
      BY DEF Copied
    <2>6. Used(o) \in Nat
      BY <2>0, <2>1 DEF Laid
    <2>7. \A i \in DOMAIN c : Cell(o, i) = c[i]
      BY <2>0, <2>1, <2>2 DEF Cell
    <2> HIDE DEF d, c
    <2>8. ASSUME NEW i \in Elements(o)
          PROVE  /\ Whole(d, Offset(o, i))
                 /\ d[Offset(o, i)] = c[Offset(o, i)]
                 /\ EndAt(d, Offset(o, i)) = EndAt(c, Offset(o, i))
      <3> DEFINE a == Offset(o, i)
                 x == c[a][1]
      <3>1. a \in Nat /\ Whole(c, a) /\ a + Width(x) <= Used(o)
        BY <2>0, <2>1 DEF Laid, EndAt
      <3>2. x \in Things /\ Width(x) \in Nat /\ Width(x) >= 1 /\ a \in DOMAIN c
        BY <3>1, Widths DEF Whole
      <3>3. ASSUME NEW k \in UnitsOf(Width(x))
            PROVE  a + k \in DOMAIN d /\ d[a + k] = c[a + k] /\ c[a + k] = <<x, k>>
        <4>1. a + k \in DOMAIN c /\ c[a + k] = <<x, k>> /\ k \in Nat /\ k < Width(x)
          BY <3>1, <3>2 DEF Whole, UnitsOf
        <4>2. a + k \in DOMAIN d /\ a + k < Used(o)
          BY <2>5, <2>6, <3>1, <3>2, <4>1 DEF UnitsOf
        <4> QED
          BY <2>5, <2>7, <4>1, <4>2
      <3>4. a \in DOMAIN d /\ d[a] = c[a]
        <4>1. 0 \in UnitsOf(Width(x)) /\ a + 0 = a
          BY <3>1, <3>2 DEF UnitsOf
        <4> QED
          BY <3>3, <4>1
      <3> QED
        BY <3>2, <3>3, <3>4 DEF Whole, EndAt
    <2>9. Laid(n, d)
      BY <1>2, <2>0, <2>1, <2>4, <2>8 DEF Laid
    <2>10. NonTrivial => NoStray(n, d)
      <3> SUFFICES ASSUME NonTrivial, NEW i \in DOMAIN d, d[i] # Raw
                   PROVE  \E j \in Elements(o) : Offset(o, j) <= i /\ i < EndAt(d, Offset(o, j))
        BY <1>2, <2>4 DEF NoStray
      <3>1. d[i] = Cell(o, i)
        BY <2>5
      <3>2. i \in DOMAIN c /\ c[i] # Raw
        BY <2>0, <2>1, <2>2, <3>1 DEF Cell, c
      <3> QED
        BY <2>0, <2>1, <2>8, <3>2 DEF NoStray
    <2>11. IsHollow(n) <=> IsHollow(o)
      <3>1. n.block # Null /\ At(n.block, 0) = <<n.block, 0>> /\ At(o.block, 0) = <<o.block, 0>>
        BY <1>4, NamesAssumption DEF At
      <3>2. Varying => n.edge[2] = o.edge[2] /\ n.edge = <<n.block, n.edge[2]>>
        BY <2>0, <2>1 DEF Used
      <3> QED
        BY <1>4, <2>0, <2>1, <3>1, <3>2 DEF IsHollow
    <2>12. Sound(n, h)
      BY <1>1, <2>0, <2>1, <2>3, <2>4, <2>9, <2>10, <2>11, NamesAssumption DEF Sound, d
    <2>13. \A i \in Elements(o) : Thing(n, h, i) = Thing(o, heap, i)
      BY <2>4, <2>8 DEF Thing, d, c
    <2>14. (HasMoved(n, h) <=> HasMoved(o, heap)) /\ ThingsOf(n, h) = ThingsOf(o, heap)
      <3>1. \A k \in 1 .. Size(o) : k - 1 \in Elements(o)
        BY <1>2
      <3> QED
        BY <1>2, <2>13, <3>1 DEF HasMoved, ThingsOf
    <2> QED
      BY <2>11, <2>12, <2>14 DEF ValueOf
  <1> QED
    BY <1>3, <1>4

(* A vector without elements that is not hollow is empty.                   *)
LEMMA EmptyValue ==
  ASSUME NEW m, NEW h, Size(m) = 0, ~ IsHollow(m)
  PROVE  ValueOf(m, h) = << >>
  BY DEF ValueOf, HasMoved, ThingsOf, Elements, UnitsOf

(* A vector with memory, and its locator.                                   *)
LEMMA InMemory ==
  ASSUME Inv, NEW v \in DOMAIN vectors, vectors[v].block # Null
  PROVE  LET m == vectors[v]
             d == heap[m.block].cells
         IN  /\ m.block \in DOMAIN heap /\ m.block \in Block /\ Base(m) = m.block
             /\ m.edge # Null /\ m.edge[1] = m.block
             /\ m.edge = <<m.block, m.edge[2]>> /\ m.edge[2] \in Nat
             /\ ~ Varying => m.edge[2] = 0
             /\ m.units \in Nat /\ DOMAIN d = UnitsOf(m.units)
             /\ Used(m) \in Nat /\ Used(m) <= m.units
             /\ Laid(m, d) /\ (NonTrivial => ~ IsHollow(m) /\ NoStray(m, d))
  <1> DEFINE m == vectors[v]
             d == heap[m.block].cells
  <1>1. /\ m.block \in DOMAIN heap /\ m.block \in Block
        /\ DOMAIN d = UnitsOf(m.units)
    BY DEF Inv, OwnInv, OneOwner, IsHeap, AllFit, Fits
  <1>2. Sound(m, heap)
    BY DEF Inv, AllSound
  <1>3. /\ m.edge = <<m.block, m.edge[2]>> /\ m.edge[2] \in Nat
        /\ ~ Varying => m.edge[2] = 0
        /\ Used(m) <= m.units /\ Laid(m, d)
        /\ NonTrivial => ~ IsHollow(m) /\ NoStray(m, d)
    BY <1>2 DEF Sound
  <1>4. m.edge # Null /\ m.edge[1] = m.block
    BY <1>1, <1>3, NamesAssumption
  <1>5. Used(m) \in Nat /\ m.units \in Nat
    BY <1>2, <1>3 DEF Laid, Sound, Numbers
  <1> QED
    BY <1>1, <1>3, <1>4, <1>5 DEF Base

(* Without memory there are no elements, but after a move.                  *)
LEMMA WithoutMemory ==
  ASSUME Inv, NEW v \in DOMAIN vectors, vectors[v].block = Null, ~ IsHollow(vectors[v])
  PROVE  LET m == vectors[v]
         IN  /\ m.edge = Null /\ m.table = << >> /\ m.element_count = 0
             /\ m.max_element_count = 0
             /\ Size(m) = 0 /\ Elements(m) = {} /\ Used(m) = 0
  BY DEF Inv, AllSound, Sound, IsHollow, Size, Elements, UnitsOf, Used

(* The indices of a vector's elements.                                      *)
LEMMA NumbersOf ==
  ASSUME Inv, NEW v \in DOMAIN vectors
  PROVE  LET m == vectors[v]
         IN  /\ Numbers(m) /\ Size(m) \in Nat /\ Elements(m) = 0 .. Size(m) - 1
             /\ \A i \in Elements(m) : i \in Nat /\ i < Size(m)
             /\ \A k \in 1 .. Size(m) : k - 1 \in Elements(m)
  <1>1. Numbers(vectors[v])
    BY DEF Inv, AllSound, Sound
  <1>2. Size(vectors[v]) \in Nat /\ Elements(vectors[v]) = 0 .. Size(vectors[v]) - 1
    BY <1>1, SizeIsNat DEF Elements, UnitsOf
  <1> QED
    BY <1>1, <1>2

(* A vector that a careful caller uses.                                     *)
LEMMA UsableVectors ==
  ASSUME Inv, Careful, NEW v, Usable(v)
  PROVE  /\ v \in DOMAIN vectors
         /\ ~ IsHollow(vectors[v]) /\ ~ HasMoved(vectors[v], heap)
         /\ contents[v] = ValueOf(vectors[v], heap)
         /\ contents[v] = ThingsOf(vectors[v], heap)
         /\ contents[v] \in Seq(Value)
  <1>1. v \in DOMAIN vectors /\ contents[v] # Unspecified
    BY DEF Usable, Careful
  <1>2. contents[v] = ValueOf(vectors[v], heap)
    BY <1>1, FoundValue DEF Inv
  <1>3. ~ IsHollow(vectors[v]) /\ ~ HasMoved(vectors[v], heap)
    BY <1>1, <1>2 DEF ValueOf
  <1> DEFINE m == vectors[v]
  <1>4. \A k \in 1 .. Size(m) : ThingsOf(m, heap)[k] \in Value
    <2> SUFFICES ASSUME NEW k \in 1 .. Size(m) PROVE ThingsOf(m, heap)[k] \in Value
      OBVIOUS
    <2>1. k - 1 \in Elements(m) /\ Size(m) # 0
      BY <1>1, NumbersOf
    <2>2. m.block # Null
      BY <1>1, <1>3, <2>1, WithoutMemory
    <2>3. ThingsOf(m, heap)[k] = Thing(m, heap, k - 1)
      BY DEF ThingsOf
    <2>4. m.block \in DOMAIN heap /\ Sound(m, heap)
      BY <1>1, <2>2, InMemory DEF Inv, AllSound
    <2>5. Thing(m, heap, k - 1) \in Things
      BY <2>1, <2>2, <2>4, ElementFound
    <2> QED
      BY <1>3, <2>1, <2>3, <2>5 DEF HasMoved, Things
  <1>5. Size(m) \in Nat
    BY <1>1, NumbersOf
  <1>6. ThingsOf(m, heap) \in [1 .. Size(m) -> Value]
    BY <1>4 DEF ThingsOf
  <1>7. ThingsOf(m, heap) \in Seq(Value)
    BY <1>5, <1>6
  <1> QED
    BY <1>1, <1>2, <1>3, <1>7 DEF ValueOf

(* Destructors and moves find their objects.                                *)
LEMMA ElementsExist ==
  ASSUME Inv, NEW v \in DOMAIN vectors, vectors[v].block # Null \/ ~ IsHollow(vectors[v]),
         NEW S, S \subseteq Elements(vectors[v])
  PROVE  Exist(vectors[v], S)
  <1> DEFINE m == vectors[v]
  <1> SUFFICES ASSUME NEW i \in S PROVE ElementAt(m, i) # Raw
    BY DEF Exist
  <1>1. i \in Elements(m)
    OBVIOUS
  <1>2. m.block # Null
    BY <1>1, WithoutMemory
  <1>3. m.block \in DOMAIN heap /\ Sound(m, heap)
    BY <1>2, InMemory DEF Inv, AllSound
  <1>4. ElementAt(m, i) \in Things
    BY <1>1, <1>2, <1>3, ElementFound
  <1> QED
    BY <1>4, NamesAssumption DEF Things

(* insert_into can copy the elements.                                       *)
LEMMA CopyableVectors ==
  ASSUME Inv, NEW v \in DOMAIN vectors, ~ IsHollow(vectors[v])
  PROVE  MayCopy(vectors[v])
  <1> DEFINE m == vectors[v]
  <1>1. Exist(m, Elements(m))
    BY ElementsExist
  <1>2. ASSUME Used(m) > 0
        PROVE  IsBacked(m)
    <2>1. m.block # Null
      BY <1>2, WithoutMemory
    <2>2. /\ Base(m) = m.block /\ m.block \in DOMAIN heap
          /\ DOMAIN heap[m.block].cells = UnitsOf(m.units)
          /\ Used(m) \in Nat /\ m.units \in Nat /\ Used(m) <= m.units
      BY <2>1, InMemory
    <2> QED
      BY <2>2 DEF IsBacked, UnitsOf
  <1> QED
    BY <1>1, <1>2 DEF MayCopy

(* The allocator and the units of a vector are those of its memory.         *)
LEMMA MayGiveBack ==
  ASSUME Inv, NEW v \in DOMAIN vectors
  PROVE  MayDeallocate(vectors[v], vectors[v].allocator)
  BY DEF Inv, OwnInv, AllFit, Fits, MayDeallocate

-----------------------------------------------------------------------------
(* Calls, one lemma each, from the constructors on.                         *)
LEMMA ConstructDefaultSound ==
  ASSUME Inv, Careful, UNCHANGED kind, NEW v \in Vector, NEW a, ConstructDefault(v, a)
  PROVE  Defined /\ AllSound' /\ Gives(v, << >>) /\ v \notin DOMAIN vectors
  <1> DEFINE m == [max_element_count |-> 0, block |-> Null, units |-> 0,
                   allocator |-> a, element_count |-> 0, stride |-> 0,
                   table |-> << >>, edge |-> Null]
  <1>1. v \notin DOMAIN vectors /\ vectors' = Set(v, m) /\ heap' = heap /\ Defined
    BY DEF ConstructDefault
  <1>2. Sound(m, heap')
    BY DEF Sound, Numbers
  <1>3. Size(m) = 0 /\ ~ IsHollow(m)
    BY DEF Size, IsHollow, At
  <1>4. ValueOf(m, heap') = << >>
    BY <1>3, EmptyValue
  <1>5. Untouched(v)
    BY <1>1 DEF Untouched
  <1> HIDE DEF m
  <1> QED
    BY <1>1, <1>2, <1>4, <1>5, OthersSound

LEMMA ConstructSound ==
  ASSUME Inv, Careful, UNCHANGED kind, NEW v \in Vector, NEW n \in Nat, NEW bytes \in Nat,
         NEW a, Construct(v, n, bytes, a)
  PROVE  Defined /\ AllSound' /\ Gives(v, << >>) /\ v \notin DOMAIN vectors
  <1> DEFINE units == NeededUnits(n, bytes, 1)
             cells == [c \in UnitsOf(units) |-> Raw]
             m == [max_element_count |-> n, block |-> Fresh, units |-> units,
                   allocator |-> a, element_count |-> 0,
                   stride |-> IF Varying THEN 0 ELSE 1,
                   table |-> << >>, edge |-> <<Fresh, 0>>]
  <1>1. /\ v \notin DOMAIN vectors /\ vectors' = Set(v, m) /\ Defined
        /\ heap' = Allocate(heap, Fresh, a, cells)
    BY DEF Construct
  <1>2. Fresh \in Block /\ Fresh \notin DOMAIN heap /\ Fresh # Null
    BY FreshIsFree DEF Inv
  <1>3. units \in Nat
    BY DEF NeededUnits
  <1>4. AllocatedIn(heap, Fresh, a, cells, heap')
    BY <1>1, <1>2, AllocateHeap DEF Inv, OwnInv
  <1>5. heap'[Fresh].cells = cells
    BY <1>4 DEF AllocatedIn
  <1>6. /\ m.block = Fresh /\ m.units = units /\ m.edge = <<Fresh, 0>> /\ m.table = << >>
        /\ m.element_count = 0 /\ m.max_element_count = n
        /\ ~ Varying => m.stride = 1
    OBVIOUS
  <1> HIDE DEF m, units
  <1>7. m.edge # Null /\ m.edge[1] = Fresh /\ m.edge[2] = 0
    BY <1>2, <1>6, NamesAssumption
  <1>8. Numbers(m)
    BY <1>3, <1>6 DEF Numbers
  <1>9. Size(m) = 0 /\ Elements(m) = {} /\ Used(m) = 0 /\ ~ IsHollow(m)
    BY <1>2, <1>6, <1>7 DEF Size, Elements, UnitsOf, Used, IsHollow, At
  <1>10. Laid(m, cells) /\ NoStray(m, cells)
    BY <1>9 DEF Laid, NoStray
  <1>11. Sound(m, heap')
    BY <1>2, <1>3, <1>5, <1>6, <1>7, <1>8, <1>9, <1>10 DEF Sound
  <1>12. ValueOf(m, heap') = << >>
    BY <1>9, EmptyValue
  <1>13. Untouched(v)
    BY <1>1, <1>2 DEF Untouched, Allocate
  <1> QED
    BY <1>1, <1>11, <1>12, <1>13, OthersSound

LEMMA DestructSound ==
  ASSUME Inv, Careful, UNCHANGED kind, NEW v \in Vector, Destruct(v)
  PROVE  /\ Defined /\ AllSound' /\ v \in DOMAIN vectors
         /\ DOMAIN vectors' = DOMAIN vectors \ {v}
         /\ \A x \in DOMAIN vectors' :
              ValueOf(vectors'[x], heap') = ValueOf(vectors[x], heap)
  <1> DEFINE m == vectors[v]
  <1>1. v \in DOMAIN vectors
    BY DEF Destruct
  <1>2. m.block # Null => Exist(m, Elements(m))
    BY <1>1, ElementsExist
  <1>3. MayDeallocate(m, m.allocator)
    BY <1>1, MayGiveBack
  <1>4. /\ vectors' = [x \in DOMAIN vectors \ {v} |-> vectors[x]]
        /\ heap' = Deallocate(heap, m.block)
        /\ Defined
    BY <1>2, <1>3 DEF Destruct
  <1>5. Untouched(v)
    BY <1>1, <1>4 DEF Untouched, Deallocate, BlockOf
  <1>6. /\ DOMAIN vectors' = DOMAIN vectors \ {v}
        /\ \A x \in DOMAIN vectors' : vectors'[x] = vectors[x]
    BY <1>4
  <1>7. ASSUME NEW x \in DOMAIN vectors, x # v
        PROVE  /\ Sound(vectors[x], heap')
               /\ ValueOf(vectors[x], heap') = ValueOf(vectors[x], heap)
    BY <1>5, <1>7, OtherSound
  <1> QED
    BY <1>1, <1>4, <1>6, <1>7, SoundNext

-----------------------------------------------------------------------------
(* The memory of v is written to, and v says what is in it.                 *)
LEMMA RewrittenSound ==
  ASSUME Inv, UNCHANGED kind, NEW v \in DOMAIN vectors, vectors[v].block # Null, NEW d,
         heap' = [heap EXCEPT ![vectors[v].block].cells = d],
         NEW n, vectors' = Set(v, n), Numbers(n),
         n.block = vectors[v].block, n.units = vectors[v].units,
         n.edge = <<n.block, n.edge[2]>>, n.edge[2] \in Nat, ~ Varying => n.edge[2] = 0,
         Used(n) <= n.units, Laid(n, d),
         NonTrivial => ~ IsHollow(n) /\ NoStray(n, d)
  PROVE  AllSound' /\ heap'[n.block].cells = d /\ Gives(v, ValueOf(n, heap'))
  <1> DEFINE b == vectors[v].block
  <1>1. b \in DOMAIN heap
    BY InMemory
  <1>2. IsHeap(heap)
    BY DEF Inv, OwnInv
  <1>3. heap'[b].cells = d /\ \A c \in DOMAIN heap \ {b} : heap'[c] = heap[c]
    BY <1>1, <1>2 DEF IsHeap, IsAllocation
  <1>4. Sound(n, heap')
    BY <1>3 DEF Sound
  <1>5. Untouched(v)
    BY <1>3 DEF Untouched, BlockOf
  <1> QED
    BY <1>3, <1>4, <1>5, OthersSound

(* Elements of one size lie at their index.                                 *)
LEMMA FixedOffsets ==
  ASSUME Inv, ~ Varying, NEW v \in DOMAIN vectors, vectors[v].block # Null
  PROVE  LET m == vectors[v]
         IN  /\ Size(m) = m.element_count /\ Used(m) = m.element_count
             /\ m.max_element_count > 0 => m.stride = 1
             /\ m.element_count > 0 => m.stride = 1
             /\ \A i \in Elements(m) : Offset(m, i) = i
  <1> DEFINE m == vectors[v]
  <1>1. Numbers(m) /\ m.edge # Null /\ m.edge[2] = 0
    BY InMemory, NumbersOf
  <1>2. m.stride \in {0, 1} /\ (m.stride = 0 => m.element_count = 0 /\ m.max_element_count = 0)
        /\ m.element_count \in Nat /\ m.max_element_count \in Nat
        /\ m.element_count <= m.max_element_count
    BY <1>1 DEF Numbers
  <1>3. Size(m) = m.element_count /\ Elements(m) = 0 .. m.element_count - 1
    BY DEF Size, Elements, UnitsOf
  <1>4. Used(m) = m.stride * m.element_count
    BY <1>1 DEF Used
  <1>5. m.stride * m.element_count = m.element_count
    BY <1>2
  <1>6. ASSUME NEW i \in Elements(m) PROVE Offset(m, i) = i
    <2>1. m.stride = 1 /\ Offset(m, i) = 0 + 1 * i /\ i \in Nat
      BY <1>1, <1>2, <1>3 DEF Offset
    <2> QED
      BY <2>1
  <1>7. Used(m) = m.element_count
    BY <1>4, <1>5
  <1> HIDE DEF m
  <1>8. /\ Size(m) = m.element_count /\ Used(m) = m.element_count
        /\ m.max_element_count > 0 => m.stride = 1
        /\ m.element_count > 0 => m.stride = 1
        /\ \A i \in Elements(m) : Offset(m, i) = i
    BY <1>2, <1>3, <1>6, <1>7
  <1> QED
    BY <1>8 DEF m

(* What the cells of an element do not touch stays.                         *)
LEMMA SameWhole ==
  ASSUME NEW d, NEW g, NEW a \in Int, NEW b \in Int, Whole(d, a),
         \A c \in DOMAIN d : c \in Int /\ a <= c /\ c < EndAt(d, a) =>
           c + (b - a) \in DOMAIN g /\ g[c + (b - a)] = d[c]
  PROVE  /\ Whole(g, b) /\ b \in DOMAIN g /\ g[b] = d[a]
         /\ EndAt(g, b) = EndAt(d, a) + (b - a)
  <1> DEFINE x == d[a][1]
  <1>1. x \in Things /\ Width(x) \in Nat /\ Width(x) >= 1 /\ a \in DOMAIN d
        /\ \A k \in UnitsOf(Width(x)) : a + k \in DOMAIN d /\ d[a + k] = <<x, k>>
    BY Widths DEF Whole
  <1>2. ASSUME NEW k \in UnitsOf(Width(x))
        PROVE  b + k \in DOMAIN g /\ g[b + k] = <<x, k>>
    <2>1. k \in Nat /\ k < Width(x) /\ a + k \in DOMAIN d /\ d[a + k] = <<x, k>>
      BY <1>1 DEF UnitsOf
    <2>2. a + k \in Int /\ a <= a + k /\ a + k < EndAt(d, a) /\ (a + k) + (b - a) = b + k
      BY <1>1, <2>1 DEF EndAt
    <2> QED
      BY <2>1, <2>2
  <1>3. b \in DOMAIN g /\ g[b] = d[a]
    <2>1. 0 \in UnitsOf(Width(x)) /\ a + 0 = a /\ b + 0 = b
      BY <1>1 DEF UnitsOf
    <2> QED
      BY <1>1, <1>2, <2>1
  <1> QED
    BY <1>1, <1>2, <1>3 DEF Whole, EndAt

(* Sequences element by element.                                            *)
LEMMA AppendIs ==
  ASSUME NEW S, NEW n \in Nat, NEW s \in [1 .. n -> S], NEW e \in S,
         NEW t \in [1 .. n + 1 -> S], \A k \in 1 .. n : t[k] = s[k], t[n + 1] = e
  PROVE  t = Append(s, e)
  <1>1. s \in Seq(S) /\ Len(s) = n /\ t \in Seq(S) /\ Len(t) = n + 1
    OBVIOUS
  <1>2. Append(s, e) \in Seq(S) /\ Len(Append(s, e)) = n + 1
    BY <1>1
  <1>3. \A k \in 1 .. n + 1 : Append(s, e)[k] = t[k]
    BY <1>1
  <1> QED
    BY <1>1, <1>2, <1>3

(* emplace_back: one more element behind the last, where there is room.     *)
LEMMA EmplaceBackSound ==
  ASSUME Inv, Careful, UNCHANGED kind, NEW v \in Vector, NEW e \in Value, EmplaceBack(v, e)
  PROVE  /\ Defined /\ AllSound' /\ v \in DOMAIN vectors /\ contents[v] \in Seq(Value)
         /\ Gives(v, Append(contents[v], e))
  <1> DEFINE m == vectors[v]
             a == Used(m)
             w == Width(e)
             c == heap[m.block].cells
             d == [i \in DOMAIN c |-> IF i \in a .. a + w - 1 THEN <<e, i - a>> ELSE c[i]]
             n == Appended(m, a, e)
  <1>1. /\ v \in DOMAIN vectors /\ ~ IsHollow(m) /\ ~ HasMoved(m, heap)
        /\ contents[v] = ThingsOf(m, heap) /\ contents[v] \in Seq(Value)
    BY UsableVectors DEF EmplaceBack
  <1>2. Size(m) < m.max_element_count /\ a + w <= m.units
    BY DEF EmplaceBack
  <1>3. Numbers(m) /\ Size(m) \in Nat /\ Elements(m) = 0 .. Size(m) - 1
        /\ m.max_element_count \in Nat /\ m.table \in Seq(Nat) /\ m.element_count \in Nat
    BY <1>1, NumbersOf DEF Numbers
  <1>4. m.block # Null
    BY <1>1, <1>2, <1>3, WithoutMemory
  <1>5. /\ m.block \in DOMAIN heap /\ m.edge # Null /\ m.edge[1] = m.block
        /\ m.edge = <<m.block, m.edge[2]>> /\ m.edge[2] \in Nat
        /\ ~ Varying => m.edge[2] = 0
        /\ m.units \in Nat /\ DOMAIN c = UnitsOf(m.units)
        /\ a \in Nat /\ a <= m.units
        /\ Laid(m, c) /\ (NonTrivial => NoStray(m, c))
    BY <1>1, <1>4, InMemory
  <1>6. e \in Things /\ w \in Nat /\ w >= 1
    BY Widths DEF Things
  <1>7. a .. a + w - 1 \subseteq DOMAIN c
    BY <1>2, <1>5, <1>6 DEF UnitsOf
  <1>8. /\ heap' = [heap EXCEPT ![m.block].cells = d]
        /\ vectors' = Set(v, n) /\ Defined
    BY <1>5, <1>7 DEF EmplaceBack
  <1>9. /\ n.block = m.block /\ n.units = m.units
        /\ n.stride = m.stride /\ n.max_element_count = m.max_element_count
        /\ n.table = (IF Varying THEN Append(m.table, a) ELSE m.table)
        /\ n.element_count = (IF Varying THEN m.element_count ELSE m.element_count + 1)
        /\ n.edge = <<m.block, n.edge[2]>>
        /\ n.edge[2] = (IF Varying THEN a + w ELSE 0)
    <2>1. IsMembers(m)
      BY <1>1 DEF Inv, OwnInv, AreVectors
    <2>2. CASE Varying
      <3> DEFINE t == Append(m.table, a)
                 g == <<m.edge[1], a + Width(e)>>
      <3>1. n = [m EXCEPT !.table = t, !.edge = g]
        BY <2>1, <2>2 DEF Appended, IsMembers, Fields
      <3>2. g = <<m.block, a + w>> /\ g[2] = a + w
        BY <1>5
      <3> HIDE DEF t, g, w, n
      <3>3. /\ n.block = m.block /\ n.units = m.units
            /\ n.stride = m.stride /\ n.max_element_count = m.max_element_count
            /\ n.table = t /\ n.element_count = m.element_count /\ n.edge = g
        BY <2>1, <3>1 DEF IsMembers, Fields
      <3>4. n.edge = <<m.block, n.edge[2]>> /\ n.edge[2] = a + w
        BY <3>2, <3>3
      <3> QED
        BY <2>2, <3>3, <3>4 DEF t
    <2>3. CASE ~ Varying
      <3> DEFINE k == m.element_count + 1
      <3>1. n = [m EXCEPT !.element_count = k]
        BY <2>1, <2>3 DEF Appended, IsMembers, Fields
      <3> HIDE DEF k, n
      <3>2. /\ n.block = m.block /\ n.units = m.units
            /\ n.stride = m.stride /\ n.max_element_count = m.max_element_count
            /\ n.table = m.table /\ n.element_count = k /\ n.edge = m.edge
        BY <2>1, <3>1 DEF IsMembers, Fields
      <3> QED
        BY <1>5, <2>3, <3>2 DEF k
    <2> QED
      BY <2>2, <2>3
  <1> HIDE DEF n
  <1>10. n.edge # Null
    <2>1. m.block \in Block
      BY <1>1, <1>4, InMemory
    <2>2. n.edge[2] \in Nat
      BY <1>5, <1>6, <1>9
    <2> QED
      BY <1>9, <2>1, <2>2, NamesAssumption
  <1>11. /\ Size(n) = Size(m) + 1 /\ Elements(n) = 0 .. Size(m)
         /\ Used(n) = a + w
         /\ \A i \in Elements(m) : Offset(n, i) = Offset(m, i)
         /\ Offset(n, Size(m)) = a
    <2>1. CASE Varying
      <3>1. n.table = Append(m.table, a) /\ Size(m) = Len(m.table) /\ n.edge[2] = a + w
        BY <1>9, <2>1 DEF Size
      <3>2. Len(n.table) = Size(m) + 1 /\ n.table[Size(m) + 1] = a
            /\ \A k \in 1 .. Size(m) : n.table[k] = m.table[k]
        BY <1>3, <1>5, <3>1
      <3> QED
        BY <1>3, <1>10, <2>1, <3>1, <3>2 DEF Size, Elements, UnitsOf, Used, Offset
    <2>2. CASE ~ Varying
      <3>1. /\ Size(m) = m.element_count /\ a = m.element_count /\ m.stride = 1 /\ w = 1
        BY <1>1, <1>2, <1>3, <1>4, <2>2, FixedOffsets DEF Width
      <3>2. /\ n.stride = 1 /\ n.element_count = a + 1 /\ n.edge[2] = 0 /\ m.edge[2] = 0
        BY <1>5, <1>9, <2>2, <3>1
      <3>3. Size(n) = Size(m) + 1 /\ Elements(n) = 0 .. Size(m)
        BY <1>3, <2>2, <3>1, <3>2 DEF Size, Elements, UnitsOf
      <3>4. Used(n) = 1 * (a + 1)
        BY <1>10, <2>2, <3>2 DEF Used
      <3>5. ASSUME NEW i \in Nat
            PROVE  Offset(n, i) = i /\ Offset(m, i) = i
        <4>1. Offset(n, i) = 0 + 1 * i /\ Offset(m, i) = 0 + 1 * i
          BY <2>2, <3>1, <3>2 DEF Offset
        <4> QED
          BY <4>1
      <3>6. \A i \in Elements(m) : i \in Nat
        BY <1>3
      <3> QED
        BY <1>3, <1>5, <3>1, <3>3, <3>4, <3>5, <3>6
    <2> QED
      BY <2>1, <2>2
  <1>12. Numbers(n)
    <2>1. n.table \in Seq(Nat)
      BY <1>3, <1>5, <1>9
    <2> QED
      BY <1>2, <1>3, <1>9, <2>1 DEF Numbers, Size
  <1> HIDE DEF d, c, a, w
  <1>13. ASSUME NEW i \in Elements(m)
         PROVE  /\ Offset(m, i) \in Nat /\ Whole(c, Offset(m, i))
                /\ EndAt(c, Offset(m, i)) <= a /\ EndAt(c, Offset(m, i)) \in Nat
                /\ Whole(d, Offset(m, i)) /\ d[Offset(m, i)] = c[Offset(m, i)]
                /\ EndAt(d, Offset(m, i)) = EndAt(c, Offset(m, i))
    <2>1. Offset(m, i) \in Nat /\ Whole(c, Offset(m, i)) /\ EndAt(c, Offset(m, i)) <= a
      BY <1>5 DEF Laid, a
    <2>2. EndAt(c, Offset(m, i)) \in Nat
      BY <2>1, Widths DEF Whole, EndAt
    <2>3. \A j \in DOMAIN c : j < a => j \in DOMAIN d /\ d[j] = c[j]
      BY <1>5, <1>6 DEF d, UnitsOf
    <2>4. \A j \in DOMAIN c : j + (Offset(m, i) - Offset(m, i)) = j
      BY <1>5, <2>1 DEF UnitsOf
    <2>5. \A j \in DOMAIN c : j \in Int
      BY <1>5 DEF UnitsOf
    <2> QED
      BY <1>5, <2>1, <2>2, <2>3, <2>4, <2>5, SameWhole
  <1>14. Whole(d, a) /\ d[a][1] = e /\ EndAt(d, a) = a + w
    <2>1. \A k \in UnitsOf(w) : a + k \in DOMAIN d /\ d[a + k] = <<e, k>>
      BY <1>5, <1>6, <1>7 DEF d, UnitsOf
    <2>2. a + 0 = a /\ 0 \in UnitsOf(w)
      BY <1>5, <1>6 DEF UnitsOf
    <2>3. a \in DOMAIN d /\ d[a] = <<e, 0>>
      BY <2>1, <2>2
    <2> QED
      BY <1>6, <2>1, <2>3 DEF Whole, EndAt, w
  <1>15. Laid(n, d)
    <2>1. ASSUME NEW i \in Elements(n)
          PROVE  /\ Offset(n, i) \in Nat /\ Whole(d, Offset(n, i))
                 /\ EndAt(d, Offset(n, i)) <= Used(n)
      <3>1. i \in Elements(m) \/ i = Size(m)
        BY <1>3, <1>11
      <3> QED
        BY <1>5, <1>6, <1>11, <1>13, <1>14, <3>1
    <2>2. ASSUME NEW i \in Elements(n), NEW j \in Elements(n), i < j
          PROVE  EndAt(d, Offset(n, i)) <= Offset(n, j)
      <3>1. i \in Elements(m) /\ (j \in Elements(m) \/ j = Size(m))
        BY <1>3, <1>11, <2>2
      <3> QED
        BY <1>5, <1>11, <1>13, <2>2, <3>1 DEF Laid
    <2>3. Offset(n, 0) = 0
      <3>1. CASE Size(m) = 0
        <4>1. Used(m) = 0
          <5>1. Varying => m.edge = At(m.block, 0)
            BY <1>1, <1>3, <3>1 DEF IsHollow, Size
          <5>2. Varying => m.edge = <<m.block, 0>>
            BY <1>4, <5>1 DEF At
          <5>3. Varying => Used(m) = 0
            BY <1>5, <5>2 DEF Used
          <5> QED
            BY <1>1, <1>4, <3>1, <5>3, FixedOffsets
        <4> QED
          BY <1>11, <3>1, <4>1 DEF a
      <3>2. CASE Size(m) # 0
        BY <1>3, <1>5, <1>11, <3>2 DEF Laid
      <3> QED
        BY <3>1, <3>2
    <2> QED
      BY <1>5, <1>6, <1>11, <2>1, <2>2, <2>3 DEF Laid
  <1>16. ASSUME NonTrivial
         PROVE  NoStray(n, d)
    <2> SUFFICES ASSUME NEW i \in DOMAIN d, d[i] # Raw
                 PROVE  \E j \in Elements(n) : Offset(n, j) <= i /\ i < EndAt(d, Offset(n, j))
      BY DEF NoStray
    <2>1. i \in DOMAIN c /\ i \in Nat
      BY <1>5 DEF d, UnitsOf
    <2>2. CASE i \in a .. a + w - 1
      <3>1. Size(m) \in Elements(n) /\ Offset(n, Size(m)) <= i /\ i < EndAt(d, Offset(n, Size(m)))
        BY <1>3, <1>5, <1>6, <1>11, <1>14, <2>2
      <3> QED
        BY <3>1
    <2>3. CASE i \notin a .. a + w - 1
      <3>1. c[i] # Raw
        BY <2>1, <2>3 DEF d
      <3>2. PICK j \in Elements(m) : Offset(m, j) <= i /\ i < EndAt(c, Offset(m, j))
        BY <1>5, <1>16, <2>1, <3>1 DEF NoStray
      <3>3. j \in Elements(n) /\ Offset(n, j) = Offset(m, j)
        BY <1>3, <1>11, <3>2
      <3> QED
        BY <1>13, <3>2, <3>3
    <2> QED
      BY <2>2, <2>3
  <1>17. ~ IsHollow(n)
    <2>1. Varying => Len(n.table) = Size(m) + 1 /\ Len(n.table) # 0
      BY <1>3, <1>11 DEF Size
    <2>2. Varying => n.table # << >>
      BY <2>1
    <2> QED
      BY <1>4, <1>9, <2>2 DEF IsHollow
  <1>18. n.edge[2] \in Nat
    BY <1>5, <1>6, <1>9
  <1>19. AllSound' /\ heap'[n.block].cells = d /\ Gives(v, ValueOf(n, heap'))
    <2>1. Used(n) <= n.units /\ n.edge = <<n.block, n.edge[2]>> /\ (~ Varying => n.edge[2] = 0)
      BY <1>2, <1>9, <1>11 DEF a, w
    <2> QED
      BY <1>1, <1>4, <1>8, <1>9, <1>12, <1>15, <1>16, <1>17, <1>18, <2>1, RewrittenSound
         DEF d, c
  <1>20. ValueOf(n, heap') = Append(ThingsOf(m, heap), e)
    <2>1. \A i \in Elements(m) : Thing(n, heap', i) = Thing(m, heap, i)
      BY <1>9, <1>11, <1>13, <1>19 DEF Thing, c
    <2>2. Thing(n, heap', Size(m)) = e
      BY <1>11, <1>14, <1>19 DEF Thing
    <2>3. ~ HasMoved(n, heap')
      <3>1. \A i \in Elements(n) : i \in Elements(m) \/ i = Size(m)
        BY <1>3, <1>11
      <3> QED
        BY <1>1, <2>1, <2>2, <3>1, NamesAssumption DEF HasMoved
    <2>4. ASSUME NEW k \in 1 .. Size(m)
          PROVE  ThingsOf(n, heap')[k] = ThingsOf(m, heap)[k]
      <3>1. k - 1 \in Elements(m) /\ k \in 1 .. Size(n)
        BY <1>3, <1>11
      <3> QED
        BY <2>1, <3>1 DEF ThingsOf
    <2>5. ThingsOf(n, heap')[Size(m) + 1] = e
      <3>1. Size(m) + 1 \in 1 .. Size(n) /\ (Size(m) + 1) - 1 = Size(m)
        BY <1>3, <1>11
      <3> QED
        BY <2>2, <3>1 DEF ThingsOf
    <2>6. ThingsOf(m, heap) \in Seq(Value) /\ Len(ThingsOf(m, heap)) = Size(m)
      BY <1>1, <1>3 DEF ThingsOf
    <2>7. ThingsOf(n, heap') = [k \in 1 .. Size(m) + 1 |-> ThingsOf(n, heap')[k]]
      BY <1>11 DEF ThingsOf
    <2>8. ThingsOf(n, heap') = Append(ThingsOf(m, heap), e)
      <3> DEFINE s == ThingsOf(m, heap)
                 t == ThingsOf(n, heap')
                 k0 == Size(m)
      <3> HIDE DEF s, t, k0
      <3>1. s \in [1 .. k0 -> Value] /\ k0 \in Nat
        BY <1>3, <2>6 DEF s, k0
      <3>2. t[k0 + 1] = e /\ \A k \in 1 .. k0 : t[k] = s[k]
        BY <2>4, <2>5 DEF s, t, k0
      <3>3. t \in [1 .. k0 + 1 -> Value]
        <4>1. t = [k \in 1 .. k0 + 1 |-> t[k]]
          BY <2>7 DEF t, k0
        <4>2. ASSUME NEW k \in 1 .. k0 + 1 PROVE t[k] \in Value
          <5>1. k \in 1 .. k0 \/ k = k0 + 1
            BY <3>1
          <5> QED
            BY <3>1, <3>2, <5>1
        <4> QED
          BY <4>1, <4>2
      <3>4. t = Append(s, e)
        BY <3>1, <3>2, <3>3, AppendIs
      <3> QED
        BY <3>4 DEF s, t
    <2> QED
      BY <1>17, <2>3, <2>8 DEF ValueOf
  <1> QED
    BY <1>1, <1>8, <1>19, <1>20

-----------------------------------------------------------------------------
(* The sequence s without the elements first + 1 .. last, by index.         *)
LEMMA ErasedIs ==
  ASSUME NEW S, NEW n \in Nat, NEW s \in [1 .. n -> S],
         NEW first \in Nat, NEW last \in Nat, first <= last, last <= n,
         NEW r, r = n - (last - first), NEW t \in [1 .. r -> S],
         \A k \in 1 .. r : t[k] = IF k <= first THEN s[k] ELSE s[k + (last - first)]
  PROVE  t = SubSeq(s, 1, first) \o SubSeq(s, last + 1, n)
  <1> DEFINE a == SubSeq(s, 1, first)
             b == SubSeq(s, last + 1, n)
  <1>1. s \in Seq(S) /\ Len(s) = n
    OBVIOUS
  <1>2. a \in Seq(S) /\ Len(a) = first /\ \A k \in 1 .. first : a[k] = s[k]
    BY <1>1
  <1>3. b \in Seq(S) /\ Len(b) = n - last
    BY <1>1
  <1>4. \A k \in 1 .. n - last : b[k] = s[k + last]
    BY <1>1
  <1>5. r \in Nat /\ r = first + (n - last) /\ n - last \in Nat
    OBVIOUS
  <1>6. t \in Seq(S) /\ Len(t) = r
    BY <1>5
  <1> HIDE DEF a, b
  <1>7. /\ a \o b \in Seq(S) /\ Len(a \o b) = r
        /\ \A k \in 1 .. r : (a \o b)[k] = IF k <= first THEN a[k] ELSE b[k - first]
    <2>1. /\ a \o b \in Seq(S) /\ Len(a \o b) = Len(a) + Len(b)
          /\ \A k \in 1 .. Len(a) + Len(b) :
               (a \o b)[k] = IF k <= Len(a) THEN a[k] ELSE b[k - Len(a)]
      BY <1>2, <1>3, ConcatProperties
    <2>2. Len(a) + Len(b) = r /\ Len(a) = first
      BY <1>2, <1>3, <1>5
    <2> QED
      BY <2>1, <2>2
  <1>8. ASSUME NEW k \in 1 .. r
        PROVE  (a \o b)[k] = t[k]
    <2>1. CASE k <= first
      <3>1. k \in 1 .. first
        BY <2>1
      <3>2. (a \o b)[k] = a[k]
        BY <1>7, <2>1
      <3> QED
        BY <1>2, <2>1, <3>1, <3>2
    <2>2. CASE k > first
      <3>2. (a \o b)[k] = b[k - first]
        BY <1>7, <2>2
      <3>3. k - first \in 1 .. n - last /\ (k - first) + last = k + (last - first)
        BY <1>5, <2>2
      <3>4. b[k - first] = s[k + (last - first)]
        BY <1>4, <3>3
      <3> QED
        BY <2>2, <3>2, <3>4
    <2>3. k <= first \/ k > first
      BY <1>5
    <2> QED
      BY <2>1, <2>2, <2>3, Zenon
  <1>9. t = a \o b
    BY <1>6, <1>7, <1>8, SeqEqual
  <1> QED
    BY <1>9 DEF a, b

(* All elements are in memory that is allocated.                            *)
LEMMA BackedVectors ==
  ASSUME Inv, NEW v \in DOMAIN vectors, vectors[v].block # Null
  PROVE  IsBacked(vectors[v])
  <1> DEFINE m == vectors[v]
  <1>1. /\ Base(m) = m.block /\ m.block \in DOMAIN heap
        /\ DOMAIN heap[m.block].cells = UnitsOf(m.units)
        /\ Used(m) \in Nat /\ m.units \in Nat /\ Used(m) <= m.units
    BY InMemory
  <1> QED
    BY <1>1 DEF IsBacked, UnitsOf

LEMMA NoElementsWithoutMemory ==
  ASSUME Inv, NEW v \in DOMAIN vectors, ~ IsHollow(vectors[v]),
         Elements(vectors[v]) # {}
  PROVE  IsBacked(vectors[v])
  BY BackedVectors, WithoutMemory

(* Elements in the order of their offsets.                                  *)
LEMMA OffsetsInOrder ==
  ASSUME Inv, NEW v \in DOMAIN vectors, vectors[v].block # Null,
         NEW i \in Elements(vectors[v]), NEW j \in Elements(vectors[v])
  PROVE  LET m == vectors[v]
             d == heap[m.block].cells
         IN  /\ Offset(m, i) \in Nat /\ EndAt(d, Offset(m, i)) \in Nat
             /\ Offset(m, i) < EndAt(d, Offset(m, i)) /\ EndAt(d, Offset(m, i)) <= Used(m)
             /\ Whole(d, Offset(m, i))
             /\ i < j => EndAt(d, Offset(m, i)) <= Offset(m, j)
             /\ i <= j => Offset(m, i) <= Offset(m, j)
  <1> DEFINE m == vectors[v]
             d == heap[m.block].cells
  <1>1. Laid(m, d)
    BY InMemory
  <1>2. ASSUME NEW k \in Elements(m)
        PROVE  /\ Offset(m, k) \in Nat /\ EndAt(d, Offset(m, k)) \in Nat
               /\ Offset(m, k) < EndAt(d, Offset(m, k)) /\ EndAt(d, Offset(m, k)) <= Used(m)
               /\ Whole(d, Offset(m, k))
    BY <1>1, Widths DEF Laid, Whole, EndAt
  <1>3. i \in Nat /\ j \in Nat
    BY NumbersOf
  <1>4. i < j => EndAt(d, Offset(m, i)) <= Offset(m, j)
    BY <1>1 DEF Laid
  <1>5. i <= j => Offset(m, i) <= Offset(m, j)
    BY <1>2, <1>3, <1>4
  <1> QED
    BY <1>2, <1>4, <1>5

(* The cells of m without the elements S.                                   *)
Cleared(m, S) ==
  LET d == heap[m.block].cells
  IN  [c \in DOMAIN d |->
         IF \E i \in S : Offset(m, i) <= c /\ c < EndAt(d, Offset(m, i)) THEN Raw ELSE d[c]]

(* Destroyed clears the cells of the elements in S and no others.           *)
LEMMA DestroyedCells ==
  ASSUME Inv, NEW v \in DOMAIN vectors, vectors[v].block # Null,
         NEW S, S \subseteq Elements(vectors[v]), S # {}
  PROVE  Destroyed(heap, vectors[v], S)
           = [heap EXCEPT ![vectors[v].block].cells = Cleared(vectors[v], S)]
  <1> DEFINE m == vectors[v]
             b == m.block
             d == heap[b].cells
             f == [c \in DOMAIN d |-> IF \E i \in S : c \in Extent(m, i) THEN Raw ELSE d[c]]
  <1>1. b \in DOMAIN heap /\ Base(m) = b /\ DOMAIN d = UnitsOf(m.units) /\ Sound(m, heap)
        /\ IsHeap(heap)
    BY InMemory DEF Inv, OwnInv, AllSound
  <1>2. ASSUME NEW c \in DOMAIN d, NEW i \in S
        PROVE  c \in Extent(m, i) <=> Offset(m, i) <= c /\ c < EndAt(d, Offset(m, i))
    <2>1. c \in Int /\ i \in Elements(m)
      BY <1>1 DEF UnitsOf
    <2> QED
      BY <1>1, <2>1, ElementFound
  <1>3. f = Cleared(m, S)
    BY <1>2 DEF Cleared
  <1> QED
    BY <1>1, <1>3 DEF Destroyed

-----------------------------------------------------------------------------
(* s without its elements first + 1 .. last.                                *)
IsErased(t, s, first, last) ==
  LET n == Len(s) - (last - first)
  IN  /\ DOMAIN t = 1 .. n /\ t = [k \in 1 .. n |-> t[k]]
      /\ \A k \in 1 .. n : t[k] = IF k <= first THEN s[k] ELSE s[k + (last - first)]

LEMMA ErasedSequence ==
  ASSUME NEW s \in Seq(Value), NEW first \in Nat, NEW last \in Nat, first <= last,
         last <= Len(s), NEW t, IsErased(t, s, first, last)
  PROVE  t = SubSeq(s, 1, first) \o SubSeq(s, last + 1, Len(s))
  <1> DEFINE n == Len(s)
             r == n - (last - first)
  <1>1. n \in Nat /\ s \in [1 .. n -> Value]
    OBVIOUS
  <1>2. /\ t = [k \in 1 .. r |-> t[k]]
        /\ \A k \in 1 .. r : t[k] = IF k <= first THEN s[k] ELSE s[k + (last - first)]
    BY DEF IsErased
  <1>3. \A k \in 1 .. r : t[k] \in Value
    BY <1>1, <1>2
  <1>4. t \in [1 .. r -> Value]
    BY <1>2, <1>3
  <1>5. last <= n /\ r = n - (last - first)
    OBVIOUS
  <1> HIDE DEF n, r
  <1>6. t = SubSeq(s, 1, first) \o SubSeq(s, last + 1, n)
    BY <1>1, <1>2, <1>4, <1>5, ErasedIs
  <1> QED
    BY <1>6 DEF n

(* Element i of n, in the cells d, is element j of m, in the cells c, s     *)
(* units further down.                                                      *)
WasAt(n, d, i, m, c, j, s) ==
  /\ Offset(n, i) = Offset(m, j) - s /\ Whole(d, Offset(n, i))
  /\ d[Offset(n, i)] = c[Offset(m, j)]
  /\ EndAt(d, Offset(n, i)) = EndAt(c, Offset(m, j)) - s
  /\ EndAt(d, Offset(n, i)) <= Used(n)

(* The elements first .. last - 1 of v go, and those behind them go down.   *)
LEMMA ErasedSound ==
  ASSUME Inv, UNCHANGED kind, NEW v \in DOMAIN vectors, NEW m, m = vectors[v],
         m.block # Null, NEW c, c = heap[m.block].cells,
         NEW first \in Nat, NEW last \in Nat, first <= last, last <= Size(m),
         NEW gap \in Nat, last < Size(m) => gap = Offset(m, last) - Offset(m, first),
         NEW d, heap' = [heap EXCEPT ![m.block].cells = d],
         NEW n, vectors' = Set(v, n), Numbers(n), n.block = m.block, n.units = m.units,
         n.edge = <<n.block, n.edge[2]>>, n.edge[2] \in Nat, ~ Varying => n.edge[2] = 0,
         Size(n) = Size(m) - (last - first), Used(n) \in Nat, Used(n) <= n.units,
         Varying /\ Size(n) = 0 => n.edge[2] = 0,
         \A i \in Elements(n) :
           /\ i < first => WasAt(n, d, i, m, c, i, 0)
           /\ i >= first => WasAt(n, d, i, m, c, i + (last - first), gap),
         NonTrivial => NoStray(n, d)
  PROVE  /\ AllSound'
         /\ first = 0 /\ last = Size(m) => Gives(v, << >>)
         /\ ~ HasMoved(m, heap) /\ ThingsOf(m, heap) \in Seq(Value) =>
              Gives(v, SubSeq(ThingsOf(m, heap), 1, first)
                         \o SubSeq(ThingsOf(m, heap), last + 1, Size(m)))
  <1> DEFINE from(i) == IF i < first THEN i ELSE i + (last - first)
             s(i) == IF i < first THEN 0 ELSE gap
  <1>1. Size(m) \in Nat /\ Elements(m) = 0 .. Size(m) - 1
    BY NumbersOf
  <1>2. Size(n) \in Nat /\ Elements(n) = 0 .. Size(n) - 1
    BY <1>1 DEF Elements, UnitsOf
  <1>3. ASSUME NEW i \in Elements(n)
        PROVE  /\ i \in Nat /\ from(i) \in Elements(m) /\ s(i) \in Nat
               /\ WasAt(n, d, i, m, c, from(i), s(i))
    <2>1. i \in Nat /\ i < Size(n) /\ from(i) \in Elements(m) /\ s(i) \in Nat
      BY <1>1, <1>2
    <2>2. CASE i < first
      BY <2>1, <2>2
    <2>3. CASE i >= first
      BY <2>1, <2>3
    <2> QED
      BY <2>1, <2>2, <2>3
  <1>4. ASSUME NEW i \in Elements(m)
        PROVE  Offset(m, i) \in Nat /\ EndAt(c, Offset(m, i)) \in Nat
    BY OffsetsInOrder
  <1>5. ASSUME NEW i \in Elements(n), NEW j \in Elements(n), i < j
        PROVE  EndAt(c, Offset(m, from(i))) - s(i) <= Offset(m, from(j)) - s(j)
    <2>1. /\ i \in Nat /\ j \in Nat /\ from(i) \in Elements(m) /\ from(j) \in Elements(m)
          /\ from(i) < from(j)
      BY <1>3, <1>5
    <2>2. EndAt(c, Offset(m, from(i))) <= Offset(m, from(j))
      BY <2>1, OffsetsInOrder
    <2>3. CASE i < first /\ j >= first
      <3>1. /\ last \in Elements(m) /\ first \in Elements(m) /\ from(i) < first
            /\ last <= from(j)
        BY <1>1, <1>2, <2>3, <2>1
      <3>2. gap = Offset(m, last) - Offset(m, first)
        BY <1>1, <3>1
      <3>3. EndAt(c, Offset(m, from(i))) <= Offset(m, first)
        BY <2>1, <3>1, OffsetsInOrder
      <3>4. Offset(m, last) <= Offset(m, from(j))
        BY <2>1, <3>1, OffsetsInOrder
      <3>5. s(i) = 0 /\ s(j) = gap
        BY <2>1, <2>3
      <3>6. /\ Offset(m, last) \in Nat /\ Offset(m, first) \in Nat
            /\ EndAt(c, Offset(m, from(i))) \in Nat /\ Offset(m, from(j)) \in Nat
        BY <1>4, <2>1, <3>1
      <3> HIDE DEF from, s
      <3> QED
        BY <3>2, <3>3, <3>4, <3>5, <3>6
    <2>4. CASE i >= first \/ j < first
      <3>1. s(i) = s(j)
        BY <1>5, <2>1, <2>4
      <3>2. EndAt(c, Offset(m, from(i))) \in Nat /\ Offset(m, from(j)) \in Nat /\ s(i) \in Nat
        BY <1>3, <1>4, <2>1
      <3> HIDE DEF from, s
      <3> QED
        BY <2>2, <3>1, <3>2
    <2> QED
      BY <2>1, <2>3, <2>4
  <1>6. ASSUME Size(n) > 0
        PROVE  0 \in Elements(n) /\ Offset(n, 0) = 0
    <2>1. 0 \in Elements(n) /\ 0 \in Elements(m)
      BY <1>1, <1>2, <1>6
    <2>2. Offset(m, 0) = 0
      BY <2>1, InMemory DEF Laid
    <2>3. CASE first > 0
      <3>1. from(0) = 0 /\ s(0) = 0
        BY <2>3
      <3> QED
        BY <1>3, <2>1, <2>2, <3>1 DEF WasAt
    <2>4. CASE first = 0
      <3>1. from(0) = last /\ s(0) = gap /\ gap = Offset(m, last) - Offset(m, first)
        BY <1>1, <1>6, <2>4
      <3>2. Offset(m, last) \in Nat
        BY <1>3, <1>4, <2>1, <3>1
      <3>3. Offset(n, 0) = Offset(m, last) - gap
        BY <1>3, <2>1, <3>1 DEF WasAt
      <3> QED
        BY <2>1, <2>2, <2>4, <3>1, <3>2, <3>3
    <2> QED
      BY <2>3, <2>4
  <1> HIDE DEF from, s
  <1>7. Laid(n, d)
    <2>1. ASSUME NEW i \in Elements(n)
          PROVE  /\ Offset(n, i) \in Nat /\ Whole(d, Offset(n, i))
                 /\ EndAt(d, Offset(n, i)) <= Used(n)
      <3>1. /\ Whole(d, Offset(n, i)) /\ EndAt(d, Offset(n, i)) <= Used(n)
            /\ Offset(n, i) = Offset(m, from(i)) - s(i)
        BY <1>3 DEF WasAt
      <3>2. Offset(n, i) \in Int
        BY <1>3, <1>4, <3>1
      <3>3. Offset(n, i) >= 0
        <4>1. CASE i = 0
          BY <1>2, <1>6, <4>1
        <4>2. CASE i # 0
          <5>1. Size(n) > 0 /\ i > 0 /\ i \in Nat
            BY <1>2, <4>2
          <5>2. 0 \in Elements(n) /\ Offset(n, 0) = 0 /\ WasAt(n, d, 0, m, c, from(0), s(0))
            BY <1>3, <1>6, <5>1
          <5>3. EndAt(d, Offset(n, 0)) = EndAt(c, Offset(m, from(0))) - s(0)
            BY <5>2 DEF WasAt
          <5>4. EndAt(c, Offset(m, from(0))) - s(0) <= Offset(m, from(i)) - s(i)
            BY <1>5, <5>1, <5>2
          <5>5. EndAt(d, 0) >= 0 /\ EndAt(d, 0) \in Int
            <6>1. Whole(d, 0)
              BY <5>2 DEF WasAt
            <6> QED
              BY <6>1, Widths DEF Whole, EndAt
          <5> QED
            BY <3>1, <3>2, <5>2, <5>3, <5>4, <5>5
        <4> QED
          BY <4>1, <4>2
      <3> QED
        BY <3>1, <3>2, <3>3
    <2>2. ASSUME NEW i \in Elements(n), NEW j \in Elements(n), i < j
          PROVE  EndAt(d, Offset(n, i)) <= Offset(n, j)
      <3>1. /\ EndAt(d, Offset(n, i)) = EndAt(c, Offset(m, from(i))) - s(i)
            /\ Offset(n, j) = Offset(m, from(j)) - s(j)
        BY <1>3 DEF WasAt
      <3> QED
        BY <1>5, <2>2, <3>1
    <2>3. Elements(n) # {} => Offset(n, 0) = 0
      <3>1. Elements(n) # {} => Size(n) > 0
        BY <1>2
      <3> QED
        BY <1>6, <3>1
    <2> QED
      BY <2>1, <2>2, <2>3 DEF Laid
  <1>8. ~ IsHollow(n)
    <2>1. At(n.block, 0) = <<n.block, 0>>
      BY DEF At
    <2>2. Varying /\ n.table = << >> => n.edge[2] = 0
      BY DEF Size
    <2> QED
      BY <2>1, <2>2 DEF IsHollow
  <1>9. AllSound' /\ heap'[n.block].cells = d /\ Gives(v, ValueOf(n, heap'))
    BY <1>7, <1>8, RewrittenSound
  <1>10. ASSUME first = 0, last = Size(m)
         PROVE  Gives(v, << >>)
    <2>1. Size(n) = 0
      BY <1>1, <1>10
    <2> QED
      BY <1>8, <1>9, <2>1, EmptyValue
  <1>11. ASSUME ~ HasMoved(m, heap), ThingsOf(m, heap) \in Seq(Value)
         PROVE  ValueOf(n, heap') = SubSeq(ThingsOf(m, heap), 1, first)
                                      \o SubSeq(ThingsOf(m, heap), last + 1, Size(m))
    <2> DEFINE x == ThingsOf(m, heap)
               t == ThingsOf(n, heap')
    <2>1. ASSUME NEW i \in Elements(n)
          PROVE  Thing(n, heap', i) = Thing(m, heap, from(i))
      <3>1. d[Offset(n, i)] = c[Offset(m, from(i))]
        BY <1>3 DEF WasAt
      <3> QED
        BY <1>9, <3>1 DEF Thing
    <2>2. ~ HasMoved(n, heap')
      BY <1>3, <1>11, <2>1 DEF HasMoved
    <2>3. \A k \in 1 .. Size(n) :
            t[k] = (IF k <= first THEN x[k] ELSE x[k + (last - first)])
      <3> SUFFICES ASSUME NEW k \in 1 .. Size(n)
                   PROVE  t[k] = (IF k <= first THEN x[k] ELSE x[k + (last - first)])
        OBVIOUS
      <3>1. k - 1 \in Elements(n) /\ t[k] = Thing(n, heap', k - 1)
        BY <1>2 DEF ThingsOf
      <3>2. from(k - 1) + 1 = IF k <= first THEN k ELSE k + (last - first)
        BY <1>2 DEF from
      <3>3. from(k - 1) + 1 \in 1 .. Size(m) /\ (from(k - 1) + 1) - 1 = from(k - 1)
        BY <1>1, <1>3, <3>1
      <3>4. x[from(k - 1) + 1] = Thing(m, heap, from(k - 1))
        BY <3>3 DEF ThingsOf
      <3> QED
        BY <2>1, <3>1, <3>2, <3>4
    <2>4. DOMAIN x = 1 .. Size(m) /\ DOMAIN t = 1 .. Size(n)
          /\ t = [k \in 1 .. Size(n) |-> t[k]]
      BY DEF ThingsOf
    <2>5. x \in Seq(Value)
      BY <1>11
    <2> HIDE DEF x, t
    <2>6. Len(x) = Size(m)
      BY <1>1, <2>4, <2>5
    <2>7. IsErased(t, x, first, last)
      BY <2>3, <2>4, <2>6 DEF IsErased
    <2>8. t = SubSeq(x, 1, first) \o SubSeq(x, last + 1, Size(m))
      BY <2>5, <2>6, <2>7, ErasedSequence
    <2> QED
      BY <1>8, <2>2, <2>8 DEF ValueOf, x, t
  <1> QED
    BY <1>9, <1>10, <1>11

-----------------------------------------------------------------------------
(* resize takes the end from the entry behind those that stay.              *)
LEMMA ResizedFields ==
  ASSUME NEW m, IsMembers(m), NEW table, NEW k
  PROVE  LET n == Resized(m, table, k)
         IN  /\ n.block = m.block /\ n.units = m.units /\ n.stride = m.stride
             /\ n.max_element_count = m.max_element_count
             /\ n.table = (IF Varying THEN SubSeq(table, 1, k) ELSE m.table)
             /\ n.element_count = (IF Varying THEN m.element_count ELSE k)
             /\ n.edge = (IF Varying THEN At(m.block, table[k + 1]) ELSE m.edge)
  <1> DEFINE n == Resized(m, table, k)
             t == SubSeq(table, 1, k)
             g == At(m.block, table[k + 1])
  <1>1. CASE Varying
    <2>1. n = [m EXCEPT !.table = t, !.edge = g]
      BY <1>1 DEF Resized
    <2> HIDE DEF t, g, n
    <2>2. /\ n.block = m.block /\ n.units = m.units /\ n.stride = m.stride
          /\ n.max_element_count = m.max_element_count
          /\ n.table = t /\ n.element_count = m.element_count /\ n.edge = g
      BY <2>1 DEF IsMembers, Fields
    <2> QED
      BY <1>1, <2>2 DEF t, g, n
  <1>2. CASE ~ Varying
    <2>1. n = [m EXCEPT !.element_count = k]
      BY <1>2 DEF Resized
    <2> HIDE DEF n
    <2>2. /\ n.block = m.block /\ n.units = m.units /\ n.stride = m.stride
          /\ n.max_element_count = m.max_element_count
          /\ n.table = m.table /\ n.element_count = k /\ n.edge = m.edge
      BY <2>1 DEF IsMembers, Fields
    <2> QED
      BY <1>2, <2>2 DEF n
  <1> QED
    BY <1>1, <1>2

(* Erasing where the caller may.                                            *)
LEMMA EraseFromDefined ==
  ASSUME Inv, NEW v \in DOMAIN vectors, NEW m, m = vectors[v], ~ IsHollow(m),
         NEW first \in Nat, NEW last \in Nat, first <= last, last <= Size(m),
         Varying => first < last, NEW moves \in BOOLEAN,
         moves => NonTrivial \/ ~ Varying \/ last < Size(m),
         moves /\ NonTrivial => ~ Narrow(m, last, first),
         EraseFrom(v, first, last, moves)
  PROVE  LET n == Size(m) - (last - first)
             destroyed == Destroyed(heap, m, first .. last - 1)
         IN  /\ Defined
             /\ heap' = (IF moves /\ last < Size(m)
                           THEN MovedForward(destroyed, m, last, first) ELSE destroyed)
             /\ vectors' = Set(v, Resized(m, IF moves /\ Varying /\ last < Size(m)
                                               THEN ShiftedTable(m, last, first)
                                               ELSE m.table, n))
  <1>1. Exist(m, Elements(m))
    BY ElementsExist
  <1>2. Size(m) \in Nat /\ (Varying => Size(m) = Len(m.table))
    BY NumbersOf DEF Size
  <1>3. MayResize(m, Size(m) - (last - first))
    BY <1>2 DEF MayResize
  <1>4. Elements(m) # {} => IsBacked(m)
    BY NoElementsWithoutMemory
  <1>5. ~ (moves /\ Varying /\ last = Size(m) /\ ~ NonTrivial)
    BY <1>2
  <1> QED
    BY <1>1, <1>3, <1>4, <1>5 DEF EraseFrom

(* Elements of one size can be erased from an empty range.                  *)
LEMMA EraseNothing ==
  ASSUME Inv, UNCHANGED kind, NEW v \in DOMAIN vectors, NEW m, m = vectors[v], ~ IsHollow(m),
         NEW first \in Nat, first <= Size(m), ~ Varying, EraseFrom(v, first, first, FALSE)
  PROVE  Defined /\ AllSound' /\ Gives(v, ValueOf(m, heap))
  <1> DEFINE n == Resized(m, m.table, Size(m))
  <1>1. Size(m) \in Nat /\ Size(m) = m.element_count /\ IsMembers(m) /\ Sound(m, heap)
    BY NumbersOf DEF Size, Inv, OwnInv, AreVectors, AllSound
  <1>2. /\ Defined /\ heap' = Destroyed(heap, m, first .. first - 1)
        /\ vectors' = Set(v, Resized(m, m.table, Size(m) - (first - first)))
    <2>1. first <= first /\ FALSE \in BOOLEAN /\ Size(m) \in Nat
      BY <1>1
    <2> QED
      BY <2>1, EraseFromDefined
  <1>3. first .. first - 1 = {} /\ Size(m) - (first - first) = Size(m)
    BY <1>1
  <1>4. heap' = heap /\ vectors' = Set(v, n)
    BY <1>2, <1>3 DEF Destroyed
  <1>5. /\ n.block = m.block /\ n.units = m.units /\ n.stride = m.stride
        /\ n.max_element_count = m.max_element_count /\ n.table = m.table
        /\ n.element_count = m.element_count /\ n.edge = m.edge
    BY <1>1, ResizedFields
  <1> HIDE DEF n
  <1>6. Sound(n, heap') /\ ValueOf(n, heap') = ValueOf(m, heap)
    BY <1>1, <1>4, <1>5, SameSound
  <1>7. Untouched(v)
    BY <1>4 DEF Untouched
  <1> QED
    BY <1>2, <1>4, <1>6, <1>7, OthersSound

(* The last elements go.                                                    *)
LEMMA EraseSuffix ==
  ASSUME Inv, UNCHANGED kind, NEW v \in DOMAIN vectors, NEW m, m = vectors[v], ~ IsHollow(m),
         NEW first \in Nat, NEW last \in Nat, first < last, last = Size(m),
         NEW moves \in BOOLEAN, moves => NonTrivial \/ ~ Varying,
         EraseFrom(v, first, last, moves)
  PROVE  /\ Defined /\ AllSound'
         /\ first = 0 => Gives(v, << >>)
         /\ ~ HasMoved(m, heap) /\ ThingsOf(m, heap) \in Seq(Value) =>
              Gives(v, SubSeq(ThingsOf(m, heap), 1, first)
                         \o SubSeq(ThingsOf(m, heap), last + 1, Size(m)))
  <1> DEFINE n == Resized(m, m.table, first)
             c == heap[m.block].cells
             S == first .. last - 1
             d == Cleared(m, S)
  <1>1. /\ Size(m) \in Nat /\ Elements(m) = 0 .. Size(m) - 1 /\ Numbers(m)
        /\ IsMembers(m) /\ Sound(m, heap)
    BY NumbersOf DEF Inv, OwnInv, AreVectors, AllSound
  <1>2. m.block # Null
    BY <1>1, WithoutMemory
  <1>3. /\ m.block \in Block /\ m.edge = <<m.block, m.edge[2]>> /\ m.edge[2] \in Nat
        /\ ~ Varying => m.edge[2] = 0
        /\ m.units \in Nat /\ DOMAIN c = UnitsOf(m.units)
        /\ Used(m) \in Nat /\ Used(m) <= m.units
        /\ Laid(m, c) /\ (NonTrivial => NoStray(m, c))
    BY <1>2, InMemory
  <1>4. ~ Narrow(m, last, first)
    BY <1>1 DEF Narrow
  <1>5. /\ Defined /\ heap' = Destroyed(heap, m, S)
        /\ vectors' = Set(v, Resized(m, m.table, Size(m) - (last - first)))
    BY <1>1, <1>4, EraseFromDefined
  <1>6. vectors' = Set(v, n) /\ S \subseteq Elements(m) /\ S # {} /\ first \in Elements(m)
    <2>1. Size(m) - (last - first) = first
      BY <1>1
    <2> QED
      BY <1>1, <1>5, <2>1
  <1>7. heap' = [heap EXCEPT ![m.block].cells = d]
    BY <1>2, <1>5, <1>6, DestroyedCells
  <1>8. /\ n.block = m.block /\ n.units = m.units /\ n.stride = m.stride
        /\ n.max_element_count = m.max_element_count
        /\ n.table = (IF Varying THEN SubSeq(m.table, 1, first) ELSE m.table)
        /\ n.element_count = (IF Varying THEN m.element_count ELSE first)
        /\ n.edge = (IF Varying THEN At(m.block, m.table[first + 1]) ELSE m.edge)
    BY <1>1, ResizedFields
  <1>9. ASSUME NEW i \in Elements(m), i <= first
        PROVE  /\ Offset(m, i) \in Nat /\ EndAt(c, Offset(m, i)) \in Nat
               /\ Whole(c, Offset(m, i)) /\ EndAt(c, Offset(m, i)) <= Used(m)
               /\ Offset(m, i) <= Offset(m, first)
               /\ i < first => EndAt(c, Offset(m, i)) <= Offset(m, first)
    BY <1>2, <1>6, <1>9, OffsetsInOrder
  <1> DEFINE a == Offset(m, first)
  <1>10. /\ n.edge = <<m.block, n.edge[2]>> /\ n.edge[2] = (IF Varying THEN a ELSE 0)
         /\ n.edge[2] \in Nat /\ a \in Nat
    BY <1>2, <1>3, <1>6, <1>8, <1>9 DEF At, Offset
  <1> HIDE DEF n
  <1>11. n.edge # Null
    BY <1>3, <1>10, NamesAssumption
  <1>12. /\ Size(n) = first /\ Elements(n) = 0 .. first - 1 /\ Used(n) = a /\ Numbers(n)
         /\ \A i \in Elements(n) : Offset(n, i) = Offset(m, i)
    <2>1. CASE Varying
      <3>1. n.table = SubSeq(m.table, 1, first) /\ first <= Len(m.table) /\ m.table \in Seq(Nat)
        BY <1>1, <1>8, <2>1 DEF Size, Numbers
      <3>2. /\ n.table \in Seq(Nat) /\ Len(n.table) = first
            /\ \A k \in 1 .. first : n.table[k] = m.table[k]
        BY <3>1
      <3>3. Size(n) = first /\ Elements(n) = 0 .. first - 1 /\ Used(n) = a
        BY <1>10, <1>11, <2>1, <3>2 DEF Size, Elements, UnitsOf, Used
      <3>4. Numbers(n)
        BY <1>1, <1>8, <2>1, <3>2 DEF Numbers
      <3>5. \A i \in Elements(n) : i + 1 \in 1 .. first
        BY <3>3
      <3>6. \A i \in Elements(n) : Offset(n, i) = Offset(m, i)
        BY <2>1, <3>2, <3>5 DEF Offset
      <3> QED
        BY <3>3, <3>4, <3>6
    <2>2. CASE ~ Varying
      <3>1. /\ Size(m) = m.element_count /\ \A i \in Elements(m) : Offset(m, i) = i
            /\ m.element_count > 0 => m.stride = 1
        BY <1>2, <2>2, FixedOffsets
      <3>2. m.stride = 1 /\ n.stride = 1 /\ n.edge[2] = 0 /\ n.element_count = first /\ a = first
        BY <1>1, <1>6, <1>8, <1>10, <2>2, <3>1
      <3>3. Size(n) = first /\ Elements(n) = 0 .. first - 1
        BY <2>2, <3>2 DEF Size, Elements, UnitsOf
      <3>4. Used(n) = 1 * first
        BY <1>11, <2>2, <3>2 DEF Used
      <3>5. ASSUME NEW i \in Elements(n)
            PROVE  Offset(n, i) = Offset(m, i)
        <4>1. Offset(n, i) = 0 + 1 * i /\ i \in Nat /\ i \in Elements(m)
          BY <1>1, <2>2, <3>2, <3>3 DEF Offset
        <4> QED
          BY <3>1, <4>1
      <3>6. Numbers(n)
        BY <1>1, <1>8, <2>2, <3>1 DEF Numbers
      <3> QED
        BY <3>2, <3>3, <3>4, <3>5, <3>6
    <2> QED
      BY <2>1, <2>2
  <1>13. a <= Used(m)
    <2>1. /\ EndAt(c, a) <= Used(m) /\ Offset(m, first) < EndAt(c, a) /\ EndAt(c, a) \in Nat
      BY <1>2, <1>6, OffsetsInOrder
    <2> QED
      BY <1>3, <1>10, <2>1
  <1>14. DOMAIN d = DOMAIN c /\ \A x \in DOMAIN c : x < a => d[x] = c[x]
    <2>1. \A i \in S : i \in Elements(m) /\ first <= i
      BY <1>6
    <2>2. \A i \in S : a <= Offset(m, i) /\ Offset(m, i) \in Nat
      BY <1>2, <1>6, <2>1, OffsetsInOrder
    <2>3. \A x \in DOMAIN c : x \in Nat
      BY <1>3 DEF UnitsOf
    <2>4. ASSUME NEW x \in DOMAIN c, x < a, NEW i \in S, Offset(m, i) <= x
          PROVE  FALSE
      BY <1>10, <2>2, <2>3, <2>4
    <2> QED
      BY <2>4 DEF Cleared
  <1> HIDE DEF d
  <1>15. ASSUME NEW i \in Elements(n)
         PROVE  /\ i < first /\ i \in Elements(m)
                /\ Offset(m, i) \in Nat /\ EndAt(c, Offset(m, i)) \in Nat
                /\ EndAt(c, Offset(m, i)) <= a
                /\ WasAt(n, d, i, m, c, i, 0)
    <2>1. i < first /\ i <= first /\ i \in Elements(m) /\ Offset(n, i) = Offset(m, i)
      BY <1>1, <1>12
    <2>2. /\ Offset(m, i) \in Nat /\ EndAt(c, Offset(m, i)) \in Nat
          /\ EndAt(c, Offset(m, i)) <= a /\ Whole(c, Offset(m, i))
      BY <1>9, <2>1
    <2>3. \A x \in DOMAIN c : x \in Nat /\ x + (Offset(m, i) - Offset(m, i)) = x
      BY <1>3, <2>2 DEF UnitsOf
    <2>4. \A x \in DOMAIN c : x < EndAt(c, Offset(m, i)) => x < a
      BY <1>10, <2>2, <2>3
    <2>5. /\ Whole(d, Offset(m, i)) /\ d[Offset(m, i)] = c[Offset(m, i)]
          /\ EndAt(d, Offset(m, i)) = EndAt(c, Offset(m, i)) + (Offset(m, i) - Offset(m, i))
      <3> DEFINE o == Offset(m, i)
      <3>1. \A x \in DOMAIN c : x \in Int /\ o <= x /\ x < EndAt(c, o) =>
              x + (o - o) \in DOMAIN d /\ d[x + (o - o)] = c[x]
        BY <1>14, <2>3, <2>4
      <3>2. o \in Int /\ Whole(c, o)
        BY <2>2
      <3> HIDE DEF o
      <3>3. Whole(d, o) /\ d[o] = c[o] /\ EndAt(d, o) = EndAt(c, o) + (o - o)
        BY <3>1, <3>2, SameWhole
      <3> QED
        BY <3>3 DEF o
    <2> QED
      BY <1>12, <2>1, <2>2, <2>5 DEF WasAt
  <1>16. NonTrivial => NoStray(n, d)
    <2> SUFFICES ASSUME NonTrivial, NEW x \in DOMAIN d, d[x] # Raw
                 PROVE  \E i \in Elements(n) : Offset(n, i) <= x /\ x < EndAt(d, Offset(n, i))
      BY DEF NoStray
    <2>1. /\ x \in DOMAIN c /\ c[x] # Raw
          /\ ~ \E i \in S : Offset(m, i) <= x /\ x < EndAt(c, Offset(m, i))
      BY DEF Cleared, d
    <2>2. PICK i \in Elements(m) : Offset(m, i) <= x /\ x < EndAt(c, Offset(m, i))
      BY <1>3, <2>1 DEF NoStray
    <2>3. i \notin S /\ i \in Elements(n)
      BY <1>1, <1>12, <2>1, <2>2
    <2>4. Offset(n, i) = Offset(m, i) /\ EndAt(d, Offset(n, i)) = EndAt(c, Offset(m, i)) - 0
      BY <1>12, <1>15, <2>3 DEF WasAt
    <2>5. EndAt(c, Offset(m, i)) \in Nat
      BY <1>15, <2>3
    <2>6. Offset(n, i) <= x /\ x < EndAt(d, Offset(n, i))
      BY <2>2, <2>4, <2>5
    <2> QED
      BY <2>3, <2>6
  <1>17. Varying /\ Size(n) = 0 => n.edge[2] = 0
    <2>1. 0 \in Elements(m) => Offset(m, 0) = 0
      BY <1>3 DEF Laid
    <2> QED
      BY <1>6, <1>10, <1>12, <2>1
  <1> HIDE DEF c, a, S
  <1>18. /\ Size(n) = Size(m) - (last - first) /\ Used(n) \in Nat /\ Used(n) <= n.units
         /\ \A i \in Elements(n) :
              /\ i < first => WasAt(n, d, i, m, c, i, 0)
              /\ i >= first => WasAt(n, d, i, m, c, i + (last - first), 0)
    <2>1. \A i \in Elements(n) : i \in Nat /\ i < first
      BY <1>12
    <2> QED
      BY <1>1, <1>3, <1>8, <1>10, <1>12, <1>13, <1>15, <2>1
  <1>19. /\ first <= last /\ last <= Size(m) /\ 0 \in Nat /\ ~ (last < Size(m))
         /\ n.edge = <<n.block, n.edge[2]>> /\ (~ Varying => n.edge[2] = 0)
    BY <1>1, <1>8, <1>10
  <1> QED
    BY <1>2, <1>5, <1>6, <1>7, <1>8, <1>10, <1>12, <1>16, <1>17, <1>18, <1>19, ErasedSound DEF c

-----------------------------------------------------------------------------
(* The cells d once everything from element from up to the end has gone to  *)
(* element to.                                                              *)
MovedDown(m, d, from, to) ==
  LET gap == Offset(m, from) - Offset(m, to)
  IN  [c \in DOMAIN d |->
         IF c >= Offset(m, to) /\ c + gap < Used(m) THEN d[c + gap]
         ELSE IF c >= Offset(m, to) /\ c < Used(m) THEN Raw
         ELSE d[c]]

(* h is the heap with the cells d in block b.                               *)
Wrote(h, b, d) == h = [heap EXCEPT ![b].cells = d]

(* MovedForward writes to the vector's own memory only.                     *)
LEMMA MovedCells ==
  ASSUME Inv, NEW v \in DOMAIN vectors, NEW m, m = vectors[v], m.block # Null,
         NEW d, NEW h, Wrote(h, m.block, d), NEW from, NEW to
  PROVE  Wrote(MovedForward(h, m, from, to), m.block, MovedDown(m, d, from, to))
  <1> DEFINE b == m.block
             end == IF Varying THEN m.edge[2] ELSE Offset(m, Size(m))
             gap == Offset(m, from) - Offset(m, to)
             f == [c \in DOMAIN h[b].cells |->
                     IF c >= Offset(m, to) /\ c + gap < end THEN h[b].cells[c + gap]
                     ELSE IF c >= Offset(m, to) /\ c < end THEN Raw
                     ELSE h[b].cells[c]]
  <1>1. b \in DOMAIN heap /\ Base(m) = b /\ m.edge # Null /\ m.edge[2] \in Nat /\ IsHeap(heap)
        /\ (~ Varying => m.edge[2] = 0)
    BY InMemory DEF Inv, OwnInv
  <1>2. end = Used(m)
    <2>1. CASE Varying
      BY <1>1, <2>1 DEF Used
    <2>2. CASE ~ Varying
      <3>1. end = 0 + m.stride * Size(m) /\ Size(m) = m.element_count
        BY <1>1, <2>2, FixedOffsets DEF Offset
      <3>2. Used(m) = m.stride * m.element_count
        BY <1>1, <2>2 DEF Used
      <3>3. Used(m) \in Nat
        BY InMemory
      <3> QED
        BY <3>1, <3>2, <3>3
    <2> QED
      BY <2>1, <2>2
  <1>3. h = [heap EXCEPT ![b].cells = d] /\ h[b].cells = d
    BY <1>1 DEF IsHeap, IsAllocation, Wrote
  <1>4. MovedForward(h, m, from, to) = [h EXCEPT ![b].cells = f]
    BY <1>1 DEF MovedForward
  <1>5. f = MovedDown(m, d, from, to)
    BY <1>2, <1>3 DEF MovedDown
  <1> HIDE DEF f, end, gap
  <1>6. [h EXCEPT ![b].cells = f] = [heap EXCEPT ![b].cells = f]
    BY <1>1, <1>3 DEF IsHeap, IsAllocation
  <1> QED
    BY <1>4, <1>5, <1>6 DEF Wrote

(* How m counts its elements without first .. last - 1, when there are      *)
(* elements behind those.                                                   *)
Gap(m, first, last) == Offset(m, last) - Offset(m, first)

Remaining(m, first, last) ==
  Resized(m, IF Varying THEN ShiftedTable(m, last, first) ELSE m.table,
          Size(m) - (last - first))

(* Behind an erase, the table leads to where the elements went.             *)
LEMMA MovedTable ==
  ASSUME Inv, NEW v \in DOMAIN vectors, NEW m, m = vectors[v], m.block # Null,
         NEW first \in Nat, NEW last \in Nat, first < last, last < Size(m),
         Varying => ~ Narrow(m, last, first)
  PROVE  LET k   == Size(m) - (last - first)
             n   == Remaining(m, first, last)
             gap == Gap(m, first, last)
         IN  /\ gap \in Nat /\ k \in Nat /\ k > first
             /\ Numbers(n) /\ n.block = m.block /\ n.units = m.units
             /\ n.edge = <<n.block, n.edge[2]>> /\ n.edge[2] \in Nat
             /\ ~ Varying => n.edge[2] = 0
             /\ Size(n) = k /\ Elements(n) = 0 .. k - 1
             /\ Used(n) \in Nat /\ Used(n) <= Used(m) /\ Used(m) - gap <= Used(n)
             /\ NonTrivial => Used(n) = Used(m) - gap
             /\ \A i \in Elements(n) :
                  Offset(n, i) = IF i < first THEN Offset(m, i)
                                 ELSE Offset(m, i + (last - first)) - gap
  <1> DEFINE k   == Size(m) - (last - first)
             t   == IF Varying THEN ShiftedTable(m, last, first) ELSE m.table
             n   == Remaining(m, first, last)
             gap == Gap(m, first, last)
  <1>0. n = Resized(m, t, k)
    BY DEF Remaining
  <1>60. k = Size(m) - (last - first) /\ gap = Offset(m, last) - Offset(m, first)
    BY DEF Gap
  <1> HIDE DEF n, gap
  <1>1. /\ Size(m) \in Nat /\ Elements(m) = 0 .. Size(m) - 1 /\ Numbers(m) /\ IsMembers(m)
    BY NumbersOf DEF Inv, OwnInv, AreVectors
  <1>2. k \in Nat /\ k > first /\ k < Size(m) /\ k + (last - first) = Size(m)
    BY <1>1
  <1>3. /\ m.block \in Block /\ m.edge = <<m.block, m.edge[2]>> /\ m.edge[2] \in Nat
        /\ ~ Varying => m.edge[2] = 0
        /\ m.edge # Null /\ m.units \in Nat /\ Used(m) \in Nat
    BY InMemory
  <1>4. ASSUME NEW i \in Elements(m)
        PROVE  /\ Offset(m, i) \in Nat /\ Offset(m, i) <= Used(m)
               /\ i >= first => Offset(m, first) <= Offset(m, i)
               /\ i >= last => Offset(m, last) <= Offset(m, i)
    <2>1. i \in Nat /\ first \in Elements(m) /\ last \in Elements(m)
      BY <1>1
    <2>2. /\ Offset(m, i) \in Nat /\ Offset(m, i) < EndAt(heap[m.block].cells, Offset(m, i))
          /\ EndAt(heap[m.block].cells, Offset(m, i)) <= Used(m)
          /\ EndAt(heap[m.block].cells, Offset(m, i)) \in Nat
      BY OffsetsInOrder
    <2>3. i >= first => Offset(m, first) <= Offset(m, i)
      BY <2>1, OffsetsInOrder
    <2>4. i >= last => Offset(m, last) <= Offset(m, i)
      BY <2>1, OffsetsInOrder
    <2> QED
      BY <1>3, <2>2, <2>3, <2>4
  <1>5. /\ first \in Elements(m) /\ last \in Elements(m) /\ k \in Elements(m)
        /\ Offset(m, first) \in Nat /\ Offset(m, last) \in Nat /\ Offset(m, k) \in Nat
        /\ Offset(m, first) <= Offset(m, last) /\ Offset(m, last) <= Used(m)
        /\ Offset(m, k) <= Used(m) /\ gap \in Nat /\ gap <= Used(m)
    <2>1. first \in Elements(m) /\ last \in Elements(m) /\ k \in Elements(m) /\ last >= first
      BY <1>1, <1>2
    <2>2. Offset(m, first) \in Nat
      BY <1>4, <2>1
    <2>3. Offset(m, last) \in Nat /\ Offset(m, first) <= Offset(m, last)
          /\ Offset(m, last) <= Used(m)
      BY <1>4, <2>1
    <2>4. Offset(m, k) \in Nat /\ Offset(m, k) <= Used(m)
      BY <1>4, <2>1
    <2>5. Used(m) \in Nat
      BY <1>3
    <2> QED
      BY <1>60, <2>1, <2>2, <2>3, <2>4, <2>5
  <1>6. /\ n.block = m.block /\ n.units = m.units /\ n.stride = m.stride
        /\ n.max_element_count = m.max_element_count
        /\ n.table = (IF Varying THEN SubSeq(t, 1, k) ELSE m.table)
        /\ n.element_count = (IF Varying THEN m.element_count ELSE k)
        /\ n.edge = (IF Varying THEN At(m.block, t[k + 1]) ELSE m.edge)
    <2> HIDE DEF t, k
    <2> QED
      BY <1>0, <1>1, ResizedFields
  <1>61. t = IF Varying THEN ShiftedTable(m, last, first) ELSE m.table
    OBVIOUS
  <1> HIDE DEF n, t, gap, k
  <1> DEFINE G ==
        /\ gap \in Nat /\ k \in Nat /\ k > first
        /\ Numbers(n) /\ n.block = m.block /\ n.units = m.units
        /\ n.edge = <<n.block, n.edge[2]>> /\ n.edge[2] \in Nat
        /\ ~ Varying => n.edge[2] = 0
        /\ Size(n) = k /\ Elements(n) = 0 .. k - 1
        /\ Used(n) \in Nat /\ Used(n) <= Used(m) /\ Used(m) - gap <= Used(n)
        /\ NonTrivial => Used(n) = Used(m) - gap
        /\ \A i \in Elements(n) :
             Offset(n, i) = IF i < first THEN Offset(m, i)
                            ELSE Offset(m, i + (last - first)) - gap
  <1>7. ASSUME Varying PROVE G
    <2>1. m.table \in Seq(Nat) /\ Len(m.table) = Size(m) /\ Used(m) = m.edge[2]
      BY <1>1, <1>3, <1>7 DEF Numbers, Size, Used
    <2>2. \A i \in Elements(m) :
            i \in Nat /\ i + 1 \in DOMAIN m.table /\ Offset(m, i) = m.table[i + 1]
      <3>1. DOMAIN m.table = 1 .. Size(m)
        BY <2>1
      <3> SUFFICES ASSUME NEW i \in Elements(m)
                   PROVE  i \in Nat /\ i + 1 \in DOMAIN m.table /\ Offset(m, i) = m.table[i + 1]
        OBVIOUS
      <3>2. i \in Nat /\ i + 1 \in 1 .. Size(m)
        BY <1>1
      <3> QED
        BY <1>7, <3>1, <3>2 DEF Offset
    <2> DEFINE entries == IF NonTrivial THEN Append(m.table, m.edge[2]) ELSE m.table
    <2>3. /\ entries \in Seq(Nat) /\ Len(entries) = (IF NonTrivial THEN Size(m) + 1 ELSE Size(m))
          /\ \A q \in DOMAIN m.table : entries[q] = m.table[q]
          /\ NonTrivial => entries[Size(m) + 1] = m.edge[2]
      <3> DEFINE x == m.table
                 y == m.edge[2]
                 l == Size(m)
      <3>1. x \in Seq(Nat) /\ Len(x) = l /\ y \in Nat /\ l \in Nat
        BY <1>1, <1>3, <2>1
      <3> HIDE DEF x, y, l
      <3>2. /\ Append(x, y) \in Seq(Nat) /\ Len(Append(x, y)) = l + 1
            /\ \A q \in DOMAIN x : Append(x, y)[q] = x[q]
            /\ Append(x, y)[l + 1] = y
        BY <3>1
      <3> USE DEF x, y, l
      <3>3. CASE NonTrivial
        BY <3>2, <3>3
      <3>4. CASE ~ NonTrivial
        BY <2>1, <3>4
      <3> QED
        BY <3>3, <3>4
    <2>4. entries[last + 1] - entries[first + 1] = gap
      BY <1>5, <1>60, <2>2, <2>3
    <2> HIDE DEF entries
    <2>5. t = [q \in DOMAIN m.table |->
                 IF q > first /\ q + (last - first) <= Len(entries)
                      /\ (NonTrivial => q > first + 1)
                   THEN entries[q + (last - first)] - gap ELSE m.table[q]]
      BY <1>7, <1>61, <2>4 DEF ShiftedTable, entries
    <2>6. ASSUME NEW i \in Elements(m), i < k
          PROVE  /\ t[i + 1] = IF i < first THEN Offset(m, i)
                               ELSE Offset(m, i + (last - first)) - gap
                 /\ t[i + 1] \in Nat
      <3>1. i \in Nat /\ i + 1 \in DOMAIN m.table /\ m.table[i + 1] = Offset(m, i)
            /\ Offset(m, i) \in Nat
        BY <1>4, <2>2
      <3>2. CASE i < first
        <4>1. ~ (i + 1 > first)
          BY <3>1, <3>2
        <4> QED
          BY <2>5, <3>1, <3>2, <4>1
      <3>3. CASE i >= first
        <4> DEFINE j == i + (last - first)
        <4>1. j \in Elements(m) /\ j >= last /\ (i + 1) + (last - first) = j + 1
          BY <1>1, <1>2, <2>6, <3>1, <3>3
        <4>2. /\ Offset(m, j) \in Nat /\ Offset(m, last) <= Offset(m, j)
              /\ j + 1 \in DOMAIN m.table /\ m.table[j + 1] = Offset(m, j)
          BY <1>4, <2>2, <4>1
        <4>3. entries[j + 1] = Offset(m, j) /\ j + 1 <= Len(entries)
          <5>1. j \in Nat /\ j + 1 <= Size(m)
            BY <1>1, <4>1
          <5>2. Len(entries) >= Size(m)
            BY <1>1, <2>3
          <5> QED
            <6>1. entries[j + 1] = m.table[j + 1]
              BY <2>3, <4>2
            <6>2. Len(entries) \in Nat
              BY <2>3
            <6> HIDE DEF j
            <6>3. j + 1 <= Len(entries)
              BY <1>1, <5>1, <5>2, <6>2
            <6> QED
              BY <4>2, <6>1, <6>3
        <4>4. CASE NonTrivial /\ i = first
          <5>1. j = last /\ ~ (i + 1 > first + 1)
            BY <1>2, <4>4
          <5>2. t[i + 1] = Offset(m, i)
            BY <2>5, <3>1, <4>4, <5>1
          <5>3. Offset(m, i) = Offset(m, j) - gap
            BY <1>5, <1>60, <4>4, <5>1
          <5> QED
            BY <3>1, <3>3, <5>2, <5>3
        <4>5. CASE ~ (NonTrivial /\ i = first)
          <5>1. i + 1 > first /\ (NonTrivial => i + 1 > first + 1)
            BY <3>1, <3>3, <4>5
          <5>2. t[i + 1] = entries[j + 1] - gap
            <6>1. (i + 1) + (last - first) <= Len(entries)
              BY <4>1, <4>3
            <6>2. t[i + 1] = entries[(i + 1) + (last - first)] - gap
              BY <2>5, <3>1, <5>1, <6>1
            <6>3. (i + 1) + (last - first) = (i + (last - first)) + 1
              BY <3>1
            <6> QED
              BY <6>2, <6>3
          <5>3. Offset(m, j) - gap \in Nat
            BY <1>5, <1>60, <4>2
          <5> QED
            BY <3>1, <3>3, <4>3, <5>2, <5>3
        <4> QED
          BY <4>4, <4>5
      <3> QED
        BY <3>1, <3>2, <3>3
    <2>7. t[k + 1] = IF NonTrivial THEN Used(m) - gap ELSE Offset(m, k)
      <3>1. k + 1 \in DOMAIN m.table /\ (k + 1) + (last - first) = Size(m) + 1 /\ k + 1 > first + 1
            /\ m.table[k + 1] = Offset(m, k)
        BY <1>2, <1>5, <2>2
      <3>2. CASE NonTrivial
        <4>1. t[k + 1] = entries[Size(m) + 1] - gap
          <5>1. k + 1 > first /\ (k + 1) + (last - first) <= Len(entries)
            <6>1. Len(entries) = Size(m) + 1
              BY <2>3, <3>2
            <6> QED
              BY <1>1, <1>2, <3>1, <6>1
          <5>2. t[k + 1] = entries[(k + 1) + (last - first)] - gap
            BY <2>5, <3>1, <5>1
          <5> QED
            BY <3>1, <5>2
        <4> QED
          BY <2>1, <2>3, <3>2, <4>1
      <3>3. CASE ~ NonTrivial
        <4>1. ~ ((k + 1) + (last - first) <= Len(entries))
          BY <1>1, <2>3, <3>1, <3>3
        <4> QED
          BY <2>5, <3>1, <3>3, <4>1
      <3> QED
        BY <3>2, <3>3
    <2>8. t[k + 1] \in Nat /\ t[k + 1] <= Used(m) /\ Used(m) - gap <= t[k + 1]
      <3>1. CASE NonTrivial
        BY <1>3, <1>5, <2>7, <3>1
      <3>2. CASE ~ NonTrivial
        <4>1. ~ (m.edge[2] - Offset(m, Size(m) - (last - first)) > gap)
          BY <1>7, <1>60, <3>2 DEF Narrow
        <4>2. ~ (Used(m) - Offset(m, k) > gap)
          BY <1>60, <2>1, <4>1
        <4> QED
          BY <1>3, <1>5, <2>7, <3>2, <4>2
      <3> QED
        BY <3>1, <3>2
    <2>9. n.edge = <<n.block, t[k + 1]>> /\ n.edge[2] = t[k + 1]
      BY <1>6, <1>7 DEF At
    <2>10. n.edge # Null
      <3>1. <<n.block, t[k + 1]>> \in Block \X Nat
        BY <1>3, <1>6, <2>8
      <3> QED
        BY <2>9, <3>1, NamesAssumption
    <2>11. Used(n) = t[k + 1]
      BY <1>7, <2>9, <2>10 DEF Used
    <2>12. n.table \in Seq(Nat) /\ Len(n.table) = k /\ \A q \in 1 .. k : n.table[q] = t[q]
      <3>1. n.table = SubSeq(t, 1, k)
        BY <1>6, <1>7
      <3>2. DOMAIN m.table = 1 .. Size(m)
        BY <2>1
      <3>3. ASSUME NEW q \in 1 .. Size(m)
            PROVE  t[q] \in Int
        <4>1. m.table[q] \in Nat
          BY <2>1, <3>2
        <4>2. CASE q > first /\ q + (last - first) <= Len(entries)
                     /\ (NonTrivial => q > first + 1)
          <5>1. q + (last - first) \in 1 .. Len(entries)
            BY <2>3, <4>2
          <5>2. entries[q + (last - first)] \in Nat
            BY <2>3, <5>1
          <5> QED
            BY <1>5, <2>5, <3>2, <4>2, <5>2
        <4>3. CASE ~ (q > first /\ q + (last - first) <= Len(entries)
                       /\ (NonTrivial => q > first + 1))
          BY <2>5, <3>2, <4>1, <4>3
        <4> QED
          BY <4>2, <4>3
      <3>4. t = [q \in 1 .. Size(m) |-> t[q]]
        BY <2>5, <3>2
      <3>5. t \in [1 .. Size(m) -> Int]
        BY <3>3, <3>4
      <3>6. t \in Seq(Int) /\ Len(t) = Size(m)
        BY <1>1, <3>5
      <3>7. ASSUME NEW q \in 1 .. k
            PROVE  t[q] \in Nat
        <4>1. q - 1 \in Elements(m) /\ q - 1 < k /\ (q - 1) + 1 = q
          BY <1>1, <1>2
        <4> QED
          BY <2>6, <4>1
      <3> DEFINE u == SubSeq(t, 1, k)
      <3>8. /\ u = [q \in 1 .. k |-> u[q]]
            /\ \A q \in 1 .. k : u[q] = t[q]
        BY <1>2, <3>6
      <3> HIDE DEF u
      <3>9. u \in [1 .. k -> Nat]
        BY <3>7, <3>8
      <3>10. u \in Seq(Nat) /\ Len(u) = k
        BY <1>2, <3>9
      <3> QED
        BY <3>1, <3>8, <3>10 DEF u
    <2>13. Size(n) = k /\ Elements(n) = 0 .. k - 1
      BY <1>7, <2>12 DEF Size, Elements, UnitsOf
    <2>14. Numbers(n)
      BY <1>1, <1>6, <1>7, <2>12 DEF Numbers
    <2>15. ASSUME NEW i \in Elements(n)
           PROVE  Offset(n, i) = IF i < first THEN Offset(m, i)
                                 ELSE Offset(m, i + (last - first)) - gap
      <3>1. i \in Elements(m) /\ i < k /\ i + 1 \in 1 .. k
        BY <1>1, <1>2, <2>13
      <3>2. Offset(n, i) = t[i + 1]
        BY <1>7, <2>12, <3>1 DEF Offset
      <3> QED
        BY <2>6, <3>1, <3>2
    <2>16. NonTrivial => Used(n) = Used(m) - gap
      BY <2>7, <2>11
    <2> QED
      BY <1>2, <1>5, <1>6, <1>7, <2>8, <2>9, <2>11, <2>13, <2>14, <2>15, <2>16
  <1>8. ASSUME ~ Varying PROVE G
    <2>1. /\ Size(m) = m.element_count /\ Used(m) = Size(m)
          /\ \A i \in Elements(m) : Offset(m, i) = i
          /\ m.element_count > 0 => m.stride = 1
      BY <1>8, FixedOffsets
    <2>2. m.stride = 1 /\ gap = last - first /\ Offset(m, last) = last /\ Offset(m, first) = first
      BY <1>1, <1>5, <1>60, <2>1
    <2>3. n.edge = m.edge /\ n.element_count = k /\ n.stride = 1 /\ n.table = m.table
      BY <1>6, <1>8, <2>2
    <2>4. Used(n) = 1 * k
      BY <1>3, <1>8, <2>3 DEF Used
    <2>5. Size(n) = k /\ Elements(n) = 0 .. k - 1
      BY <1>8, <2>3 DEF Size, Elements, UnitsOf
    <2>6. ASSUME NEW i \in Elements(n)
          PROVE  Offset(n, i) = IF i < first THEN Offset(m, i)
                                ELSE Offset(m, i + (last - first)) - gap
      <3>1. /\ i \in Nat /\ i \in Elements(m)
            /\ i >= first => i + (last - first) \in Elements(m)
        <4>1. i \in Nat /\ i < k
          BY <1>2, <2>5
        <4> QED
          BY <1>1, <1>2, <4>1
      <3>2. Offset(n, i) = 0 + 1 * i
        BY <1>3, <1>8, <2>3 DEF Offset
      <3> QED
        BY <2>1, <2>2, <3>1, <3>2
    <2>7. Numbers(n)
      BY <1>1, <1>2, <1>6, <1>8, <2>1, <2>3 DEF Numbers
    <2>8. Used(n) = k /\ Used(m) - gap = k
      BY <1>2, <2>1, <2>2, <2>4
    <2>9. /\ Used(n) \in Nat /\ Used(n) <= Used(m) /\ Used(m) - gap <= Used(n)
          /\ Used(n) = Used(m) - gap
      BY <1>1, <1>2, <2>1, <2>8
    <2>10. /\ n.edge = <<n.block, n.edge[2]>> /\ n.edge[2] \in Nat /\ n.edge[2] = 0
      BY <1>3, <1>6, <1>8, <2>3
    <2> QED
      BY <1>2, <1>5, <1>6, <2>5, <2>6, <2>7, <2>9, <2>10
  <1>9. G
    BY <1>7, <1>8
  <1> QED
    BY <1>9 DEF n, t, gap, k

-----------------------------------------------------------------------------
(* Elements go and those behind them take their place.                      *)
LEMMA EraseMiddle ==
  ASSUME Inv, UNCHANGED kind, NEW v \in DOMAIN vectors, NEW m, m = vectors[v], ~ IsHollow(m),
         NEW first \in Nat, NEW last \in Nat, first < last, last < Size(m),
         Varying => ~ Narrow(m, last, first),
         EraseFrom(v, first, last, TRUE)
  PROVE  /\ Defined /\ AllSound'
         /\ ~ HasMoved(m, heap) /\ ThingsOf(m, heap) \in Seq(Value) =>
              Gives(v, SubSeq(ThingsOf(m, heap), 1, first)
                         \o SubSeq(ThingsOf(m, heap), last + 1, Size(m)))
  <1> DEFINE k   == Size(m) - (last - first)
             n   == Remaining(m, first, last)
             gap == Gap(m, first, last)
             c   == heap[m.block].cells
             S   == first .. last - 1
             d1  == Cleared(m, S)
             d   == MovedDown(m, d1, last, first)
  <1>1. /\ Size(m) \in Nat /\ Elements(m) = 0 .. Size(m) - 1 /\ Numbers(m)
        /\ IsMembers(m) /\ Sound(m, heap)
    BY NumbersOf DEF Inv, OwnInv, AreVectors, AllSound
  <1>2. m.block # Null
    BY <1>1, WithoutMemory
  <1>3. /\ m.units \in Nat /\ DOMAIN c = UnitsOf(m.units)
        /\ Used(m) \in Nat /\ Used(m) <= m.units
        /\ (NonTrivial => NoStray(m, c))
    BY <1>2, InMemory
  <1>4. /\ Defined
        /\ heap' = MovedForward(Destroyed(heap, m, S), m, last, first)
        /\ vectors' = Set(v, n)
    <2>1. TRUE \in BOOLEAN /\ first <= last /\ last <= Size(m) /\ last < Size(m)
          /\ (NonTrivial => ~ Narrow(m, last, first))
      BY <1>1 DEF Narrow
    <2>2. /\ Defined
          /\ heap' = (IF TRUE /\ last < Size(m)
                        THEN MovedForward(Destroyed(heap, m, first .. last - 1), m, last, first)
                        ELSE Destroyed(heap, m, first .. last - 1))
          /\ vectors' = Set(v, Resized(m, IF TRUE /\ Varying /\ last < Size(m)
                                            THEN ShiftedTable(m, last, first)
                                            ELSE m.table, Size(m) - (last - first)))
      BY <2>1, EraseFromDefined
    <2>3. (IF TRUE /\ Varying /\ last < Size(m) THEN ShiftedTable(m, last, first)
           ELSE m.table) = (IF Varying THEN ShiftedTable(m, last, first) ELSE m.table)
      BY <2>1
    <2> QED
      BY <2>1, <2>2, <2>3 DEF Remaining
  <1>5. S \subseteq Elements(m) /\ S # {}
        /\ first \in Elements(m) /\ last \in Elements(m)
    BY <1>1
  <1>6. heap' = [heap EXCEPT ![m.block].cells = d]
    <2>1. Destroyed(heap, m, S) = [heap EXCEPT ![m.block].cells = d1]
      BY <1>2, <1>5, DestroyedCells
    <2> DEFINE h == Destroyed(heap, m, S)
    <2> HIDE DEF d1, h
    <2>2. Wrote(MovedForward(h, m, last, first), m.block, d)
      <3>1. Wrote(h, m.block, d1)
        BY <2>1 DEF h, Wrote
      <3> QED
        BY <1>2, <3>1, MovedCells
    <2> QED
      BY <1>4, <2>2 DEF h, Wrote
  <1>7. /\ gap \in Nat /\ k \in Nat /\ k > first
        /\ Numbers(n) /\ n.block = m.block /\ n.units = m.units
        /\ n.edge = <<n.block, n.edge[2]>> /\ n.edge[2] \in Nat
        /\ ~ Varying => n.edge[2] = 0
        /\ Size(n) = k /\ Elements(n) = 0 .. k - 1
        /\ Used(n) \in Nat /\ Used(n) <= Used(m) /\ Used(m) - gap <= Used(n)
        /\ NonTrivial => Used(n) = Used(m) - gap
        /\ \A i \in Elements(n) :
             Offset(n, i) = IF i < first THEN Offset(m, i)
                            ELSE Offset(m, i + (last - first)) - gap
    BY <1>2, MovedTable
  <1>8. k = Size(m) - (last - first) /\ gap = Offset(m, last) - Offset(m, first)
    BY DEF Gap
  <1>9. ASSUME NEW i \in Elements(m)
        PROVE  /\ Offset(m, i) \in Nat /\ EndAt(c, Offset(m, i)) \in Nat
               /\ Offset(m, i) < EndAt(c, Offset(m, i))
               /\ EndAt(c, Offset(m, i)) <= Used(m)
               /\ Whole(c, Offset(m, i))
    BY <1>2, OffsetsInOrder
  <1>10. ASSUME NEW i \in Elements(m)
         PROVE  /\ i < first => EndAt(c, Offset(m, i)) <= Offset(m, first)
                /\ i >= first => Offset(m, first) <= Offset(m, i)
                /\ i < last => EndAt(c, Offset(m, i)) <= Offset(m, last)
                /\ i >= last => Offset(m, last) <= Offset(m, i)
    <2>1. i \in Nat
      BY <1>1
    <2>2. i < first => EndAt(c, Offset(m, i)) <= Offset(m, first)
      BY <1>2, <1>5, OffsetsInOrder
    <2>3. first <= i => Offset(m, first) <= Offset(m, i)
      BY <1>2, <1>5, OffsetsInOrder
    <2>4. i < last => EndAt(c, Offset(m, i)) <= Offset(m, last)
      BY <1>2, <1>5, OffsetsInOrder
    <2>5. last <= i => Offset(m, last) <= Offset(m, i)
      BY <1>2, <1>5, OffsetsInOrder
    <2> QED
      BY <2>1, <2>2, <2>3, <2>4, <2>5
  <1> DEFINE a == Offset(m, first)
             b == Offset(m, last)
             u == Used(m)
  <1>11. a \in Nat /\ b \in Nat /\ a <= b /\ b <= u /\ gap = b - a
    <2>1. a \in Nat /\ b \in Nat /\ EndAt(c, b) <= u /\ b < EndAt(c, b) /\ EndAt(c, b) \in Nat
      BY <1>5, <1>9
    <2>2. a <= b
      BY <1>5, <1>10
    <2> QED
      BY <1>3, <1>8, <2>1, <2>2
  <1>12. /\ DOMAIN d1 = DOMAIN c
         /\ \A x \in DOMAIN c : x < a \/ x >= b => d1[x] = c[x]
         /\ \A x \in DOMAIN c : d1[x] # Raw =>
              /\ d1[x] = c[x]
              /\ \A i \in S : ~ (Offset(m, i) <= x /\ x < EndAt(c, Offset(m, i)))
    <2>1. ASSUME NEW x \in DOMAIN c, x < a \/ x >= b,
                 NEW i \in S, Offset(m, i) <= x, x < EndAt(c, Offset(m, i))
          PROVE  FALSE
      <3>1. i \in Elements(m) /\ i >= first /\ i < last /\ x \in Nat
        BY <1>3, <1>5, <2>1 DEF UnitsOf
      <3>2. /\ Offset(m, i) \in Nat /\ EndAt(c, Offset(m, i)) \in Nat
            /\ a <= Offset(m, i) /\ EndAt(c, Offset(m, i)) <= b
        BY <1>9, <1>10, <3>1
      <3> QED
        BY <1>11, <2>1, <3>1, <3>2
    <2> QED
      BY <2>1 DEF Cleared
  <1> HIDE DEF d1
  <1>13. /\ DOMAIN d = DOMAIN c
         /\ \A x \in DOMAIN c :
              d[x] = IF x >= a /\ x + gap < u THEN d1[x + gap]
                     ELSE IF x >= a /\ x < u THEN Raw ELSE d1[x]
    <2>1. d = [x \in DOMAIN d1 |->
                 IF x >= a /\ x + gap < u THEN d1[x + gap]
                 ELSE IF x >= a /\ x < u THEN Raw ELSE d1[x]]
      BY DEF MovedDown, Gap
    <2> HIDE DEF d, a, u, gap
    <2> QED
      BY <1>12, <2>1
  <1> HIDE DEF d, n, k, gap, a, b, u, c
  <1>14. ASSUME NEW i \in Elements(n), i < first
         PROVE  WasAt(n, d, i, m, c, i, 0)
    <2>1. i \in Elements(m) /\ Offset(n, i) = Offset(m, i)
      BY <1>1, <1>7, <1>14
    <2>2. /\ Offset(m, i) \in Nat /\ EndAt(c, Offset(m, i)) \in Nat
          /\ EndAt(c, Offset(m, i)) <= a /\ Whole(c, Offset(m, i))
      BY <1>9, <1>10, <1>14, <2>1 DEF a
    <2> DEFINE o == Offset(m, i)
    <2>3. \A x \in DOMAIN c : x \in Int /\ o <= x /\ x < EndAt(c, o) =>
            x + (o - o) \in DOMAIN d /\ d[x + (o - o)] = c[x]
      <3> SUFFICES ASSUME NEW x \in DOMAIN c, x < EndAt(c, o)
                   PROVE  x + (o - o) \in DOMAIN d /\ d[x + (o - o)] = c[x]
        OBVIOUS
      <3>1. x \in Nat /\ x < a /\ x + (o - o) = x
        BY <1>3, <1>11, <2>2 DEF UnitsOf
      <3>2. d[x] = d1[x] /\ d1[x] = c[x]
        BY <1>11, <1>12, <1>13, <3>1
      <3> QED
        BY <1>13, <3>1, <3>2
    <2>4. o \in Int /\ Whole(c, o)
      BY <2>2
    <2> HIDE DEF o
    <2>5. Whole(d, o) /\ d[o] = c[o] /\ EndAt(d, o) = EndAt(c, o) + (o - o)
      BY <2>3, <2>4, SameWhole
    <2>6. EndAt(c, o) \in Nat /\ EndAt(c, o) <= a /\ o \in Nat
      BY <2>2 DEF o
    <2>7. EndAt(d, o) = EndAt(c, o) - 0 /\ o = o - 0 /\ EndAt(d, o) <= Used(n)
      BY <1>3, <1>7, <1>11, <2>5, <2>6 DEF u
    <2> QED
      BY <2>1, <2>5, <2>7 DEF WasAt, o
  <1>15. ASSUME NEW i \in Elements(n), i >= first
         PROVE  WasAt(n, d, i, m, c, i + (last - first), gap)
    <2> DEFINE j == i + (last - first)
               o == Offset(m, j)
               p == Offset(n, i)
    <2>1. j \in Elements(m) /\ j >= last /\ p = o - gap
      <3>1. i \in Nat /\ i < k /\ k = Size(m) - (last - first)
        BY <1>1, <1>7, <1>8
      <3>2. ~ (i < first)
        BY <1>15, <3>1
      <3> QED
        BY <1>1, <1>7, <1>15, <3>1, <3>2
    <2>2. o \in Nat /\ EndAt(c, o) \in Nat /\ Whole(c, o) /\ b <= o /\ EndAt(c, o) <= u
      <3> HIDE DEF j
      <3> QED
        BY <1>9, <1>10, <2>1 DEF b, u
    <2> HIDE DEF j
    <2>3. o \in Int /\ p \in Int /\ p - o = 0 - gap /\ p >= a
      <3> HIDE DEF o, p
      <3> QED
        BY <1>7, <1>11, <2>1, <2>2
    <2> HIDE DEF o, p
    <2>4. \A x \in DOMAIN c : x \in Int /\ o <= x /\ x < EndAt(c, o) =>
            x + (p - o) \in DOMAIN d /\ d[x + (p - o)] = c[x]
      <3> SUFFICES ASSUME NEW x \in DOMAIN c, o <= x, x < EndAt(c, o)
                   PROVE  x + (p - o) \in DOMAIN d /\ d[x + (p - o)] = c[x]
        OBVIOUS
      <3> DEFINE y == x + (p - o)
      <3>1. /\ x \in Nat /\ x < m.units /\ y \in Int /\ y >= a /\ y + gap = x /\ x >= b /\ y <= x
            /\ x < u
        <4>1. x \in Nat /\ x < m.units /\ u \in Nat /\ gap \in Nat /\ a \in Nat /\ b \in Nat
          BY <1>3, <1>7, <1>11 DEF UnitsOf, u
        <4>2. x < u /\ x >= b
          BY <2>2, <2>3, <4>1
        <4>3. y = x - gap
          BY <2>3, <4>1
        <4> QED
          BY <1>11, <4>1, <4>2, <4>3
      <3>2. y \in DOMAIN c
        BY <1>3, <1>11, <3>1 DEF UnitsOf
      <3> HIDE DEF y
      <3>3. d[y] = d1[x]
        BY <1>13, <3>1, <3>2
      <3>4. d1[x] = c[x]
        BY <1>12, <3>1
      <3> QED
        BY <1>13, <3>2, <3>3, <3>4 DEF y
    <2>5. Whole(d, p) /\ d[p] = c[o] /\ EndAt(d, p) = EndAt(c, o) + (p - o)
      BY <2>2, <2>3, <2>4, SameWhole
    <2>6. EndAt(d, p) = EndAt(c, o) - gap /\ EndAt(d, p) <= Used(n)
      BY <1>3, <1>7, <2>2, <2>3, <2>5 DEF u
    <2> QED
      BY <2>1, <2>5, <2>6 DEF WasAt, o, p, j
  <1>16. NonTrivial => NoStray(n, d)
    <2> SUFFICES ASSUME NonTrivial, NEW x \in DOMAIN d, d[x] # Raw
                 PROVE  \E i \in Elements(n) : Offset(n, i) <= x /\ x < EndAt(d, Offset(n, i))
      BY DEF NoStray
    <2>1. x \in DOMAIN c /\ x \in Nat
      BY <1>3, <1>13 DEF UnitsOf
    <2>2. ASSUME NEW y \in DOMAIN c, c[y] # Raw
          PROVE  \E i \in Elements(m) : Offset(m, i) <= y /\ y < EndAt(c, Offset(m, i))
      BY <1>3, <2>2 DEF NoStray
    <2>3. CASE x < a
      <3>1. d[x] = d1[x] /\ d1[x] = c[x]
        BY <1>11, <1>12, <1>13, <2>1, <2>3
      <3>2. PICK i \in Elements(m) : Offset(m, i) <= x /\ x < EndAt(c, Offset(m, i))
        BY <2>1, <2>2, <3>1
      <3>3. i < first /\ i \in Elements(n)
        <4>1. i < first
          <5>1. i \in Nat /\ Offset(m, i) \in Nat
            BY <1>1, <1>9
          <5>2. i >= first => a <= Offset(m, i)
            BY <1>10 DEF a
          <5> QED
            BY <1>11, <2>1, <2>3, <3>2, <5>1, <5>2
        <4> QED
          BY <1>1, <1>7, <4>1
      <3>4. WasAt(n, d, i, m, c, i, 0) /\ Offset(m, i) \in Nat /\ EndAt(c, Offset(m, i)) \in Nat
        BY <1>9, <1>14, <3>3
      <3>5. Offset(n, i) = Offset(m, i) /\ EndAt(d, Offset(n, i)) = EndAt(c, Offset(m, i))
        BY <3>4 DEF WasAt
      <3> QED
        BY <3>2, <3>3, <3>5
    <2>4. CASE x >= a
      <3> DEFINE y == x + gap
      <3>1. y < u
        <4>1. CASE x < u
          BY <1>13, <2>1, <2>4, <4>1
        <4>2. CASE ~ (x < u)
          <5>1. d[x] = d1[x]
            BY <1>3, <1>7, <1>13, <2>1, <4>2 DEF u
          <5>2. c[x] # Raw
            BY <1>12, <2>1, <5>1
          <5>3. PICK i \in Elements(m) : Offset(m, i) <= x /\ x < EndAt(c, Offset(m, i))
            BY <2>1, <2>2, <5>2
          <5> QED
            BY <1>3, <1>9, <2>1, <4>2, <5>3 DEF u
        <4> QED
          BY <4>1, <4>2
      <3>2. y \in Nat /\ y \in DOMAIN c /\ y >= b
        <4>1. u \in Nat /\ u <= m.units /\ m.units \in Nat /\ gap \in Nat
          BY <1>3, <1>7 DEF u
        <4>2. y \in Nat /\ y >= b /\ y < m.units
          BY <1>11, <2>1, <2>4, <3>1, <4>1
        <4> QED
          BY <1>3, <4>2 DEF UnitsOf
      <3>3. d[x] = d1[y]
        BY <1>13, <2>1, <2>4, <3>1
      <3> HIDE DEF y
      <3>4. d1[y] = c[y]
        BY <1>12, <3>2
      <3>5. PICK j \in Elements(m) : Offset(m, j) <= y /\ y < EndAt(c, Offset(m, j))
        BY <2>2, <3>2, <3>3, <3>4
      <3>6. j >= last /\ j \in Nat /\ j < Size(m)
        <4>1. j \in Nat /\ j < Size(m) /\ EndAt(c, Offset(m, j)) \in Nat
          BY <1>1, <1>9
        <4>2. j < last => EndAt(c, Offset(m, j)) <= b
          BY <1>10 DEF b
        <4> DEFINE e == EndAt(c, Offset(m, j))
        <4>3. e \in Nat /\ y < e /\ (j < last => e <= b)
          BY <3>5, <4>1, <4>2
        <4> HIDE DEF e
        <4>4. ~ (j < last)
          BY <1>11, <3>2, <4>3
        <4> QED
          BY <4>1, <4>4
      <3> DEFINE i == j - (last - first)
      <3>7. i \in Elements(n) /\ i >= first /\ i + (last - first) = j
        <4>1. /\ Elements(n) = 0 .. k - 1 /\ k = Size(m) - (last - first)
              /\ k \in Nat /\ Size(m) \in Nat
          BY <1>1, <1>7, <1>8
        <4>2. i \in Nat /\ i >= first /\ i + (last - first) = j /\ i < k
          BY <3>6, <4>1
        <4> HIDE DEF i
        <4> QED
          BY <4>1, <4>2
      <3>8. /\ WasAt(n, d, i, m, c, i + (last - first), gap)
            /\ Offset(m, j) \in Nat /\ EndAt(c, Offset(m, j)) \in Nat
        <4> HIDE DEF i
        <4> QED
          BY <1>9, <1>15, <3>7
      <3> HIDE DEF i
      <3>9. WasAt(n, d, i, m, c, j, gap)
        BY <3>7, <3>8
      <3>10. /\ Offset(n, i) = Offset(m, j) - gap
             /\ EndAt(d, Offset(n, i)) = EndAt(c, Offset(m, j)) - gap
        BY <3>9 DEF WasAt
      <3>11. Offset(n, i) <= x /\ x < EndAt(d, Offset(n, i))
        <4>1. x = y - gap
          BY <1>7, <2>1 DEF y
        <4> QED
          BY <1>7, <2>1, <3>2, <3>5, <3>8, <3>10, <4>1
      <3> QED
        BY <3>7, <3>11
    <2> QED
      BY <1>11, <2>1, <2>3, <2>4
  <1>17. /\ Size(n) = Size(m) - (last - first) /\ Used(n) \in Nat /\ Used(n) <= n.units
         /\ Size(n) # 0 /\ first <= last /\ last <= Size(m)
    BY <1>1, <1>3, <1>7, <1>8
  <1>18. \A i \in Elements(n) :
           /\ i < first => WasAt(n, d, i, m, c, i, 0)
           /\ i >= first => WasAt(n, d, i, m, c, i + (last - first), gap)
    BY <1>14, <1>15
  <1> QED
    BY <1>2, <1>4, <1>6, <1>7, <1>8, <1>16, <1>17, <1>18, ErasedSound DEF c

-----------------------------------------------------------------------------
(* v loses its elements first .. last - 1.                                  *)
Loses(v, first, last) ==
  Gives(v, SubSeq(contents[v], 1, first) \o SubSeq(contents[v], last + 1, Len(contents[v])))

(* What the calls to EraseFrom have in common.                              *)
LEMMA EraseSound ==
  ASSUME Inv, Careful, UNCHANGED kind, NEW v, Usable(v), NEW m, m = vectors[v],
         NEW first \in Nat, NEW last \in Nat, first < last, last <= Size(m),
         NEW moves \in BOOLEAN,
         last = Size(m) /\ moves => NonTrivial \/ ~ Varying,
         last < Size(m) => moves /\ (Varying => ~ Narrow(m, last, first)),
         EraseFrom(v, first, last, moves)
  PROVE  /\ Defined /\ AllSound' /\ v \in DOMAIN vectors
         /\ contents[v] \in Seq(Value) /\ Len(contents[v]) = Size(m)
         /\ Loses(v, first, last)
  <1>1. /\ v \in DOMAIN vectors /\ ~ IsHollow(m) /\ ~ HasMoved(m, heap)
        /\ contents[v] = ThingsOf(m, heap) /\ contents[v] \in Seq(Value)
    BY UsableVectors
  <1>2. Size(m) \in Nat
    BY <1>1, NumbersOf
  <1>3. Len(contents[v]) = Size(m)
    <2>1. DOMAIN ThingsOf(m, heap) = 1 .. Size(m)
      BY DEF ThingsOf
    <2> DEFINE s == ThingsOf(m, heap)
    <2> HIDE DEF s
    <2>2. Len(s) = Size(m)
      BY <1>1, <1>2, <2>1 DEF s
    <2> QED
      BY <1>1, <2>2 DEF s
  <1>4. CASE last = Size(m)
    <2>1. /\ Defined /\ AllSound'
          /\ Gives(v, SubSeq(ThingsOf(m, heap), 1, first)
                        \o SubSeq(ThingsOf(m, heap), last + 1, Size(m)))
      BY <1>1, <1>4, EraseSuffix
    <2> QED
      BY <1>1, <1>3, <2>1 DEF Loses
  <1>5. CASE last < Size(m)
    <2>1. moves = TRUE
      BY <1>5
    <2>2. /\ Defined /\ AllSound'
          /\ Gives(v, SubSeq(ThingsOf(m, heap), 1, first)
                        \o SubSeq(ThingsOf(m, heap), last + 1, Size(m)))
      BY <1>1, <1>5, <2>1, EraseMiddle
    <2> QED
      BY <1>1, <1>3, <2>2 DEF Loses
  <1> QED
    BY <1>2, <1>4, <1>5

LEMMA PopBackSound ==
  ASSUME Inv, Careful, UNCHANGED kind, NEW v \in Vector, PopBack(v)
  PROVE  /\ Defined /\ AllSound' /\ v \in DOMAIN vectors /\ contents[v] \in Seq(Value)
         /\ \E first, last \in 0 .. Len(contents[v]) : first <= last /\ Loses(v, first, last)
  <1> DEFINE m == vectors[v]
  <1>1. Usable(v) /\ Size(m) > 0 /\ EraseFrom(v, Size(m) - 1, Size(m), FALSE)
    BY DEF PopBack
  <1>2. v \in DOMAIN vectors /\ Size(m) \in Nat
    BY <1>1, NumbersOf DEF Usable
  <1> DEFINE first == Size(m) - 1
             last == Size(m)
  <1>3. /\ first \in Nat /\ last \in Nat /\ first < last /\ last <= Size(m)
        /\ ~ (last < Size(m)) /\ FALSE \in BOOLEAN
    BY <1>1, <1>2
  <1>4. /\ Defined /\ AllSound' /\ contents[v] \in Seq(Value)
        /\ Len(contents[v]) = Size(m) /\ Loses(v, first, last)
    <2>1. EraseFrom(v, first, last, FALSE)
      BY <1>1
    <2> HIDE DEF first, last
    <2> QED
      BY <1>1, <1>3, <2>1, EraseSound
  <1>5. first \in 0 .. Len(contents[v]) /\ last \in 0 .. Len(contents[v]) /\ first <= last
    BY <1>3, <1>4
  <1> HIDE DEF first, last
  <1> QED
    BY <1>2, <1>4, <1>5

LEMMA EraseOneSound ==
  ASSUME Inv, Careful, UNCHANGED kind, NEW v \in Vector, NEW position \in Nat,
         Erase(v, position)
  PROVE  /\ Defined /\ AllSound' /\ v \in DOMAIN vectors /\ contents[v] \in Seq(Value)
         /\ \E first, last \in 0 .. Len(contents[v]) : first <= last /\ Loses(v, first, last)
  <1> DEFINE m == vectors[v]
             last == position + 1
  <1>1. /\ Usable(v) /\ position < Size(m)
        /\ NonTrivial \/ ~ Varying \/ position + 1 < Size(m)
        /\ ~ Narrow(m, position + 1, position)
        /\ EraseFrom(v, position, position + 1, TRUE)
    BY DEF Erase, Careful
  <1>2. v \in DOMAIN vectors /\ Size(m) \in Nat
    BY <1>1, NumbersOf DEF Usable
  <1>3. /\ last \in Nat /\ position < last /\ last <= Size(m)
        /\ last = Size(m) => NonTrivial \/ ~ Varying
        /\ TRUE \in BOOLEAN /\ ~ Narrow(m, last, position)
        /\ EraseFrom(v, position, last, TRUE)
    <2>1. last \in Nat /\ position < last /\ last <= Size(m)
      BY <1>1, <1>2
    <2>2. last = Size(m) => NonTrivial \/ ~ Varying
      BY <1>1, <1>2
    <2>3. TRUE \in BOOLEAN /\ ~ Narrow(m, last, position) /\ EraseFrom(v, position, last, TRUE)
      BY <1>1
    <2> QED
      BY <2>1, <2>2, <2>3
  <1> HIDE DEF last
  <1>4. /\ Defined /\ AllSound' /\ contents[v] \in Seq(Value)
        /\ Len(contents[v]) = Size(m) /\ Loses(v, position, last)
    BY <1>1, <1>3, EraseSound
  <1>5. /\ position \in 0 .. Len(contents[v]) /\ last \in 0 .. Len(contents[v])
        /\ position <= last
    BY <1>2, <1>3, <1>4
  <1> QED
    BY <1>2, <1>4, <1>5

LEMMA EraseRangeSound ==
  ASSUME Inv, Careful, UNCHANGED kind, NEW v \in Vector, NEW first \in Nat, NEW last \in Nat,
         EraseRange(v, first, last)
  PROVE  /\ Defined /\ AllSound' /\ v \in DOMAIN vectors /\ contents[v] \in Seq(Value)
         /\ \/ Gives(v, contents[v])
            \/ \E f, l \in 0 .. Len(contents[v]) : f <= l /\ Loses(v, f, l)
  <1> DEFINE m == vectors[v]
             moves == last < Size(m) /\ first # last
  <1>1. /\ Usable(v) /\ first <= last /\ last <= Size(m)
        /\ first < last \/ ~ Varying
        /\ first = last \/ ~ Narrow(m, last, first)
        /\ EraseFrom(v, first, last, last < Size(m) /\ first # last)
    BY DEF EraseRange, Careful
  <1>2. v \in DOMAIN vectors /\ Size(m) \in Nat
    BY <1>1, NumbersOf DEF Usable
  <1>3. /\ ~ IsHollow(m) /\ contents[v] = ValueOf(m, heap) /\ contents[v] \in Seq(Value)
    BY <1>1, UsableVectors
  <1>4. CASE first = last
    <2>1. ~ Varying /\ moves = FALSE /\ first <= Size(m)
      BY <1>1, <1>2, <1>4
    <2>2. EraseFrom(v, first, first, FALSE)
      BY <1>1, <1>4, <2>1
    <2>3. Defined /\ AllSound' /\ Gives(v, ValueOf(m, heap))
      BY <1>2, <1>3, <2>1, <2>2, EraseNothing
    <2> QED
      BY <1>2, <1>3, <2>3
  <1>5. CASE first < last
    <2>1. /\ moves \in BOOLEAN /\ ~ Narrow(m, last, first)
          /\ last = Size(m) => ~ moves
          /\ last < Size(m) => moves
      BY <1>1, <1>2, <1>5
    <2>2. EraseFrom(v, first, last, moves)
      BY <1>1
    <2> HIDE DEF moves
    <2>3. /\ Defined /\ AllSound' /\ Len(contents[v]) = Size(m) /\ Loses(v, first, last)
      BY <1>1, <1>5, <2>1, <2>2, EraseSound
    <2>4. first \in 0 .. Len(contents[v]) /\ last \in 0 .. Len(contents[v]) /\ first <= last
      BY <1>1, <1>2, <2>3
    <2> QED
      BY <1>2, <1>3, <2>3, <2>4
  <1> QED
    BY <1>1, <1>4, <1>5

LEMMA ClearSound ==
  ASSUME Inv, Careful, UNCHANGED kind, NEW v \in Vector, Clear(v)
  PROVE  Defined /\ AllSound' /\ v \in DOMAIN vectors /\ Gives(v, << >>)
  <1> DEFINE m == vectors[v]
  <1>1. /\ v \in DOMAIN vectors /\ ~ IsHollow(m)
        /\ Size(m) > 0 \/ ~ Varying
        /\ EraseFrom(v, 0, Size(m), FALSE)
    BY DEF Clear, Assignable, Careful
  <1>2. Size(m) \in Nat /\ 0 \in Nat
    BY <1>1, NumbersOf
  <1>3. CASE Size(m) = 0
    <2>1. ~ Varying /\ 0 <= Size(m) /\ EraseFrom(v, 0, 0, FALSE)
      <3>1. ~ (Size(m) > 0) /\ 0 <= Size(m)
        BY <1>3
      <3>2. EraseFrom(v, 0, 0, FALSE)
        BY <1>1, <1>3, Zenon
      <3> QED
        BY <1>1, <3>1, <3>2
    <2>2. Defined /\ AllSound' /\ Gives(v, ValueOf(m, heap))
      BY <1>1, <1>2, <2>1, EraseNothing
    <2>3. ValueOf(m, heap) = << >>
      BY <1>1, <1>3, EmptyValue
    <2> QED
      BY <1>1, <2>2, <2>3
  <1>4. CASE Size(m) > 0
    <2>1. FALSE \in BOOLEAN /\ 0 < Size(m)
      BY <1>4
    <2> QED
      BY <1>1, <1>2, <2>1, EraseSuffix
  <1> QED
    BY <1>2, <1>3, <1>4

-----------------------------------------------------------------------------
(* Elements of one size take a unit each.                                   *)
LEMMA FixedWhole ==
  ASSUME ~ Varying, NEW d, NEW a \in Nat
  PROVE  /\ Whole(d, a) <=> a \in DOMAIN d /\ d[a][1] \in Things /\ d[a] = <<d[a][1], 0>>
         /\ EndAt(d, a) = a + 1
  <1>1. Width(d[a][1]) = 1 /\ UnitsOf(1) = {0} /\ a + 0 = a
    BY DEF Width, UnitsOf
  <1> QED
    BY <1>1 DEF Whole, EndAt

(* t is s with e behind its first p.                                        *)
IsInserted(t, s, p, e) ==
  /\ DOMAIN t = 1 .. Len(s) + 1 /\ t = [k \in 1 .. Len(s) + 1 |-> t[k]]
  /\ \A k \in 1 .. Len(s) + 1 :
       t[k] = IF k <= p THEN s[k] ELSE IF k = p + 1 THEN e ELSE s[k - 1]

LEMMA InsertedSequence ==
  ASSUME NEW s \in Seq(Value), NEW p \in Nat, p <= Len(s), NEW e \in Value, NEW t,
         IsInserted(t, s, p, e)
  PROVE  t = SubSeq(s, 1, p) \o <<e>> \o SubSeq(s, p + 1, Len(s))
  <1> DEFINE n == Len(s)
             a == SubSeq(s, 1, p)
             b == SubSeq(s, p + 1, n)
             x == a \o <<e>>
  <1>1. n \in Nat /\ p <= n
    OBVIOUS
  <1>2. a \in Seq(Value) /\ Len(a) = p /\ \A k \in 1 .. p : a[k] = s[k]
    BY <1>1
  <1>3. b \in Seq(Value) /\ Len(b) = n - p
    BY <1>1
  <1>4. \A k \in 1 .. n - p : b[k] = s[k + p]
    BY <1>1
  <1>5. /\ t = [k \in 1 .. n + 1 |-> t[k]]
        /\ \A k \in 1 .. n + 1 :
             t[k] = IF k <= p THEN s[k] ELSE IF k = p + 1 THEN e ELSE s[k - 1]
    BY DEF IsInserted
  <1>6. \A k \in 1 .. n : s[k] \in Value
    OBVIOUS
  <1>7. <<e>> \in Seq(Value) /\ Len(<<e>>) = 1 /\ <<e>>[1] = e
    OBVIOUS
  <1> DEFINE w == <<e>>
  <1> HIDE DEF n, a, b, w
  <1>8. /\ x \in Seq(Value) /\ Len(x) = p + 1
        /\ \A k \in 1 .. p + 1 : x[k] = IF k <= p THEN a[k] ELSE e
    <2>1. /\ a \o w \in Seq(Value) /\ Len(a \o w) = Len(a) + Len(w)
          /\ \A k \in 1 .. Len(a) + Len(w) :
               (a \o w)[k] = IF k <= Len(a) THEN a[k] ELSE w[k - Len(a)]
      BY <1>2, <1>7, ConcatProperties DEF w
    <2>2. x = a \o w /\ Len(a) = p /\ Len(w) = 1 /\ w[1] = e
      BY <1>2, <1>7 DEF w
    <2> HIDE DEF x
    <2>3. ASSUME NEW k \in 1 .. p + 1
          PROVE  x[k] = IF k <= p THEN a[k] ELSE e
      <3>1. ~ (k <= p) => k - p = 1
        OBVIOUS
      <3> QED
        BY <2>1, <2>2, <3>1
    <2> QED
      BY <2>1, <2>2, <2>3
  <1> HIDE DEF x
  <1>9. /\ x \o b \in Seq(Value) /\ Len(x \o b) = n + 1
        /\ \A k \in 1 .. n + 1 : (x \o b)[k] = IF k <= p + 1 THEN x[k] ELSE b[k - (p + 1)]
    <2>1. /\ x \o b \in Seq(Value) /\ Len(x \o b) = Len(x) + Len(b)
          /\ \A k \in 1 .. Len(x) + Len(b) :
               (x \o b)[k] = IF k <= Len(x) THEN x[k] ELSE b[k - Len(x)]
      BY <1>3, <1>8, ConcatProperties
    <2>2. Len(x) + Len(b) = n + 1 /\ Len(x) = p + 1
      BY <1>1, <1>3, <1>8
    <2> QED
      BY <2>1, <2>2
  <1>10. ASSUME NEW k \in 1 .. n + 1
         PROVE  (x \o b)[k] = t[k]
    <2>1. CASE k <= p
      <3>1. k \in 1 .. p /\ k \in 1 .. p + 1 /\ k <= p + 1
        BY <2>1
      <3> QED
        BY <1>2, <1>5, <1>8, <1>9, <2>1, <3>1
    <2>2. CASE k = p + 1
      <3>1. k \in 1 .. p + 1 /\ k <= p + 1 /\ ~ (k <= p)
        BY <2>2
      <3> QED
        BY <1>5, <1>8, <1>9, <2>2, <3>1
    <2>3. CASE k > p + 1
      <3>1. /\ k - (p + 1) \in 1 .. n - p /\ (k - (p + 1)) + p = k - 1
            /\ ~ (k <= p) /\ ~ (k <= p + 1) /\ k # p + 1
        BY <1>1, <2>3
      <3>2. (x \o b)[k] = b[k - (p + 1)]
        BY <1>9, <3>1
      <3>3. b[k - (p + 1)] = s[k - 1]
        BY <1>4, <3>1
      <3>4. t[k] = s[k - 1]
        BY <1>5, <3>1
      <3> QED
        BY <3>2, <3>3, <3>4
    <2>4. k <= p \/ k = p + 1 \/ k > p + 1
      BY <1>1
    <2> QED
      BY <2>1, <2>2, <2>3, <2>4, Zenon
  <1>11. t \in Seq(Value) /\ Len(t) = n + 1
    <2>1. ASSUME NEW k \in 1 .. n + 1
          PROVE  t[k] \in Value
      <3>1. k \in 1 .. n \/ k = p + 1 \/ k - 1 \in 1 .. n
        BY <1>1
      <3>2. k > p /\ k # p + 1 => k - 1 \in 1 .. n
        BY <1>1
      <3>3. k <= p => k \in 1 .. n
        BY <1>1
      <3> QED
        BY <1>1, <1>5, <1>6, <3>2, <3>3
    <2>2. t \in [1 .. n + 1 -> Value]
      BY <1>5, <2>1
    <2> QED
      BY <1>1, <2>2
  <1>12. t = x \o b
    BY <1>9, <1>10, <1>11, SeqEqual
  <1> QED
    BY <1>12 DEF x, a, b, n

-----------------------------------------------------------------------------
(* emplace: the elements from p on are moved up to let e in.                *)
LEMMA EmplaceSound ==
  ASSUME Inv, Careful, UNCHANGED kind, NEW v \in Vector, NEW p \in Nat, NEW e \in Value,
         Emplace(v, p, e)
  PROVE  /\ Defined /\ AllSound' /\ v \in DOMAIN vectors /\ contents[v] \in Seq(Value)
         /\ p \in 0 .. Len(contents[v])
         /\ Gives(v, SubSeq(contents[v], 1, p) \o <<e>>
                       \o SubSeq(contents[v], p + 1, Len(contents[v])))
  <1> DEFINE m == vectors[v]
             l == m.element_count
             c == heap[m.block].cells
             d == [x \in DOMAIN c |->
                     IF x = p THEN <<e, 0>> ELSE IF x > p /\ x <= l THEN c[x - 1] ELSE c[x]]
             k == m.element_count + 1
             n == [m EXCEPT !.element_count = k]
  <1>1. /\ v \in DOMAIN vectors /\ ~ IsHollow(m) /\ ~ HasMoved(m, heap)
        /\ contents[v] = ThingsOf(m, heap) /\ contents[v] \in Seq(Value)
    BY UsableVectors DEF Emplace
  <1>2. /\ ~ Varying /\ ~ NonTrivial /\ p < l /\ l + 2 <= m.units
        /\ l < m.max_element_count
    BY DEF Emplace
  <1>3. /\ Numbers(m) /\ Size(m) = l /\ l \in Nat /\ Elements(m) = 0 .. l - 1
        /\ m.max_element_count \in Nat /\ IsMembers(m) /\ m.table = << >>
    <2>1. Numbers(m) /\ IsMembers(m) /\ Size(m) = l /\ Elements(m) = 0 .. Size(m) - 1
      BY <1>1, <1>2, NumbersOf DEF Size, Inv, OwnInv, AreVectors
    <2> QED
      BY <1>2, <2>1 DEF Numbers
  <1>4. m.block # Null
    BY <1>1, <1>2, <1>3, WithoutMemory
  <1>5. /\ m.block \in DOMAIN heap /\ Base(m) = m.block /\ m.edge # Null
        /\ m.edge = <<m.block, m.edge[2]>> /\ m.edge[2] \in Nat /\ m.edge[2] = 0
        /\ m.units \in Nat /\ DOMAIN c = UnitsOf(m.units) /\ Laid(m, c)
    BY <1>1, <1>2, <1>4, InMemory
  <1>6. Used(m) = l /\ m.stride = 1 /\ \A i \in Elements(m) : Offset(m, i) = i
    BY <1>1, <1>2, <1>3, <1>4, FixedOffsets
  <1>7. IsBacked(m)
    BY <1>1, <1>4, BackedVectors
  <1>8. UnitsOf(l + 2) \subseteq DOMAIN c
    BY <1>2, <1>3, <1>5 DEF UnitsOf
  <1>9. /\ heap' = [heap EXCEPT ![m.block].cells = d]
        /\ vectors' = Set(v, n) /\ Defined
    <2>1. /\ vectors' = Set(v, [m EXCEPT !.element_count = @ + 1]) /\ Defined
          /\ heap' = [heap EXCEPT ![Base(m)].cells =
                        [x \in DOMAIN @ |->
                           IF x = p THEN <<e, 0>>
                           ELSE IF x > p /\ x <= m.element_count THEN @[x - 1]
                           ELSE @[x]]]
      BY <1>5, <1>7, <1>8 DEF Emplace
    <2> QED
      BY <1>5, <2>1
  <1>10. /\ n.block = m.block /\ n.units = m.units /\ n.stride = m.stride
         /\ n.max_element_count = m.max_element_count /\ n.table = m.table
         /\ n.element_count = l + 1 /\ n.edge = m.edge
    <2> HIDE DEF k
    <2>1. /\ n.block = m.block /\ n.units = m.units /\ n.stride = m.stride
          /\ n.max_element_count = m.max_element_count /\ n.table = m.table
          /\ n.element_count = k /\ n.edge = m.edge
      BY <1>3 DEF IsMembers, Fields
    <2> QED
      BY <2>1 DEF k
  <1> HIDE DEF n, k
  <1>11. /\ Size(n) = l + 1 /\ Elements(n) = 0 .. l /\ Used(n) = l + 1
         /\ \A i \in Elements(n) : Offset(n, i) = i
    <2>1. Size(n) = l + 1 /\ Elements(n) = 0 .. l
      BY <1>2, <1>3, <1>10 DEF Size, Elements, UnitsOf
    <2>2. Used(n) = 1 * (l + 1)
      BY <1>2, <1>5, <1>6, <1>10 DEF Used
    <2>3. ASSUME NEW i \in 0 .. l
          PROVE  Offset(n, i) = i
      <3>1. Offset(n, i) = 0 + 1 * i /\ i \in Nat
        BY <1>2, <1>3, <1>5, <1>6, <1>10 DEF Offset
      <3> QED
        BY <3>1
    <2> QED
      BY <1>3, <2>1, <2>2, <2>3
  <1>12. Numbers(n)
    BY <1>2, <1>3, <1>6, <1>10 DEF Numbers
  <1> HIDE DEF c, d
  <1>13. ASSUME NEW i \in 0 .. l - 1
         PROVE  i \in DOMAIN c /\ c[i][1] \in Things /\ c[i] = <<c[i][1], 0>>
    <2>1. Whole(c, i) /\ i \in Nat
      BY <1>3, <1>5, <1>6 DEF Laid
    <2> QED
      BY <1>2, <2>1, FixedWhole
  <1>14. /\ DOMAIN d = DOMAIN c
         /\ \A x \in DOMAIN c :
              d[x] = IF x = p THEN <<e, 0>> ELSE IF x > p /\ x <= l THEN c[x - 1] ELSE c[x]
    BY DEF d
  <1>15. ASSUME NEW i \in 0 .. l
         PROVE  /\ i \in Nat /\ i \in DOMAIN d
                /\ d[i] = (IF i = p THEN <<e, 0>> ELSE IF i > p THEN c[i - 1] ELSE c[i])
                /\ d[i][1] \in Things /\ d[i] = <<d[i][1], 0>>
    <2>1. i \in Nat /\ i <= l /\ i \in DOMAIN c
      BY <1>2, <1>3, <1>5 DEF UnitsOf
    <2>2. d[i] = (IF i = p THEN <<e, 0>> ELSE IF i > p THEN c[i - 1] ELSE c[i])
      BY <1>14, <2>1
    <2>3. CASE i = p
      <3>1. d[i] = <<e, 0>> /\ e \in Things
        BY <2>2, <2>3 DEF Things
      <3> QED
        BY <1>14, <2>1, <2>2, <3>1
    <2>4. CASE i > p
      <3>1. i - 1 \in 0 .. l - 1 /\ i # p
        BY <1>3, <2>1, <2>4
      <3> QED
        BY <1>13, <1>14, <2>1, <2>2, <2>4, <3>1
    <2>5. CASE i < p
      <3>1. i \in 0 .. l - 1 /\ i # p /\ ~ (i > p)
        BY <1>2, <1>3, <2>1, <2>5
      <3> QED
        BY <1>13, <1>14, <2>1, <2>2, <2>5, <3>1
    <2> QED
      BY <2>1, <2>3, <2>4, <2>5
  <1>16. Laid(n, d)
    <2>1. ASSUME NEW i \in Elements(n)
          PROVE  /\ Offset(n, i) = i /\ i \in Nat /\ i <= l
                 /\ Whole(d, i) /\ EndAt(d, i) = i + 1
      <3>1. i \in 0 .. l /\ Offset(n, i) = i
        BY <1>11
      <3> QED
        BY <1>2, <1>3, <1>15, <3>1, FixedWhole
    <2>2. l \in Nat /\ Used(n) = l + 1 /\ 0 \in Elements(n)
      BY <1>3, <1>11
    <2>3. ASSUME NEW i \in Elements(n)
          PROVE  /\ Offset(n, i) \in Nat /\ Whole(d, Offset(n, i))
                 /\ EndAt(d, Offset(n, i)) <= Used(n)
      BY <2>1, <2>2
    <2>4. ASSUME NEW i \in Elements(n), NEW j \in Elements(n), i < j
          PROVE  EndAt(d, Offset(n, i)) <= Offset(n, j)
      <3>1. /\ Offset(n, i) = i /\ i \in Nat /\ EndAt(d, i) = i + 1
            /\ Offset(n, j) = j /\ j \in Nat
        BY <2>1
      <3> QED
        BY <2>4, <3>1
    <2> QED
      BY <2>1, <2>2, <2>3, <2>4 DEF Laid
  <1>17. ~ IsHollow(n)
    BY <1>2, <1>4, <1>10 DEF IsHollow
  <1>18. AllSound' /\ heap'[n.block].cells = d /\ Gives(v, ValueOf(n, heap'))
    <2>1. /\ n.edge = <<n.block, n.edge[2]>> /\ n.edge[2] \in Nat /\ n.edge[2] = 0
          /\ Used(n) <= n.units
      BY <1>2, <1>3, <1>5, <1>10, <1>11
    <2> QED
      BY <1>1, <1>2, <1>4, <1>9, <1>10, <1>12, <1>16, <1>17, <2>1, RewrittenSound
  <1> DEFINE s == ThingsOf(m, heap)
             t == ThingsOf(n, heap')
  <1>19. /\ DOMAIN s = 1 .. l /\ DOMAIN t = 1 .. l + 1 /\ t = [j \in 1 .. l + 1 |-> t[j]]
         /\ \A j \in 1 .. l : s[j] = c[j - 1][1]
         /\ \A j \in 1 .. l + 1 : t[j] = d[j - 1][1]
    <2>1. ASSUME NEW j \in 1 .. l
          PROVE  s[j] = c[j - 1][1]
      <3>1. j - 1 \in Elements(m)
        BY <1>3
      <3> QED
        BY <1>3, <1>6, <3>1 DEF ThingsOf, Thing, c
    <2>2. ASSUME NEW j \in 1 .. l + 1
          PROVE  t[j] = d[j - 1][1]
      <3>1. j - 1 \in Elements(n)
        BY <1>3, <1>11
      <3> QED
        BY <1>11, <1>18, <3>1 DEF ThingsOf, Thing
    <2> QED
      BY <1>3, <1>11, <2>1, <2>2 DEF ThingsOf
  <1>20. s \in Seq(Value) /\ Len(s) = l
    <2>1. s \in Seq(Value) /\ DOMAIN s = 1 .. l
      BY <1>1, <1>19
    <2> HIDE DEF s
    <2> QED
      BY <1>3, <2>1
  <1> HIDE DEF s, t
  <1>21. ASSUME NEW j \in 1 .. l + 1
         PROVE  t[j] = IF j <= p THEN s[j] ELSE IF j = p + 1 THEN e ELSE s[j - 1]
    <2>1. j - 1 \in 0 .. l
      BY <1>3
    <2>2. t[j] = d[j - 1][1]
      BY <1>19
    <2>3. CASE j <= p
      <3>1. j \in 1 .. l /\ ~ (j - 1 > p) /\ j - 1 # p
        BY <1>2, <1>3, <2>3
      <3> QED
        BY <1>15, <1>19, <2>1, <2>2, <2>3, <3>1
    <2>4. CASE j = p + 1
      <3>1. j - 1 = p /\ ~ (j <= p)
        BY <2>4
      <3>2. d[j - 1] = <<e, 0>>
        BY <1>15, <2>1, <3>1
      <3> QED
        BY <2>2, <2>4, <3>1, <3>2
    <2>5. CASE j > p + 1
      <3>1. j - 1 \in 1 .. l /\ j - 1 > p /\ j - 1 # p /\ ~ (j <= p) /\ j # p + 1
        BY <1>3, <2>5
      <3>2. d[j - 1] = c[(j - 1) - 1]
        BY <1>15, <2>1, <3>1
      <3>3. s[j - 1] = c[(j - 1) - 1][1]
        BY <1>19, <3>1
      <3> QED
        BY <2>2, <3>1, <3>2, <3>3
    <2>6. j <= p \/ j = p + 1 \/ j > p + 1
      OBVIOUS
    <2> QED
      BY <2>3, <2>4, <2>5, <2>6, Zenon
  <1>22. IsInserted(t, s, p, e)
    BY <1>19, <1>20, <1>21 DEF IsInserted
  <1>23. t = SubSeq(s, 1, p) \o <<e>> \o SubSeq(s, p + 1, Len(s))
    <2>1. s \in Seq(Value) /\ p <= Len(s) /\ p \in 0 .. Len(s)
      BY <1>2, <1>3, <1>20
    <2> QED
      BY <1>22, <2>1, InsertedSequence
  <1>24. ~ HasMoved(n, heap')
    <2> SUFFICES ASSUME NEW i \in Elements(n), Thing(n, heap', i) = Moved PROVE FALSE
      BY DEF HasMoved
    <2>1. i \in 0 .. l /\ Thing(n, heap', i) = d[i][1]
      BY <1>11, <1>18 DEF Thing
    <2>2. d[i][1] \in Value
      BY <1>2, <1>15, <2>1 DEF Things
    <2> QED
      BY <2>1, <2>2, NamesAssumption
  <1>25. ValueOf(n, heap') = t
    BY <1>17, <1>24 DEF ValueOf, t
  <1>26. contents[v] = s /\ p \in 0 .. Len(s) /\ s \in Seq(Value)
    BY <1>1, <1>2, <1>3, <1>20 DEF s
  <1>27. Gives(v, SubSeq(s, 1, p) \o <<e>> \o SubSeq(s, p + 1, Len(s)))
    BY <1>18, <1>23, <1>25
  <1> QED
    BY <1>1, <1>9, <1>18, <1>26, <1>27

-----------------------------------------------------------------------------
(* n counts the elements of o in another block.                             *)
Counts(n, o, block) ==
  /\ n.block = block /\ n.edge = <<block, IF Varying THEN Used(o) ELSE 0>>
  /\ n.element_count = o.element_count /\ n.stride = o.stride /\ n.table = o.table

LEMMA TriviallyCopiedCounts ==
  ASSUME NEW o, IsMembers(o), NEW block
  PROVE  /\ Counts(TriviallyCopied(o, block), o, block)
         /\ TriviallyCopied(o, block).max_element_count = o.max_element_count
         /\ TriviallyCopied(o, block).units = o.units
         /\ IsMembers(TriviallyCopied(o, block))
  <1> DEFINE edge == <<block, IF Varying THEN Used(o) ELSE 0>>
             n == TriviallyCopied(o, block)
  <1>1. n = [o EXCEPT !.block = block, !.edge = edge]
    BY DEF TriviallyCopied
  <1> HIDE DEF edge, n
  <1>2. /\ n.block = block /\ n.edge = edge
        /\ n.element_count = o.element_count /\ n.stride = o.stride /\ n.table = o.table
        /\ n.max_element_count = o.max_element_count /\ n.units = o.units /\ IsMembers(n)
    BY <1>1 DEF IsMembers, Fields
  <1> QED
    BY <1>2 DEF Counts, edge, n

(* v gets a copy of w in n's memory.                                        *)
LEMMA GetsCopySound ==
  ASSUME Inv, UNCHANGED kind, NEW v, NEW w \in DOMAIN vectors, ~ IsHollow(vectors[w]),
         NEW n, vectors' = Set(v, n), NEW block \in Block, Counts(n, vectors[w], block),
         n.units \in Nat, Used(vectors[w]) <= n.units,
         n.max_element_count \in Nat,
         vectors[w].max_element_count <= n.max_element_count,
         ~ Varying /\ vectors[w].stride = 0 => n.max_element_count = 0,
         heap'[block].cells = Copied(vectors[w], n.units), Untouched(v)
  PROVE  AllSound' /\ Gives(v, ValueOf(vectors[w], heap))
  <1> DEFINE o == vectors[w]
  <1>1. /\ n.block = block /\ n.edge = <<n.block, IF Varying THEN Used(o) ELSE 0>>
        /\ n.element_count = o.element_count /\ n.stride = o.stride /\ n.table = o.table
    BY DEF Counts
  <1>2. Sound(n, heap') /\ ValueOf(n, heap') = ValueOf(o, heap)
    BY <1>1, CopiedSound
  <1> QED
    BY <1>2, OthersSound

(* The units that a vector with elements has.                               *)
LEMMA UnitsOfVectors ==
  ASSUME Inv, NEW v \in DOMAIN vectors, ~ IsHollow(vectors[v])
  PROVE  LET m == vectors[v]
         IN  /\ Used(m) \in Nat /\ Used(m) <= m.units /\ m.units \in Nat
             /\ m.max_element_count \in Nat /\ IsMembers(m)
             /\ ~ Varying => /\ m.stride \in {0, 1}
                             /\ m.stride = 0 => m.max_element_count = 0
  <1> DEFINE m == vectors[v]
  <1>1. Numbers(m) /\ IsMembers(m)
    BY NumbersOf DEF Inv, OwnInv, AreVectors
  <1>2. CASE m.block = Null
    BY <1>1, <1>2, WithoutMemory DEF Numbers
  <1>3. CASE m.block # Null
    BY <1>1, <1>3, InMemory DEF Numbers
  <1> QED
    BY <1>2, <1>3

(* reserve: the elements and what locates them, in new memory.              *)
LEMMA ReserveSound ==
  ASSUME Inv, Careful, UNCHANGED kind, NEW v \in Vector, NEW n \in Nat, NEW bytes \in Nat,
         Reserve(v, n, bytes)
  PROVE  Defined /\ AllSound' /\ v \in DOMAIN vectors /\ Gives(v, contents[v])
  <1> DEFINE m == vectors[v]
             needed == NeededUnits(n, bytes, m.stride)
             units == UnitBytes * needed
             h == Deallocate(heap, m.block)
             t == TriviallyCopied(m, Fresh)
             k == [t EXCEPT !.max_element_count = n, !.units = units]
             c == Copied(m, units)
  <1>1. /\ v \in DOMAIN vectors /\ ~ IsHollow(m) /\ contents[v] = ValueOf(m, heap)
    BY UsableVectors DEF Reserve
  <1>2. /\ n > m.max_element_count /\ (Varying \/ m.stride > 0) /\ ~ Relocates(m)
        /\ Used(m) <= units
    BY DEF Reserve, Careful
  <1>3. /\ Used(m) \in Nat /\ m.max_element_count \in Nat /\ IsMembers(m)
        /\ ~ Varying => m.stride \in {0, 1}
    BY <1>1, UnitsOfVectors
  <1>4. needed \in Nat /\ needed >= n
    <2>1. CASE Varying
      BY <2>1 DEF NeededUnits
    <2>2. CASE ~ Varying
      <3>1. m.stride = 1
        BY <1>2, <1>3, <2>2
      <3>2. needed = 1 * n
        BY <2>2, <3>1 DEF NeededUnits
      <3> QED
        BY <3>2
    <2> QED
      BY <2>1, <2>2
  <1>5. units \in Nat
    <2> HIDE DEF needed
    <2> QED
      BY <1>4, SizesAssumption
  <1>6. MayCopy(m) /\ MayDeallocate(m, m.allocator)
    BY <1>1, CopyableVectors, MayGiveBack
  <1>7. /\ heap' = Allocate(h, Fresh, m.allocator, c)
        /\ vectors' = Set(v, k) /\ Defined
    BY <1>2, <1>4, <1>6 DEF Reserve
  <1>8. Fresh \in Block /\ Fresh \notin DOMAIN heap
    BY FreshIsFree DEF Inv
  <1>9. Counts(t, m, Fresh) /\ IsMembers(t)
    BY <1>3, TriviallyCopiedCounts
  <1> HIDE DEF t, units, needed, c
  <1>10. /\ k.block = t.block /\ k.edge = t.edge /\ k.element_count = t.element_count
         /\ k.stride = t.stride /\ k.table = t.table
         /\ k.max_element_count = n /\ k.units = units
    BY <1>9 DEF IsMembers, Fields
  <1> HIDE DEF k
  <1>11. Counts(k, m, Fresh)
    BY <1>9, <1>10 DEF Counts
  <1>12. heap'[Fresh].cells = Copied(m, k.units)
    BY <1>7, <1>10 DEF Allocate, c
  <1>13. Untouched(v)
    BY <1>1, <1>7, <1>8 DEF Untouched, Allocate, Deallocate, BlockOf
  <1>14. ~ Varying /\ m.stride = 0 => k.max_element_count = 0
    BY <1>2
  <1>15. AllSound' /\ Gives(v, ValueOf(m, heap))
    BY <1>1, <1>2, <1>3, <1>5, <1>7, <1>8, <1>10, <1>11, <1>12, <1>13, <1>14, GetsCopySound
  <1> QED
    BY <1>1, <1>7, <1>15

LEMMA CopyConstructSound ==
  ASSUME Inv, Careful, UNCHANGED kind, NEW v \in Vector, NEW w \in Vector, NEW a,
         CopyConstruct(v, w, a)
  PROVE  /\ Defined /\ AllSound' /\ v \notin DOMAIN vectors /\ w \in DOMAIN vectors
         /\ Gives(v, contents[w])
  <1> DEFINE o == vectors[w]
             t == TriviallyCopied(o, Fresh)
             k == [t EXCEPT !.allocator = a]
             c == Copied(o, o.units)
  <1>1. /\ v \notin DOMAIN vectors /\ w \in DOMAIN vectors
        /\ ~ IsHollow(o) /\ contents[w] = ValueOf(o, heap)
    BY UsableVectors DEF CopyConstruct
  <1>2. MayCopy(o)
    BY <1>1, CopyableVectors
  <1>3. /\ heap' = Allocate(heap, Fresh, a, c)
        /\ vectors' = Set(v, k) /\ Defined
    BY <1>2 DEF CopyConstruct
  <1>4. /\ Used(o) \in Nat /\ Used(o) <= o.units /\ o.units \in Nat
        /\ o.max_element_count \in Nat /\ IsMembers(o)
        /\ ~ Varying /\ o.stride = 0 => o.max_element_count = 0
    BY <1>1, UnitsOfVectors
  <1>5. Fresh \in Block /\ Fresh \notin DOMAIN heap
    BY FreshIsFree DEF Inv
  <1>6. /\ Counts(t, o, Fresh) /\ IsMembers(t)
        /\ t.max_element_count = o.max_element_count /\ t.units = o.units
    BY <1>4, TriviallyCopiedCounts
  <1> HIDE DEF t, c
  <1>7. /\ k.block = t.block /\ k.edge = t.edge /\ k.element_count = t.element_count
        /\ k.stride = t.stride /\ k.table = t.table
        /\ k.max_element_count = t.max_element_count /\ k.units = t.units
    BY <1>6 DEF IsMembers, Fields
  <1> HIDE DEF k
  <1>8. Counts(k, o, Fresh)
    BY <1>6, <1>7 DEF Counts
  <1>9. heap'[Fresh].cells = Copied(o, k.units)
    BY <1>3, <1>6, <1>7 DEF Allocate, c
  <1>10. Untouched(v)
    BY <1>3, <1>5 DEF Untouched, Allocate
  <1>11. o.max_element_count <= k.max_element_count
    BY <1>4, <1>6, <1>7
  <1>12. AllSound' /\ Gives(v, ValueOf(o, heap))
    BY <1>1, <1>3, <1>4, <1>5, <1>6, <1>7, <1>8, <1>9, <1>10, <1>11, GetsCopySound
  <1> QED
    BY <1>1, <1>3, <1>12

(* What is there to destroy in the target of an assignment is found.        *)
LEMMA AssignableVectors ==
  ASSUME Inv, Careful, NEW v, Assignable(v)
  PROVE  v \in DOMAIN vectors /\ Exist(vectors[v], Elements(vectors[v]))
  <1> DEFINE m == vectors[v]
  <1>1. v \in DOMAIN vectors /\ (~ IsHollow(m) \/ Varying \/ ~ NonTrivial)
    BY DEF Assignable, Careful
  <1>2. CASE m.block # Null \/ ~ IsHollow(m)
    BY <1>1, <1>2, ElementsExist
  <1>3. CASE ~ NonTrivial
    BY <1>1, <1>3 DEF Exist
  <1>4. CASE m.block = Null /\ Varying
    <2>1. m.table = << >>
      BY <1>1, <1>4 DEF Inv, AllSound, Sound
    <2>2. Elements(m) = {}
      BY <1>4, <2>1 DEF Elements, UnitsOf, Size
    <2> QED
      BY <1>1, <2>2 DEF Exist
  <1> QED
    BY <1>1, <1>2, <1>3, <1>4

LEMMA CopyAssignSound ==
  ASSUME Inv, Careful, UNCHANGED kind, NEW v \in Vector, NEW w \in Vector, CopyAssign(v, w)
  PROVE  /\ Defined /\ AllSound' /\ v \in DOMAIN vectors /\ w \in DOMAIN vectors
         /\ Gives(v, contents[w])
  <1> DEFINE m == vectors[v]
             o == vectors[w]
             a == IF traits.copy THEN o.allocator ELSE m.allocator
             replaces == Replaces(m, o)
             block == IF replaces THEN Fresh ELSE m.block
             units == IF replaces THEN o.units ELSE m.units
             t == TriviallyCopied(o, block)
             k == [t EXCEPT !.units = units, !.allocator = a]
             c == Copied(o, units)
             h == Deallocate(heap, m.block)
  <1>1. /\ v # w /\ v \in DOMAIN vectors /\ w \in DOMAIN vectors
        /\ Exist(m, Elements(m))
        /\ ~ IsHollow(o) /\ contents[w] = ValueOf(o, heap)
    <2>1. v # w /\ Assignable(v) /\ Usable(w)
      BY DEF CopyAssign
    <2> QED
      BY <2>1, UsableVectors, AssignableVectors
  <1>2. MayCopy(o) /\ MayDeallocate(m, m.allocator)
    BY <1>1, CopyableVectors, MayGiveBack
  <1>3. /\ Used(o) \in Nat /\ Used(o) <= o.units /\ o.units \in Nat
        /\ o.max_element_count \in Nat /\ IsMembers(o)
        /\ ~ Varying /\ o.stride = 0 => o.max_element_count = 0
    BY <1>1, UnitsOfVectors
  <1>4. Fresh \in Block /\ Fresh \notin DOMAIN heap /\ Fresh # Null
    BY FreshIsFree DEF Inv
  <1>5. /\ block \in Block /\ block # Null
        /\ units \in Nat /\ Used(o) <= units
        /\ ~ replaces => m.block \in DOMAIN heap /\ m.block \in Block /\ m.block # Null
    <2>1. CASE replaces
      BY <1>3, <1>4, <2>1
    <2>2. CASE ~ replaces
      <3>1. ~ (m.units < o.units) /\ m.block # Null
        BY <2>2 DEF Replaces
      <3>2. m.block \in DOMAIN heap /\ m.block \in Block /\ m.units \in Nat
        BY <1>1, <3>1, InMemory
      <3> QED
        BY <1>3, <2>2, <3>1, <3>2
    <2> QED
      BY <2>1, <2>2
  <1>6. /\ heap' = (IF replaces THEN Allocate(h, block, a, c)
                    ELSE [heap EXCEPT ![block].cells = c])
        /\ vectors' = Set(v, k) /\ Defined
    BY <1>1, <1>2, <1>5 DEF CopyAssign
  <1>7. /\ Counts(t, o, block) /\ IsMembers(t)
        /\ t.max_element_count = o.max_element_count
    BY <1>3, TriviallyCopiedCounts
  <1>8. IsHeap(heap)
    BY DEF Inv, OwnInv
  <1>9. heap'[block].cells = c /\ Untouched(v)
    <2> HIDE DEF c, a
    <2>1. CASE replaces
      <3>1. heap' = Allocate(h, Fresh, a, c) /\ block = Fresh
        BY <1>6, <2>1
      <3> QED
        BY <1>1, <1>4, <3>1 DEF Untouched, Allocate, Deallocate, BlockOf
    <2>2. CASE ~ replaces
      <3>1. heap' = [heap EXCEPT ![m.block].cells = c] /\ block = m.block
            /\ m.block \in DOMAIN heap
        BY <1>5, <1>6, <2>2
      <3> QED
        BY <1>1, <1>8, <3>1 DEF Untouched, BlockOf, IsHeap, IsAllocation
    <2> QED
      BY <2>1, <2>2
  <1> HIDE DEF t, c, a, units, block
  <1>10. /\ k.block = t.block /\ k.edge = t.edge /\ k.element_count = t.element_count
         /\ k.stride = t.stride /\ k.table = t.table
         /\ k.max_element_count = t.max_element_count /\ k.units = units
    BY <1>7 DEF IsMembers, Fields
  <1> HIDE DEF k
  <1>11. Counts(k, o, block)
    BY <1>7, <1>10 DEF Counts
  <1>12. heap'[block].cells = Copied(o, k.units)
    BY <1>9, <1>10 DEF c
  <1>13. o.max_element_count <= k.max_element_count
    BY <1>3, <1>7, <1>10
  <1>14. AllSound' /\ Gives(v, ValueOf(o, heap))
    BY <1>1, <1>3, <1>5, <1>6, <1>7, <1>9, <1>10, <1>11, <1>12, <1>13, GetsCopySound
  <1> QED
    BY <1>1, <1>6, <1>14

-----------------------------------------------------------------------------
(* v gets the value s, and w is left with another.                          *)
GivesAway(v, w, s, left) ==
  /\ DOMAIN vectors' = DOMAIN vectors \cup {v}
  /\ \A x \in DOMAIN vectors' :
       ValueOf(vectors'[x], heap') =
         IF x = v THEN s ELSE IF x = w THEN left ELSE ValueOf(vectors[x], heap)

(* The value of w is v's, and w has none or its own.                        *)
Hands(v, w) ==
  \E left \in {Unspecified, << >>} : GivesAway(v, w, ValueOf(vectors[w], heap), left)

(* v becomes m and w becomes r.                                             *)
Become(v, m, w, r) ==
  /\ DOMAIN vectors' = DOMAIN vectors \cup {v}
  /\ \A x \in DOMAIN vectors' :
       vectors'[x] = IF x = v THEN m ELSE IF x = w THEN r ELSE vectors[x]

(* Two vectors get new members; only their memory is written to.            *)
LEMMA PairSound ==
  ASSUME Inv, UNCHANGED kind, NEW v, NEW w \in DOMAIN vectors, v # w, NEW m, NEW r,
         Become(v, m, w, r), Sound(m, heap'), Sound(r, heap'),
         \A b \in DOMAIN heap \ {BlockOf(v), BlockOf(w)} : heap'[b].cells = heap[b].cells
  PROVE  AllSound' /\ GivesAway(v, w, ValueOf(m, heap'), ValueOf(r, heap'))
  <1>1. ASSUME NEW x \in DOMAIN vectors, x # v, x # w
        PROVE  /\ Sound(vectors[x], heap')
               /\ ValueOf(vectors[x], heap') = ValueOf(vectors[x], heap)
    <2>1. Sound(vectors[x], heap)
      BY DEF Inv, AllSound
    <2>2. vectors[x].block # Null =>
            vectors[x].block \in DOMAIN heap \ {BlockOf(v), BlockOf(w)}
      BY <1>1 DEF Inv, OwnInv, OneOwner, BlockOf
    <2>3. vectors[x].block # Null =>
            heap'[vectors[x].block].cells = heap[vectors[x].block].cells
      BY <2>2
    <2> QED
      BY <2>1, <2>3, SameSound
  <1>2. \A x \in DOMAIN vectors' : Sound(vectors'[x], heap')
    BY <1>1 DEF Become
  <1>3. AllSound'
    BY <1>2, SoundNext
  <1> QED
    BY <1>1, <1>3 DEF Become, GivesAway

(* A vector that gave its memory away has nothing that a caller could use.  *)
LEMMA ReleasedSound ==
  ASSUME Inv, NEW w \in DOMAIN vectors, NEW h
  PROVE  /\ Sound(Released(vectors[w]), h)
         /\ ValueOf(Released(vectors[w]), h) \in {Unspecified, << >>}
  <1> DEFINE o == vectors[w]
             r == Released(o)
  <1>1. Sound(o, heap) /\ IsMembers(o)
    BY DEF Inv, AllSound, OwnInv, AreVectors
  <1>2. /\ r.block = Null /\ r.table = << >> /\ r.edge = o.edge /\ r.units = o.units
        /\ r.max_element_count = o.max_element_count
        /\ r.element_count = o.element_count /\ r.stride = o.stride
    BY <1>1 DEF Released, IsMembers, Fields
  <1> HIDE DEF r
  <1>3. Numbers(r)
    BY <1>1, <1>2 DEF Sound, Numbers
  <1>4. r.edge = Null => r.element_count = 0 /\ r.max_element_count = 0
    <2>1. ASSUME o.block # Null PROVE o.edge # Null
      BY <2>1, InMemory
    <2> QED
      BY <1>1, <1>2, <2>1 DEF Sound
  <1>5. Sound(r, h)
    BY <1>2, <1>3, <1>4 DEF Sound
  <1>6. CASE r.edge = Null
    <2>1. Size(r) = 0 /\ ~ IsHollow(r)
      BY <1>2, <1>4, <1>6 DEF Size, IsHollow, At
    <2>2. ValueOf(r, h) = << >>
      BY <2>1, EmptyValue
    <2> QED
      BY <1>5, <2>2 DEF r
  <1>7. CASE r.edge # Null
    <2>1. ValueOf(r, h) = Unspecified
      BY <1>2, <1>7 DEF ValueOf, IsHollow
    <2> QED
      BY <1>5, <2>1 DEF r
  <1> QED
    BY <1>6, <1>7

(* The memory of w and the members that describe it go to v.                *)
LEMMA TakenSound ==
  ASSUME Inv, UNCHANGED kind, NEW v, NEW w \in DOMAIN vectors, v # w,
         NEW m, Become(v, m, w, Released(vectors[w])),
         m.block = vectors[w].block, m.units = vectors[w].units,
         m.max_element_count = vectors[w].max_element_count,
         m.element_count = vectors[w].element_count, m.stride = vectors[w].stride,
         m.table = vectors[w].table, m.edge = vectors[w].edge,
         Untouched(v)
  PROVE  AllSound' /\ Hands(v, w)
  <1> DEFINE o == vectors[w]
             r == Released(o)
  <1>1. Sound(o, heap)
    BY DEF Inv, AllSound
  <1>2. o.block # Null => heap'[o.block].cells = heap[o.block].cells
    <2>1. o.block # Null => o.block \in DOMAIN heap \ {BlockOf(v)}
      BY DEF Inv, OwnInv, OneOwner, BlockOf
    <2> QED
      BY <2>1 DEF Untouched
  <1>3. Sound(m, heap') /\ ValueOf(m, heap') = ValueOf(o, heap)
    BY <1>1, <1>2, SameSound
  <1>4. Sound(r, heap') /\ ValueOf(r, heap') \in {Unspecified, << >>}
    BY ReleasedSound
  <1> HIDE DEF r
  <1>5. Become(v, m, w, r)
    BY DEF r
  <1>6. \A b \in DOMAIN heap \ {BlockOf(v), BlockOf(w)} : heap'[b].cells = heap[b].cells
    BY DEF Untouched
  <1>7. AllSound' /\ GivesAway(v, w, ValueOf(m, heap'), ValueOf(r, heap'))
    BY <1>3, <1>4, <1>5, <1>6, PairSound
  <1> QED
    BY <1>3, <1>4, <1>7 DEF Hands

(* The calls that hand memory over.                                         *)
LEMMA MoveConstructSound ==
  ASSUME Inv, Careful, UNCHANGED kind, NEW v \in Vector, NEW w \in Vector,
         MoveConstruct(v, w)
  PROVE  /\ Defined /\ AllSound' /\ v # w /\ w \in DOMAIN vectors
         /\ Hands(v, w)
  <1> DEFINE r == Released(vectors[w])
  <1>1. /\ v \notin DOMAIN vectors /\ w \in DOMAIN vectors /\ v # w
        /\ vectors' = [x \in DOMAIN vectors \cup {v} |->
                         IF x = v THEN vectors[w] ELSE IF x = w THEN r ELSE vectors[x]]
        /\ heap' = heap /\ Defined
    BY DEF MoveConstruct
  <1>2. Untouched(v)
    BY <1>1 DEF Untouched
  <1> HIDE DEF r
  <1>3. Become(v, vectors[w], w, r)
    BY <1>1 DEF Become
  <1>4. Become(v, vectors[w], w, Released(vectors[w]))
    BY <1>3 DEF r
  <1> QED
    BY <1>1, <1>2, <1>4, TakenSound

LEMMA StealSound ==
  ASSUME Inv, Careful, UNCHANGED kind, NEW v \in Vector, NEW w \in Vector, v # w,
         Assignable(v), w \in DOMAIN vectors, Steal(v, w)
  PROVE  Defined /\ AllSound' /\ v \in DOMAIN vectors /\ Hands(v, w)
  <1> DEFINE m == vectors[v]
             o == vectors[w]
             a == IF traits.move THEN o.allocator ELSE m.allocator
             k == [o EXCEPT !.allocator = a]
             r == Released(o)
  <1>1. v \in DOMAIN vectors /\ Exist(m, Elements(m))
    BY AssignableVectors
  <1>2. m.block = Null \/ m.allocator = a
    BY DEF Steal, Careful
  <1>3. MayDeallocate(m, a)
    <2>1. MayDeallocate(m, m.allocator)
      BY <1>1, MayGiveBack
    <2> QED
      BY <1>2, <2>1 DEF MayDeallocate
  <1>4. /\ heap' = Deallocate(heap, m.block)
        /\ vectors' = [vectors EXCEPT ![v] = k, ![w] = r]
        /\ Defined
    BY <1>1, <1>3 DEF Steal
  <1>5. AreVectors(vectors) /\ IsMembers(o)
    BY DEF Inv, OwnInv, AreVectors
  <1> HIDE DEF a, r
  <1>6. /\ k.block = o.block /\ k.units = o.units
        /\ k.max_element_count = o.max_element_count
        /\ k.element_count = o.element_count /\ k.stride = o.stride
        /\ k.table = o.table /\ k.edge = o.edge
    BY <1>5 DEF IsMembers, Fields
  <1> HIDE DEF k
  <1>7. Become(v, k, w, r)
    BY <1>1, <1>4, <1>5 DEF Become, AreVectors
  <1>8. Become(v, k, w, Released(o))
    BY <1>7 DEF r
  <1>9. Untouched(v)
    BY <1>1, <1>4 DEF Untouched, Deallocate, BlockOf
  <1>10. AllSound' /\ Hands(v, w)
    BY <1>6, <1>8, <1>9, TakenSound
  <1> QED
    BY <1>1, <1>4, <1>10

-----------------------------------------------------------------------------
(* The objects of m have been moved from, in g.                             *)
MovedOut(g, h, m) ==
  /\ DOMAIN g[m.block].cells = DOMAIN h[m.block].cells
  /\ \A c \in DOMAIN h[m.block].cells :
       g[m.block].cells[c] = IF c < Used(m) THEN <<Moved, 0>> ELSE h[m.block].cells[c]

(* Objects of one size that were moved from one by one stay alive.          *)
LEMMA MovedOutSound ==
  ASSUME Inv, ~ Varying, NonTrivial, NEW w \in DOMAIN vectors, vectors[w].block # Null,
         NEW g, MovedOut(g, heap, vectors[w])
  PROVE  /\ Sound(vectors[w], g)
         /\ ValueOf(vectors[w], g) \in {Unspecified, << >>}
  <1> DEFINE o == vectors[w]
             n == o.element_count
             c == heap[o.block].cells
             d == g[o.block].cells
  <1>1. /\ o.block \in DOMAIN heap /\ o.edge = <<o.block, o.edge[2]>> /\ o.edge[2] = 0
        /\ o.units \in Nat /\ DOMAIN c = UnitsOf(o.units) /\ Used(o) <= o.units
        /\ Used(o) \in Nat /\ Laid(o, c) /\ NoStray(o, c) /\ ~ IsHollow(o)
    BY InMemory
  <1>2. /\ Size(o) = n /\ Used(o) = n /\ \A i \in Elements(o) : Offset(o, i) = i
    BY FixedOffsets
  <1>3. Numbers(o) /\ n \in Nat /\ Elements(o) = 0 .. n - 1
    BY <1>2, NumbersOf
  <1>4. /\ DOMAIN d = UnitsOf(o.units)
        /\ \A i \in UnitsOf(o.units) : d[i] = IF i < n THEN <<Moved, 0>> ELSE c[i]
    BY <1>1, <1>2 DEF MovedOut
  <1> HIDE DEF c, d
  <1>5. ASSUME NEW i \in Elements(o)
        PROVE  /\ i \in Nat /\ i < n /\ Whole(d, i) /\ EndAt(d, i) = i + 1
               /\ d[i][1] = Moved
    <2>1. i \in Nat /\ i < n /\ i \in UnitsOf(o.units)
      BY <1>1, <1>2, <1>3 DEF UnitsOf
    <2>2. d[i] = <<Moved, 0>> /\ i \in DOMAIN d
      BY <1>4, <2>1
    <2>3. d[i][1] = Moved /\ Moved \in Things
      BY <2>2 DEF Things
    <2> QED
      BY <2>1, <2>2, <2>3, FixedWhole
  <1>6. Laid(o, d)
    BY <1>1, <1>2, <1>3, <1>5 DEF Laid
  <1>7. NoStray(o, d)
    <2> SUFFICES ASSUME NEW i \in DOMAIN d, d[i] # Raw
                 PROVE  \E j \in Elements(o) : Offset(o, j) <= i /\ i < EndAt(d, Offset(o, j))
      BY DEF NoStray
    <2>1. i \in UnitsOf(o.units) /\ i \in Nat
      BY <1>4 DEF UnitsOf
    <2>2. CASE i < n
      <3>1. i \in Elements(o)
        BY <1>3, <2>1, <2>2
      <3> QED
        BY <1>2, <1>5, <3>1
    <2>3. CASE ~ (i < n)
      <3>1. d[i] = c[i] /\ i \in DOMAIN c /\ c[i] # Raw
        BY <1>1, <1>4, <2>1, <2>3 DEF c
      <3>2. PICK j \in Elements(o) : Offset(o, j) <= i /\ i < EndAt(c, Offset(o, j))
        BY <1>1, <3>1 DEF NoStray
      <3>3. EndAt(c, Offset(o, j)) = j + 1 /\ Offset(o, j) = j /\ j \in Nat /\ j < n
        BY <1>2, <1>3, FixedWhole
      <3> QED
        BY <1>3, <2>1, <2>3, <3>2, <3>3
    <2> QED
      BY <2>2, <2>3
  <1>8. Sound(o, g)
    BY <1>1, <1>3, <1>6, <1>7 DEF Sound, d
  <1>9. ValueOf(o, g) \in {Unspecified, << >>}
    <2>1. CASE n = 0
      BY <1>1, <1>2, <2>1, EmptyValue
    <2>2. CASE n # 0
      <3>1. 0 \in Elements(o) /\ Offset(o, 0) = 0
        BY <1>2, <1>3, <2>2
      <3>2. Thing(o, g, 0) = Moved
        BY <1>5, <3>1 DEF Thing, d
      <3> QED
        BY <3>1, <3>2 DEF ValueOf, HasMoved
    <2> QED
      BY <2>1, <2>2
  <1> QED
    BY <1>8, <1>9

(* r is m without its table.                                                *)
IsRest(r, m) ==
  /\ r.block = m.block /\ r.edge = m.edge /\ r.units = m.units
  /\ r.max_element_count = m.max_element_count /\ r.table = << >>
  /\ r.element_count = m.element_count /\ r.stride = m.stride

(* What is left of the other vector of a move assignment that took its      *)
(* elements one by one.                                                     *)
LEMMA RestSound ==
  ASSUME Inv, NEW w \in DOMAIN vectors, ~ IsHollow(vectors[w]), ~ Relocates(vectors[w]),
         NEW r, IsRest(r, vectors[w]),
         NEW g, vectors[w].block # Null =>
           IF NonTrivial /\ ~ Varying THEN MovedOut(g, heap, vectors[w])
           ELSE g[vectors[w].block].cells = heap[vectors[w].block].cells
  PROVE  /\ Sound(r, g)
         /\ ValueOf(r, g) \in {Unspecified, << >>, ValueOf(vectors[w], heap)}
         /\ r.block = vectors[w].block
  <1> DEFINE o == vectors[w]
  <1>1. Sound(o, heap) /\ IsMembers(o) /\ Numbers(o)
    BY DEF Inv, AllSound, OwnInv, AreVectors, Sound
  <1>2. /\ r.block = o.block /\ r.edge = o.edge /\ r.units = o.units
        /\ r.max_element_count = o.max_element_count /\ r.table = << >>
        /\ r.element_count = o.element_count /\ r.stride = o.stride
    BY DEF IsRest
  <1>3. CASE r.table = o.table
    <2>1. CASE NonTrivial /\ ~ Varying /\ o.block # Null
      <3>1. Sound(o, g) /\ ValueOf(o, g) \in {Unspecified, << >>}
        BY <2>1, MovedOutSound
      <3>2. Sound(r, g) /\ ValueOf(r, g) = ValueOf(o, g)
        BY <1>2, <1>3, <3>1, SameSound
      <3> QED
        BY <1>2, <3>1, <3>2
    <2>2. CASE ~ (NonTrivial /\ ~ Varying /\ o.block # Null)
      <3>1. o.block # Null => g[o.block].cells = heap[o.block].cells
        BY <2>2
      <3>2. Sound(r, g) /\ ValueOf(r, g) = ValueOf(o, heap)
        BY <1>1, <1>2, <1>3, <3>1, SameSound
      <3> QED
        BY <1>2, <3>2
    <2> QED
      BY <2>1, <2>2
  <1>4. CASE r.table # o.table
    <2>1. Varying /\ o.table # << >>
      BY <1>1, <1>2, <1>4 DEF Numbers
    <2>2. ~ NonTrivial
      <3>1. Len(o.table) \in Nat /\ Len(o.table) # 0
        BY <1>1, <2>1 DEF Numbers
      <3> QED
        BY <2>1, <3>1 DEF Relocates, Size
    <2>3. o.block # Null
      BY <2>1, WithoutMemory
    <2>4. /\ o.edge = <<o.block, o.edge[2]>> /\ o.edge[2] \in Nat /\ o.edge # Null
          /\ Used(o) \in Nat /\ Used(o) <= o.units
      BY <2>3, InMemory
    <2>5. Size(r) = 0 /\ Elements(r) = {} /\ Used(r) = Used(o)
      BY <1>2, <2>1, <2>4 DEF Size, Elements, UnitsOf, Used
    <2>6. Numbers(r)
      BY <1>1, <1>2, <2>1 DEF Numbers
    <2>7. Laid(r, g[r.block].cells)
      BY <2>4, <2>5 DEF Laid
    <2>8. Sound(r, g)
      BY <1>2, <2>1, <2>2, <2>3, <2>4, <2>5, <2>6, <2>7 DEF Sound
    <2>9. ValueOf(r, g) \in {Unspecified, << >>}
      <3>1. CASE IsHollow(r)
        BY <3>1 DEF ValueOf
      <3>2. CASE ~ IsHollow(r)
        BY <2>5, <3>2, EmptyValue
      <3> QED
        BY <3>1, <3>2
    <2> QED
      BY <1>2, <2>8, <2>9
  <1> QED
    BY <1>3, <1>4

(* Bytes are at least as many as units.                                     *)
LEMMA TimesBytes ==
  ASSUME NEW n \in Nat
  PROVE  n * UnitBytes \in Nat /\ n <= n * UnitBytes
  <1>1. PICK k \in Nat : UnitBytes = 1 + k
    <2>1. UnitBytes - 1 \in Nat /\ UnitBytes = 1 + (UnitBytes - 1)
      BY SizesAssumption
    <2> QED
      BY <2>1
  <1>2. n * UnitBytes = n + n * k /\ n * k \in Nat
    BY <1>1
  <1> QED
    BY <1>2

-----------------------------------------------------------------------------
(* Move assignment that keeps its memory: the elements are moved one by one.*)
LEMMA MoveElementsSound ==
  ASSUME Inv, Careful, UNCHANGED kind, NEW v \in Vector, NEW w \in Vector, v # w,
         Assignable(v), Usable(w), MoveElements(v, w)
  PROVE  /\ Defined /\ AllSound' /\ v \in DOMAIN vectors /\ w \in DOMAIN vectors
         /\ Hands(v, w) \/ Gives(v, contents[w])
  <1> DEFINE m == vectors[v]
             o == vectors[w]
             grows == Outgrows(m, o)
             units == IF grows THEN o.units * UnitBytes ELSE m.units
             block == IF grows THEN Fresh ELSE m.block
             d == heap[Base(o)].cells
             f == [i \in DOMAIN d |-> IF i < Used(o) THEN <<Moved, 0>> ELSE d[i]]
             left == IF NonTrivial /\ ~ Varying /\ Base(o) \in DOMAIN heap
                       THEN [heap EXCEPT ![Base(o)].cells = f] ELSE heap
             h == Deallocate(left, m.block)
             c == Copied(o, units)
             t == TriviallyCopied(o, block)
             k == [t EXCEPT !.units = units, !.allocator = m.allocator]
             r == [o EXCEPT !.table = << >>]
  <1>1. /\ v \in DOMAIN vectors /\ w \in DOMAIN vectors
        /\ Exist(m, Elements(m))
        /\ ~ IsHollow(o) /\ contents[w] = ValueOf(o, heap)
    BY UsableVectors, AssignableVectors
  <1>2. MayCopy(o) /\ MayDeallocate(m, m.allocator)
    BY <1>1, CopyableVectors, MayGiveBack
  <1>3. /\ Used(o) \in Nat /\ Used(o) <= o.units /\ o.units \in Nat
        /\ o.max_element_count \in Nat /\ IsMembers(o)
        /\ ~ Varying /\ o.stride = 0 => o.max_element_count = 0
    BY <1>1, UnitsOfVectors
  <1>4. Fresh \in Block /\ Fresh \notin DOMAIN heap /\ Fresh # Null
    BY FreshIsFree DEF Inv
  <1>5. /\ ~ Relocates(o)
        /\ grows \/ m.units >= o.units
        /\ grows \/ m.block # Null
    BY DEF MoveElements, Careful
  <1>6. /\ block \in Block /\ block # Null
        /\ units \in Nat /\ Used(o) <= units
        /\ ~ grows => m.block \in DOMAIN heap
    <2>1. CASE grows
      <3>1. o.units * UnitBytes \in Nat /\ o.units <= o.units * UnitBytes
        BY <1>3, TimesBytes
      <3> DEFINE u == o.units * UnitBytes
      <3> HIDE DEF u
      <3>2. u \in Nat /\ o.units <= u /\ units = u
        BY <2>1, <3>1 DEF u
      <3>3. Used(o) <= u
        BY <1>3, <3>2
      <3> QED
        BY <1>4, <2>1, <3>2, <3>3
    <2>2. CASE ~ grows
      <3>1. m.block \in DOMAIN heap /\ m.block \in Block /\ m.units \in Nat
        BY <1>1, <1>5, <2>2, InMemory
      <3> QED
        BY <1>3, <1>5, <2>2, <3>1
    <2> QED
      BY <2>1, <2>2
  <1>7. /\ heap' = (IF grows THEN Allocate(h, block, m.allocator, c)
                    ELSE [left EXCEPT ![block].cells = c])
        /\ vectors' = [vectors EXCEPT ![v] = k, ![w] = r] /\ Defined
    BY <1>1, <1>2, <1>5, <1>6 DEF MoveElements
  <1>8. /\ Counts(t, o, block) /\ IsMembers(t)
        /\ t.max_element_count = o.max_element_count
    BY <1>3, TriviallyCopiedCounts
  <1>9. AreVectors(vectors) /\ IsHeap(heap)
    BY DEF Inv, OwnInv
  <1>10. /\ DOMAIN left = DOMAIN heap /\ IsHeap(left)
         /\ \A b \in DOMAIN heap \ {o.block} : left[b] = heap[b]
         /\ o.block # Null =>
              IF NonTrivial /\ ~ Varying THEN MovedOut(left, heap, o)
              ELSE left[o.block].cells = heap[o.block].cells
    <2>0. o.block # Null => Base(o) = o.block /\ o.block \in DOMAIN heap
      BY <1>1, InMemory
    <2>1. CASE NonTrivial /\ ~ Varying /\ Base(o) \in DOMAIN heap
      <3>1. left = [heap EXCEPT ![Base(o)].cells = f]
        BY <2>1
      <3>2. Base(o) = o.block
        <4>1. CASE o.block = Null
          BY <1>1, <4>1, WithoutMemory DEF Base
        <4> QED
          BY <2>0, <4>1
      <3>3. DOMAIN f = DOMAIN d
            /\ \A i \in DOMAIN d : f[i] = IF i < Used(o) THEN <<Moved, 0>> ELSE d[i]
        OBVIOUS
      <3> DEFINE b == Base(o)
      <3> HIDE DEF f, left, b
      <3>4. left = [heap EXCEPT ![b].cells = f] /\ b \in DOMAIN heap /\ b = o.block
        BY <2>1, <3>1, <3>2 DEF b
      <3>5. Kept(heap, [heap EXCEPT ![b].cells = f])
        BY <1>9, <3>3, WrittenHeap, Zenon DEF b
      <3>6. /\ DOMAIN left = DOMAIN heap
            /\ \A x \in DOMAIN heap \ {b} : left[x] = heap[x]
            /\ left[b].cells = f
        BY <1>9, <3>4 DEF IsHeap, IsAllocation
      <3>7. MovedOut(left, heap, o)
        BY <3>3, <3>4, <3>6 DEF MovedOut, b
      <3> QED
        BY <2>1, <3>4, <3>5, <3>6, <3>7 DEF Kept
    <2>2. CASE ~ (NonTrivial /\ ~ Varying /\ Base(o) \in DOMAIN heap)
      <3>1. left = heap
        BY <2>2
      <3> QED
        BY <1>9, <2>0, <2>2, <3>1
    <2> QED
      BY <2>1, <2>2
  <1>11. o.block # Null => o.block \in DOMAIN heap /\ o.block # m.block
    BY <1>1 DEF Inv, OwnInv, OneOwner
  <1> HIDE DEF left, c, t, units
  <1>12. /\ heap'[block].cells = c
         /\ \A b \in DOMAIN heap \ {m.block} : heap'[b].cells = left[b].cells
    <2>1. CASE grows
      <3>1. heap' = Allocate(h, Fresh, m.allocator, c) /\ block = Fresh
        BY <1>7, <2>1
      <3>2. h = [x \in DOMAIN left \ {m.block} |-> left[x]]
        BY DEF Deallocate
      <3> HIDE DEF h
      <3> QED
        BY <1>4, <1>10, <3>1, <3>2 DEF Allocate
    <2>2. CASE ~ grows
      <3>1. heap' = [left EXCEPT ![m.block].cells = c] /\ block = m.block
            /\ m.block \in DOMAIN left
        BY <1>6, <1>7, <1>10, <2>2
      <3> HIDE DEF block
      <3> QED
        BY <1>10, <3>1 DEF IsHeap, IsAllocation
    <2> QED
      BY <2>1, <2>2
  <1> HIDE DEF block, h
  <1>13. /\ k.block = t.block /\ k.edge = t.edge /\ k.element_count = t.element_count
         /\ k.stride = t.stride /\ k.table = t.table
         /\ k.max_element_count = t.max_element_count /\ k.units = units
    BY <1>8 DEF IsMembers, Fields
  <1>14. IsRest(r, o)
    BY <1>3 DEF IsMembers, Fields, IsRest
  <1> HIDE DEF k, r
  <1>15. Become(v, k, w, r)
    BY <1>1, <1>7, <1>9 DEF Become, AreVectors
  <1>16. /\ k.block = block /\ k.edge = <<k.block, IF Varying THEN Used(o) ELSE 0>>
         /\ k.element_count = o.element_count /\ k.stride = o.stride /\ k.table = o.table
         /\ k.units \in Nat /\ Used(o) <= k.units
         /\ k.max_element_count = o.max_element_count
    BY <1>6, <1>8, <1>13 DEF Counts
  <1>17. heap'[k.block].cells = Copied(o, k.units)
    BY <1>12, <1>13, <1>16 DEF c
  <1>18. /\ k.block \in Block /\ k.max_element_count \in Nat
         /\ o.max_element_count <= k.max_element_count
         /\ ~ Varying /\ o.stride = 0 => k.max_element_count = 0
    BY <1>3, <1>6, <1>16
  <1>19. Sound(k, heap') /\ ValueOf(k, heap') = ValueOf(o, heap)
    BY <1>1, <1>16, <1>17, <1>18, CopiedSound
  <1>20. o.block # Null =>
           IF NonTrivial /\ ~ Varying THEN MovedOut(heap', heap, o)
           ELSE heap'[o.block].cells = heap[o.block].cells
    BY <1>10, <1>11, <1>12 DEF MovedOut
  <1>21. /\ Sound(r, heap')
         /\ ValueOf(r, heap') \in {Unspecified, << >>, ValueOf(o, heap)}
    BY <1>1, <1>5, <1>14, <1>20, RestSound
  <1>22. \A b \in DOMAIN heap \ {BlockOf(v), BlockOf(w)} : heap'[b].cells = heap[b].cells
    BY <1>1, <1>10, <1>12 DEF BlockOf
  <1>23. AllSound' /\ GivesAway(v, w, ValueOf(o, heap), ValueOf(r, heap'))
    BY <1>1, <1>15, <1>19, <1>21, <1>22, PairSound
  <1>24. CASE ValueOf(r, heap') \in {Unspecified, << >>}
    BY <1>1, <1>7, <1>23, <1>24 DEF Hands
  <1>25. CASE ValueOf(r, heap') = ValueOf(o, heap)
    <2>1. Gives(v, contents[w])
      BY <1>1, <1>23, <1>25 DEF Gives, GivesAway
    <2> QED
      BY <1>1, <1>7, <1>23, <2>1
  <1> QED
    BY <1>21, <1>24, <1>25

LEMMA MoveAssignSound ==
  ASSUME Inv, Careful, UNCHANGED kind, NEW v \in Vector, NEW w \in Vector, MoveAssign(v, w)
  PROVE  /\ Defined /\ AllSound' /\ v # w /\ v \in DOMAIN vectors /\ w \in DOMAIN vectors
         /\ Hands(v, w) \/ Gives(v, contents[w])
  <1>1. /\ v # w /\ Assignable(v) /\ w \in DOMAIN vectors
        /\ ~ Steals(vectors[v], vectors[w]) => Usable(w)
    BY DEF MoveAssign
  <1>2. CASE Steals(vectors[v], vectors[w])
    <2>1. Steal(v, w)
      BY <1>2 DEF MoveAssign
    <2> QED
      BY <1>1, <2>1, StealSound
  <1>3. CASE ~ Steals(vectors[v], vectors[w])
    <2>1. MoveElements(v, w)
      BY <1>3 DEF MoveAssign
    <2> QED
      BY <1>1, <1>3, <2>1, MoveElementsSound
  <1> QED
    BY <1>2, <1>3

LEMMA SwapSound ==
  ASSUME Inv, Careful, UNCHANGED kind, NEW v \in Vector, NEW w \in Vector, Swap(v, w)
  PROVE  /\ Defined /\ AllSound' /\ v \in DOMAIN vectors /\ w \in DOMAIN vectors
         /\ GivesAway(v, w, ValueOf(vectors[w], heap), ValueOf(vectors[v], heap))
  <1>1. /\ v # w /\ v \in DOMAIN vectors /\ w \in DOMAIN vectors
        /\ vectors' = [vectors EXCEPT ![v] = vectors[w], ![w] = vectors[v]]
        /\ heap' = heap /\ Defined
    BY DEF Swap
  <1>2. AreVectors(vectors)
    BY DEF Inv, OwnInv
  <1>3. Become(v, vectors[w], w, vectors[v])
    BY <1>1, <1>2 DEF Become, AreVectors
  <1>4. Sound(vectors[w], heap') /\ Sound(vectors[v], heap')
    BY <1>1 DEF Inv, AllSound
  <1>5. \A b \in DOMAIN heap \ {BlockOf(v), BlockOf(w)} : heap'[b].cells = heap[b].cells
    BY <1>1
  <1>6. AllSound' /\ GivesAway(v, w, ValueOf(vectors[w], heap'), ValueOf(vectors[v], heap'))
    BY <1>1, <1>3, <1>4, <1>5, PairSound
  <1> QED
    BY <1>1, <1>6

-----------------------------------------------------------------------------
(* What a call may do to the values of vectors.                             *)
Removes(v) ==
  /\ v \in DOMAIN vectors /\ contents[v] \in Seq(Value)
  /\ \E first, last \in 0 .. Len(contents[v]) : first <= last /\ Loses(v, first, last)

Appends(v) ==
  /\ v \in DOMAIN vectors /\ contents[v] \in Seq(Value)
  /\ \E e \in Value : Gives(v, Append(contents[v], e))

Inserts(v) ==
  /\ v \in DOMAIN vectors /\ contents[v] \in Seq(Value)
  /\ \E e \in Value, p \in 0 .. Len(contents[v]) :
       Gives(v, SubSeq(contents[v], 1, p) \o <<e>>
                  \o SubSeq(contents[v], p + 1, Len(contents[v])))

Disappears(v) ==
  /\ v \in DOMAIN vectors
  /\ DOMAIN vectors' = DOMAIN vectors \ {v}
  /\ \A x \in DOMAIN vectors' : ValueOf(vectors'[x], heap') = ValueOf(vectors[x], heap)

Copies(v) == \E w \in Vector : w \in DOMAIN vectors /\ Gives(v, contents[w])

Moves(v) == \E w \in Vector : v # w /\ w \in DOMAIN vectors /\ Hands(v, w)

Exchanges(v) ==
  \E w \in Vector :
    /\ v \in DOMAIN vectors /\ w \in DOMAIN vectors
    /\ GivesAway(v, w, ValueOf(vectors[w], heap), ValueOf(vectors[v], heap))

Effect(v) ==
  \/ Gives(v, << >>) \/ Disappears(v) \/ Removes(v) \/ Appends(v) \/ Inserts(v)
  \/ Copies(v) \/ Moves(v) \/ Exchanges(v)

(* Every call keeps the invariant and is one of these.                      *)
LEMMA CallSound ==
  ASSUME Inv, Careful, UNCHANGED kind, Call
  PROVE  Defined /\ AllSound' /\ \E v \in Vector : Effect(v)
  <1>1. PICK v \in Vector :
          \/ \E a \in Allocator : ConstructDefault(v, a)
          \/ \E n \in 0 .. MaxCapacity, varying \in 0 .. MaxVarying, a \in Allocator :
               (Varying \/ varying = 0) /\ Construct(v, n, varying, a)
          \/ Destruct(v)
          \/ \E e \in Value : EmplaceBack(v, e)
          \/ PopBack(v)
          \/ Clear(v)
          \/ \E position \in 0 .. MaxCapacity : Erase(v, position)
          \/ \E first, last \in 0 .. MaxCapacity : EraseRange(v, first, last)
          \/ \E position \in 0 .. MaxCapacity, e \in Value : Emplace(v, position, e)
          \/ \E n \in 1 .. MaxCapacity, varying \in 0 .. MaxVarying :
               (Varying \/ varying = 0) /\ Reserve(v, n, varying)
          \/ \E w \in Vector, a \in Allocator : CopyConstruct(v, w, a)
          \/ \E w \in Vector : MoveConstruct(v, w)
          \/ \E w \in Vector : CopyAssign(v, w)
          \/ \E w \in Vector : MoveAssign(v, w)
          \/ \E w \in Vector : Swap(v, w)
    BY DEF Call
  <1> DEFINE Good == Defined /\ AllSound' /\ Effect(v)
  <1>0. MaxCapacity \in Nat /\ MaxVarying \in Nat
    BY SizesAssumption
  <1>2. ASSUME NEW a \in Allocator, ConstructDefault(v, a) PROVE Good
    BY <1>2, ConstructDefaultSound DEF Effect
  <1>3. ASSUME NEW n \in 0 .. MaxCapacity, NEW varying \in 0 .. MaxVarying,
               NEW a \in Allocator, Construct(v, n, varying, a)
        PROVE  Good
    BY <1>0, <1>3, ConstructSound DEF Effect
  <1>4. ASSUME Destruct(v) PROVE Good
    BY <1>4, DestructSound DEF Effect, Disappears
  <1>5. ASSUME NEW e \in Value, EmplaceBack(v, e) PROVE Good
    BY <1>5, EmplaceBackSound DEF Effect, Appends
  <1>6. ASSUME PopBack(v) PROVE Good
    BY <1>6, PopBackSound DEF Effect, Removes
  <1>7. ASSUME Clear(v) PROVE Good
    BY <1>7, ClearSound DEF Effect
  <1>8. ASSUME NEW position \in 0 .. MaxCapacity, Erase(v, position) PROVE Good
    BY <1>0, <1>8, EraseOneSound DEF Effect, Removes
  <1>9. ASSUME NEW first \in 0 .. MaxCapacity, NEW last \in 0 .. MaxCapacity,
               EraseRange(v, first, last)
        PROVE  Good
    <2>1. /\ Defined /\ AllSound' /\ v \in DOMAIN vectors /\ contents[v] \in Seq(Value)
          /\ \/ Gives(v, contents[v])
             \/ \E f, l \in 0 .. Len(contents[v]) : f <= l /\ Loses(v, f, l)
      BY <1>0, <1>9, EraseRangeSound
    <2>2. Copies(v) \/ Removes(v)
      BY <2>1 DEF Copies, Removes
    <2> QED
      BY <2>1, <2>2 DEF Effect
  <1>10. ASSUME NEW position \in 0 .. MaxCapacity, NEW e \in Value, Emplace(v, position, e)
         PROVE  Good
    <2>1. position \in Nat
      BY <1>0
    <2> QED
      BY <1>10, <2>1, EmplaceSound DEF Effect, Inserts
  <1>11. ASSUME NEW n \in 1 .. MaxCapacity, NEW varying \in 0 .. MaxVarying,
                Reserve(v, n, varying)
         PROVE  Good
    BY <1>0, <1>11, ReserveSound DEF Effect, Copies
  <1>12. ASSUME NEW w \in Vector, NEW a \in Allocator, CopyConstruct(v, w, a) PROVE Good
    BY <1>12, CopyConstructSound DEF Effect, Copies
  <1>13. ASSUME NEW w \in Vector, MoveConstruct(v, w) PROVE Good
    BY <1>13, MoveConstructSound DEF Effect, Moves
  <1>14. ASSUME NEW w \in Vector, CopyAssign(v, w) PROVE Good
    BY <1>14, CopyAssignSound DEF Effect, Copies
  <1>15. ASSUME NEW w \in Vector, MoveAssign(v, w) PROVE Good
    BY <1>15, MoveAssignSound DEF Effect, Copies, Moves
  <1>16. ASSUME NEW w \in Vector, Swap(v, w) PROVE Good
    BY <1>16, SwapSound DEF Effect, Exchanges
  <1> HIDE DEF Good
  <1>17. Good
    BY <1>1, <1>2, <1>3, <1>4, <1>5, <1>6, <1>7, <1>8, <1>9, <1>10, <1>11, <1>12, <1>13,
       <1>14, <1>15, <1>16
  <1> QED
    BY <1>17 DEF Good

(* Initially there are no vectors.                                          *)
LEMMA InitInv == Init => Inv
  <1> SUFFICES ASSUME Init PROVE Inv
    OBVIOUS
  <1>1. vectors = << >> /\ DOMAIN vectors = {} /\ contents = << >> /\ status = "defined"
    BY DEF Init
  <1>2. Found = << >>
    BY <1>1 DEF Found
  <1>3. AllSound
    BY <1>1 DEF AllSound
  <1> QED
    BY <1>1, <1>2, <1>3, InitOwn DEF Inv

LEMMA UnchangedInv ==
  ASSUME Inv, UNCHANGED vars
  PROVE  Inv'
  <1>1. UNCHANGED <<kind, vectors, heap, status, contents>>
    BY DEF vars, members
  <1>2. OwnInv'
    BY UnchangedOwn DEF Inv, vars, members
  <1>3. AllSound'
    BY <1>1, SoundNext DEF Inv, AllSound
  <1>4. Found' = Found
    BY <1>1 DEF Found, Contents, IsHollow, Elements, UnitsOf, Size, ElementAt, Offset, Cell,
       Base, Width, Varying, At
  <1> QED
    BY <1>1, <1>2, <1>3, <1>4 DEF Inv

(* A step of a careful caller keeps Inv.                                    *)
LEMMA NextInv ==
  ASSUME Careful, Inv, [Next]_vars
  PROVE  Inv'
  <1>1. CASE UNCHANGED vars
    BY <1>1, UnchangedInv
  <1>2. CASE Next
    <2>1. UNCHANGED kind /\ Call /\ contents' = Found'
      BY <1>2 DEF Next
    <2>2. Defined /\ AllSound'
      BY <2>1, CallSound
    <2>3. OwnInv'
      BY <1>2, NextOwn DEF Inv
    <2> QED
      BY <2>1, <2>2, <2>3 DEF Inv, Defined
  <1> QED
    BY <1>1, <1>2

LEMMA SpecInv ==
  ASSUME Careful
  PROVE  Spec => []Inv
  <1>1. Inv /\ [Next]_vars => Inv'
    BY NextInv
  <1> QED
    BY <1>1, InitInv, PTL DEF Spec

-----------------------------------------------------------------------------
(* However a vector of the single header came to its memory, start_ or      *)
(* last_element_ leads into it and not behind its end (cntgs.hpp:3088-3112, *)
(* 3198-3214).                                                              *)
THEOREM EdgeFollowsMemory ==
  ASSUME Careful
  PROVE  Spec => []EdgeInOwnMemory
  <1>1. Inv => EdgeInOwnMemory
    <2> SUFFICES ASSUME Inv, NEW v \in DOMAIN vectors, vectors[v].block \in DOMAIN heap
                 PROVE  /\ vectors[v].edge # Null /\ vectors[v].edge[1] = vectors[v].block
                        /\ Used(vectors[v]) <= vectors[v].units
      BY DEF EdgeInOwnMemory
    <2>1. vectors[v].block # Null
      BY NamesAssumption DEF Inv, OwnInv, IsHeap
    <2> QED
      BY <2>1, InMemory
  <1> QED
    BY <1>1, SpecInv, PTL

(* Every element of a vector of the single header is an object, and no      *)
(* object is left in its memory that the vector does not count: erase,      *)
(* resize and moves destroy what they take (cntgs.hpp:3116-3160,            *)
(* 3218-3260).                                                              *)
THEOREM ElementsAreObjects ==
  ASSUME Careful
  PROVE  Spec => []ObjectsAreElements
  <1>1. Inv => ObjectsAreElements
    <2> SUFFICES ASSUME Inv, NonTrivial, NEW v \in DOMAIN vectors,
                        vectors[v].block \in DOMAIN heap
                 PROVE  LET m == vectors[v]
                        IN  /\ Exist(m, Elements(m))
                            /\ \A c \in DOMAIN heap[m.block].cells :
                                 \/ heap[m.block].cells[c] = Raw
                                 \/ \E i \in Elements(m) : c \in Extent(m, i)
      BY DEF ObjectsAreElements
    <2> DEFINE m == vectors[v]
               d == heap[m.block].cells
    <2>1. m.block # Null
      BY NamesAssumption DEF Inv, OwnInv, IsHeap
    <2>2. Exist(m, Elements(m))
      BY <2>1, ElementsExist
    <2>3. /\ NoStray(m, d) /\ DOMAIN d = UnitsOf(m.units) /\ Sound(m, heap)
      BY <2>1, InMemory DEF Inv, AllSound
    <2>4. ASSUME NEW c \in DOMAIN d, d[c] # Raw
          PROVE  \E i \in Elements(m) : c \in Extent(m, i)
      <3>1. PICK i \in Elements(m) : Offset(m, i) <= c /\ c < EndAt(d, Offset(m, i))
        BY <2>3, <2>4 DEF NoStray
      <3>2. c \in Int
        BY <2>3 DEF UnitsOf
      <3>3. c \in Extent(m, i)
        BY <2>1, <2>3, <3>1, <3>2, ElementFound
      <3> QED
        BY <3>3
    <2> QED
      BY <2>2, <2>4
  <1> QED
    BY <1>1, SpecInv, PTL

(* Who keeps away from the calls of Careful has no undefined behaviour from *)
(* any of the others, in any order.                                         *)
THEOREM CallsAreDefined ==
  ASSUME Careful
  PROVE  Spec => []NeverUndefined
  <1>1. Inv => NeverUndefined
    BY DEF Inv, NeverUndefined
  <1> QED
    BY <1>1, SpecInv, PTL

-----------------------------------------------------------------------------
(* SingleHeaderVector implements VectorValues.                              *)
LEMMA ValuesBefore ==
  ASSUME Inv
  PROVE  /\ contents = [x \in DOMAIN vectors |-> contents[x]]
         /\ DOMAIN contents = DOMAIN vectors
         /\ \A x \in DOMAIN vectors : contents[x] = ValueOf(vectors[x], heap)
  BY FoundValue DEF Inv, Found

(* The same behind a step.                                                  *)
LEMMA ValuesAfter ==
  ASSUME UNCHANGED kind, Inv'
  PROVE  /\ contents' = [x \in DOMAIN vectors' |-> contents'[x]]
         /\ DOMAIN contents' = DOMAIN vectors'
         /\ \A x \in DOMAIN vectors' : contents'[x] = ValueOf(vectors'[x], heap')
  <1>1. OwnInv' /\ AllSound' /\ contents' = Found'
    BY DEF Inv
  <1>2. Found' = [x \in DOMAIN vectors' |-> Contents(vectors[x])']
    BY DEF Found
  <1> QED
    BY <1>1, <1>2, ValueNext

LEMMA GivesRefines ==
  ASSUME UNCHANGED kind, Inv, Inv', NEW v, NEW s, Gives(v, s)
  PROVE  Values!Give(v, s)
  BY ValuesBefore, ValuesAfter DEF Gives, Values!Give

(* Each effect is an action of VectorValues.                                *)
LEMMA EffectRefines ==
  ASSUME UNCHANGED kind, Inv, Inv', NEW v \in Vector, Effect(v)
  PROVE  Values!ValuesNext
  <1>1. /\ contents = [x \in DOMAIN vectors |-> contents[x]]
        /\ DOMAIN contents = DOMAIN vectors
        /\ \A x \in DOMAIN vectors : contents[x] = ValueOf(vectors[x], heap)
    BY ValuesBefore
  <1>2. /\ contents' = [x \in DOMAIN vectors' |-> contents'[x]]
        /\ DOMAIN contents' = DOMAIN vectors'
        /\ \A x \in DOMAIN vectors' : contents'[x] = ValueOf(vectors'[x], heap')
    BY ValuesAfter
  <1>3. CASE Gives(v, << >>)
    <2>1. Values!Give(v, << >>)
      BY <1>3, GivesRefines
    <2>2. Values!Create(v) \/ Values!Empty(v)
      BY <2>1 DEF Values!Create, Values!Empty
    <2> QED
      BY <2>2 DEF Values!ValuesNext
  <1>4. CASE Disappears(v)
    <2>1. Values!Drop(v)
      BY <1>1, <1>2, <1>4 DEF Disappears, Values!Drop
    <2> QED
      BY <2>1 DEF Values!ValuesNext
  <1>5. CASE Removes(v)
    <2>1. PICK first, last \in 0 .. Len(contents[v]) : first <= last /\ Loses(v, first, last)
      BY <1>5 DEF Removes
    <2>2. v \in DOMAIN contents /\ contents[v] # Unspecified
      BY <1>1, <1>5, UnspecifiedAssumption DEF Removes
    <2> DEFINE s == SubSeq(contents[v], 1, first)
                      \o SubSeq(contents[v], last + 1, Len(contents[v]))
    <2>3. Values!Give(v, s)
      BY <2>1, GivesRefines DEF Loses
    <2>4. Values!Remove(v)
      BY <2>1, <2>2, <2>3 DEF Values!Remove
    <2> QED
      BY <2>4 DEF Values!ValuesNext
  <1>6. CASE Appends(v)
    <2>1. PICK e \in Value : Gives(v, Append(contents[v], e))
      BY <1>6 DEF Appends
    <2>2. v \in DOMAIN contents /\ contents[v] # Unspecified
      BY <1>1, <1>6, UnspecifiedAssumption DEF Appends
    <2>3. Values!Give(v, Append(contents[v], e))
      BY <2>1, GivesRefines
    <2>4. Values!AppendTo(v, e)
      BY <2>2, <2>3 DEF Values!AppendTo
    <2> QED
      BY <2>4 DEF Values!ValuesNext
  <1>7. CASE Inserts(v)
    <2>1. PICK e \in Value, p \in 0 .. Len(contents[v]) :
            Gives(v, SubSeq(contents[v], 1, p) \o <<e>>
                       \o SubSeq(contents[v], p + 1, Len(contents[v])))
      BY <1>7 DEF Inserts
    <2>2. v \in DOMAIN contents /\ contents[v] # Unspecified
      BY <1>1, <1>7, UnspecifiedAssumption DEF Inserts
    <2> DEFINE s == SubSeq(contents[v], 1, p) \o <<e>>
                      \o SubSeq(contents[v], p + 1, Len(contents[v]))
    <2>3. Values!Give(v, s)
      BY <2>1, GivesRefines
    <2>4. Values!InsertInto(v, e)
      BY <2>2, <2>3 DEF Values!InsertInto
    <2> QED
      BY <2>4 DEF Values!ValuesNext
  <1>8. CASE Copies(v)
    <2>1. PICK w \in Vector : w \in DOMAIN vectors /\ Gives(v, contents[w])
      BY <1>8 DEF Copies
    <2>2. Values!Give(v, contents[w])
      BY <2>1, GivesRefines
    <2>3. Values!CreateCopy(v, w) \/ Values!Copy(v, w)
      BY <1>1, <2>1, <2>2 DEF Values!CreateCopy, Values!Copy
    <2> QED
      BY <2>3 DEF Values!ValuesNext
  <1>9. CASE Moves(v)
    <2>1. PICK w \in Vector : v # w /\ w \in DOMAIN vectors /\ Hands(v, w)
      BY <1>9 DEF Moves
    <2>2. PICK left \in {Unspecified, << >>} :
            GivesAway(v, w, ValueOf(vectors[w], heap), left)
      BY <2>1 DEF Hands
    <2>3. contents' = [x \in DOMAIN contents \cup {v} |->
                         IF x = v THEN contents[w] ELSE IF x = w THEN left ELSE contents[x]]
      BY <1>1, <1>2, <2>1, <2>2 DEF GivesAway
    <2>4. Values!Move(v, w)
      BY <1>1, <2>1, <2>3 DEF Values!Move
    <2> QED
      BY <2>4 DEF Values!ValuesNext
  <1>10. CASE Exchanges(v)
    <2>1. PICK w \in Vector :
            /\ v \in DOMAIN vectors /\ w \in DOMAIN vectors
            /\ GivesAway(v, w, ValueOf(vectors[w], heap), ValueOf(vectors[v], heap))
      BY <1>10 DEF Exchanges
    <2>2. contents' = [contents EXCEPT ![v] = contents[w], ![w] = contents[v]]
      BY <1>1, <1>2, <2>1 DEF GivesAway
    <2>3. Values!Exchange(v, w)
      BY <1>1, <2>1, <2>2 DEF Values!Exchange
    <2> QED
      BY <2>3 DEF Values!ValuesNext
  <1> QED
    BY <1>3, <1>4, <1>5, <1>6, <1>7, <1>8, <1>9, <1>10 DEF Effect

(* Every step is one of VectorValues, or one that it does not see.          *)
LEMMA StepRefines ==
  ASSUME Careful, Inv, [Next]_vars
  PROVE  [Values!ValuesNext]_contents
  <1>1. CASE UNCHANGED vars
    BY <1>1 DEF vars
  <1>2. CASE Next
    <2>1. UNCHANGED kind /\ Call
      BY <1>2 DEF Next
    <2>2. PICK v \in Vector : Effect(v)
      BY <2>1, CallSound
    <2>3. Inv'
      BY NextInv
    <2>4. Values!ValuesNext
      BY <2>1, <2>2, <2>3, EffectRefines
    <2> QED
      BY <2>4
  <1> QED
    BY <1>1, <1>2

(* The vectors of the single header are sequences of values to a careful    *)
(* caller, each independent of the others (cntgs.hpp:3700-4085).            *)
THEOREM VectorsHaveValues ==
  ASSUME Careful
  PROVE  Spec => ImplementsValues
  <1>1. Inv /\ [Next]_vars => [Values!ValuesNext]_contents
    BY StepRefines
  <1>2. Init => Values!ValuesInit
    BY DEF Init, Values!ValuesInit
  <1> QED
    BY <1>1, <1>2, SpecInv, PTL DEF Spec, ImplementsValues, Values!ValuesSpec
=============================================================================
