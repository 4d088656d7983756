------------------------ MODULE VaryingVectorProofs ------------------------
(***************************************************************************)
(* The table of offsets, the bytes and last_element_ of VaryingVector stay *)
(* in step, for all values of all sizes, all alignments and capacities,    *)
(* and a caller that makes none of the calls the code does not carry out   *)
(* (Careful); and the vector implements SequenceContainer.                 *)
(*                                                                         *)
(* The invariant speaks of the value val[i] of each element rather than of *)
(* the bytes it is read from; IInv says that there are such values.  Laid  *)
(* is what the properties are about: whole elements, in order, in front of *)
(* last_element_.  It is not inductive.  An erase in progress (EraseInv)   *)
(* has to know that the gap it fills keeps its width and that no element   *)
(* behind it is wider; and what the table says of the place where an       *)
(* element ended has to be at most the next aligned place (PackedInv), for *)
(* resize will take it for the end of the vector.                          *)
(***************************************************************************)
EXTENDS VaryingVector, TLAPS

(* A caller that keeps away from all the calls in Calls.                    *)
Careful == Avoided = Calls

Cell == (Value \X Nat) \cup {Raw}

(* A whole element of value v is at a.                                      *)
Holds(mem, a, v) == a \in Nat /\ v \in Value /\ Intact(mem, a, v)

EndOf(table, val, i) == table[i] + Units[val[i]]

(* The elements in S, of values val, one after the other and before end.    *)
Laid(mem, table, val, S, end) ==
  /\ \A i \in S : Holds(mem, table[i], val[i]) /\ EndOf(table, val, i) <= end
  /\ \A i, j \in S : i < j => EndOf(table, val, i) <= table[j]

NoStray(mem, table, val, S) ==
  \A c \in DOMAIN mem :
    mem[c] = Raw \/ mem[c][2] = 0 \/ \E i \in S : c \in Extent(table[i], val[i])

(* In the loop of erase: the gap, where it begins, and what is behind it.   *)
EraseInv(val) ==
  /\ NonTrivial /\ to < from /\ removed = from - to
  /\ element_addresses[to] \in 0 .. last_element
  /\ \A i \in 0 .. to - 1 : EndOf(element_addresses, val, i) <= element_addresses[to]
  /\ \A i \in from .. size - 1 :
       Units[val[i]] <= element_addresses[from] - element_addresses[to]

(* No element with destructors starts later than it has to.                 *)
PackedInv(val) ==
  /\ size > 0 => element_addresses[0] = 0
  /\ \A i \in 0 .. size - 2 :
       (pc = "erase" => i < to) =>
         element_addresses[i + 1] <= AlignUp(EndOf(element_addresses, val, i))
  /\ pc = "idle" =>
       last_element <= IF size = 0 THEN 0
                       ELSE AlignUp(EndOf(element_addresses, val, size - 1))

(* The inductive invariant, for elements of values val.                     *)
IInvOf(val) ==
  /\ TypeOK /\ NeverUndefined
  /\ last_element \in Nat /\ 0 .. last_element - 1 \subseteq DOMAIN memory
  /\ Laid(memory, element_addresses, val, Occupied, last_element)
  /\ NonTrivial => NoStray(memory, element_addresses, val, Occupied)
  /\ pc = "idle" => to = 0 /\ from = 0 /\ removed = 0
  /\ pc = "erase" => EraseInv(val)
  /\ NonTrivial => PackedInv(val)

IInv == \E val : IInvOf(val)

-----------------------------------------------------------------------------
(* Division, and what AlignUp computes with it: the least multiple of the   *)
(* alignment that is not less.                                              *)
LEMMA Division ==
  ASSUME NEW x \in Int, NEW d \in Nat, d > 0
  PROVE  /\ x \div d \in Int
         /\ x % d \in Int /\ 0 <= x % d /\ x % d < d
         /\ x = d * (x \div d) + (x % d)
  <1>1. x \div d \in Int
    OBVIOUS
  <1>2. x % d \in Int /\ 0 <= x % d /\ x % d < d
    OBVIOUS
  <1>3. x = d * (x \div d) + (x % d)
    OBVIOUS
  <1> QED
    BY <1>1, <1>2, <1>3

LEMMA Products ==
  ASSUME NEW d \in Nat, NEW k \in Int, NEW l \in Int, k <= l
  PROVE  d * k \in Int /\ d * l \in Int /\ d * k <= d * l
  OBVIOUS

LEMMA NextProduct ==
  ASSUME NEW d \in Nat, NEW k \in Int, NEW l \in Int, k < l
  PROVE  d * k + d <= d * l
  <1>1. d * (k + 1) <= d * l /\ d * (k + 1) \in Int
    BY Products
  <1>2. d * (k + 1) = d * k + d
    OBVIOUS
  <1> QED
    BY <1>1, <1>2

LEMMA Multiple ==
  ASSUME NEW d \in Nat, d > 0, NEW k \in Int
  PROVE  (d * k) % d = 0
  <1> DEFINE x == d * k
             q == x \div d
             r == x % d
  <1>1. x \in Int
    OBVIOUS
  <1>2. q \in Int /\ r \in Int /\ 0 <= r /\ r < d /\ x = d * q + r
    BY <1>1, Division
  <1>3. CASE q < k
    <2>1. d * q + d <= d * k
      BY <1>2, <1>3, NextProduct
    <2> QED
      BY <1>1, <1>2, <2>1
  <1>4. CASE k < q
    <2>1. d * k + d <= d * q
      BY <1>2, <1>4, NextProduct
    <2> QED
      BY <1>1, <1>2, <2>1
  <1>5. CASE k = q
    BY <1>1, <1>2, <1>5
  <1> QED
    BY <1>2, <1>3, <1>4, <1>5

LEMMA AlignUpMultiple ==
  ASSUME Alignment \in Nat, Alignment > 0, NEW a \in Int
  PROVE  /\ AlignUp(a) \in Int
         /\ a <= AlignUp(a) /\ AlignUp(a) < a + Alignment
         /\ \E k \in Int : AlignUp(a) = Alignment * k
  <1> DEFINE x == a + Alignment - 1
             k == x \div Alignment
  <1>1. x \in Int
    OBVIOUS
  <1>2. /\ k \in Int /\ x % Alignment \in Int /\ 0 <= x % Alignment /\ x % Alignment < Alignment
        /\ x = Alignment * k + (x % Alignment)
    BY <1>1, Division
  <1>3. AlignUp(a) = Alignment * k /\ Alignment * k \in Int
    BY <1>2 DEF AlignUp
  <1>4. a <= Alignment * k /\ Alignment * k < a + Alignment
    BY <1>1, <1>2, <1>3
  <1> QED
    BY <1>2, <1>3, <1>4

LEMMA AlignUpBounds ==
  ASSUME Alignment \in Nat, Alignment > 0, NEW a \in Int
  PROVE  AlignUp(a) \in Int /\ a <= AlignUp(a) /\ AlignUp(a) < a + Alignment
  BY AlignUpMultiple

LEMMA AlignUpLeast ==
  ASSUME Alignment \in Nat, Alignment > 0, NEW a \in Int, NEW b \in Int, b <= AlignUp(a)
  PROVE  AlignUp(b) <= AlignUp(a)
  <1>1. PICK k \in Int : AlignUp(a) = Alignment * k
    BY AlignUpMultiple
  <1>2. PICK l \in Int : AlignUp(b) = Alignment * l
    BY AlignUpMultiple
  <1>3. AlignUp(b) < AlignUp(a) + Alignment /\ AlignUp(a) \in Int /\ AlignUp(b) \in Int
    BY AlignUpBounds
  <1>4. CASE k < l
    <2>1. Alignment * k + Alignment <= Alignment * l
      BY <1>4, NextProduct
    <2> QED
      BY <1>1, <1>2, <1>3, <2>1
  <1>5. CASE l <= k
    BY <1>1, <1>2, <1>5, Products
  <1> QED
    BY <1>4, <1>5

-----------------------------------------------------------------------------
(* What a caller reads where a whole element is.                            *)
LEMMA HeldValue ==
  ASSUME NEW mem, NEW a, NEW v, Holds(mem, a, v)
  PROVE  Readable(mem, a) /\ ValueAt(mem, a) = v
  <1>1. a \in Nat /\ v \in Value /\ Intact(mem, a, v)
    BY DEF Holds
  <1>2. \A w \in Value : Intact(mem, a, w) => mem[a] = <<w, 0>>
    BY <1>1, UnitsAssumption DEF Intact, Extent
  <1>3. \A w \in Value : Intact(mem, a, w) => w = v
    BY <1>1, <1>2
  <1>4. ValueAt(mem, a) = v
    BY <1>1, <1>3 DEF ValueAt
  <1> QED
    BY <1>1, <1>4 DEF Readable

(* An element is whole wherever its cells are.                              *)
LEMMA HeldElsewhere ==
  ASSUME NEW mem, NEW a, NEW v, Holds(mem, a, v), NEW new, NEW b \in Nat,
         \A c \in Extent(b, v) : c \in DOMAIN new /\ new[c] = mem[c + (a - b)]
  PROVE  Holds(new, b, v)
  <1>1. a \in Nat /\ v \in Value /\ Units[v] \in Nat
    BY UnitsAssumption DEF Holds
  <1>2. \A x \in Extent(a, v) : mem[x] = <<v, x - a>>
    BY DEF Holds, Intact
  <1>3. ASSUME NEW c \in Extent(b, v)
        PROVE  c \in DOMAIN new /\ new[c] = <<v, c - b>>
    <2> DEFINE x == c + (a - b)
    <2>1. x \in Extent(a, v) /\ x - a = c - b
      BY <1>1 DEF Extent
    <2>2. c \in DOMAIN new /\ new[c] = mem[x]
      OBVIOUS
    <2> HIDE DEF x
    <2>3. mem[x] = <<v, x - a>>
      BY <1>2, <2>1
    <2> QED
      BY <2>1, <2>2, <2>3
  <1> QED
    BY <1>1, <1>3 DEF Holds, Intact

LEMMA StillHeld ==
  ASSUME NEW mem, NEW a, NEW v, Holds(mem, a, v), NEW new,
         \A c \in Extent(a, v) : c \in DOMAIN new /\ new[c] = mem[c]
  PROVE  Holds(new, a, v)
  BY DEF Holds, Intact

(* The cells of an element are where memory is.                             *)
LEMMA HeldCells ==
  ASSUME NEW mem, NEW a, NEW v, Holds(mem, a, v)
  PROVE  /\ a \in Nat /\ v \in Value /\ Units[v] \in Nat /\ Units[v] > 0
         /\ Extent(a, v) \subseteq DOMAIN mem
         /\ \A c \in Extent(a, v) : mem[c] = <<v, c - a>>
  BY UnitsAssumption DEF Holds, Intact

LEMMA StoredElement ==
  ASSUME NEW mem, NEW a \in Nat, NEW v \in Value, Extent(a, v) \subseteq DOMAIN mem
  PROVE  Holds(Store(mem, a, v), a, v)
  BY DEF Holds, Intact, Store

-----------------------------------------------------------------------------
(* How much memory is allocated, and that it is more for more elements.     *)
LEMMA MemorySizeBounds ==
  ASSUME Alignment \in Nat, Alignment > 0, NEW n \in Nat, NEW varying \in Nat,
         NEW m \in Nat, NEW more \in Nat, n <= m, varying <= more
  PROVE  MemorySize(n, varying) \in Nat /\ MemorySize(n, varying) <= MemorySize(m, more)
  <1> DEFINE a == varying + (IF n = 0 THEN 0 ELSE n * Alignment - (Alignment - 1))
             b == more + (IF m = 0 THEN 0 ELSE m * Alignment - (Alignment - 1))
  <1>1. a \in Nat /\ b \in Nat /\ a <= b
    <2>1. Alignment * n \in Int /\ Alignment * m \in Int /\ Alignment * n <= Alignment * m
      BY Products
    <2>2. n * Alignment = Alignment * n /\ m * Alignment = Alignment * m
      OBVIOUS
    <2>3. n > 0 => Alignment * 0 + Alignment <= Alignment * n
      BY NextProduct
    <2>4. m > 0 => Alignment * 0 + Alignment <= Alignment * m
      BY NextProduct
    <2> QED
      BY <2>1, <2>2, <2>3, <2>4
  <1>2. MemorySize(n, varying) = AlignUp(a) /\ MemorySize(m, more) = AlignUp(b)
    BY DEF MemorySize
  <1> HIDE DEF a, b
  <1>3. AlignUp(a) \in Int /\ a <= AlignUp(a) /\ b <= AlignUp(b) /\ AlignUp(b) \in Int
    BY <1>1, AlignUpBounds
  <1>4. AlignUp(a) <= AlignUp(b)
    <2>1. a <= AlignUp(b)
      BY <1>1, <1>3
    <2> QED
      BY <1>1, <2>1, AlignUpLeast
  <1> QED
    BY <1>1, <1>2, <1>3, <1>4

(* The types, one by one.                                                   *)
LEMMA Types ==
  ASSUME TypeOK
  PROVE  /\ kind \in [nontrivial : BOOLEAN, alignment : Nat \ {0}]
         /\ Alignment \in Nat /\ Alignment > 0 /\ NonTrivial \in BOOLEAN
         /\ max_element_count \in Nat /\ size \in Nat /\ size <= max_element_count
         /\ to \in Nat /\ from \in Nat /\ removed \in Nat
         /\ to <= size /\ from <= size /\ removed <= size
         /\ DOMAIN element_addresses = 0 .. max_element_count - 1
         /\ \A i \in 0 .. size - 1 : Address(i) = element_addresses[i]
         /\ \A c \in DOMAIN memory : c \in Nat /\ memory[c] \in Cell
         /\ \E n \in Nat : DOMAIN memory = 0 .. n - 1
  <1>1. /\ kind \in [nontrivial : BOOLEAN, alignment : Nat \ {0}]
        /\ Alignment \in Nat /\ Alignment > 0 /\ NonTrivial \in BOOLEAN
    BY KindAssumption DEF TypeOK, Alignment, NonTrivial
  <1>2. /\ max_element_count \in Nat /\ size \in Nat /\ size <= max_element_count
        /\ to \in Nat /\ from \in Nat /\ removed \in Nat
        /\ to <= size /\ from <= size /\ removed <= size
        /\ DOMAIN element_addresses = 0 .. max_element_count - 1
    BY SizeAssumption DEF TypeOK
  <1>3. \A i \in 0 .. size - 1 : Address(i) = element_addresses[i]
    BY <1>2 DEF Address, AddressIn
  <1>4. MemorySize(MaxCapacity, MaxVarying) \in Nat
    BY <1>1, SizeAssumption, MemorySizeBounds
  <1>5. PICK n \in 0 .. MemorySize(MaxCapacity, MaxVarying) :
          memory \in [0 .. n - 1 -> (Value \X Nat) \cup {Raw}]
    BY DEF TypeOK
  <1>6. n \in Nat /\ DOMAIN memory = 0 .. n - 1
    BY <1>4, <1>5
  <1>7. \A c \in DOMAIN memory : c \in Nat /\ memory[c] \in Cell
    BY <1>5, <1>6 DEF Cell
  <1> QED
    BY <1>1, <1>2, <1>3, <1>6, <1>7

(* Memory of the same size with other cells.                                *)
LEMMA MemoryType ==
  ASSUME TypeOK, NEW mem, mem = [c \in DOMAIN memory |-> mem[c]],
         \A c \in DOMAIN memory : mem[c] \in Cell
  PROVE  \E n \in 0 .. MemorySize(MaxCapacity, MaxVarying) :
           mem \in [0 .. n - 1 -> (Value \X Nat) \cup {Raw}]
  BY DEF TypeOK, Cell

LEMMA StoredCells ==
  ASSUME NEW mem, \A c \in DOMAIN mem : c \in Nat /\ mem[c] \in Cell,
         NEW a \in Nat, NEW v \in Value
  PROVE  /\ DOMAIN Store(mem, a, v) = DOMAIN mem
         /\ Store(mem, a, v) = [c \in DOMAIN mem |-> Store(mem, a, v)[c]]
         /\ \A c \in DOMAIN mem : /\ Store(mem, a, v)[c] \in Cell
                                  /\ c \in Extent(a, v) => Store(mem, a, v)[c] = <<v, c - a>>
                                  /\ c \notin Extent(a, v) => Store(mem, a, v)[c] = mem[c]
  <1>1. Units[v] \in Nat
    BY UnitsAssumption
  <1> QED
    BY <1>1 DEF Store, Cell, Extent

(* Each element of an unfinished or finished call.                          *)
LEMMA ElementFacts ==
  ASSUME NEW val, IInvOf(val), NEW i \in Occupied
  PROVE  /\ i \in Nat /\ i < size /\ i \in DOMAIN element_addresses
         /\ element_addresses[i] \in Nat /\ val[i] \in Value
         /\ Units[val[i]] \in Nat /\ Units[val[i]] > 0
         /\ EndOf(element_addresses, val, i) = element_addresses[i] + Units[val[i]]
         /\ EndOf(element_addresses, val, i) \in Nat
         /\ EndOf(element_addresses, val, i) <= last_element
         /\ Holds(memory, element_addresses[i], val[i])
         /\ ValueAt(memory, element_addresses[i]) = val[i]
         /\ Readable(memory, Address(i))
         /\ Extent(element_addresses[i], val[i]) \subseteq DOMAIN memory
  <1>1. TypeOK /\ Laid(memory, element_addresses, val, Occupied, last_element)
    BY DEF IInvOf
  <1>2. i \in Nat /\ i < size /\ i \in 0 .. size - 1 /\ i \in DOMAIN element_addresses
    BY <1>1, Types DEF Occupied
  <1>3. /\ Holds(memory, element_addresses[i], val[i])
        /\ EndOf(element_addresses, val, i) <= last_element
    BY <1>1 DEF Laid
  <1>4. /\ element_addresses[i] \in Nat /\ val[i] \in Value
        /\ Units[val[i]] \in Nat /\ Units[val[i]] > 0
        /\ Extent(element_addresses[i], val[i]) \subseteq DOMAIN memory
    BY <1>3, HeldCells
  <1>5. /\ ValueAt(memory, element_addresses[i]) = val[i]
        /\ Readable(memory, element_addresses[i])
    BY <1>3, HeldValue
  <1>6. Address(i) = element_addresses[i]
    BY <1>1, <1>2, Types
  <1> QED
    BY <1>2, <1>3, <1>4, <1>5, <1>6 DEF EndOf

LEMMA SameKind ==
  ASSUME kind' = kind
  PROVE  /\ NonTrivial' = NonTrivial /\ Alignment' = Alignment
         /\ \A a : AlignUp(a)' = AlignUp(a)
         /\ \A n, m : MemorySize(n, m)' = MemorySize(n, m)
  BY DEF NonTrivial, Alignment, AlignUp, MemorySize

LEMMA AlignUpZero ==
  ASSUME Alignment \in Nat, Alignment > 0
  PROVE  AlignUp(0) = 0
  <1>1. PICK k \in Int : AlignUp(0) = Alignment * k
    BY AlignUpMultiple
  <1>2. AlignUp(0) \in Int /\ 0 <= AlignUp(0) /\ AlignUp(0) < Alignment
    BY AlignUpBounds
  <1>3. CASE k < 0
    <2>1. Alignment * k + Alignment <= Alignment * 0
      BY <1>3, NextProduct
    <2> QED
      BY <1>1, <1>2, <2>1
  <1>4. CASE 0 < k
    <2>1. Alignment * 0 + Alignment <= Alignment * k
      BY <1>4, NextProduct
    <2> QED
      BY <1>1, <1>2, <2>1
  <1>5. CASE k = 0
    BY <1>1, <1>5
  <1> QED
    BY <1>3, <1>4, <1>5

-----------------------------------------------------------------------------
LEMMA InitInv == Init => IInv
  <1> SUFFICES ASSUME Init PROVE IInv
    OBVIOUS
  <1>1. Alignment \in Nat /\ Alignment > 0 /\ NonTrivial \in BOOLEAN
    BY KindAssumption DEF Init, Alignment, NonTrivial
  <1>2. PICK varying \in 0 .. MaxVarying :
          memory = RawMemory(MemorySize(max_element_count, varying))
    BY DEF Init
  <1> DEFINE n == MemorySize(max_element_count, varying)
  <1>3. n \in Nat /\ n <= MemorySize(MaxCapacity, MaxVarying)
    <2>1. /\ max_element_count \in Nat /\ varying \in Nat
          /\ max_element_count <= MaxCapacity /\ varying <= MaxVarying
      BY SizeAssumption DEF Init
    <2> QED
      BY <1>1, <2>1, SizeAssumption, MemorySizeBounds
  <1> HIDE DEF n
  <1>4. /\ memory = [c \in 0 .. n - 1 |-> Raw]
        /\ \A c \in DOMAIN memory : memory[c] = Raw
    BY <1>2 DEF RawMemory, n
  <1>5. TypeOK
    <2>1. \E k \in 0 .. MemorySize(MaxCapacity, MaxVarying) :
            memory \in [0 .. k - 1 -> (Value \X Nat) \cup {Raw}]
      BY <1>3, <1>4
    <2> QED
      BY <2>1, SizeAssumption DEF Init, TypeOK
  <1>6. Occupied = {}
    BY DEF Init, Occupied
  <1>7. Laid(memory, element_addresses, << >>, Occupied, last_element)
    BY <1>6 DEF Laid
  <1>8. NoStray(memory, element_addresses, << >>, Occupied)
    BY <1>4 DEF NoStray
  <1>9. PackedInv(<< >>)
    BY DEF Init, PackedInv
  <1>10. IInvOf(<< >>)
    BY <1>5, <1>7, <1>8, <1>9 DEF Init, IInvOf, NeverUndefined
  <1> QED
    BY <1>10 DEF IInv

-----------------------------------------------------------------------------
(* emplace_back writes behind last_element_, where no element is.           *)
LEMMA EmplaceBackInv ==
  ASSUME NEW val, IInvOf(val), NEW v \in Value, EmplaceBack(v), kind' = kind
  PROVE  \E w : /\ w[size] = v /\ \A i \in 0 .. size - 1 : w[i] = val[i]
                /\ IInvOf(w)'
  <1> DEFINE start == AlignUp(last_element)
             table == [element_addresses EXCEPT ![size] = start]
  <1>1. /\ TypeOK /\ pc = "idle" /\ size < max_element_count /\ last_element \in Nat
        /\ 0 .. last_element - 1 \subseteq DOMAIN memory
        /\ Laid(memory, element_addresses, val, Occupied, last_element)
        /\ NonTrivial => NoStray(memory, element_addresses, val, Occupied)
        /\ to = 0 /\ from = 0 /\ removed = 0
        /\ NonTrivial => PackedInv(val)
    BY DEF IInvOf, EmplaceBack
  <1>2. /\ Alignment \in Nat /\ Alignment > 0 /\ size \in Nat /\ max_element_count \in Nat
        /\ DOMAIN element_addresses = 0 .. max_element_count - 1
        /\ \A c \in DOMAIN memory : c \in Nat /\ memory[c] \in Cell
        /\ Occupied = 0 .. size - 1
    BY <1>1, Types DEF Occupied
  <1>3. /\ start \in Nat /\ last_element <= start
    <2>1. last_element \in Int
      BY <1>1
    <2>2. AlignUp(last_element) \in Int /\ last_element <= AlignUp(last_element)
      BY <1>2, <2>1, AlignUpBounds
    <2> QED
      BY <1>1, <2>2
  <1>4. Units[v] \in Nat /\ Units[v] > 0
    BY UnitsAssumption
  <1>5. /\ Extent(start, v) \subseteq DOMAIN memory
        /\ memory' = Store(memory, start, v)
        /\ element_addresses' = table
        /\ last_element' = start + Units[v]
        /\ size' = size + 1
        /\ UNCHANGED <<max_element_count, pc, to, from, removed>>
    BY <1>1, CellAssumption DEF EmplaceBack, NextStart, loop
  <1>6. /\ table \in [0 .. max_element_count - 1 -> Int \cup {Indeterminate}]
        /\ table[size] = start
        /\ \A i \in 0 .. size - 1 : table[i] = element_addresses[i]
    BY <1>1, <1>2, <1>3 DEF TypeOK
  <1>7. PICK w : w[size] = v /\ \A i \in 0 .. size - 1 : w[i] = val[i]
    <2> DEFINE f == [i \in 0 .. size |-> IF i = size THEN v ELSE val[i]]
    <2>1. f[size] = v /\ \A i \in 0 .. size - 1 : f[i] = val[i]
      BY <1>2
    <2> QED
      BY <2>1
  <1>8. Occupied' = 0 .. size /\ NonTrivial' = NonTrivial
    BY <1>1, <1>2, <1>5, SameKind DEF Occupied
  <1> HIDE DEF start, table
  <1>9. /\ DOMAIN memory' = DOMAIN memory
        /\ memory' = [c \in DOMAIN memory |-> memory'[c]]
        /\ \A c \in DOMAIN memory :
             /\ memory'[c] \in Cell
             /\ c \in Extent(start, v) => memory'[c] = <<v, c - start>>
             /\ c \notin Extent(start, v) => memory'[c] = memory[c]
    <2>1. /\ DOMAIN Store(memory, start, v) = DOMAIN memory
          /\ Store(memory, start, v) = [c \in DOMAIN memory |-> Store(memory, start, v)[c]]
          /\ \A c \in DOMAIN memory :
               /\ Store(memory, start, v)[c] \in Cell
               /\ c \in Extent(start, v) => Store(memory, start, v)[c] = <<v, c - start>>
               /\ c \notin Extent(start, v) => Store(memory, start, v)[c] = memory[c]
      BY <1>2, <1>3, StoredCells, Zenon
    <2> QED
      BY <1>5, <2>1
  <1>10. TypeOK'
    <2>1. \E n \in 0 .. MemorySize(MaxCapacity, MaxVarying) :
            memory' \in [0 .. n - 1 -> (Value \X Nat) \cup {Raw}]
      BY <1>1, <1>9, MemoryType
    <2>2. max_element_count' \in 0 .. MaxCapacity /\ size' \in 0 .. max_element_count'
          /\ kind' \in Kinds
      BY <1>1, <1>2, <1>5 DEF TypeOK
    <2>3. to' \in 0 .. size' /\ from' \in 0 .. size' /\ removed' \in 0 .. size'
      BY <1>1, <1>2, <1>5
    <2>4. last_element' \in Int
      BY <1>3, <1>4, <1>5
    <2> QED
      BY <1>1, <1>5, <1>6, <2>1, <2>2, <2>3, <2>4, SameKind DEF TypeOK
  <1>11. 0 .. last_element' - 1 \subseteq DOMAIN memory'
    <2>1. PICK n \in Nat : DOMAIN memory = 0 .. n - 1
      BY <1>1, Types
    <2>2. start + Units[v] - 1 \in DOMAIN memory
      BY <1>3, <1>4, <1>5 DEF Extent
    <2> QED
      BY <1>3, <1>4, <1>5, <1>9, <2>1, <2>2
  <1>12. Laid(memory', table, w, 0 .. size, start + Units[v])
    <2>1. Holds(memory', start, v)
      BY <1>3, <1>5, StoredElement
    <2>2. ASSUME NEW i \in 0 .. size - 1
          PROVE  /\ Holds(memory', table[i], w[i])
                 /\ EndOf(table, w, i) = EndOf(element_addresses, val, i)
                 /\ EndOf(element_addresses, val, i) \in Nat
                 /\ EndOf(element_addresses, val, i) <= start
      <3>1. /\ element_addresses[i] \in Nat /\ Units[val[i]] \in Nat
            /\ EndOf(element_addresses, val, i) = element_addresses[i] + Units[val[i]]
            /\ EndOf(element_addresses, val, i) <= last_element
            /\ Holds(memory, element_addresses[i], val[i])
            /\ Extent(element_addresses[i], val[i]) \subseteq DOMAIN memory
        BY <1>2, ElementFacts
      <3>2. ASSUME NEW c \in Extent(element_addresses[i], val[i])
            PROVE  c \in DOMAIN memory' /\ memory'[c] = memory[c]
        <4>1. c \notin Extent(start, v)
          BY <1>1, <1>3, <1>4, <3>1 DEF Extent
        <4> QED
          BY <1>9, <3>1, <4>1
      <3>3. Holds(memory', element_addresses[i], val[i])
        BY <3>1, <3>2, StillHeld
      <3> QED
        BY <1>1, <1>3, <1>6, <1>7, <3>1, <3>3 DEF EndOf
    <2>3. EndOf(table, w, size) = start + Units[v]
      BY <1>6, <1>7 DEF EndOf
    <2>4. ASSUME NEW i \in 0 .. size
          PROVE  Holds(memory', table[i], w[i]) /\ EndOf(table, w, i) <= start + Units[v]
      BY <1>2, <1>3, <1>4, <1>6, <1>7, <2>1, <2>2, <2>3
    <2>5. ASSUME NEW i \in 0 .. size, NEW j \in 0 .. size, i < j
          PROVE  EndOf(table, w, i) <= table[j]
      <3>1. CASE j = size
        BY <1>2, <1>6, <2>2, <2>5, <3>1
      <3>2. CASE j # size
        <4>1. i \in 0 .. size - 1 /\ j \in 0 .. size - 1
          BY <1>2, <2>5, <3>2
        <4>2. EndOf(element_addresses, val, i) <= element_addresses[j]
          BY <1>1, <1>2, <2>5, <4>1 DEF Laid
        <4> QED
          BY <1>6, <2>2, <4>1, <4>2
      <3> QED
        BY <3>1, <3>2
    <2> QED
      BY <2>4, <2>5 DEF Laid
  <1>13. ASSUME NonTrivial PROVE NoStray(memory', table, w, 0 .. size)
    <2> SUFFICES ASSUME NEW c \in DOMAIN memory, memory'[c] # Raw, memory'[c][2] # 0
                 PROVE  \E i \in 0 .. size : c \in Extent(table[i], w[i])
      BY <1>9 DEF NoStray
    <2>1. CASE c \in Extent(start, v)
      BY <1>2, <1>6, <1>7, <2>1
    <2>2. CASE c \notin Extent(start, v)
      <3>1. memory[c] # Raw /\ memory[c][2] # 0
        BY <1>9, <2>2
      <3>2. PICK i \in 0 .. size - 1 : c \in Extent(element_addresses[i], val[i])
        BY <1>1, <1>2, <1>13, <3>1 DEF NoStray
      <3>3. i \in 0 .. size /\ c \in Extent(table[i], w[i])
        BY <1>2, <1>6, <1>7, <3>2
      <3> QED
        BY <3>3
    <2> QED
      BY <2>1, <2>2
  <1>14. ASSUME NonTrivial PROVE PackedInv(w)'
    <2>1. PackedInv(val)
      BY <1>1, <1>14
    <2>2. ASSUME NEW i \in 0 .. size - 1
          PROVE  /\ EndOf(table, w, i) = EndOf(element_addresses, val, i)
                 /\ EndOf(element_addresses, val, i) \in Int
      BY <1>2, <1>6, <1>7, ElementFacts DEF EndOf
    <2>3. table[0] = 0
      <3>1. CASE size = 0
        BY <1>1, <1>2, <1>3, <1>6, <2>1, <3>1, AlignUpZero DEF PackedInv, start
      <3>2. CASE size > 0
        BY <1>2, <1>6, <2>1, <3>2 DEF PackedInv
      <3> QED
        BY <1>2, <3>1, <3>2
    <2>4. ASSUME NEW i \in 0 .. size - 1
          PROVE  table[i + 1] <= AlignUp(EndOf(table, w, i))
      <3>1. CASE i + 1 = size
        <4>1. last_element <= AlignUp(EndOf(element_addresses, val, i))
          <5>1. i = size - 1 /\ size # 0
            BY <1>2, <3>1
          <5> QED
            BY <1>1, <2>1, <5>1 DEF PackedInv
        <4>2. start <= AlignUp(EndOf(element_addresses, val, i))
          BY <1>1, <1>2, <2>2, <4>1, AlignUpLeast DEF start
        <4> QED
          BY <1>6, <2>2, <3>1, <4>2
      <3>2. CASE i + 1 # size
        <4>1. i \in 0 .. size - 2 /\ i + 1 \in 0 .. size - 1
          BY <1>2, <3>2
        <4>2. element_addresses[i + 1] <= AlignUp(EndOf(element_addresses, val, i))
          BY <1>1, <2>1, <4>1 DEF PackedInv
        <4> QED
          BY <1>6, <2>2, <4>1, <4>2
      <3> QED
        BY <3>1, <3>2
    <2>5. start + Units[v] <= AlignUp(EndOf(table, w, size))
      <3>1. EndOf(table, w, size) = start + Units[v]
        BY <1>6, <1>7 DEF EndOf
      <3>2. start + Units[v] \in Int
        BY <1>3, <1>4
      <3> QED
        BY <1>2, <3>1, <3>2, AlignUpBounds
    <2>6. size' - 1 = size /\ size' - 2 = size - 1 /\ size' # 0
      BY <1>2, <1>5
    <2> QED
      BY <1>1, <1>5, <2>3, <2>4, <2>5, <2>6, SameKind DEF PackedInv
  <1>15. IInvOf(w)'
    <2>1. NeverUndefined'
      BY <1>1, <1>5 DEF NeverUndefined
    <2>2. last_element' \in Nat
      BY <1>3, <1>4, <1>5
    <2> QED
      BY <1>1, <1>5, <1>8, <1>10, <1>11, <1>12, <1>13, <1>14, <2>1, <2>2 DEF IInvOf
  <1> QED
    BY <1>7, <1>15

-----------------------------------------------------------------------------
(* The elements that are not between first and last.                        *)
Others(first, last) == {i \in 0 .. size - 1 : i < first \/ i >= last}

(* Destructors run where an object is, and leave the other elements whole.  *)
LEMMA DestroyRangeKeeps ==
  ASSUME NEW val, IInvOf(val), pc = "idle",
         NEW first \in Nat, NEW last \in Nat, last <= size,
         NEW mem, mem = DestroyRange(first, last)
  PROVE  /\ MayDestroy(first, last)
         /\ DOMAIN mem = DOMAIN memory
         /\ mem = [c \in DOMAIN memory |-> mem[c]]
         /\ \A c \in DOMAIN memory : mem[c] \in Cell
         /\ Laid(mem, element_addresses, val, Others(first, last), last_element)
         /\ NonTrivial => NoStray(mem, element_addresses, val, Others(first, last))
         /\ ~ NonTrivial => mem = memory
  <1> DEFINE inside(c) == \E i \in first .. last - 1 :
                            /\ c > element_addresses[i]
                            /\ c < element_addresses[i] + Units[val[i]]
  <1>1. /\ TypeOK
        /\ Laid(memory, element_addresses, val, Occupied, last_element)
        /\ NonTrivial => NoStray(memory, element_addresses, val, Occupied)
    BY DEF IInvOf
  <1>2. /\ size \in Nat /\ NonTrivial \in BOOLEAN
        /\ \A c \in DOMAIN memory : c \in Nat /\ memory[c] \in Cell
        /\ Occupied = 0 .. size - 1
    BY <1>1, Types DEF Occupied
  <1>3. ASSUME NEW i \in 0 .. size - 1
        PROVE  /\ element_addresses[i] \in Nat /\ Units[val[i]] \in Nat /\ Units[val[i]] > 0
               /\ End(element_addresses[i]) = element_addresses[i] + Units[val[i]]
               /\ EndOf(element_addresses, val, i) = element_addresses[i] + Units[val[i]]
               /\ Readable(memory, Address(i))
               /\ Holds(memory, element_addresses[i], val[i])
               /\ Extent(element_addresses[i], val[i]) \subseteq DOMAIN memory
    BY <1>2, ElementFacts DEF End
  <1>4. \A i \in first .. last - 1 : i \in 0 .. size - 1
    BY <1>2
  <1>5. MayDestroy(first, last)
    BY <1>3, <1>4 DEF MayDestroy
  <1>6. mem = [c \in DOMAIN memory |-> IF NonTrivial /\ inside(c) THEN Raw ELSE memory[c]]
    BY <1>3, <1>4 DEF DestroyRange
  <1> HIDE DEF inside
  <1>7. /\ DOMAIN mem = DOMAIN memory
        /\ mem = [c \in DOMAIN memory |-> mem[c]]
        /\ \A c \in DOMAIN memory : mem[c] \in Cell
    BY <1>2, <1>6 DEF Cell
  <1>8. ~ NonTrivial => mem = memory
    BY <1>1, <1>6 DEF TypeOK
  <1>9. \A i \in Others(first, last) : i \in 0 .. size - 1 /\ (i < first \/ i >= last)
    BY DEF Others
  <1>10. ASSUME NEW i \in Others(first, last)
         PROVE  Holds(mem, element_addresses[i], val[i])
    <2>1. i \in 0 .. size - 1 /\ (i < first \/ i >= last)
      BY <1>9
    <2>2. /\ element_addresses[i] \in Nat /\ Units[val[i]] \in Nat
          /\ Holds(memory, element_addresses[i], val[i])
          /\ Extent(element_addresses[i], val[i]) \subseteq DOMAIN memory
      BY <1>3, <2>1
    <2>3. ASSUME NEW c \in Extent(element_addresses[i], val[i])
          PROVE  c \in DOMAIN mem /\ mem[c] = memory[c]
      <3>1. c \in Nat /\ element_addresses[i] <= c /\ c < element_addresses[i] + Units[val[i]]
        BY <2>2 DEF Extent
      <3>2. ~ inside(c)
        <4>1. SUFFICES ASSUME NEW j \in first .. last - 1, c > element_addresses[j],
                              c < element_addresses[j] + Units[val[j]]
                       PROVE  FALSE
          BY DEF inside
        <4>2. j \in 0 .. size - 1 /\ (i < j \/ j < i)
          BY <1>2, <1>4, <2>1
        <4>3. /\ element_addresses[j] \in Nat /\ Units[val[j]] \in Nat
              /\ i < j => element_addresses[i] + Units[val[i]] <= element_addresses[j]
              /\ j < i => element_addresses[j] + Units[val[j]] <= element_addresses[i]
          BY <1>1, <1>2, <1>3, <2>1, <4>2 DEF Laid
        <4> QED
          BY <2>2, <3>1, <4>1, <4>2, <4>3
      <3> QED
        BY <1>6, <2>2, <3>2
    <2> QED
      BY <2>2, <2>3, StillHeld
  <1>11. Laid(mem, element_addresses, val, Others(first, last), last_element)
    BY <1>1, <1>2, <1>9, <1>10 DEF Laid
  <1>12. ASSUME NonTrivial
         PROVE  NoStray(mem, element_addresses, val, Others(first, last))
    <2> SUFFICES ASSUME NEW c \in DOMAIN memory, mem[c] # Raw, mem[c][2] # 0
                 PROVE  \E i \in Others(first, last) :
                          c \in Extent(element_addresses[i], val[i])
      BY <1>7 DEF NoStray
    <2>1. ~ inside(c) /\ memory[c] # Raw /\ memory[c][2] # 0
      BY <1>6, <1>12
    <2>2. PICK i \in 0 .. size - 1 : c \in Extent(element_addresses[i], val[i])
      BY <1>1, <1>2, <1>12, <2>1 DEF NoStray
    <2>3. /\ element_addresses[i] \in Nat /\ val[i] \in Value /\ Units[val[i]] \in Nat
          /\ \A d \in Extent(element_addresses[i], val[i]) :
               memory[d] = <<val[i], d - element_addresses[i]>>
      BY <1>3, HeldCells
    <2>4. memory[c] = <<val[i], c - element_addresses[i]>>
      BY <2>2, <2>3
    <2>5. c # element_addresses[i]
      BY <2>1, <2>3, <2>4
    <2>6. c > element_addresses[i] /\ c < element_addresses[i] + Units[val[i]]
      BY <2>2, <2>3, <2>5 DEF Extent
    <2>7. ~ i \in first .. last - 1
      BY <2>1, <2>6 DEF inside
    <2>8. i \in Others(first, last)
      BY <1>2, <2>2, <2>7 DEF Others
    <2> QED
      BY <2>2, <2>8
  <1> QED
    BY <1>5, <1>7, <1>8, <1>11, <1>12

(* pop_back, clear and erase of the last elements of a vector of bytes: the *)
(* elements from n on are destroyed, and the vector ends where the table    *)
(* says that element n did start.                                           *)
LEMMA TruncateInv ==
  ASSUME NEW val, IInvOf(val), pc = "idle", NEW n \in Nat, n < size,
         memory' = DestroyRange(n, size), Resize(element_addresses, n), kind' = kind,
         UNCHANGED <<max_element_count, pc, loop>>
  PROVE  IInvOf(val)'
  <1>1. /\ TypeOK /\ NeverUndefined /\ last_element \in Nat
        /\ 0 .. last_element - 1 \subseteq DOMAIN memory
        /\ to = 0 /\ from = 0 /\ removed = 0
        /\ NonTrivial => PackedInv(val)
    BY DEF IInvOf
  <1>2. /\ size \in Nat /\ max_element_count \in Nat /\ size <= max_element_count
        /\ DOMAIN element_addresses = 0 .. max_element_count - 1
        /\ Occupied = 0 .. size - 1
    BY <1>1, Types DEF Occupied
  <1>3. /\ DOMAIN memory' = DOMAIN memory
        /\ memory' = [c \in DOMAIN memory |-> memory'[c]]
        /\ \A c \in DOMAIN memory : memory'[c] \in Cell
        /\ Laid(memory', element_addresses, val, Others(n, size), last_element)
        /\ NonTrivial => NoStray(memory', element_addresses, val, Others(n, size))
    BY <1>2, DestroyRangeKeeps
  <1>4. Others(n, size) = 0 .. n - 1
    BY <1>2 DEF Others
  <1>5. /\ element_addresses' = element_addresses /\ size' = n
        /\ last_element' = element_addresses[n]
    BY <1>2 DEF Resize, AddressIn
  <1>6. element_addresses[n] \in Nat /\ element_addresses[n] <= last_element
    <2>1. /\ element_addresses[n] \in Nat /\ Units[val[n]] \in Nat
          /\ element_addresses[n] + Units[val[n]] <= last_element
      BY <1>2, ElementFacts
    <2> QED
      BY <1>1, <2>1
  <1>7. Occupied' = 0 .. n - 1 /\ NonTrivial' = NonTrivial /\ pc' = "idle"
    BY <1>5, SameKind DEF Occupied
  <1>8. Laid(memory', element_addresses, val, 0 .. n - 1, element_addresses[n])
    <2>1. ASSUME NEW i \in 0 .. n - 1
          PROVE  EndOf(element_addresses, val, i) <= element_addresses[n]
      <3>1. i \in Occupied /\ n \in Occupied /\ i < n
        BY <1>2
      <3> QED
        BY <3>1 DEF IInvOf, Laid
    <2> QED
      BY <1>3, <1>4, <2>1 DEF Laid
  <1>9. TypeOK'
    <2>1. \E k \in 0 .. MemorySize(MaxCapacity, MaxVarying) :
            memory' \in [0 .. k - 1 -> (Value \X Nat) \cup {Raw}]
      BY <1>1, <1>3, MemoryType
    <2>2. max_element_count' \in 0 .. MaxCapacity /\ size' \in 0 .. max_element_count'
          /\ kind' \in Kinds
      BY <1>1, <1>2, <1>5 DEF TypeOK
    <2>3. to' \in 0 .. size' /\ from' \in 0 .. size' /\ removed' \in 0 .. size'
      BY <1>1, <1>2, <1>5 DEF loop
    <2> QED
      BY <1>1, <1>5, <1>6, <1>7, <2>1, <2>2, <2>3, SameKind DEF TypeOK
  <1>10. ASSUME NonTrivial PROVE PackedInv(val)'
    <2>1. PackedInv(val)
      BY <1>1, <1>10
    <2>2. element_addresses[0] = 0
      BY <1>2, <2>1 DEF PackedInv
    <2>3. \A i \in 0 .. size - 2 :
             element_addresses[i + 1] <= AlignUp(EndOf(element_addresses, val, i))
      BY <2>1 DEF PackedInv
    <2>4. \A i \in 0 .. n - 2 :
             element_addresses[i + 1] <= AlignUp(EndOf(element_addresses, val, i))
      BY <1>2, <2>3
    <2>5. n # 0 => element_addresses[n] <= AlignUp(EndOf(element_addresses, val, n - 1))
      <3>1. n # 0 => n - 1 \in 0 .. size - 2 /\ (n - 1) + 1 = n
        BY <1>2
      <3> QED
        BY <2>3, <3>1
    <2> QED
      BY <1>5, <1>7, <2>2, <2>4, <2>5, SameKind DEF PackedInv
  <1> QED
    <2>1. NeverUndefined' /\ to' = 0 /\ from' = 0 /\ removed' = 0
      BY <1>1, <1>7 DEF NeverUndefined, loop
    <2>2. last_element' \in Nat /\ 0 .. last_element' - 1 \subseteq DOMAIN memory'
      BY <1>1, <1>3, <1>5, <1>6
    <2> QED
      BY <1>3, <1>4, <1>5, <1>7, <1>8, <1>9, <1>10, <2>1, <2>2 DEF IInvOf

(* What erase does where elements can be memmoved.                          *)
Closed(val, f, t) == [i \in Nat |-> IF i < t THEN val[i] ELSE val[i + (f - t)]]

(* The bytes, and what resize takes for the end: the erased elements were   *)
(* no narrower than what is behind the new end (~ Narrow).                  *)
LEMMA ShiftDownInv ==
  ASSUME NEW val, IInvOf(val), pc = "idle", ~ NonTrivial,
         NEW f \in Nat, NEW t \in Nat, t < f, f < size, ~ Narrow(f, t),
         ShiftDown(f, t), kind' = kind
  PROVE  IInvOf(Closed(val, f, t))'
  <1> DEFINE source == element_addresses[f]
             target == element_addresses[t]
             diff   == source - target
             block  == target .. target + (last_element - source) - 1
             n      == size - (f - t)
             table  == ShiftedTable(f, t)
             w      == Closed(val, f, t)
  <1>1. /\ TypeOK /\ NeverUndefined /\ last_element \in Nat
        /\ 0 .. last_element - 1 \subseteq DOMAIN memory
        /\ Laid(memory, element_addresses, val, Occupied, last_element)
        /\ to = 0 /\ from = 0 /\ removed = 0
    BY DEF IInvOf
  <1>2. /\ size \in Nat /\ max_element_count \in Nat /\ size <= max_element_count
        /\ DOMAIN element_addresses = 0 .. max_element_count - 1
        /\ \A i \in 0 .. size - 1 : Address(i) = element_addresses[i]
        /\ Occupied = 0 .. size - 1
    BY <1>1, Types DEF Occupied
  <1>3. ASSUME NEW i \in 0 .. size - 1
        PROVE  /\ element_addresses[i] \in Nat /\ Units[val[i]] \in Nat /\ Units[val[i]] > 0
               /\ EndOf(element_addresses, val, i) = element_addresses[i] + Units[val[i]]
               /\ EndOf(element_addresses, val, i) <= last_element
               /\ Holds(memory, element_addresses[i], val[i])
    BY <1>2, ElementFacts
  <1>4. ASSUME NEW i \in 0 .. size - 1, NEW j \in 0 .. size - 1, i < j
        PROVE  element_addresses[i] + Units[val[i]] <= element_addresses[j]
    BY <1>1, <1>2, <1>3, <1>4 DEF Laid
  <1>5. /\ source \in Nat /\ target \in Nat /\ diff \in Nat /\ diff > 0 /\ source <= last_element
        /\ f \in 0 .. size - 1 /\ t \in 0 .. size - 1
        /\ Address(f) = source /\ Address(t) = target
    <2>1. f \in 0 .. size - 1 /\ t \in 0 .. size - 1
      BY <1>2
    <2>2. /\ source \in Nat /\ Units[val[f]] \in Nat
          /\ source + Units[val[f]] <= last_element
      BY <1>3, <2>1
    <2>3. /\ target \in Nat /\ Units[val[t]] \in Nat /\ Units[val[t]] > 0
          /\ target + Units[val[t]] <= source
      BY <1>3, <1>4, <2>1
    <2> QED
      BY <1>1, <1>2, <2>1, <2>2, <2>3
  <1>6. /\ n \in Nat /\ t < n /\ n < size /\ n \in 0 .. size - 1
        /\ element_addresses[n] \in Nat /\ element_addresses[n] <= last_element
        /\ element_addresses[n] > target
        /\ Address(n) = element_addresses[n]
    <2>1. n \in Nat /\ t < n /\ n < size /\ n \in 0 .. size - 1
      BY <1>2
    <2> HIDE DEF n
    <2>2. /\ element_addresses[n] \in Nat /\ Units[val[n]] \in Nat
          /\ element_addresses[n] + Units[val[n]] <= last_element
      BY <1>3, <2>1
    <2>3. target + Units[val[t]] <= element_addresses[n] /\ Units[val[t]] > 0
          /\ Units[val[t]] \in Nat
      BY <1>3, <1>4, <1>5, <2>1
    <2> QED
      BY <1>1, <1>2, <1>5, <2>1, <2>2, <2>3
  <1>7. last_element - diff <= element_addresses[n]
    <2>1. ~ (last_element - Address(n) > diff)
      BY <1>5 DEF Narrow
    <2> QED
      BY <1>1, <1>5, <1>6, <2>1
  <1>8. block \subseteq DOMAIN memory /\ block \subseteq 0 .. last_element - 1
    BY <1>1, <1>5
  <1>9. /\ memory' = [c \in DOMAIN memory |-> IF c \in block THEN memory[c + diff] ELSE memory[c]]
        /\ Resize(table, n)
        /\ UNCHANGED <<max_element_count, pc, loop>>
    <2>1. Indeterminate \notin {source, target, last_element}
      BY <1>1, <1>5, CellAssumption
    <2> QED
      BY <1>1, <1>5, <1>8, <2>1 DEF ShiftDown
  <1>10. /\ DOMAIN table = DOMAIN element_addresses
         /\ \A i \in 0 .. t - 1 : table[i] = element_addresses[i]
         /\ \A i \in t .. n - 1 : /\ i + (f - t) \in f .. size - 1
                                  /\ table[i] = element_addresses[i + (f - t)] - diff
         /\ table[n] = element_addresses[n]
         /\ \A i \in DOMAIN element_addresses :
              i \notin t .. n - 1 => table[i] = element_addresses[i]
    <2>1. table = [i \in DOMAIN element_addresses |->
                     IF i \in t .. n - 1 THEN Minus(Address(i + (f - t)), diff) ELSE Address(i)]
      BY <1>2, <1>5 DEF ShiftedTable
    <2>2. ASSUME NEW i \in t .. n - 1
          PROVE  /\ i + (f - t) \in f .. size - 1 /\ i \in DOMAIN element_addresses
                 /\ Minus(Address(i + (f - t)), diff) = element_addresses[i + (f - t)] - diff
      <3>1. i + (f - t) \in f .. size - 1 /\ i + (f - t) \in 0 .. size - 1
            /\ i \in DOMAIN element_addresses
        BY <1>2, <1>6
      <3>2. Address(i + (f - t)) = element_addresses[i + (f - t)]
            /\ element_addresses[i + (f - t)] \in Nat
        BY <1>2, <1>3, <3>1
      <3> QED
        BY <3>1, <3>2, CellAssumption DEF Minus
    <2>3. \A i \in DOMAIN element_addresses : Address(i) = element_addresses[i]
      BY DEF Address, AddressIn
    <2>4. /\ \A i \in 0 .. t - 1 : i \in DOMAIN element_addresses /\ i \notin t .. n - 1
          /\ n \in DOMAIN element_addresses /\ n \notin t .. n - 1
      BY <1>2, <1>5, <1>6
    <2> HIDE DEF table, n, diff
    <2> QED
      BY <2>1, <2>2, <2>3, <2>4
  <1>11. /\ \A i \in 0 .. t - 1 : w[i] = val[i]
         /\ \A i \in t .. n - 1 : w[i] = val[i + (f - t)]
    BY <1>6 DEF Closed
  <1>12. /\ element_addresses' = table /\ size' = n /\ last_element' = element_addresses[n]
         /\ pc' = "idle" /\ max_element_count' = max_element_count
         /\ to' = 0 /\ from' = 0 /\ removed' = 0
    BY <1>1, <1>2, <1>6, <1>9, <1>10 DEF Resize, AddressIn, loop
  <1> HIDE DEF table, w
  <1>13. ASSUME NEW i \in 0 .. t - 1
         PROVE  /\ Holds(memory', table[i], w[i])
                /\ EndOf(table, w, i) = element_addresses[i] + Units[val[i]]
                /\ EndOf(table, w, i) <= target
    <2>1. i \in 0 .. size - 1 /\ i < t
      BY <1>2, <1>5
    <2>2. /\ element_addresses[i] \in Nat /\ Units[val[i]] \in Nat
          /\ element_addresses[i] + Units[val[i]] <= target
          /\ Holds(memory, element_addresses[i], val[i])
      BY <1>3, <1>4, <1>5, <2>1
    <2>3. Extent(element_addresses[i], val[i]) \subseteq DOMAIN memory
      BY <2>2, HeldCells
    <2>4. ASSUME NEW c \in Extent(element_addresses[i], val[i])
          PROVE  c \in DOMAIN memory' /\ memory'[c] = memory[c]
      <3>1. c \in DOMAIN memory /\ c \notin block
        BY <1>5, <2>2, <2>3 DEF Extent
      <3> QED
        BY <1>9, <3>1
    <2>5. Holds(memory', element_addresses[i], val[i])
      BY <2>2, <2>4, StillHeld
    <2> QED
      BY <1>10, <1>11, <2>2, <2>5 DEF EndOf
  <1>14. ASSUME NEW i \in t .. n - 1, NEW j, j = i + (f - t)
         PROVE  /\ j \in 0 .. size - 1
                /\ Holds(memory', table[i], w[i])
                /\ table[i] = element_addresses[j] - diff
                /\ EndOf(table, w, i) = element_addresses[j] + Units[val[j]] - diff
                /\ EndOf(table, w, i) <= element_addresses[n]
                /\ target <= table[i]
    <2>1. /\ j \in 0 .. size - 1 /\ j \in f .. size - 1
          /\ table[i] = element_addresses[j] - diff /\ w[i] = val[j]
      BY <1>10, <1>11, <1>14
    <2>2. /\ element_addresses[j] \in Nat /\ Units[val[j]] \in Nat
          /\ element_addresses[j] + Units[val[j]] <= last_element
          /\ Holds(memory, element_addresses[j], val[j])
      BY <1>3, <2>1
    <2>3. source <= element_addresses[j]
      <3>1. CASE j = f
        BY <1>5, <3>1
      <3>2. CASE j # f
        <4>1. f < j /\ source + Units[val[f]] <= element_addresses[j] /\ Units[val[f]] \in Nat
          BY <1>3, <1>4, <1>5, <2>1, <3>2
        <4> QED
          BY <1>5, <2>2, <4>1
      <3> QED
        BY <3>1, <3>2
    <2>4. table[i] \in Nat /\ target <= table[i]
      BY <1>5, <2>1, <2>2, <2>3
    <2>5. ASSUME NEW c \in Extent(table[i], val[j])
          PROVE  c \in DOMAIN memory' /\ memory'[c] = memory[c + (element_addresses[j] - table[i])]
      <3>1. c \in block
        BY <1>1, <1>5, <2>1, <2>2, <2>4 DEF Extent
      <3>2. element_addresses[j] - table[i] = diff
        BY <1>5, <2>1, <2>2
      <3> HIDE DEF block, diff
      <3> QED
        BY <1>8, <1>9, <3>1, <3>2
    <2>6. Holds(memory', table[i], val[j])
      BY <2>2, <2>4, <2>5, HeldElsewhere
    <2>7. EndOf(table, w, i) = element_addresses[j] + Units[val[j]] - diff
      BY <1>5, <2>1, <2>2 DEF EndOf
    <2>8. EndOf(table, w, i) <= element_addresses[n]
      BY <1>1, <1>5, <1>6, <1>7, <2>2, <2>7
    <2> QED
      BY <2>1, <2>4, <2>6, <2>7, <2>8
  <1>15. Laid(memory', table, w, 0 .. n - 1, element_addresses[n])
    <2>1. \A i \in 0 .. n - 1 : i \in 0 .. t - 1 \/ i \in t .. n - 1
      BY <1>6
    <2>2. ASSUME NEW i \in 0 .. n - 1
          PROVE  Holds(memory', table[i], w[i]) /\ EndOf(table, w, i) <= element_addresses[n]
      <3>1. CASE i \in 0 .. t - 1
        <4>1. /\ Holds(memory', table[i], w[i])
              /\ EndOf(table, w, i) = element_addresses[i] + Units[val[i]]
              /\ EndOf(table, w, i) <= target
          BY <1>13, <3>1
        <4>2. element_addresses[i] \in Nat /\ Units[val[i]] \in Nat
          BY <1>2, <1>3, <1>5, <3>1
        <4> QED
          BY <1>5, <1>6, <4>1, <4>2
      <3>2. CASE i \in t .. n - 1
        BY <1>14, <3>2
      <3> QED
        BY <2>1, <3>1, <3>2
    <2>3. ASSUME NEW i \in 0 .. n - 1, NEW j \in 0 .. n - 1, i < j
          PROVE  EndOf(table, w, i) <= table[j]
      <3>1. CASE j \in 0 .. t - 1
        <4>1. i \in 0 .. t - 1 /\ i \in 0 .. size - 1 /\ j \in 0 .. size - 1
          BY <1>2, <1>5, <2>3, <3>1
        <4>2. element_addresses[i] + Units[val[i]] <= element_addresses[j]
          BY <1>4, <2>3, <4>1
        <4> QED
          BY <1>10, <1>13, <3>1, <4>1, <4>2
      <3>2. CASE i \in 0 .. t - 1 /\ j \in t .. n - 1
        <4>1. EndOf(table, w, i) <= target /\ target <= table[j]
          BY <1>13, <1>14, <3>2
        <4>2. EndOf(table, w, i) = element_addresses[i] + Units[val[i]]
              /\ element_addresses[i] \in Nat /\ Units[val[i]] \in Nat
          <5>1. i \in 0 .. size - 1
            BY <1>2, <1>5, <3>2
          <5> QED
            BY <1>3, <1>13, <3>2, <5>1
        <4>3. table[j] = element_addresses[j + (f - t)] - diff
              /\ element_addresses[j + (f - t)] \in Nat
          BY <1>3, <1>14, <3>2
        <4> QED
          BY <1>5, <4>1, <4>2, <4>3
      <3>3. CASE i \in t .. n - 1 /\ j \in t .. n - 1
        <4> DEFINE k == i + (f - t)
                   l == j + (f - t)
        <4>1. k \in 0 .. size - 1 /\ l \in 0 .. size - 1 /\ k < l
          BY <1>10, <2>3, <3>3
        <4>2. /\ EndOf(table, w, i) = element_addresses[k] + Units[val[k]] - diff
              /\ table[j] = element_addresses[l] - diff
          BY <1>14, <3>3
        <4> HIDE DEF k, l
        <4>3. element_addresses[k] + Units[val[k]] <= element_addresses[l]
          BY <1>4, <4>1
        <4>4. element_addresses[k] \in Nat /\ Units[val[k]] \in Nat /\ element_addresses[l] \in Nat
          BY <1>3, <4>1
        <4> QED
          BY <1>5, <4>2, <4>3, <4>4
      <3> QED
        BY <2>1, <2>3, <3>1, <3>2, <3>3
    <2> QED
      BY <2>2, <2>3 DEF Laid
  <1>16. TypeOK'
    <2>1. \E k \in 0 .. MemorySize(MaxCapacity, MaxVarying) :
            memory' \in [0 .. k - 1 -> (Value \X Nat) \cup {Raw}]
      <3>1. ASSUME NEW c \in DOMAIN memory PROVE memory'[c] \in Cell
        <4>1. c \in block => c + diff \in DOMAIN memory
          BY <1>1, <1>5
        <4> HIDE DEF block, diff
        <4> QED
          BY <1>1, <1>9, <4>1, Types
      <3>2. memory' = [c \in DOMAIN memory |-> memory'[c]]
        BY <1>9
      <3> QED
        BY <1>1, <3>1, <3>2, MemoryType
    <2>2. max_element_count' \in 0 .. MaxCapacity /\ size' \in 0 .. max_element_count'
          /\ kind' \in Kinds
      BY <1>1, <1>2, <1>6, <1>12 DEF TypeOK
    <2>3. to' \in 0 .. size' /\ from' \in 0 .. size' /\ removed' \in 0 .. size'
      BY <1>6, <1>12
    <2>4. table \in [0 .. max_element_count - 1 -> Int \cup {Indeterminate}]
      <3>1. ASSUME NEW i \in DOMAIN element_addresses PROVE table[i] \in Int \cup {Indeterminate}
        <4>1. CASE i \in t .. n - 1
          <5>1. i + (f - t) \in 0 .. size - 1 /\ table[i] = element_addresses[i + (f - t)] - diff
            BY <1>14, <4>1
          <5>2. element_addresses[i + (f - t)] \in Nat
            BY <1>3, <5>1
          <5> QED
            BY <1>5, <5>1, <5>2
        <4>2. CASE i \notin t .. n - 1
          BY <1>1, <1>10, <4>2 DEF TypeOK
        <4> QED
          BY <4>1, <4>2
      <3>2. table = [i \in DOMAIN element_addresses |-> table[i]]
        BY DEF table, ShiftedTable
      <3> QED
        BY <1>2, <3>1, <3>2
    <2> QED
      BY <1>1, <1>6, <1>12, <2>1, <2>2, <2>3, <2>4, SameKind DEF TypeOK
  <1>17. IInvOf(w)'
    <2>1. NeverUndefined' /\ ~ NonTrivial' /\ Occupied' = 0 .. n - 1
      BY <1>12, SameKind DEF NeverUndefined, Occupied
    <2>2. last_element' \in Nat /\ 0 .. last_element' - 1 \subseteq DOMAIN memory'
      BY <1>1, <1>6, <1>9, <1>12
    <2> QED
      BY <1>12, <1>15, <1>16, <2>1, <2>2 DEF IInvOf
  <1> QED
    BY <1>17 DEF w

(* Where elements have destructors: the erased ones are gone, and the loop  *)
(* has a gap to fill that no element behind it is wider than (~ Narrow).    *)
LEMMA DestroyAndMoveInv ==
  ASSUME NEW val, IInvOf(val), pc = "idle", NonTrivial,
         NEW first \in Nat, NEW last \in Nat, first < last, last <= size,
         ~ Narrow(last, first), DestroyAndMove(first, last, last, first), kind' = kind
  PROVE  IInvOf(val)'
  <1>1. /\ TypeOK /\ NeverUndefined /\ last_element \in Nat
        /\ 0 .. last_element - 1 \subseteq DOMAIN memory
        /\ Laid(memory, element_addresses, val, Occupied, last_element)
        /\ PackedInv(val)
    BY DEF IInvOf
  <1>2. /\ size \in Nat /\ max_element_count \in Nat /\ size <= max_element_count
        /\ \A i \in 0 .. size - 1 : Address(i) = element_addresses[i]
        /\ Occupied = 0 .. size - 1
    BY <1>1, Types DEF Occupied
  <1>3. /\ MayDestroy(first, last)
        /\ memory' = DestroyRange(first, last) /\ pc' = "erase"
        /\ to' = first /\ from' = last /\ removed' = last - first
        /\ UNCHANGED <<max_element_count, element_addresses, size, last_element>>
    BY DestroyRangeKeeps DEF DestroyAndMove, locator
  <1>4. /\ DOMAIN memory' = DOMAIN memory
        /\ memory' = [c \in DOMAIN memory |-> memory'[c]]
        /\ \A c \in DOMAIN memory : memory'[c] \in Cell
        /\ Laid(memory', element_addresses, val, Others(first, last), last_element)
        /\ NoStray(memory', element_addresses, val, Others(first, last))
    BY <1>3, DestroyRangeKeeps
  <1>5. Occupied' = Others(first, last) /\ NonTrivial'
    BY <1>3, SameKind DEF Occupied, Others
  <1>6. ASSUME NEW i \in 0 .. size - 1
        PROVE  /\ element_addresses[i] \in Nat /\ Units[val[i]] \in Nat
               /\ EndOf(element_addresses, val, i) = element_addresses[i] + Units[val[i]]
               /\ EndOf(element_addresses, val, i) <= last_element
               /\ ValueAt(memory, Address(i)) = val[i]
    BY <1>2, ElementFacts
  <1>7. TypeOK'
    <2>1. \E n \in 0 .. MemorySize(MaxCapacity, MaxVarying) :
            memory' \in [0 .. n - 1 -> (Value \X Nat) \cup {Raw}]
      BY <1>1, <1>4, MemoryType
    <2>2. to' \in 0 .. size' /\ from' \in 0 .. size' /\ removed' \in 0 .. size'
      BY <1>2, <1>3
    <2> QED
      BY <1>1, <1>3, <2>1, <2>2, SameKind DEF TypeOK
  <1>8. EraseInv(val)'
    <2>1. first \in 0 .. size - 1
      BY <1>2
    <2>2. element_addresses[first] \in 0 .. last_element
      BY <1>1, <1>6, <2>1
    <2>3. ASSUME NEW i \in 0 .. first - 1
          PROVE  EndOf(element_addresses, val, i) <= element_addresses[first]
      <3>1. i \in Occupied /\ first \in Occupied /\ i < first
        BY <1>2
      <3> QED
        BY <1>1, <3>1 DEF Laid
    <2>4. ASSUME NEW i \in last .. size - 1
          PROVE  Units[val[i]] <= element_addresses[last] - element_addresses[first]
      <3>1. last < size /\ i \in 0 .. size - 1 /\ last \in 0 .. size - 1
        BY <1>2
      <3>2. ~ (Units[ValueAt(memory, Address(i))] > Address(last) - Address(first))
        BY <3>1 DEF Narrow
      <3>3. ~ (Units[val[i]] > element_addresses[last] - element_addresses[first])
        BY <1>2, <1>6, <2>1, <3>1, <3>2
      <3> QED
        BY <1>6, <2>1, <3>1, <3>3
    <2> QED
      BY <1>3, <1>5, <2>2, <2>3, <2>4 DEF EraseInv, EndOf
  <1>9. PackedInv(val)'
    BY <1>1, <1>3, SameKind DEF PackedInv, EndOf
  <1>10. NeverUndefined'
    BY <1>3 DEF NeverUndefined
  <1> QED
    BY <1>1, <1>3, <1>4, <1>5, <1>7, <1>8, <1>9, <1>10 DEF IInvOf

(* emplace_at and the destruction of its source: the element fits in front  *)
(* of where it is, so nothing else is touched.                              *)
LEMMA EraseMoveInv ==
  ASSUME NEW val, IInvOf(val), EraseMove, kind' = kind
  PROVE  \E w : /\ w[to] = val[from] /\ \A i \in 0 .. size - 1 : i # to => w[i] = val[i]
                /\ IInvOf(w)'
  <1> DEFINE source == element_addresses[from]
             target == element_addresses[to]
             v      == val[from]
             stored == Store(memory, target, v)
             table  == TableAfterMove(target, v)
  <1>1. /\ TypeOK /\ pc = "erase" /\ from < size /\ last_element \in Nat
        /\ 0 .. last_element - 1 \subseteq DOMAIN memory
        /\ Laid(memory, element_addresses, val, Occupied, last_element)
        /\ NonTrivial => NoStray(memory, element_addresses, val, Occupied)
        /\ NonTrivial => PackedInv(val)
        /\ EraseInv(val)
    BY DEF IInvOf, EraseMove
  <1>2. /\ size \in Nat /\ max_element_count \in Nat /\ size <= max_element_count
        /\ to \in Nat /\ from \in Nat /\ removed \in Nat /\ removed <= size
        /\ NonTrivial /\ to < from /\ removed = from - to
        /\ DOMAIN element_addresses = 0 .. max_element_count - 1
        /\ \A i \in 0 .. size - 1 : Address(i) = element_addresses[i]
        /\ \A c \in DOMAIN memory : c \in Nat /\ memory[c] \in Cell
        /\ Occupied = {i \in 0 .. size - 1 : i < to \/ i >= from}
        /\ Alignment \in Nat /\ Alignment > 0
    BY <1>1, Types DEF Occupied, EraseInv
  <1>3. ASSUME NEW i \in 0 .. size - 1, i < to \/ i >= from
        PROVE  /\ element_addresses[i] \in Nat
               /\ val[i] \in Value /\ Units[val[i]] \in Nat /\ Units[val[i]] > 0
               /\ EndOf(element_addresses, val, i) = element_addresses[i] + Units[val[i]]
               /\ EndOf(element_addresses, val, i) <= last_element
               /\ Holds(memory, element_addresses[i], val[i])
               /\ ValueAt(memory, element_addresses[i]) = val[i]
               /\ Readable(memory, Address(i))
               /\ Extent(element_addresses[i], val[i]) \subseteq DOMAIN memory
    BY <1>2, <1>3, ElementFacts
  <1>4. ASSUME NEW i \in 0 .. size - 1, NEW j \in 0 .. size - 1, i < j,
               i < to \/ i >= from, j < to \/ j >= from
        PROVE  element_addresses[i] + Units[val[i]] <= element_addresses[j]
    BY <1>1, <1>2, <1>3, <1>4 DEF Laid
  <1>5. from \in 0 .. size - 1 /\ to \in 0 .. size - 1 /\ to + 1 \in 0 .. size - 1
        /\ to + 1 <= from
    BY <1>1, <1>2
  <1>6. /\ source \in Nat /\ target \in Nat /\ v \in Value /\ Units[v] \in Nat /\ Units[v] > 0
        /\ target + Units[v] <= source /\ source + Units[v] <= last_element
        /\ \A i \in 0 .. to - 1 : EndOf(element_addresses, val, i) <= target
        /\ \A i \in from .. size - 1 : Units[val[i]] <= source - target
    <2>1. /\ source \in Nat /\ v \in Value /\ Units[v] \in Nat /\ Units[v] > 0
          /\ source + Units[v] <= last_element
      BY <1>2, <1>3, <1>5
    <2>2. /\ target \in 0 .. last_element
          /\ \A i \in 0 .. to - 1 : EndOf(element_addresses, val, i) <= target
          /\ \A i \in from .. size - 1 : Units[val[i]] <= source - target
      BY <1>1 DEF EraseInv
    <2>3. Units[v] <= source - target
      BY <1>1, <1>2, <2>2
    <2> QED
      BY <1>1, <2>1, <2>2, <2>3
  <1>7. /\ memory' = Destroy(stored, source, v)
        /\ element_addresses' = table
        /\ to' = to + 1 /\ from' = from + 1
        /\ UNCHANGED <<max_element_count, size, last_element, pc, removed>>
    <2>1. MayDestroy(from, from + 1)
      BY <1>2, <1>3, <1>5 DEF MayDestroy
    <2>2. ValueAt(memory, Address(from)) = v /\ Address(from) = source /\ Address(to) = target
      BY <1>2, <1>3, <1>5
    <2> QED
      BY <2>1, <2>2 DEF EraseMove
  <1>8. /\ table \in [0 .. max_element_count - 1 -> Int \cup {Indeterminate}]
        /\ table[to + 1] = target + Units[v]
        /\ \A i \in 0 .. size - 1 : i # to + 1 => table[i] = element_addresses[i]
    BY <1>1, <1>2, <1>5, <1>6 DEF TypeOK, TableAfterMove
  <1> HIDE DEF table, stored
  <1>9. PICK w : w[to] = v /\ \A i \in 0 .. size - 1 : i # to => w[i] = val[i]
    <2> DEFINE g == [i \in 0 .. size - 1 |-> IF i = to THEN v ELSE val[i]]
    <2>1. g[to] = v /\ \A i \in 0 .. size - 1 : i # to => g[i] = val[i]
      BY <1>5
    <2> QED
      BY <2>1
  <1>10. /\ DOMAIN memory' = DOMAIN memory
         /\ memory' = [c \in DOMAIN memory |-> memory'[c]]
         /\ \A c \in DOMAIN memory :
              /\ memory'[c] \in Cell
              /\ c \in Extent(target, v) => memory'[c] = <<v, c - target>>
              /\ c \in Extent(source, v) \ {source} => memory'[c] = Raw
              /\ c \notin Extent(target, v) /\ c \notin Extent(source, v) \ {source} =>
                   memory'[c] = memory[c]
    <2>1. /\ DOMAIN stored = DOMAIN memory
          /\ \A c \in DOMAIN memory :
               /\ stored[c] \in Cell
               /\ c \in Extent(target, v) => stored[c] = <<v, c - target>>
               /\ c \notin Extent(target, v) => stored[c] = memory[c]
      BY <1>2, <1>6, StoredCells, Zenon DEF stored
    <2>2. memory' = [c \in DOMAIN memory |->
                       IF c \in Extent(source, v) \ {source} THEN Raw ELSE stored[c]]
      BY <1>2, <1>7, <2>1 DEF Destroy
    <2>3. \A c \in Extent(target, v) : c \notin Extent(source, v)
      BY <1>6 DEF Extent
    <2> HIDE DEF source, target, v
    <2> QED
      BY <2>1, <2>2, <2>3 DEF Cell
  <1>11. /\ Occupied' = {i \in 0 .. size - 1 : i <= to \/ i > from}
         /\ NonTrivial' /\ pc' = "erase"
    <2>1. \A i \in 0 .. size - 1 : (i < to + 1 <=> i <= to) /\ (i >= from + 1 <=> i > from)
      BY <1>2
    <2> QED
      BY <1>1, <1>2, <1>7, <2>1, SameKind DEF Occupied
  (* The elements that do not move. *)
  <1>12. ASSUME NEW i \in 0 .. size - 1, i < to \/ i > from
         PROVE  /\ w[i] = val[i] /\ table[i] = element_addresses[i] /\ i # to
                /\ Holds(memory', element_addresses[i], val[i])
                /\ element_addresses[i] \in Nat /\ Units[val[i]] \in Nat
                /\ EndOf(table, w, i) = element_addresses[i] + Units[val[i]]
                /\ EndOf(table, w, i) <= last_element
                /\ i < to => EndOf(table, w, i) <= target
                /\ i > from => source + Units[v] <= element_addresses[i]
    <2>1. w[i] = val[i] /\ table[i] = element_addresses[i] /\ i # to /\ i # from
          /\ (i < to \/ i >= from)
      BY <1>2, <1>5, <1>8, <1>9, <1>12
    <2>2. /\ element_addresses[i] \in Nat /\ val[i] \in Value /\ Units[val[i]] \in Nat
          /\ EndOf(element_addresses, val, i) = element_addresses[i] + Units[val[i]]
          /\ EndOf(element_addresses, val, i) <= last_element
          /\ Holds(memory, element_addresses[i], val[i])
          /\ Extent(element_addresses[i], val[i]) \subseteq DOMAIN memory
      BY <1>3, <2>1
    <2>3. i < to => element_addresses[i] + Units[val[i]] <= target
      BY <1>2, <1>6, <2>2
    <2>4. i > from => source + Units[v] <= element_addresses[i]
      BY <1>2, <1>4, <1>5, <2>1
    <2>5. ASSUME NEW c \in Extent(element_addresses[i], val[i])
          PROVE  c \in DOMAIN memory' /\ memory'[c] = memory[c]
      <3>1. /\ c \in DOMAIN memory /\ c \in Nat
            /\ element_addresses[i] <= c /\ c < element_addresses[i] + Units[val[i]]
        BY <2>2 DEF Extent
      <3>2. c < target \/ source + Units[v] <= c
        BY <1>6, <1>12, <2>2, <2>3, <2>4, <3>1
      <3>3. c \notin Extent(target, v) /\ c \notin Extent(source, v)
        BY <1>6, <3>1, <3>2 DEF Extent
      <3> HIDE DEF source, target, v
      <3> QED
        BY <1>10, <3>1, <3>3
    <2>6. Holds(memory', element_addresses[i], val[i])
      BY <2>2, <2>5, StillHeld
    <2>7. EndOf(table, w, i) = element_addresses[i] + Units[val[i]]
      BY <2>1 DEF EndOf
    <2> QED
      BY <2>1, <2>2, <2>3, <2>4, <2>6, <2>7
  (* The one that does. *)
  <1>13. /\ table[to] = target /\ w[to] = v /\ Holds(memory', target, v)
         /\ EndOf(table, w, to) = target + Units[v]
    <2>1. table[to] = target
      BY <1>2, <1>5, <1>8
    <2>2. Extent(target, v) \subseteq DOMAIN memory
      BY <1>1, <1>6 DEF Extent
    <2>3. Holds(memory', target, v)
      <3>1. \A c \in Extent(target, v) : c \in DOMAIN memory' /\ memory'[c] = <<v, c - target>>
        BY <1>10, <2>2
      <3> QED
        BY <1>6, <3>1 DEF Holds, Intact
    <2> QED
      BY <1>9, <2>1, <2>3 DEF EndOf
  <1>14. Laid(memory', table, w, Occupied', last_element)
    <2>1. ASSUME NEW i \in Occupied'
          PROVE  Holds(memory', table[i], w[i]) /\ EndOf(table, w, i) <= last_element
      <3>1. i \in 0 .. size - 1 /\ (i = to \/ i < to \/ i > from)
        BY <1>2, <1>11
      <3>2. CASE i = to
        BY <1>1, <1>6, <1>13, <3>2
      <3> QED
        BY <1>12, <3>1, <3>2
    <2>2. ASSUME NEW i \in Occupied', NEW j \in Occupied', i < j
          PROVE  EndOf(table, w, i) <= table[j]
      <3>1. /\ i \in 0 .. size - 1 /\ (i = to \/ i < to \/ i > from)
            /\ j \in 0 .. size - 1 /\ (j = to \/ j < to \/ j > from)
        BY <1>2, <1>11
      <3>2. CASE j = to
        BY <1>2, <1>12, <1>13, <2>2, <3>1, <3>2
      <3>3. CASE i = to /\ j # to
        <4>1. j > from
          BY <1>2, <2>2, <3>1, <3>3
        <4>2. source + Units[v] <= element_addresses[j] /\ table[j] = element_addresses[j]
              /\ element_addresses[j] \in Nat
          BY <1>12, <3>1, <4>1
        <4> QED
          BY <1>6, <1>13, <3>3, <4>2
      <3>4. CASE i # to /\ j # to
        <4>1. element_addresses[i] + Units[val[i]] <= element_addresses[j]
          BY <1>2, <1>4, <2>2, <3>1, <3>4
        <4> QED
          BY <1>12, <3>1, <3>4, <4>1
      <3> QED
        BY <3>2, <3>3, <3>4
    <2> QED
      BY <2>1, <2>2 DEF Laid
  <1>15. NoStray(memory', table, w, Occupied')
    <2> SUFFICES ASSUME NEW c \in DOMAIN memory, memory'[c] # Raw, memory'[c][2] # 0
                 PROVE  \E i \in Occupied' : c \in Extent(table[i], w[i])
      BY <1>10 DEF NoStray
    <2>1. CASE c \in Extent(target, v)
      <3>1. to \in Occupied'
        BY <1>2, <1>5, <1>11
      <3> QED
        BY <1>13, <2>1, <3>1
    <2>2. CASE c \notin Extent(target, v)
      <3>1. /\ memory'[c] = memory[c] /\ (c \notin Extent(source, v) \/ c = source)
        BY <1>10, <2>2
      <3>2. c # source
        <4>1. source \in Extent(source, v)
          BY <1>6 DEF Extent
        <4>2. memory[source] = <<v, source - source>>
          BY <1>3, <1>5, <1>2, <4>1, HeldCells
        <4> QED
          BY <1>6, <3>1, <4>2
      <3>3. PICK i \in Occupied : c \in Extent(element_addresses[i], val[i])
        BY <1>1, <1>2, <3>1 DEF NoStray
      <3>4. i # from
        BY <3>1, <3>2, <3>3
      <3>5. i \in 0 .. size - 1 /\ (i < to \/ i > from)
        BY <1>2, <3>4
      <3>6. i \in Occupied' /\ table[i] = element_addresses[i] /\ w[i] = val[i]
        BY <1>2, <1>11, <1>12, <3>5
      <3> QED
        BY <3>3, <3>6
    <2> QED
      BY <2>1, <2>2
  <1>16. EraseInv(w)'
    <2>1. to' < from' /\ removed' = from' - to' /\ to' = to + 1 /\ from' = from + 1
      BY <1>2, <1>7
    <2>2. table[to + 1] \in 0 .. last_element
      BY <1>1, <1>6, <1>8
    <2>3. ASSUME NEW i \in 0 .. (to + 1) - 1 PROVE EndOf(table, w, i) <= table[to + 1]
      <3>1. CASE i = to
        BY <1>6, <1>8, <1>13, <3>1
      <3>2. CASE i # to
        <4>1. i \in 0 .. size - 1 /\ i < to
          BY <1>2, <1>5, <3>2
        <4>2. EndOf(table, w, i) <= target /\ EndOf(table, w, i) \in Nat
          BY <1>12, <4>1
        <4> QED
          BY <1>6, <1>8, <4>2
      <3> QED
        BY <3>1, <3>2
    <2>4. ASSUME NEW i \in from + 1 .. size - 1
          PROVE  Units[w[i]] <= table[from + 1] - table[to + 1]
      <3>1. /\ i \in 0 .. size - 1 /\ i > from /\ i \in from .. size - 1
            /\ from + 1 \in 0 .. size - 1 /\ from + 1 > from
        BY <1>2
      <3>2. w[i] = val[i] /\ Units[val[i]] \in Nat /\ Units[val[i]] <= source - target
        BY <1>6, <1>12, <3>1
      <3>3. /\ table[from + 1] = element_addresses[from + 1]
            /\ element_addresses[from + 1] \in Nat
            /\ source + Units[v] <= element_addresses[from + 1]
        BY <1>12, <3>1
      <3> QED
        BY <1>6, <1>8, <3>2, <3>3
    <2> QED
      BY <1>7, <1>11, <2>1, <2>2, <2>3, <2>4 DEF EraseInv
  <1>17. PackedInv(w)'
    <2>1. PackedInv(val)
      BY <1>1, <1>2
    <2>2. table[0] = 0
      <3>1. 0 # to + 1 /\ 0 \in 0 .. size - 1 /\ size > 0
        BY <1>2, <1>5
      <3> QED
        BY <1>8, <2>1, <3>1 DEF PackedInv
    <2>3. ASSUME NEW i \in 0 .. size - 2, i < to + 1
          PROVE  table[i + 1] <= AlignUp(EndOf(table, w, i))
      <3>1. CASE i = to
        <4>1. target + Units[v] \in Int
          BY <1>6
        <4> QED
          BY <1>2, <1>8, <1>13, <3>1, <4>1, AlignUpBounds
      <3>2. CASE i # to
        <4>1. i < to /\ i \in 0 .. size - 1 /\ i + 1 \in 0 .. size - 1 /\ i + 1 # to + 1
          BY <1>2, <2>3, <3>2
        <4>2. /\ EndOf(table, w, i) = EndOf(element_addresses, val, i)
              /\ table[i + 1] = element_addresses[i + 1]
          BY <1>8, <1>12, <4>1 DEF EndOf
        <4>3. element_addresses[i + 1] <= AlignUp(EndOf(element_addresses, val, i))
          BY <1>1, <2>1, <4>1 DEF PackedInv
        <4> QED
          BY <4>2, <4>3
      <3> QED
        BY <3>1, <3>2
    <2> QED
      BY <1>7, <1>11, <2>2, <2>3, SameKind DEF PackedInv
  <1>18. TypeOK'
    <2>1. \E n \in 0 .. MemorySize(MaxCapacity, MaxVarying) :
            memory' \in [0 .. n - 1 -> (Value \X Nat) \cup {Raw}]
      BY <1>1, <1>10, MemoryType
    <2>2. to' \in 0 .. size' /\ from' \in 0 .. size'
      BY <1>1, <1>2, <1>7
    <2> QED
      BY <1>1, <1>7, <1>8, <2>1, <2>2, SameKind DEF TypeOK
  <1>19. IInvOf(w)'
    <2>1. NeverUndefined'
      BY <1>11 DEF NeverUndefined
    <2> QED
      BY <1>1, <1>7, <1>10, <1>11, <1>14, <1>15, <1>16, <1>17, <1>18, <2>1 DEF IInvOf
  <1> QED
    BY <1>9, <1>19

(* The end of the loop: resize finds the end of the last element that moved *)
(* in the table, where emplace_at wrote it.                                 *)
LEMMA EraseEndInv ==
  ASSUME NEW val, IInvOf(val), EraseEnd, kind' = kind
  PROVE  IInvOf(val)' /\ size' = to /\ from = size
  <1>1. /\ TypeOK /\ pc = "erase" /\ from = size /\ last_element \in Nat
        /\ 0 .. last_element - 1 \subseteq DOMAIN memory
        /\ Laid(memory, element_addresses, val, Occupied, last_element)
        /\ NonTrivial => NoStray(memory, element_addresses, val, Occupied)
        /\ NonTrivial => PackedInv(val)
        /\ EraseInv(val)
    BY DEF IInvOf, EraseEnd
  <1>2. /\ size \in Nat /\ max_element_count \in Nat /\ size <= max_element_count
        /\ to \in Nat /\ to < size /\ removed = size - to /\ NonTrivial
        /\ DOMAIN element_addresses = 0 .. max_element_count - 1
        /\ Occupied = 0 .. to - 1
    <2>1. /\ size \in Nat /\ max_element_count \in Nat /\ size <= max_element_count
          /\ to \in Nat /\ to < size /\ removed = size - to /\ NonTrivial
          /\ DOMAIN element_addresses = 0 .. max_element_count - 1
      BY <1>1, Types DEF EraseInv
    <2> QED
      BY <1>1, <2>1 DEF Occupied
  <1>3. /\ element_addresses' = element_addresses /\ size' = to
        /\ last_element' = element_addresses[to]
        /\ pc' = "idle" /\ to' = 0 /\ from' = 0 /\ removed' = 0
        /\ UNCHANGED <<max_element_count, memory>>
    <2>1. size - removed = to /\ to \in DOMAIN element_addresses
      BY <1>2
    <2> QED
      BY <2>1 DEF EraseEnd, Resize, AddressIn
  <1>4. element_addresses[to] \in 0 .. last_element
        /\ \A i \in 0 .. to - 1 : EndOf(element_addresses, val, i) <= element_addresses[to]
    BY <1>1 DEF EraseInv
  <1>5. Occupied' = 0 .. to - 1 /\ NonTrivial'
    BY <1>2, <1>3, SameKind DEF Occupied
  <1>6. Laid(memory, element_addresses, val, 0 .. to - 1, element_addresses[to])
    BY <1>1, <1>2, <1>4 DEF Laid
  <1>7. TypeOK'
    <2>1. size' \in 0 .. max_element_count' /\ last_element' \in Int
          /\ to' \in 0 .. size' /\ from' \in 0 .. size' /\ removed' \in 0 .. size'
      BY <1>1, <1>2, <1>3, <1>4
    <2> QED
      BY <1>1, <1>3, <2>1, SameKind DEF TypeOK
  <1>8. PackedInv(val)'
    <2>1. PackedInv(val)
      BY <1>1, <1>2
    <2>2. /\ element_addresses[0] = 0
          /\ \A i \in 0 .. to - 1 :
               element_addresses[i + 1] <= AlignUp(EndOf(element_addresses, val, i))
      <3>1. size > 0 /\ \A i \in 0 .. to - 1 : i \in 0 .. size - 2 /\ i < to
        BY <1>2
      <3> QED
        BY <1>1, <2>1, <3>1 DEF PackedInv
    <2>3. to # 0 => element_addresses[to] <= AlignUp(EndOf(element_addresses, val, to - 1))
      <3>1. to # 0 => to - 1 \in 0 .. to - 1 /\ (to - 1) + 1 = to
        BY <1>2
      <3> QED
        BY <2>2, <3>1
    <2>4. \A i \in 0 .. to - 2 : i \in 0 .. to - 1
      BY <1>2
    <2> QED
      BY <1>3, <2>2, <2>3, <2>4, SameKind DEF PackedInv
  <1>9. IInvOf(val)'
    <2>1. NeverUndefined' /\ last_element' \in Nat
          /\ 0 .. last_element' - 1 \subseteq DOMAIN memory'
      BY <1>1, <1>3, <1>4 DEF NeverUndefined
    <2> QED
      BY <1>1, <1>2, <1>3, <1>5, <1>6, <1>7, <1>8, <2>1 DEF IInvOf
  <1> QED
    BY <1>1, <1>3, <1>9

(* reserve of a full vector copies every element to where it was.           *)
LEMMA ReserveInv ==
  ASSUME NEW val, IInvOf(val), Careful, kind' = kind,
         NEW n \in 1 .. MaxCapacity, NEW varying \in 0 .. MaxVarying, Reserve(n, varying)
  PROVE  /\ IInvOf(val)'
         /\ pc = "idle" /\ pc' = "idle" /\ size' = size /\ max_element_count' = n
         /\ n > max_element_count
  <1> DEFINE bytes == CopiedBytes
             ms    == MemorySize(n, varying)
             table == [i \in 0 .. n - 1 |->
                         IF i < size THEN element_addresses[i] ELSE Indeterminate]
  <1>1. /\ TypeOK /\ pc = "idle" /\ n > max_element_count /\ last_element \in Nat
        /\ 0 .. last_element - 1 \subseteq DOMAIN memory
        /\ Laid(memory, element_addresses, val, Occupied, last_element)
        /\ NonTrivial => NoStray(memory, element_addresses, val, Occupied)
        /\ NonTrivial => PackedInv(val)
        /\ to = 0 /\ from = 0 /\ removed = 0
    BY DEF IInvOf, Reserve, Grows
  <1>2. /\ size = max_element_count /\ (NonTrivial => size > 0)
        /\ last_element <= ms
    <2>1. {"reserve_empty", "reserve_unfilled", "reserve_too_few_bytes"} \subseteq Avoided
      BY DEF Careful, Calls
    <2>2. last_element # Indeterminate
      BY <1>1, CellAssumption
    <2> QED
      BY <2>1, <2>2 DEF Reserve
  <1>3. /\ size \in Nat /\ NonTrivial \in BOOLEAN
        /\ \A c \in DOMAIN memory : c \in Nat /\ memory[c] \in Cell
        /\ Occupied = 0 .. size - 1
        /\ \A i \in 0 .. size - 1 : Address(i) = element_addresses[i]
        /\ n \in Nat /\ varying \in Nat /\ Alignment \in Nat /\ Alignment > 0
        /\ ms \in Nat /\ ms <= MemorySize(MaxCapacity, MaxVarying)
    <2>1. n \in Nat /\ varying \in Nat /\ n <= MaxCapacity /\ varying <= MaxVarying
      BY SizeAssumption
    <2>2. Alignment \in Nat /\ Alignment > 0
      BY <1>1, Types
    <2> QED
      BY <1>1, <2>1, <2>2, SizeAssumption, Types, MemorySizeBounds DEF Occupied
  <1> HIDE DEF ms
  <1>4. ASSUME NEW i \in 0 .. size - 1
        PROVE  /\ element_addresses[i] \in Nat /\ Units[val[i]] \in Nat /\ Units[val[i]] > 0
               /\ EndOf(element_addresses, val, i) = element_addresses[i] + Units[val[i]]
               /\ EndOf(element_addresses, val, i) <= last_element
               /\ ValueAt(memory, element_addresses[i]) = val[i]
               /\ Readable(memory, Address(i))
               /\ Holds(memory, element_addresses[i], val[i])
               /\ Extent(element_addresses[i], val[i]) \subseteq DOMAIN memory
    BY <1>3, ElementFacts
  <1>5. /\ bytes \in Nat /\ bytes <= last_element
        /\ \A i \in 0 .. size - 1 : EndOf(element_addresses, val, i) <= bytes
    <2>1. CASE ~ NonTrivial
      BY <1>1, <1>4, <2>1 DEF CopiedBytes
    <2>2. CASE NonTrivial
      <3>1. size - 1 \in 0 .. size - 1 /\ Address(size - 1) = element_addresses[size - 1]
        BY <1>2, <1>3, <2>2
      <3>2. bytes = element_addresses[size - 1] + Units[val[size - 1]]
        BY <1>2, <1>4, <2>2, <3>1 DEF CopiedBytes, End
      <3>3. ASSUME NEW i \in 0 .. size - 1
            PROVE  EndOf(element_addresses, val, i) <= bytes
        <4>1. CASE i = size - 1
          BY <1>4, <3>2, <4>1
        <4>2. CASE i < size - 1
          <5>1. EndOf(element_addresses, val, i) <= element_addresses[size - 1]
            BY <1>1, <1>3, <3>1, <4>2 DEF Laid
          <5> QED
            BY <1>4, <3>1, <3>2, <5>1
        <4> QED
          BY <1>3, <4>1, <4>2
      <3> QED
        BY <1>1, <1>4, <3>1, <3>2, <3>3
    <2> QED
      BY <1>3, <2>1, <2>2
  <1> HIDE DEF bytes
  <1>6. /\ memory' = [c \in 0 .. ms - 1 |-> IF c < bytes THEN memory[c] ELSE Raw]
        /\ element_addresses' = table
        /\ size' = size /\ max_element_count' = n
        /\ UNCHANGED <<last_element, pc, to, from, removed>>
    <2>1. MayDestroy(0, size)
      BY <1>4 DEF MayDestroy
    <2>2. bytes # Indeterminate
      BY <1>5, CellAssumption
    <2>3. DOMAIN RawMemory(ms) = 0 .. ms - 1 /\ 0 .. bytes - 1 \subseteq 0 .. ms - 1
      BY <1>1, <1>2, <1>3, <1>5 DEF RawMemory
    <2> QED
      BY <1>2, <2>1, <2>2, <2>3 DEF Reserve, bytes, ms, loop
  <1>7. /\ table \in [0 .. n - 1 -> Int \cup {Indeterminate}]
        /\ \A i \in 0 .. size - 1 : table[i] = element_addresses[i]
    <2>1. ASSUME NEW i \in 0 .. n - 1 PROVE table[i] \in Int \cup {Indeterminate}
      BY <1>3, <1>4
    <2>2. \A i \in 0 .. size - 1 : i \in 0 .. n - 1 /\ i < size
      BY <1>1, <1>2, <1>3
    <2> QED
      BY <2>1, <2>2
  <1> HIDE DEF table
  <1>8. Occupied' = 0 .. size - 1 /\ NonTrivial' = NonTrivial
    BY <1>1, <1>3, <1>6, SameKind DEF Occupied
  <1>9. /\ DOMAIN memory' = 0 .. ms - 1
        /\ \A c \in 0 .. bytes - 1 :
             c \in DOMAIN memory /\ c \in DOMAIN memory' /\ memory'[c] = memory[c]
        /\ \A c \in DOMAIN memory' : memory'[c] \in Cell
        /\ \A c \in DOMAIN memory' :
             memory'[c] # Raw => memory'[c] = memory[c] /\ c \in DOMAIN memory
    <2>1. \A c \in 0 .. bytes - 1 : c \in DOMAIN memory /\ c \in 0 .. ms - 1 /\ c < bytes
      BY <1>1, <1>2, <1>3, <1>5
    <2>2. \A c \in 0 .. ms - 1 : c < bytes => c \in 0 .. bytes - 1
      BY <1>3, <1>5
    <2> QED
      BY <1>3, <1>6, <2>1, <2>2 DEF Cell
  <1>10. Laid(memory', table, val, 0 .. size - 1, last_element)
    <2>1. ASSUME NEW i \in 0 .. size - 1
          PROVE  /\ Holds(memory', table[i], val[i])
                 /\ EndOf(table, val, i) = EndOf(element_addresses, val, i)
      <3>1. ASSUME NEW c \in Extent(element_addresses[i], val[i])
            PROVE  c \in DOMAIN memory' /\ memory'[c] = memory[c]
        <4>1. c \in 0 .. bytes - 1
          BY <1>4, <1>5 DEF Extent
        <4> QED
          BY <1>9, <4>1
      <3>2. Holds(memory', element_addresses[i], val[i])
        BY <1>4, <3>1, StillHeld
      <3> QED
        BY <1>7, <3>2 DEF EndOf
    <2> QED
      BY <1>1, <1>3, <1>4, <1>7, <2>1 DEF Laid
  <1>11. ASSUME NonTrivial PROVE NoStray(memory', table, val, 0 .. size - 1)
    <2>1. ASSUME NEW c \in DOMAIN memory', memory'[c] # Raw, memory'[c][2] # 0
          PROVE  \E i \in 0 .. size - 1 : c \in Extent(table[i], val[i])
      <3>1. c \in DOMAIN memory /\ memory[c] # Raw /\ memory[c][2] # 0
        BY <1>9, <2>1
      <3> QED
        BY <1>1, <1>3, <1>7, <1>11, <3>1 DEF NoStray
    <2> QED
      BY <2>1 DEF NoStray
  <1>12. ASSUME NonTrivial PROVE PackedInv(val)'
    <2>1. PackedInv(val)
      BY <1>1, <1>12
    <2>2. table[0] = 0
      BY <1>2, <1>3, <1>7, <1>12, <2>1 DEF PackedInv
    <2>3. ASSUME NEW i \in 0 .. size - 1
          PROVE  EndOf(table, val, i) = EndOf(element_addresses, val, i)
      BY <1>7 DEF EndOf
    <2>4. ASSUME NEW i \in 0 .. size - 2
          PROVE  table[i + 1] <= AlignUp(EndOf(table, val, i))
      <3>1. i \in 0 .. size - 1 /\ i + 1 \in 0 .. size - 1
        BY <1>3
      <3>2. element_addresses[i + 1] <= AlignUp(EndOf(element_addresses, val, i))
        BY <1>1, <2>1 DEF PackedInv
      <3> QED
        BY <1>7, <2>3, <3>1, <3>2
    <2>5. last_element <= AlignUp(EndOf(table, val, size - 1)) /\ size # 0
      <3>1. size - 1 \in 0 .. size - 1 /\ size # 0
        BY <1>2, <1>3, <1>12
      <3> QED
        BY <1>1, <2>1, <2>3, <3>1 DEF PackedInv
    <2> QED
      BY <1>6, <2>2, <2>4, <2>5, SameKind DEF PackedInv
  <1>13. TypeOK'
    <2>1. \E k \in 0 .. MemorySize(MaxCapacity, MaxVarying) :
            memory' \in [0 .. k - 1 -> (Value \X Nat) \cup {Raw}]
      <3>1. memory' \in [0 .. ms - 1 -> (Value \X Nat) \cup {Raw}]
        <4>1. memory' = [c \in 0 .. ms - 1 |-> memory'[c]]
          BY <1>6
        <4>2. \A c \in 0 .. ms - 1 : memory'[c] \in (Value \X Nat) \cup {Raw}
          BY <1>9 DEF Cell
        <4> QED
          BY <4>1, <4>2
      <3>2. MemorySize(MaxCapacity, MaxVarying) \in Nat
        BY <1>3, SizeAssumption, MemorySizeBounds
      <3>3. ms \in 0 .. MemorySize(MaxCapacity, MaxVarying)
        BY <1>3, <3>2
      <3> QED
        BY <3>1, <3>3
    <2>2. max_element_count' \in 0 .. MaxCapacity /\ size' \in 0 .. max_element_count'
      BY <1>1, <1>2, <1>3, <1>6, SizeAssumption
    <2> QED
      BY <1>1, <1>3, <1>6, <1>7, <2>1, <2>2, SameKind DEF TypeOK
  <1>14. IInvOf(val)'
    <2>1. NeverUndefined' /\ last_element' \in Nat
          /\ 0 .. last_element' - 1 \subseteq DOMAIN memory'
      BY <1>1, <1>2, <1>3, <1>6, <1>9 DEF NeverUndefined
    <2> QED
      BY <1>1, <1>6, <1>8, <1>10, <1>11, <1>12, <1>13, <2>1 DEF IInvOf
  <1> QED
    BY <1>1, <1>6, <1>14

-----------------------------------------------------------------------------
(* What the calls of a caller with Careful come to.                         *)
TruncateTo(n) ==
  /\ pc = "idle" /\ n < size
  /\ memory' = DestroyRange(n, size)
  /\ Resize(element_addresses, n)
  /\ UNCHANGED <<max_element_count, pc, loop>>

ShiftBytes(f, t) ==
  /\ pc = "idle" /\ ~ NonTrivial
  /\ t < f /\ f < size /\ ~ Narrow(f, t)
  /\ ShiftDown(f, t)

StartErase(first, last) ==
  /\ pc = "idle" /\ NonTrivial
  /\ first < last /\ last <= size /\ ~ Narrow(last, first)
  /\ DestroyAndMove(first, last, last, first)

CarefulStep ==
  \/ \E v \in Value : EmplaceBack(v)
  \/ \E n \in Nat : TruncateTo(n)
  \/ \E f, t \in Nat : ShiftBytes(f, t)
  \/ \E first, last \in Nat : StartErase(first, last)
  \/ EraseMove
  \/ EraseEnd
  \/ \E n \in 1 .. MaxCapacity, varying \in 0 .. MaxVarying : Reserve(n, varying)

(* erase of a range of elements, the last one included or not.              *)
LEMMA EraseRangeIsCareful ==
  ASSUME NEW val, IInvOf(val), Careful,
         NEW first \in Nat, NEW last \in Nat, EraseRange(first, last)
  PROVE  CarefulStep
  <1>1. /\ TypeOK /\ pc = "idle"
    BY DEF IInvOf, EraseRange
  <1>2. first < last /\ last <= size /\ ~ Narrow(last, first) /\ size \in Nat
        /\ NonTrivial \in BOOLEAN
    <2>1. {"erase_nothing", "erase_narrow"} \subseteq Avoided
      BY DEF Careful, Calls
    <2> QED
      BY <1>1, <2>1, Types DEF EraseRange
  <1>3. ~ Moves(first, last) => last = size /\ size - (last - first) = first
    BY <1>2 DEF Moves
  <1>4. CASE NonTrivial /\ Moves(first, last)
    BY <1>1, <1>2, <1>4 DEF EraseRange, StartErase, CarefulStep
  <1>5. CASE NonTrivial /\ ~ Moves(first, last)
    <2>1. DestroyAndMove(first, last, last, first)
      BY <1>3, <1>5 DEF EraseRange
    <2> QED
      BY <1>1, <1>2, <1>5, <2>1 DEF StartErase, CarefulStep
  <1>6. CASE ~ NonTrivial /\ Moves(first, last)
    <2>1. ShiftDown(last, first) /\ last < size
      BY <1>6 DEF EraseRange, Moves
    <2> QED
      BY <1>1, <1>2, <1>6, <2>1 DEF ShiftBytes, CarefulStep
  <1>7. CASE ~ NonTrivial /\ ~ Moves(first, last)
    <2>1. /\ Resize(element_addresses, first)
          /\ UNCHANGED <<max_element_count, memory, pc, loop>>
      BY <1>3, <1>7 DEF EraseRange
    <2>2. memory = DestroyRange(first, size)
      BY <1>1, <1>2, <1>7, DestroyRangeKeeps
    <2>3. TruncateTo(first)
      BY <1>1, <1>2, <1>3, <1>7, <2>1, <2>2 DEF TruncateTo
    <2> QED
      BY <2>3 DEF CarefulStep
  <1> QED
    BY <1>2, <1>4, <1>5, <1>6, <1>7

LEMMA CallIsCareful ==
  ASSUME NEW val, IInvOf(val), Careful, Call
  PROVE  CarefulStep
  <1>1. TypeOK /\ size \in Nat /\ NonTrivial \in BOOLEAN
    BY Types DEF IInvOf
  <1>2. "erase_nothing" \in Avoided /\ "erase_back" \in Avoided /\ "erase_narrow" \in Avoided
    BY DEF Careful, Calls
  <1>3. ASSUME NEW v \in Value, EmplaceBack(v) PROVE CarefulStep
    BY <1>3 DEF CarefulStep
  <1>4. ASSUME PopBack PROVE CarefulStep
    <2>1. pc = "idle" /\ size > 0
      BY <1>4 DEF PopBack
    <2>2. MayDestroy(size - 1, size)
      <3> DEFINE first == size - 1
      <3>1. first \in Nat /\ size \in Nat /\ size <= size
        BY <1>1, <2>1
      <3> HIDE DEF first
      <3>2. MayDestroy(first, size)
        BY <2>1, <3>1, DestroyRangeKeeps
      <3> QED
        BY <3>2 DEF first
    <2>3. TruncateTo(size - 1)
      BY <1>1, <1>4, <2>1, <2>2 DEF PopBack, TruncateTo
    <2> QED
      BY <1>1, <2>1, <2>3 DEF CarefulStep
  <1>5. ASSUME Clear PROVE CarefulStep
    <2>1. pc = "idle" /\ size > 0
      BY <1>2, <1>5 DEF Clear
    <2>2. MayDestroy(0, size)
      <3> DEFINE first == 0
      <3>1. first \in Nat /\ size \in Nat /\ size <= size
        BY <1>1
      <3> HIDE DEF first
      <3>2. MayDestroy(first, size)
        BY <2>1, <3>1, DestroyRangeKeeps
      <3> QED
        BY <3>2 DEF first
    <2>3. TruncateTo(0)
      BY <1>1, <1>5, <2>1, <2>2 DEF Clear, TruncateTo
    <2> QED
      BY <2>3 DEF CarefulStep
  <1>6. ASSUME NEW position \in 0 .. size - 1, Erase(position) PROVE CarefulStep
    <2>1. /\ pc = "idle" /\ position < size /\ ~ Narrow(position + 1, position)
          /\ NonTrivial \/ position + 1 < size
      BY <1>2, <1>6 DEF Erase
    <2>2. position \in Nat /\ position + 1 \in Nat /\ position < position + 1
          /\ position + 1 <= size
      BY <1>1
    <2>3. CASE NonTrivial
      <3>1. StartErase(position, position + 1)
        BY <1>6, <2>1, <2>2, <2>3 DEF Erase, StartErase
      <3> QED
        BY <2>2, <3>1 DEF CarefulStep
    <2>4. CASE ~ NonTrivial
      <3>1. ShiftBytes(position + 1, position)
        BY <1>6, <2>1, <2>2, <2>4 DEF Erase, ShiftBytes
      <3> QED
        BY <2>2, <3>1 DEF CarefulStep
    <2> QED
      BY <1>1, <2>3, <2>4
  <1>7. ASSUME NEW first \in 0 .. size, NEW last \in 0 .. size, EraseRange(first, last)
        PROVE  CarefulStep
    <2>1. first \in Nat /\ last \in Nat
      BY <1>1
    <2> QED
      BY <1>7, <2>1, EraseRangeIsCareful
  <1>8. ASSUME EraseMove \/ EraseEnd PROVE CarefulStep
    BY <1>8 DEF CarefulStep
  <1>9. ASSUME NEW n \in 1 .. MaxCapacity, NEW varying \in 0 .. MaxVarying, Reserve(n, varying)
        PROVE  CarefulStep
    BY <1>9 DEF CarefulStep
  <1> QED
    BY <1>3, <1>4, <1>5, <1>6, <1>7, <1>8, <1>9 DEF Call

LEMMA StutterInv ==
  ASSUME NEW val, IInvOf(val), UNCHANGED vars
  PROVE  IInvOf(val)'
  BY DEF vars, locator, loop, IInvOf, TypeOK, NeverUndefined, Laid, Occupied, NoStray,
         EraseInv, PackedInv, NonTrivial, Alignment, AlignUp, MemorySize, EndOf

LEMMA NextInv ==
  ASSUME Careful, IInv, [Next]_vars
  PROVE  IInv'
  <1>1. PICK val : IInvOf(val)
    BY DEF IInv
  <1>2. CASE UNCHANGED vars
    BY <1>1, <1>2, StutterInv DEF IInv
  <1>3. CASE Next
    <2>1. kind' = kind /\ CarefulStep
      BY <1>1, <1>3, CallIsCareful DEF Next
    <2>2. ASSUME NEW v \in Value, EmplaceBack(v) PROVE IInv'
      BY <1>1, <2>1, <2>2, EmplaceBackInv DEF IInv
    <2>3. ASSUME NEW n \in Nat, TruncateTo(n) PROVE IInv'
      BY <1>1, <2>1, <2>3, TruncateInv DEF TruncateTo, IInv
    <2>4. ASSUME NEW f \in Nat, NEW t \in Nat, ShiftBytes(f, t) PROVE IInv'
      BY <1>1, <2>1, <2>4, ShiftDownInv DEF ShiftBytes, IInv
    <2>5. ASSUME NEW first \in Nat, NEW last \in Nat, StartErase(first, last) PROVE IInv'
      BY <1>1, <2>1, <2>5, DestroyAndMoveInv DEF StartErase, IInv
    <2>6. ASSUME EraseMove PROVE IInv'
      BY <1>1, <2>1, <2>6, EraseMoveInv DEF IInv
    <2>7. ASSUME EraseEnd PROVE IInv'
      BY <1>1, <2>1, <2>7, EraseEndInv DEF IInv
    <2>8. ASSUME NEW n \in 1 .. MaxCapacity, NEW varying \in 0 .. MaxVarying,
                 Reserve(n, varying)
          PROVE  IInv'
      BY <1>1, <2>1, <2>8, ReserveInv DEF IInv
    <2> QED
      BY <2>1, <2>2, <2>3, <2>4, <2>5, <2>6, <2>7, <2>8 DEF CarefulStep
  <1> QED
    BY <1>2, <1>3

LEMMA Invariance == ASSUME Careful PROVE Spec => []IInv
  <1>1. Init => IInv
    BY InitInv
  <1>2. IInv /\ [Next]_vars => IInv'
    BY NextInv
  <1> QED
    BY <1>1, <1>2, PTL DEF Spec

-----------------------------------------------------------------------------
(* The offsets, the end and the loop indices keep their types, whatever the *)
(* caller does with Careful: the table never hands an unwritten entry on.   *)
THEOREM TypeCorrect == ASSUME Careful PROVE Spec => []TypeOK
  <1>1. IInv => TypeOK
    BY DEF IInv, IInvOf
  <1> QED
    BY <1>1, Invariance, PTL

(* Behind every entry of the table that a caller can see lies one whole     *)
(* element: emplace_back, both kinds of erase, pop_back, clear and reserve  *)
(* keep the table and the bytes in step.                                    *)
THEOREM TableLeadsToElements == ASSUME Careful PROVE Spec => []ElementsIntact
  <1>1. IInv => ElementsIntact
    <2> SUFFICES ASSUME IInv, NEW i \in Occupied
                 PROVE  Readable(memory, Address(i))
      BY DEF ElementsIntact
    <2> QED
      BY ElementFacts DEF IInv
  <1> QED
    BY <1>1, Invariance, PTL

(* No element reaches into the next one or past last_element_, where        *)
(* emplace_back writes.                                                     *)
THEOREM NoElementOverlaps == ASSUME Careful PROVE Spec => []ElementsInOrder
  <1>1. IInv => ElementsInOrder
    <2> SUFFICES ASSUME IInv PROVE ElementsInOrder
      OBVIOUS
    <2>1. PICK val : IInvOf(val)
      BY DEF IInv
    <2>2. Laid(memory, element_addresses, val, Occupied, last_element) /\ TypeOK
      BY <2>1 DEF IInvOf
    <2>3. ASSUME NEW i \in Occupied
          PROVE  /\ Address(i) = element_addresses[i]
                 /\ End(Address(i)) = EndOf(element_addresses, val, i)
      <3>1. i \in 0 .. size - 1 /\ ValueAt(memory, element_addresses[i]) = val[i]
        BY <2>1, ElementFacts DEF Occupied
      <3> QED
        BY <2>2, <3>1, Types DEF End, EndOf
    <2> QED
      BY <2>2, <2>3 DEF Laid, ElementsInOrder
  <1> QED
    BY <1>1, Invariance, PTL

(* Every object that lives in memory_ belongs to an element, or is the one  *)
(* of an erase in progress that has still to move: none is forgotten        *)
(* without its destructor.                                                  *)
THEOREM NoObjectForgotten == ASSUME Careful PROVE Spec => []NoStrayObject
  <1>1. IInv => NoStrayObject
    <2> SUFFICES ASSUME IInv, NonTrivial PROVE NoStrayObject
      BY DEF NoStrayObject
    <2>1. PICK val : IInvOf(val)
      BY DEF IInv
    <2>2. NoStray(memory, element_addresses, val, Occupied) /\ TypeOK
      BY <2>1 DEF IInvOf
    <2>3. ASSUME NEW i \in Occupied
          PROVE  Extent(element_addresses[i], val[i]) = Address(i) .. End(Address(i)) - 1
      <3>1. i \in 0 .. size - 1 /\ ValueAt(memory, element_addresses[i]) = val[i]
        BY <2>1, ElementFacts DEF Occupied
      <3>2. Address(i) = element_addresses[i]
        BY <2>2, <3>1, Types
      <3>3. End(Address(i)) = element_addresses[i] + Units[val[i]]
        BY <3>1, <3>2 DEF End
      <3>4. End(Address(i)) - 1 = element_addresses[i] + (Units[val[i]] - 1)
        BY <2>1, <3>3, ElementFacts
      <3> QED
        BY <3>2, <3>4 DEF Extent
    <2> QED
      BY <2>2, <2>3 DEF NoStray, NoStrayObject
  <1> QED
    BY <1>1, Invariance, PTL

(* None of the calls left to a caller with Careful has undefined behaviour: *)
(* no unwritten entry of the table is read, nothing is copied past the end  *)
(* of an allocation, no destructor runs where no object is.                 *)
THEOREM CallsAreDefined == ASSUME Careful PROVE Spec => []NeverUndefined
  <1>1. IInv => NeverUndefined
    BY DEF IInv, IInvOf
  <1> QED
    BY <1>1, Invariance, PTL

(* Where elements have destructors, the next element goes behind the last   *)
(* one that is left: erase, pop_back and clear give their bytes back.       *)
THEOREM EndFollowsLastElement == ASSUME Careful PROVE Spec => []NothingWasted
  <1>1. IInv => NothingWasted
    <2> SUFFICES ASSUME IInv, NonTrivial, pc = "idle"
                 PROVE  last_element <= IF size = 0 THEN 0 ELSE AlignUp(End(Address(size - 1)))
      BY DEF NothingWasted
    <2>1. PICK val : IInvOf(val)
      BY DEF IInv
    <2>2. PackedInv(val) /\ TypeOK
      BY <2>1 DEF IInvOf
    <2>3. CASE size = 0
      BY <2>2, <2>3 DEF PackedInv
    <2>4. CASE size # 0
      <3>1. size - 1 \in 0 .. size - 1 /\ size - 1 \in Occupied
        BY <2>2, <2>4, Types DEF Occupied
      <3>2. Address(size - 1) = element_addresses[size - 1]
        BY <2>2, <3>1, Types
      <3>3. End(Address(size - 1)) = EndOf(element_addresses, val, size - 1)
        BY <2>1, <3>1, <3>2, ElementFacts DEF End, EndOf
      <3> QED
        BY <2>2, <2>4, <3>3 DEF PackedInv
    <2> QED
      BY <2>3, <2>4
  <1> QED
    BY <1>1, Invariance, PTL

-----------------------------------------------------------------------------
(* Where every element starts, if elements can be memmoved: a multiple of   *)
(* the alignment, for erase shifts them by a difference of two.             *)
Aligned == ~ NonTrivial => \A i \in 0 .. size - 1 : element_addresses[i] % Alignment = 0

LEMMA ShiftedMultiple ==
  ASSUME NEW d \in Nat, d > 0, NEW x \in Int, NEW y \in Int, NEW z \in Int,
         x % d = 0, y % d = 0, z % d = 0
  PROVE  (x - (y - z)) % d = 0
  <1> DEFINE a == x \div d
             b == y \div d
             c == z \div d
  <1>1. a \in Int /\ x = d * a
    BY Division
  <1>2. b \in Int /\ y = d * b
    BY Division
  <1>3. c \in Int /\ z = d * c
    BY Division
  <1> HIDE DEF a, b, c
  <1>4. x - (y - z) = d * (a - (b - c)) /\ a - (b - c) \in Int
    BY <1>1, <1>2, <1>3
  <1>5. (d * (a - (b - c))) % d = 0
    BY <1>4, Multiple
  <1> QED
    BY <1>4, <1>5

LEMMA AlignedStep ==
  ASSUME Careful, IInv, Aligned, [Next]_vars
  PROVE  Aligned'
  <1> SUFFICES ASSUME ~ NonTrivial', NEW i \in 0 .. size' - 1
               PROVE  element_addresses'[i] % Alignment' = 0
    BY DEF Aligned
  <1>1. PICK val : IInvOf(val)
    BY DEF IInv
  <1>2. kind' = kind
    BY DEF Next, vars
  <1>3. /\ ~ NonTrivial /\ Alignment' = Alignment
        /\ \A j \in 0 .. size - 1 : element_addresses[j] % Alignment = 0
    BY <1>2, SameKind DEF Aligned
  <1>4. /\ TypeOK /\ last_element \in Nat
        /\ Alignment \in Nat /\ Alignment > 0 /\ size \in Nat /\ size <= max_element_count
        /\ max_element_count \in Nat
        /\ DOMAIN element_addresses = 0 .. max_element_count - 1
        /\ \A j \in 0 .. size - 1 : Address(j) = element_addresses[j]
    BY <1>1, Types DEF IInvOf
  <1>5. pc # "erase"
    BY <1>1, <1>3 DEF IInvOf, EraseInv
  <1>6. \A j \in 0 .. size - 1 : element_addresses[j] \in Nat
    <2>1. \A j \in 0 .. size - 1 : j \in Occupied
      BY <1>5 DEF Occupied
    <2> QED
      BY <1>1, <2>1, ElementFacts
  <1>7. ASSUME NEW v \in Value, EmplaceBack(v)
        PROVE  element_addresses'[i] % Alignment = 0
    <2> DEFINE start == AlignUp(last_element)
    <2>1. /\ element_addresses' = [element_addresses EXCEPT ![size] = start]
          /\ size' = size + 1 /\ size < max_element_count
      BY <1>4, <1>7, CellAssumption DEF EmplaceBack, NextStart
    <2>2. start % Alignment = 0
      <3>1. PICK k \in Int : AlignUp(last_element) = Alignment * k
        <4>1. last_element \in Int
          BY <1>4
        <4> QED
          BY <1>4, <4>1, AlignUpMultiple
      <3> QED
        BY <1>4, <3>1, Multiple
    <2> HIDE DEF start
    <2>3. element_addresses'[i] = IF i = size THEN start ELSE element_addresses[i]
      BY <1>4, <2>1
    <2>4. i = size \/ i \in 0 .. size - 1
      BY <1>4, <2>1
    <2> QED
      BY <1>3, <2>2, <2>3, <2>4
  <1>8. ASSUME NEW n \in Nat, TruncateTo(n)
        PROVE  element_addresses'[i] % Alignment = 0
    <2>1. element_addresses' = element_addresses /\ size' = n /\ n < size
      BY <1>8 DEF TruncateTo, Resize
    <2> QED
      BY <1>3, <1>4, <2>1
  <1>9. ASSUME NEW f \in Nat, NEW t \in Nat, ShiftBytes(f, t)
         PROVE  element_addresses'[i] % Alignment = 0
    <2> DEFINE diff == Address(f) - Address(t)
    <2>1. t < f /\ f < size /\ ShiftDown(f, t) /\ pc = "idle" /\ ~ Narrow(f, t)
      BY <1>9 DEF ShiftBytes
    <2>2. pc' # "undefined"
      <3>1. IInvOf(Closed(val, f, t))'
        BY <1>1, <1>2, <1>3, <2>1, ShiftDownInv
      <3> QED
        BY <3>1 DEF IInvOf, NeverUndefined
    <2>3. element_addresses' = ShiftedTable(f, t) /\ size' = size - (f - t)
      BY <2>1, <2>2 DEF ShiftDown, Resize, Undefined
    <2>4. i \in 0 .. size - 1 /\ i \in DOMAIN element_addresses
      BY <1>4, <2>1, <2>3
    <2>5. CASE i \in t .. t + (size - f) - 1
      <3>1. i + (f - t) \in 0 .. size - 1 /\ f \in 0 .. size - 1 /\ t \in 0 .. size - 1
        BY <1>4, <2>1, <2>5
      <3>2. element_addresses'[i] = Minus(Address(i + (f - t)), diff)
        BY <2>3, <2>4, <2>5 DEF ShiftedTable
      <3>3. element_addresses'[i]
              = element_addresses[i + (f - t)] - (element_addresses[f] - element_addresses[t])
        BY <1>4, <1>6, <3>1, <3>2, CellAssumption DEF Minus
      <3>4. /\ element_addresses[i + (f - t)] \in Int
            /\ element_addresses[f] \in Int /\ element_addresses[t] \in Int
        BY <1>6, <3>1
      <3>5. /\ element_addresses[i + (f - t)] % Alignment = 0
            /\ element_addresses[f] % Alignment = 0 /\ element_addresses[t] % Alignment = 0
        BY <1>3, <3>1
      <3>6. (element_addresses[i + (f - t)] - (element_addresses[f] - element_addresses[t]))
              % Alignment = 0
        BY <1>4, <3>4, <3>5, ShiftedMultiple
      <3> QED
        BY <3>3, <3>6
    <2>6. CASE i \notin t .. t + (size - f) - 1
      <3>1. element_addresses'[i] = element_addresses[i]
        BY <1>4, <2>3, <2>4, <2>6 DEF ShiftedTable
      <3> QED
        BY <1>3, <2>4, <3>1
    <2> QED
      BY <2>5, <2>6
  <1>10. ASSUME NEW n \in 1 .. MaxCapacity, NEW varying \in 0 .. MaxVarying, Reserve(n, varying)
         PROVE  element_addresses'[i] % Alignment = 0
    <2>1. IInvOf(val)' /\ size' = size /\ n > max_element_count
      BY <1>1, <1>2, <1>10, ReserveInv
    <2>2. pc' # "undefined"
      BY <2>1 DEF IInvOf, NeverUndefined
    <2>3. element_addresses' =
            [j \in 0 .. n - 1 |-> IF j < size THEN element_addresses[j] ELSE Indeterminate]
      BY <1>10, <2>2 DEF Reserve, Undefined
    <2>4. i \in 0 .. n - 1 /\ i < size /\ i \in 0 .. size - 1
      BY <1>4, <2>1
    <2> QED
      BY <1>3, <2>3, <2>4
  <1>11. CASE UNCHANGED vars
    <2>1. i \in 0 .. size - 1 /\ element_addresses'[i] = element_addresses[i]
      BY <1>11 DEF vars, locator
    <2> QED
      BY <1>3, <2>1
  <1>12. CASE Next
    <2>1. CarefulStep
      BY <1>1, <1>12, CallIsCareful DEF Next
    <2>2. ~ EraseMove /\ ~ EraseEnd /\ \A f, l \in Nat : ~ StartErase(f, l)
      BY <1>3, <1>5 DEF EraseMove, EraseEnd, StartErase
    <2> QED
      BY <1>3, <1>7, <1>8, <1>9, <1>10, <2>1, <2>2 DEF CarefulStep
  <1> QED
    BY <1>11, <1>12

(* Every element starts where its first parameter may start, in a program   *)
(* whose objects with destructors need no padding: emplace_at of erase does *)
(* not align, so others would lose their alignment.                         *)
THEOREM StartsAreAligned ==
  ASSUME Careful, \A k \in Kinds : k.nontrivial => k.alignment = 1
  PROVE  Spec => []ElementsAligned
  <1>1. Init => Aligned
    BY DEF Init, Aligned
  <1>2. Careful /\ IInv /\ Aligned /\ [Next]_vars => Aligned'
    BY AlignedStep
  <1>3. IInv /\ Aligned => ElementsAligned
    <2> SUFFICES ASSUME IInv, Aligned, NEW i \in Occupied
                 PROVE  Address(i) % Alignment = 0
      BY DEF ElementsAligned
    <2>1. PICK val : IInvOf(val)
      BY DEF IInv
    <2>2. /\ element_addresses[i] \in Nat /\ i \in 0 .. size - 1
          /\ Address(i) = element_addresses[i] /\ kind \in Kinds
      <3>1. TypeOK
        BY <2>1 DEF IInvOf
      <3>2. i \in 0 .. size - 1
        BY DEF Occupied
      <3> QED
        BY <2>1, <3>1, <3>2, ElementFacts, Types DEF TypeOK
    <2>3. CASE ~ NonTrivial
      BY <2>2, <2>3 DEF Aligned
    <2>4. CASE NonTrivial
      <3>1. Alignment = 1
        BY <2>2, <2>4 DEF NonTrivial, Alignment
      <3>2. 0 <= element_addresses[i] % 1 /\ element_addresses[i] % 1 < 1
            /\ element_addresses[i] % 1 \in Int
        BY <2>2, Division
      <3> QED
        BY <2>2, <3>1, <3>2
    <2> QED
      BY <2>3, <2>4
  <1> QED
    BY <1>1, <1>2, <1>3, Invariance, PTL DEF Spec

-----------------------------------------------------------------------------
(* VaryingVector implements SequenceContainer for a caller with Careful.    *)
(* What a caller reads are the values val of the inductive invariant; the   *)
(* abstract step of an erase of objects is taken when the erased ones are   *)
(* destroyed, and closing the gap is a stutter.                             *)

(* The contents of a vector whose elements to .. from - 1 are gone.         *)
Listed(val, n, t, f) ==
  [k \in 1 .. n - (f - t) |-> val[IF k <= t THEN k - 1 ELSE k - 1 + (f - t)]]

(* What a caller reads is what the invariant says of the elements.          *)
ItemsRead ==
  \A val : IInvOf(val) =>
    /\ pc = "idle" => Items = [k \in 1 .. size |-> val[k - 1]]
    /\ pc = "erase" => Items = Listed(val, size, to, from)

LEMMA ItemsAreValues == ItemsRead
  <1> SUFFICES ASSUME NEW val, IInvOf(val)
               PROVE  /\ pc = "idle" => Items = [k \in 1 .. size |-> val[k - 1]]
                      /\ pc = "erase" => Items = Listed(val, size, to, from)
    BY DEF ItemsRead
  <1>1. /\ TypeOK /\ size \in Nat /\ to \in Nat /\ from \in Nat /\ from <= size
        /\ pc = "erase" => to < from
    BY Types DEF IInvOf, EraseInv
  <1>2. ASSUME NEW i \in Occupied PROVE Read(Address(i)) = val[i]
    <2>1. i \in 0 .. size - 1 /\ Address(i) = element_addresses[i]
      BY <1>1, Types DEF Occupied
    <2>2. ValueAt(memory, element_addresses[i]) = val[i] /\ Readable(memory, Address(i))
      BY ElementFacts
    <2> QED
      BY <2>1, <2>2 DEF Read
  <1>3. ASSUME pc = "idle" PROVE Items = [k \in 1 .. size |-> val[k - 1]]
    <2>1. \A k \in 1 .. size : k - 1 \in Occupied
      BY <1>1, <1>3 DEF Occupied
    <2> QED
      BY <1>2, <1>3, <2>1 DEF Items
  <1>4. ASSUME pc = "erase" PROVE Items = Listed(val, size, to, from)
    <2>1. ASSUME NEW k \in 1 .. size - (from - to)
          PROVE  (IF k <= to THEN k - 1 ELSE k - 1 + (from - to)) \in Occupied
      BY <1>1, <1>4 DEF Occupied
    <2> QED
      BY <1>2, <1>4, <2>1 DEF Items, Listed
  <1> QED
    BY <1>3, <1>4

LEMMA NextItems == ItemsRead'
  BY ItemsAreValues, PTL

-----------------------------------------------------------------------------
LEMMA InitRefines == Init => Container!SeqInit
  <1> SUFFICES ASSUME Init PROVE Container!SeqInit
    OBVIOUS
  <1>1. pc = "idle" /\ size = 0 /\ max_element_count \in 0 .. MaxCapacity
    BY DEF Init
  <1>2. Items = << >>
    BY <1>1 DEF Items
  <1> QED
    BY <1>1, <1>2 DEF Container!SeqInit

(* A range of elements is gone, and the others are what they were.          *)
LEMMA ErasesItems ==
  ASSUME NEW val, IInvOf(val), pc = "idle",
         NEW first \in Nat, NEW last \in Nat, first <= last, last <= size,
         Items' = Listed(val, size, first, last),
         max_element_count' = max_element_count
  PROVE  Container!SeqNext
  <1>1. size \in Nat /\ Items = [k \in 1 .. size |-> val[k - 1]]
    BY ItemsAreValues, Types DEF ItemsRead, IInvOf
  <1>2. Len(Items) = size /\ \A k \in 1 .. size : Items[k] = val[k - 1]
    BY <1>1
  <1> HIDE DEF Items
  <1>3. Items' = Container!Without(Items, first, last)
    <2>1. ASSUME NEW k \in 1 .. size - (last - first)
          PROVE  val[IF k <= first THEN k - 1 ELSE k - 1 + (last - first)]
                   = IF k <= first THEN Items[k] ELSE Items[k + (last - first)]
      <3>1. CASE k <= first
        <4>1. k \in 1 .. size
          BY <1>1
        <4> QED
          BY <1>2, <3>1, <4>1
      <3>2. CASE ~ k <= first
        <4>1. /\ k + (last - first) \in 1 .. size
              /\ k + (last - first) - 1 = k - 1 + (last - first)
          BY <1>1
        <4> QED
          BY <1>2, <3>2, <4>1
      <3> QED
        BY <3>1, <3>2
    <2> QED
      BY <1>2, <2>1 DEF Listed, Container!Without
  <1>4. Container!SeqEraseRange(first, last)
    BY <1>2, <1>3 DEF Container!SeqEraseRange
  <1>5. first \in 0 .. Len(Items) /\ last \in 0 .. Len(Items)
    BY <1>1, <1>2
  <1> QED
    BY <1>4, <1>5 DEF Container!SeqNext

LEMMA EmplaceBackRefines ==
  ASSUME NEW val, IInvOf(val), NEW v \in Value, EmplaceBack(v), kind' = kind
  PROVE  Container!SeqNext
  <1>1. PICK w : /\ w[size] = v /\ \A i \in 0 .. size - 1 : w[i] = val[i]
                 /\ IInvOf(w)'
    BY EmplaceBackInv
  <1>2. /\ size \in Nat /\ last_element \in Nat /\ pc = "idle" /\ size < max_element_count
    BY Types DEF IInvOf, EmplaceBack
  <1>3. size' = size + 1 /\ pc' = "idle" /\ max_element_count' = max_element_count
    BY <1>2, CellAssumption DEF EmplaceBack
  <1>4. Items = [k \in 1 .. size |-> val[k - 1]]
    BY <1>2, ItemsAreValues DEF ItemsRead
  <1>5. Items' = [k \in 1 .. size + 1 |-> w[k - 1]]
    BY <1>1, <1>3, NextItems DEF ItemsRead
  <1> HIDE DEF Items
  <1>6. Len(Items) = size /\ Items' = Append(Items, v)
    BY <1>1, <1>2, <1>4, <1>5
  <1>7. Container!SeqEmplaceBack(v)
    BY <1>2, <1>3, <1>6 DEF Container!SeqEmplaceBack
  <1> QED
    BY <1>7 DEF Container!SeqNext

LEMMA TruncateRefines ==
  ASSUME NEW val, IInvOf(val), NEW n \in Nat, TruncateTo(n), kind' = kind
  PROVE  Container!SeqNext
  <1>1. IInvOf(val)' /\ pc = "idle" /\ n < size
    BY TruncateInv DEF TruncateTo
  <1>2. size \in Nat
    BY Types DEF IInvOf
  <1>3. size' = n /\ pc' = "idle" /\ max_element_count' = max_element_count
    BY DEF TruncateTo, Resize
  <1>4. Items' = [k \in 1 .. n |-> val[k - 1]]
    BY <1>1, <1>3, NextItems DEF ItemsRead
  <1>5. Items' = Listed(val, size, n, size)
    <2>1. size - (size - n) = n
      BY <1>2
    <2> QED
      BY <1>4, <2>1 DEF Listed
  <1> QED
    BY <1>1, <1>2, <1>3, <1>5, ErasesItems

LEMMA ShiftBytesRefines ==
  ASSUME NEW val, IInvOf(val), NEW f \in Nat, NEW t \in Nat, ShiftBytes(f, t), kind' = kind
  PROVE  Container!SeqNext
  <1> DEFINE w == Closed(val, f, t)
  <1>1. IInvOf(w)' /\ pc = "idle" /\ t < f /\ f < size
    BY ShiftDownInv DEF ShiftBytes
  <1>2. size \in Nat
    BY Types DEF IInvOf
  <1> HIDE DEF w
  <1>3. size' = size - (f - t) /\ pc' = "idle" /\ max_element_count' = max_element_count
    <2>1. pc' # "undefined"
      BY <1>1 DEF IInvOf, NeverUndefined
    <2> QED
      BY <1>1, <2>1 DEF ShiftBytes, ShiftDown, Resize, Undefined
  <1>4. Items' = [k \in 1 .. size - (f - t) |-> w[k - 1]]
    BY <1>1, <1>3, NextItems DEF ItemsRead
  <1>5. ASSUME NEW k \in 1 .. size - (f - t)
        PROVE  w[k - 1] = val[IF k <= t THEN k - 1 ELSE k - 1 + (f - t)]
    <2>1. k - 1 \in Nat /\ (k - 1 < t <=> k <= t)
      BY <1>1, <1>2
    <2> QED
      BY <2>1 DEF w, Closed
  <1>6. Items' = Listed(val, size, t, f)
    BY <1>4, <1>5 DEF Listed
  <1>7. t <= f /\ f <= size
    BY <1>1, <1>2
  <1> QED
    BY <1>1, <1>3, <1>6, <1>7, ErasesItems

LEMMA StartEraseRefines ==
  ASSUME NEW val, IInvOf(val), NEW first \in Nat, NEW last \in Nat,
         StartErase(first, last), kind' = kind
  PROVE  Container!SeqNext
  <1>1. IInvOf(val)' /\ pc = "idle" /\ first < last /\ last <= size
    BY DestroyAndMoveInv DEF StartErase
  <1>2. /\ size' = size /\ pc' = "erase" /\ to' = first /\ from' = last
        /\ max_element_count' = max_element_count
    <2>1. pc' # "undefined"
      BY <1>1 DEF IInvOf, NeverUndefined
    <2> QED
      BY <2>1 DEF StartErase, DestroyAndMove, Undefined, locator
  <1>3. Items' = Listed(val, size, first, last)
    BY <1>1, <1>2, NextItems DEF ItemsRead
  <1> QED
    BY <1>1, <1>2, <1>3, ErasesItems

(* An element is read at its new place as it was at its old one.            *)
LEMMA EraseMoveRefines ==
  ASSUME NEW val, IInvOf(val), EraseMove, kind' = kind
  PROVE  UNCHANGED Container!seqVars
  <1>1. PICK w : /\ w[to] = val[from] /\ \A i \in 0 .. size - 1 : i # to => w[i] = val[i]
                 /\ IInvOf(w)'
    BY EraseMoveInv
  <1>2. /\ size \in Nat /\ to \in Nat /\ from \in Nat /\ to < from /\ from < size
        /\ pc = "erase"
    BY Types DEF IInvOf, EraseMove, EraseInv
  <1>3. /\ size' = size /\ pc' = "erase" /\ to' = to + 1 /\ from' = from + 1
        /\ max_element_count' = max_element_count
    <2>1. pc' # "undefined"
      BY <1>1 DEF IInvOf, NeverUndefined
    <2> QED
      BY <1>2, <2>1 DEF EraseMove, Undefined
  <1>4. Items = Listed(val, size, to, from)
    BY <1>2, ItemsAreValues DEF ItemsRead
  <1>5. Items' = Listed(w, size, to + 1, from + 1)
    BY <1>1, <1>3, NextItems DEF ItemsRead
  <1>6. (from + 1) - (to + 1) = from - to
    BY <1>2
  <1>7. ASSUME NEW k \in 1 .. size - (from - to)
        PROVE  w[IF k <= to + 1 THEN k - 1 ELSE k - 1 + (from - to)]
                 = val[IF k <= to THEN k - 1 ELSE k - 1 + (from - to)]
    <2>1. CASE k <= to
      <3>1. k - 1 \in 0 .. size - 1 /\ k - 1 # to /\ k <= to + 1
        BY <1>2, <2>1
      <3> QED
        BY <1>1, <2>1, <3>1
    <2>2. CASE k = to + 1
      <3>1. k - 1 = to /\ k - 1 + (from - to) = from /\ k <= to + 1 /\ ~ k <= to
        BY <1>2, <2>2
      <3> QED
        BY <1>1, <3>1
    <2>3. CASE k > to + 1
      <3>1. /\ k - 1 + (from - to) \in 0 .. size - 1 /\ k - 1 + (from - to) # to
            /\ ~ k <= to + 1 /\ ~ k <= to
        BY <1>2, <2>3
      <3> QED
        BY <1>1, <3>1
    <2> QED
      BY <1>2, <2>1, <2>2, <2>3
  <1>8. Items' = Items
    BY <1>4, <1>5, <1>6, <1>7 DEF Listed
  <1> QED
    BY <1>3, <1>8 DEF Container!seqVars

LEMMA EraseEndRefines ==
  ASSUME NEW val, IInvOf(val), EraseEnd, kind' = kind
  PROVE  UNCHANGED Container!seqVars
  <1>1. IInvOf(val)' /\ size' = to /\ from = size
    BY EraseEndInv
  <1>2. size \in Nat /\ to \in Nat /\ pc = "erase" /\ size - (from - to) = to
    BY <1>1, Types DEF IInvOf, EraseEnd
  <1>3. Items = Listed(val, size, to, from)
    BY <1>2, ItemsAreValues DEF ItemsRead
  <1>4. Items' = [k \in 1 .. to |-> val[k - 1]]
    BY <1>1, NextItems DEF ItemsRead, EraseEnd
  <1>5. Items' = Items
    BY <1>2, <1>3, <1>4 DEF Listed
  <1> QED
    BY <1>5 DEF Container!seqVars, EraseEnd

LEMMA ReserveRefines ==
  ASSUME NEW val, IInvOf(val), Careful, kind' = kind,
         NEW n \in 1 .. MaxCapacity, NEW varying \in 0 .. MaxVarying, Reserve(n, varying)
  PROVE  Container!SeqNext
  <1>1. /\ IInvOf(val)'
        /\ pc = "idle" /\ pc' = "idle" /\ size' = size /\ max_element_count' = n
        /\ n > max_element_count
    BY ReserveInv
  <1>2. Items = [k \in 1 .. size |-> val[k - 1]]
    BY <1>1, ItemsAreValues DEF ItemsRead
  <1>3. Items' = [k \in 1 .. size |-> val[k - 1]]
    BY <1>1, NextItems DEF ItemsRead
  <1> HIDE DEF Items
  <1>4. Container!SeqReserve(n)
    BY <1>1, <1>2, <1>3 DEF Container!SeqReserve
  <1> QED
    BY <1>4 DEF Container!SeqNext

LEMMA StutterRefines ==
  ASSUME UNCHANGED vars
  PROVE  UNCHANGED Container!seqVars
  BY DEF vars, locator, loop, Container!seqVars, Items, Read, Readable, ValueAt, Intact,
         Extent, Address, AddressIn

LEMMA NextRefines ==
  ASSUME Careful, IInv, [Next]_vars
  PROVE  [Container!SeqNext]_(Container!seqVars)
  <1>1. PICK val : IInvOf(val)
    BY DEF IInv
  <1>2. CASE UNCHANGED vars
    BY <1>2, StutterRefines
  <1>3. CASE Next
    <2>1. kind' = kind /\ CarefulStep
      BY <1>1, <1>3, CallIsCareful DEF Next
    <2>2. ASSUME NEW v \in Value, EmplaceBack(v) PROVE Container!SeqNext
      BY <1>1, <2>1, <2>2, EmplaceBackRefines
    <2>3. ASSUME NEW n \in Nat, TruncateTo(n) PROVE Container!SeqNext
      BY <1>1, <2>1, <2>3, TruncateRefines
    <2>4. ASSUME NEW f \in Nat, NEW t \in Nat, ShiftBytes(f, t) PROVE Container!SeqNext
      BY <1>1, <2>1, <2>4, ShiftBytesRefines
    <2>5. ASSUME NEW first \in Nat, NEW last \in Nat, StartErase(first, last)
          PROVE  Container!SeqNext
      BY <1>1, <2>1, <2>5, StartEraseRefines
    <2>6. ASSUME EraseMove PROVE UNCHANGED Container!seqVars
      BY <1>1, <2>1, <2>6, EraseMoveRefines
    <2>7. ASSUME EraseEnd PROVE UNCHANGED Container!seqVars
      BY <1>1, <2>1, <2>7, EraseEndRefines
    <2>8. ASSUME NEW n \in 1 .. MaxCapacity, NEW varying \in 0 .. MaxVarying,
                 Reserve(n, varying)
          PROVE  Container!SeqNext
      BY <1>1, <2>1, <2>8, ReserveRefines
    <2> QED
      BY <2>1, <2>2, <2>3, <2>4, <2>5, <2>6, <2>7, <2>8 DEF CarefulStep
  <1> QED
    BY <1>2, <1>3

(* Elements of different sizes behind a table of offsets are the elements   *)
(* of a sequence, and every call of a caller with Careful does to them what *)
(* it does to a sequence.                                                   *)
THEOREM Refinement == ASSUME Careful PROVE Spec => ImplementsContainer
  <1>1. Init => Container!SeqInit
    BY InitRefines
  <1>2. IInv /\ [Next]_vars => [Container!SeqNext]_(Container!seqVars)
    BY NextRefines
  <1> QED
    BY <1>1, <1>2, Invariance, PTL DEF Spec, ImplementsContainer, Container!SeqSpec
=============================================================================
