------------------------- MODULE FixedVectorProofs -------------------------
(***************************************************************************)
(* Theorems about FixedVector for every parameter list, every capacity and *)
(* every bound: its safety properties, and that it implements              *)
(* SequenceContainer.                                                      *)
(***************************************************************************)
EXTENDS FixedVector, TLAPS

(* The indices of the loops.  The gap of an unfinished erase is not empty   *)
(* as long as an element is left to move: otherwise emplace_at would move   *)
(* an element onto itself and destroy it.                                   *)
LoopInv ==
  /\ pc = "erase" => /\ to <= from
                     /\ removed = from - to
                     /\ from < element_count => to < from
  /\ pc # "erase" => from = 0 /\ removed = 0
  /\ pc \in {"idle", "erase"} => new_max_element_count = 0
  /\ pc = "idle" => to = 0

IInv == TypeOK /\ LoopInv /\ ObjectsAreElements /\ GrowIsConsistent

-----------------------------------------------------------------------------
(* Destroying an element or moving from it leaves an element.               *)
LEMMA ElementClosed ==
  ASSUME NEW e \in Element
  PROVE  /\ Destroyed(e) \in Element
         /\ MovedFrom(e) \in Element
         /\ Destroyed(MovedFrom(e)) \in Element
  BY DEF Destroyed, MovedFrom, Element, Cell

LEMMA StoredElement ==
  ASSUME NEW v \in Value
  PROVE  /\ [p \in Param |-> v] \in Element
         /\ Alive([p \in Param |-> v])
  BY CellAssumption DEF Element, Cell, Alive

LEMMA RawElementEmpty == RawElement \in Element /\ Empty(RawElement)
  BY ParamAssumption DEF RawElement, Element, Cell, Empty

LEMMA LifetimeOfCopies ==
  ASSUME NEW e \in Element
  PROVE  /\ Empty(Destroyed(e))
         /\ Empty(Destroyed(MovedFrom(e)))
         /\ Alive(e) => Alive(MovedFrom(e))
         /\ ~ IsTrivial => IsHusk(MovedFrom(e))
  BY ParamAssumption, CellAssumption
  DEF Destroyed, MovedFrom, Element, Cell, Alive, Empty, IsHusk, IsTrivial

-----------------------------------------------------------------------------
LEMMA InitInv == Init => IInv
  <1> SUFFICES ASSUME Init PROVE IInv
    OBVIOUS
  <1> USE DEF Init
  <1>1. TypeOK
    BY RawElementEmpty, BoundAssumption DEF TypeOK, Slots
  <1>2. LoopInv /\ GrowIsConsistent
    BY DEF LoopInv, GrowIsConsistent
  <1>3. ObjectsAreElements
    BY RawElementEmpty, BoundAssumption DEF ObjectsAreElements, Occupied, Slots
  <1> QED
    BY <1>1, <1>2, <1>3 DEF IInv

LEMMA EmplaceBackInv ==
  ASSUME IInv, NEW v \in Value, EmplaceBack(v)
  PROVE  IInv'
  <1> USE DEF IInv, EmplaceBack, eraseVars, growVars
  <1>1. PICK e \in Element : Alive(e) /\ memory' = [memory EXCEPT ![element_count] = e]
    BY StoredElement
  <1>2. TypeOK'
    BY <1>1, BoundAssumption DEF TypeOK, Slots
  <1>3. LoopInv' /\ GrowIsConsistent'
    BY DEF LoopInv, GrowIsConsistent
  <1>4. ASSUME NEW s \in Slots(max_element_count)
        PROVE  memory'[s] = IF s = element_count THEN e ELSE memory[s]
    BY <1>1, <1>4 DEF TypeOK
  <1>5. ObjectsAreElements'
    BY <1>1, <1>4, BoundAssumption
    DEF TypeOK, ObjectsAreElements, Occupied, Slots, Alive, Empty
  <1> QED
    BY <1>2, <1>3, <1>5

(* Destroying the elements first .. last - 1 of a vector at rest.           *)
LEMMA DestructRangeLifetimes ==
  ASSUME TypeOK, NEW first \in Nat, NEW last \in Nat
  PROVE  /\ DestructRange(first, last) \in [Slots(max_element_count) -> Element]
         /\ \A s \in Slots(max_element_count) :
              IF s \in first .. last - 1
                THEN Empty(DestructRange(first, last)[s])
                ELSE DestructRange(first, last)[s] = memory[s]
  BY ElementClosed, LifetimeOfCopies DEF DestructRange, TypeOK

LEMMA PopBackInv ==
  ASSUME IInv, PopBack
  PROVE  IInv'
  <1> USE DEF IInv, PopBack, eraseVars, growVars
  <1>1. element_count \in Nat /\ element_count - 1 \in Nat
    BY BoundAssumption DEF TypeOK
  <1>2. /\ memory' \in [Slots(max_element_count) -> Element]
        /\ \A s \in Slots(max_element_count) :
             IF s \in element_count - 1 .. element_count - 1
               THEN Empty(memory'[s]) ELSE memory'[s] = memory[s]
    BY <1>1, DestructRangeLifetimes
  <1>3. TypeOK'
    BY <1>1, <1>2, BoundAssumption DEF TypeOK, LoopInv, Slots
  <1>4. LoopInv' /\ GrowIsConsistent'
    BY DEF LoopInv, GrowIsConsistent
  <1>5. ObjectsAreElements'
    BY <1>1, <1>2, BoundAssumption
    DEF TypeOK, ObjectsAreElements, Occupied, Slots, Alive, Empty
  <1> QED
    BY <1>3, <1>4, <1>5

LEMMA ClearInv ==
  ASSUME IInv, Clear
  PROVE  IInv'
  <1> USE DEF IInv, Clear, eraseVars, growVars
  <1>1. element_count \in Nat
    BY BoundAssumption DEF TypeOK
  <1>2. /\ memory' \in [Slots(max_element_count) -> Element]
        /\ \A s \in Slots(max_element_count) :
             IF s \in 0 .. element_count - 1
               THEN Empty(memory'[s]) ELSE memory'[s] = memory[s]
    BY <1>1, DestructRangeLifetimes
  <1>3. TypeOK'
    BY <1>1, <1>2, BoundAssumption DEF TypeOK, LoopInv, Slots
  <1>4. LoopInv' /\ GrowIsConsistent'
    BY DEF LoopInv, GrowIsConsistent
  <1>5. ObjectsAreElements'
    BY <1>1, <1>2, BoundAssumption
    DEF TypeOK, ObjectsAreElements, Occupied, Slots, Alive, Empty
  <1> QED
    BY <1>3, <1>4, <1>5

(* erase enters its loop (or has done the memmove) with the gap t .. f - 1. *)
LEMMA StartEraseInv ==
  ASSUME IInv, pc = "idle",
         NEW f \in 0 .. element_count, NEW t \in 0 .. f,
         f < element_count => t < f,
         NEW mem \in [Slots(max_element_count) -> Element],
         \A s \in Slots(max_element_count) :
           IF s < t \/ (s >= f /\ s < element_count)
             THEN Alive(mem[s]) ELSE Empty(mem[s]),
         StartErase(mem, f, t)
  PROVE  IInv'
  <1> USE DEF IInv, StartErase, growVars
  <1>1. /\ element_count \in Nat /\ max_element_count \in Nat
        /\ element_count <= max_element_count
        /\ f - t \in 0 .. element_count
    BY BoundAssumption DEF TypeOK
  <1>2. CASE IsTrivial
    <2>1. /\ memory' = MoveElements(mem, f, t)
          /\ from' = element_count /\ to' = element_count - (f - t)
      BY <1>2
    <2>2. ASSUME NEW s \in Slots(max_element_count)
          PROVE  /\ memory'[s] \in Element
                 /\ s < to' => Alive(memory'[s])
      BY <1>1, <2>1, <2>2 DEF MoveElements, Slots
    <2>3. memory' \in [Slots(max_element_count) -> Element]
      BY <2>1, <2>2 DEF MoveElements
    <2>4. TypeOK'
      BY <1>1, <2>1, <2>3 DEF TypeOK
    <2>5. LoopInv' /\ GrowIsConsistent'
      BY <1>1, <2>1 DEF LoopInv, GrowIsConsistent
    <2>6. ObjectsAreElements'
      BY <1>1, <1>2, <2>1, <2>2
      DEF ObjectsAreElements, Occupied, Slots, IsTrivial, Empty
    <2> QED
      BY <2>4, <2>5, <2>6
  <1>3. CASE ~ IsTrivial
    <2>1. memory' = mem /\ from' = f /\ to' = t
      BY <1>3
    <2>2. TypeOK'
      BY <1>1, <2>1 DEF TypeOK
    <2>3. LoopInv' /\ GrowIsConsistent'
      BY <1>1, <2>1 DEF LoopInv, GrowIsConsistent
    <2>4. ObjectsAreElements'
      BY <1>1, <2>1 DEF ObjectsAreElements, Occupied, Slots
    <2> QED
      BY <2>2, <2>3, <2>4
  <1> QED
    BY <1>2, <1>3

(* What erase finds after the destructors ran.                              *)
LEMMA ErasedLifetimes ==
  ASSUME IInv, pc = "idle",
         NEW first \in 0 .. element_count, NEW last \in first .. element_count
  PROVE  /\ DestructRange(first, last) \in [Slots(max_element_count) -> Element]
         /\ \A s \in Slots(max_element_count) :
              IF s < first \/ (s >= last /\ s < element_count)
                THEN Alive(DestructRange(first, last)[s])
                ELSE Empty(DestructRange(first, last)[s])
  <1>1. element_count \in Nat /\ first \in Nat /\ last \in Nat
    BY BoundAssumption DEF IInv, TypeOK
  <1>2. /\ DestructRange(first, last) \in [Slots(max_element_count) -> Element]
        /\ \A s \in Slots(max_element_count) :
             IF s \in first .. last - 1
               THEN Empty(DestructRange(first, last)[s])
               ELSE DestructRange(first, last)[s] = memory[s]
    BY <1>1, DestructRangeLifetimes DEF IInv
  <1>3. \A s \in Slots(max_element_count) :
          IF s < element_count THEN Alive(memory[s]) ELSE Empty(memory[s])
    BY <1>1 DEF IInv, TypeOK, ObjectsAreElements, Occupied, Slots
  <1> QED
    BY <1>1, <1>2, <1>3, BoundAssumption DEF Slots, IInv, TypeOK

LEMMA EraseInv ==
  ASSUME IInv, NEW position \in 0 .. element_count - 1, Erase(position)
  PROVE  IInv'
  <1>1. /\ position \in 0 .. element_count
        /\ position + 1 \in position .. element_count
        /\ position + 1 \in 0 .. element_count
        /\ position \in 0 .. position + 1
        /\ position < position + 1
    BY BoundAssumption DEF IInv, TypeOK
  <1> DEFINE mem == DestructRange(position, position + 1)
  <1>2. /\ mem \in [Slots(max_element_count) -> Element]
        /\ \A s \in Slots(max_element_count) :
             IF s < position \/ (s >= position + 1 /\ s < element_count)
               THEN Alive(mem[s]) ELSE Empty(mem[s])
    BY <1>1, ErasedLifetimes DEF Erase
  <1>3. pc = "idle" /\ StartErase(mem, position + 1, position)
    BY DEF Erase
  <1> HIDE DEF mem
  <1> QED
    BY <1>1, <1>2, <1>3, StartEraseInv

LEMMA EraseRangeInv ==
  ASSUME IInv, NEW first \in 0 .. element_count, NEW last \in 0 .. element_count,
         EraseRange(first, last)
  PROVE  IInv'
  <1> DEFINE mem == DestructRange(first, last)
             n   == element_count - (last - first)
  <1>1. /\ element_count \in Nat /\ first \in Nat /\ last \in Nat
        /\ first <= last /\ last <= element_count
        /\ last \in first .. element_count
        /\ n \in 0 .. element_count
    BY BoundAssumption DEF IInv, TypeOK, EraseRange
  <1>2. /\ mem \in [Slots(max_element_count) -> Element]
        /\ \A s \in Slots(max_element_count) :
             IF s < first \/ (s >= last /\ s < element_count)
               THEN Alive(mem[s]) ELSE Empty(mem[s])
    BY <1>1, ErasedLifetimes DEF EraseRange
  <1>3. pc = "idle"
    BY DEF EraseRange
  <1> HIDE DEF mem
  <1>4. CASE last < element_count /\ first # last
    <2>1. StartErase(mem, last, first)
      BY <1>4 DEF EraseRange, Moves, mem
    <2>2. first \in 0 .. last /\ first < last
      BY <1>1, <1>4
    <2> QED
      BY <1>1, <1>2, <1>3, <2>1, <2>2, StartEraseInv
  <1>5. CASE ~ (last < element_count /\ first # last)
    <2>1. StartErase(mem, element_count, n)
      BY <1>5 DEF EraseRange, Moves, mem
    <2>2. \A s \in Slots(max_element_count) :
            IF s < n \/ (s >= element_count /\ s < element_count)
              THEN Alive(mem[s]) ELSE Empty(mem[s])
      BY <1>1, <1>2, <1>5, BoundAssumption DEF Slots, IInv, TypeOK
    <2>3. element_count \in 0 .. element_count /\ ~ element_count < element_count
      BY <1>1
    <2> HIDE DEF n
    <2> QED
      BY <1>1, <1>2, <1>3, <2>1, <2>2, <2>3, StartEraseInv
  <1> QED
    BY <1>4, <1>5

LEMMA EraseMoveInv ==
  ASSUME IInv, EraseMove
  PROVE  IInv'
  <1> USE DEF IInv, EraseMove, growVars
  <1>1. /\ element_count \in Nat /\ max_element_count \in Nat
        /\ element_count <= max_element_count
        /\ to \in 0 .. from - 1 /\ from \in 0 .. element_count - 1
        /\ removed = from - to
    BY BoundAssumption DEF TypeOK, LoopInv
  <1>2. PICK e \in Element :
          Empty(e) /\ memory' = [memory EXCEPT ![to] = memory[from], ![from] = e]
    <2>1. memory[from] \in Element
      BY <1>1 DEF TypeOK, Slots
    <2> QED
      BY <1>1, <2>1, ElementClosed, LifetimeOfCopies DEF TypeOK, Slots
  <1>3. memory' \in [Slots(max_element_count) -> Element]
    BY <1>1, <1>2 DEF TypeOK, Slots
  <1>4. TypeOK'
    BY <1>1, <1>3 DEF TypeOK
  <1>5. LoopInv' /\ GrowIsConsistent'
    BY <1>1 DEF LoopInv, GrowIsConsistent
  <1>6. ASSUME NEW s \in Slots(max_element_count)
        PROVE  memory'[s] = IF s = from THEN e
                            ELSE IF s = to THEN memory[from] ELSE memory[s]
    BY <1>1, <1>2, <1>6 DEF TypeOK, Slots
  <1>7. ObjectsAreElements'
    <2>1. \A s \in Slots(max_element_count) :
            IF s < element_count /\ (s < to \/ s >= from)
              THEN Alive(memory[s]) ELSE Empty(memory[s])
      BY <1>1 DEF ObjectsAreElements, Occupied, Slots, Alive, Empty
    <2>2. /\ to' = to + 1 /\ from' = from + 1 /\ pc' = "erase"
          /\ element_count' = element_count
          /\ max_element_count' = max_element_count
      OBVIOUS
    <2>3. Empty(e)
      BY <1>2
    <2> HIDE DEF IInv, EraseMove
    <2>4. ASSUME NEW s \in Slots(max_element_count)
          PROVE  IF s < element_count /\ (s < to + 1 \/ s >= from + 1)
                   THEN Alive(memory'[s]) ELSE Empty(memory'[s])
      <3>1. CASE s = from
        <4>1. memory'[s] = e /\ ~ (s < to + 1 \/ s >= from + 1)
          BY <1>1, <1>6, <3>1
        <4> QED
          BY <2>3, <4>1
      <3>2. CASE s = to
        <4>1. memory'[s] = memory[from] /\ from \in Slots(max_element_count)
          BY <1>1, <1>6, <3>2 DEF Slots
        <4>2. Alive(memory[from])
          BY <1>1, <2>1, <4>1 DEF Alive
        <4>3. s < element_count /\ s < to + 1
          BY <1>1, <3>2
        <4> QED
          BY <4>1, <4>2, <4>3
      <3>3. CASE s # from /\ s # to
        <4>1. memory'[s] = memory[s]
          BY <1>6, <3>3
        <4> QED
          BY <1>1, <2>1, <3>3, <4>1 DEF Slots
      <3> QED
        BY <3>1, <3>2, <3>3
    <2> QED
      BY <1>1, <2>2, <2>4 DEF ObjectsAreElements, Occupied, Slots
  <1> QED
    BY <1>4, <1>5, <1>7

LEMMA EraseEndInv ==
  ASSUME IInv, EraseEnd
  PROVE  IInv'
  <1> USE DEF IInv, EraseEnd, growVars
  <1>1. /\ element_count \in Nat /\ max_element_count \in Nat
        /\ element_count <= max_element_count
        /\ to \in 0 .. element_count /\ element_count' = to
    BY BoundAssumption DEF TypeOK, LoopInv
  <1>2. TypeOK'
    BY <1>1 DEF TypeOK
  <1>3. LoopInv' /\ GrowIsConsistent'
    BY DEF LoopInv, GrowIsConsistent
  <1>4. ObjectsAreElements'
    BY <1>1 DEF ObjectsAreElements, Occupied, Slots
  <1> QED
    BY <1>2, <1>3, <1>4

-----------------------------------------------------------------------------
(* The new allocation holds copies of bytes, which are objects only when    *)
(* they are objects of trivial parameters.                                  *)
LEMMA CopiedBytesLifetimes ==
  ASSUME IInv, NEW n \in Nat, n > max_element_count
  PROVE  /\ CopiedBytes(n) \in [Slots(n) -> Element]
         /\ \A s \in Slots(n) :
              IF s < element_count
                THEN CopiedBytes(n)[s] = Destroyed(memory[s])
                ELSE CopiedBytes(n)[s] = RawElement
         /\ \A s \in Slots(n) : Empty(CopiedBytes(n)[s])
  <1>1. /\ element_count \in Nat /\ max_element_count \in Nat
        /\ element_count <= max_element_count
    BY BoundAssumption DEF IInv, TypeOK
  <1>2. \A s \in Slots(n) :
          s < element_count => memory[s] \in Element
    BY <1>1 DEF IInv, TypeOK, Slots
  <1>3. \A s \in Slots(n) :
          IF s < element_count
            THEN CopiedBytes(n)[s] = Destroyed(memory[s])
            ELSE CopiedBytes(n)[s] = RawElement
    BY DEF CopiedBytes, Slots
  <1>4. ASSUME NEW s \in Slots(n)
        PROVE  CopiedBytes(n)[s] \in Element /\ Empty(CopiedBytes(n)[s])
    <2>1. CASE s < element_count
      BY <1>2, <1>3, <2>1, ElementClosed, LifetimeOfCopies
    <2>2. CASE ~ s < element_count
      BY <1>3, <2>2, RawElementEmpty
    <2> QED
      BY <2>1, <2>2
  <1>5. CopiedBytes(n) \in [Slots(n) -> Element]
    BY <1>4 DEF CopiedBytes, Slots
  <1> QED
    BY <1>3, <1>4, <1>5

LEMMA ReserveInv ==
  ASSUME IInv, NEW n \in 1 .. MaxCapacity, Reserve(n)
  PROVE  IInv'
  <1> USE DEF IInv, Reserve, Grows, eraseVars
  <1>1. /\ element_count \in Nat /\ max_element_count \in Nat /\ n \in Nat
        /\ element_count <= max_element_count /\ max_element_count < n
        /\ n \in 0 .. MaxCapacity
        /\ pc = "idle"
    BY BoundAssumption DEF TypeOK
  <1>2. /\ CopiedBytes(n) \in [Slots(n) -> Element]
        /\ \A s \in Slots(n) :
             IF s < element_count
               THEN CopiedBytes(n)[s] = Destroyed(memory[s])
               ELSE CopiedBytes(n)[s] = RawElement
        /\ \A s \in Slots(n) : Empty(CopiedBytes(n)[s])
    BY <1>1, CopiedBytesLifetimes
  <1>3. \A s \in Slots(max_element_count) :
          IF s < element_count THEN Alive(memory[s]) ELSE Empty(memory[s])
    BY <1>1 DEF ObjectsAreElements, Occupied, Slots
  <1>4. CASE IsTrivial
    <2>1. /\ memory' = CopiedBytes(n) /\ max_element_count' = n
          /\ pc' = pc /\ new_max_element_count' = new_max_element_count
          /\ new_memory' = new_memory
      BY <1>4 DEF growVars
    <2>2. TypeOK'
      BY <1>1, <1>2, <2>1 DEF TypeOK
    <2>3. LoopInv' /\ GrowIsConsistent'
      BY <1>1, <2>1 DEF LoopInv, GrowIsConsistent
    <2>4. ASSUME NEW s \in Slots(n), s < element_count
          PROVE  Alive(memory'[s])
      <3>1. s \in Slots(max_element_count) /\ memory[s] \in Element
        BY <1>1, <2>4 DEF Slots, TypeOK
      <3>2. Alive(memory[s])
        BY <1>3, <2>4, <3>1
      <3>3. Destroyed(memory[s]) = memory[s]
        BY <1>4, <3>1 DEF Destroyed, IsTrivial, Element
      <3> QED
        BY <1>2, <2>1, <2>4, <3>2, <3>3
    <2>5. ObjectsAreElements'
      BY <1>1, <1>2, <2>1, <2>4
      DEF ObjectsAreElements, Occupied, Slots, Alive, Empty
    <2> QED
      BY <2>2, <2>3, <2>5
  <1>5. CASE ~ IsTrivial
    <2>1. /\ memory' = memory /\ max_element_count' = max_element_count
          /\ new_memory' = CopiedBytes(n) /\ new_max_element_count' = n
          /\ pc' = IF element_count = 0 THEN "undefined" ELSE "grow"
          /\ to' = 0 /\ element_count' = element_count
      BY <1>1, <1>5 DEF LoopInv
    <2>2. TypeOK'
      BY <1>1, <1>2, <2>1 DEF TypeOK
    <2>3. LoopInv'
      BY <1>1, <2>1 DEF LoopInv
    <2>4. GrowIsConsistent'
      BY <1>1, <1>2, <2>1 DEF GrowIsConsistent, Slots, Alive, Empty
    <2>5. ObjectsAreElements'
      BY <1>1, <1>3, <2>1 DEF ObjectsAreElements, Occupied, Slots
    <2> QED
      BY <2>2, <2>3, <2>4, <2>5
  <1> QED
    BY <1>4, <1>5

(* A vector that keeps its slots and its elements while grow works on them. *)
LEMMA GrowKeepsElements ==
  ASSUME IInv, pc = "grow", pc' \in {"grow", "idle"}, to < element_count,
         element_count' = element_count, max_element_count' = max_element_count,
         NEW e \in Element, Alive(memory[to]) => Alive(e),
         memory' = [memory EXCEPT ![to] = e]
  PROVE  /\ memory' \in [Slots(max_element_count) -> Element]
         /\ ObjectsAreElements'
  <1> USE DEF IInv
  <1>1. /\ element_count \in Nat /\ max_element_count \in Nat
        /\ element_count <= max_element_count
        /\ to \in Nat
    BY BoundAssumption DEF TypeOK
  <1>2. memory' \in [Slots(max_element_count) -> Element]
    BY DEF TypeOK
  <1>3. \A s \in Slots(max_element_count) :
          memory'[s] = IF s = to THEN e ELSE memory[s]
    BY DEF TypeOK
  <1>4. \A s \in Slots(max_element_count) :
          IF s < element_count THEN Alive(memory[s]) ELSE Empty(memory[s])
    BY <1>1 DEF ObjectsAreElements, Occupied, Slots
  <1>5. to \in Slots(max_element_count)
    BY <1>1 DEF Slots
  <1>6. Alive(e)
    BY <1>4, <1>5
  <1>7. \A s \in Slots(max_element_count) :
          IF s < element_count THEN Alive(memory'[s]) ELSE Empty(memory'[s])
    BY <1>3, <1>4, <1>6
  <1> QED
    BY <1>1, <1>2, <1>7 DEF ObjectsAreElements, Occupied, Slots

LEMMA GrowMoveInv ==
  ASSUME IInv, GrowMove
  PROVE  IInv'
  <1> USE DEF IInv, GrowMove, eraseVars
  <1>1. /\ element_count \in Nat /\ max_element_count \in Nat
        /\ new_max_element_count \in Nat
        /\ element_count <= max_element_count
        /\ to \in 0 .. element_count - 1
    BY BoundAssumption DEF TypeOK
  <1>2. max_element_count < new_max_element_count
    BY DEF GrowIsConsistent
  <1>3. memory[to] \in Element /\ Alive(memory[to])
    BY <1>1 DEF TypeOK, ObjectsAreElements, Occupied, Slots
  <1>4. /\ memory' \in [Slots(max_element_count) -> Element]
        /\ ObjectsAreElements'
    BY <1>1, <1>3, ElementClosed, LifetimeOfCopies, GrowKeepsElements
  <1>5. new_memory' \in [Slots(new_max_element_count) -> Element]
    BY <1>1, <1>2, <1>3 DEF TypeOK
  <1>6. TypeOK'
    BY <1>1, <1>4, <1>5 DEF TypeOK
  <1>7. LoopInv'
    BY DEF LoopInv
  <1>8. \A s \in Slots(new_max_element_count) :
          new_memory'[s] = IF s = to THEN memory[to] ELSE new_memory[s]
    BY DEF TypeOK
  <1>9. ASSUME NEW s \in Slots(to + 1)
        PROVE  IsHusk(memory'[s])
    <2>1. ~ IsTrivial
      BY DEF GrowIsConsistent
    <2>2. s \in Slots(max_element_count) /\ (s = to \/ s \in Slots(to))
      BY <1>1, <1>9 DEF Slots
    <2>3. memory'[s] = IF s = to THEN MovedFrom(memory[to]) ELSE memory[s]
      BY <1>1, <2>2 DEF TypeOK
    <2>4. s \in Slots(to) => IsHusk(memory[s])
      BY DEF GrowIsConsistent
    <2> QED
      BY <1>3, <2>1, <2>2, <2>3, <2>4, LifetimeOfCopies
  <1>10. GrowIsConsistent'
    BY <1>1, <1>2, <1>3, <1>8, <1>9 DEF GrowIsConsistent, Slots
  <1> QED
    BY <1>4, <1>6, <1>7, <1>10

(* An element that was moved from in part is still an element.              *)
LEMMA GrowThrowInv ==
  ASSUME IInv, GrowThrow
  PROVE  IInv'
  <1> USE DEF IInv, GrowThrow, LeaveGrow, eraseVars
  <1>1. /\ element_count \in Nat /\ to \in 0 .. element_count - 1
        /\ element_count <= max_element_count /\ max_element_count \in Nat
    BY BoundAssumption DEF TypeOK
  <1>2. memory[to] \in Element
    BY <1>1 DEF TypeOK, Slots
  <1>3. PICK thrower \in NonTrivial, partly \in BOOLEAN :
          memory' = [memory EXCEPT ![to] =
                       [p \in Param |->
                          IF p \in NonTrivial /\ (p < thrower \/ (p = thrower /\ partly))
                            THEN Moved ELSE memory[to][p]]]
    OBVIOUS
  <1> DEFINE e == [p \in Param |->
                     IF p \in NonTrivial /\ (p < thrower \/ (p = thrower /\ partly))
                       THEN Moved ELSE memory[to][p]]
  <1>4. e \in Element
    BY <1>2 DEF Element, Cell
  <1>5. Alive(memory[to]) => Alive(e)
    BY CellAssumption DEF Alive
  <1>6. memory' = [memory EXCEPT ![to] = e]
    BY <1>3
  <1> HIDE DEF e
  <1>7. /\ memory' \in [Slots(max_element_count) -> Element]
        /\ ObjectsAreElements'
    BY <1>4, <1>5, <1>6, GrowKeepsElements
  <1>8. new_memory' \in [Slots(0) -> Element]
    BY DEF Slots
  <1>9. TypeOK'
    BY <1>1, <1>7, <1>8, BoundAssumption DEF TypeOK
  <1>10. LoopInv' /\ GrowIsConsistent'
    BY DEF LoopInv, GrowIsConsistent
  <1> QED
    BY <1>7, <1>9, <1>10

LEMMA GrowEndInv ==
  ASSUME IInv, GrowEnd
  PROVE  IInv'
  <1> USE DEF IInv, GrowEnd, LeaveGrow, eraseVars
  <1>1. /\ element_count \in Nat /\ max_element_count \in Nat
        /\ new_max_element_count \in Nat
        /\ element_count <= max_element_count
        /\ max_element_count < new_max_element_count
    BY BoundAssumption DEF TypeOK, GrowIsConsistent
  <1>2. new_memory' \in [Slots(0) -> Element]
    BY DEF Slots
  <1>3. TypeOK'
    BY <1>1, <1>2, BoundAssumption DEF TypeOK
  <1>4. LoopInv' /\ GrowIsConsistent'
    BY DEF LoopInv, GrowIsConsistent
  <1>5. ObjectsAreElements'
    BY <1>1 DEF GrowIsConsistent, ObjectsAreElements, Occupied, Slots
  <1> QED
    BY <1>3, <1>4, <1>5

-----------------------------------------------------------------------------
LEMMA NextInv ==
  ASSUME IInv, [Next]_vars
  PROVE  IInv'
  <1>1. CASE UNCHANGED vars
    BY <1>1 DEF vars, eraseVars, growVars, IInv, TypeOK, LoopInv,
                ObjectsAreElements, Occupied, GrowIsConsistent
  <1>2. CASE Next
    BY <1>2, EmplaceBackInv, PopBackInv, ClearInv, EraseInv, EraseRangeInv,
       EraseMoveInv, EraseEndInv, ReserveInv, GrowMoveInv, GrowThrowInv, GrowEndInv
    DEF Next
  <1> QED
    BY <1>1, <1>2

(* The invariant holds in every reachable state of the vector, whatever its *)
(* parameters, which of them are trivial and whether their move             *)
(* constructors throw.                                                      *)
THEOREM Invariance == Spec => []IInv
  BY InitInv, NextInv, PTL DEF Spec

(* The variables keep their types: no method leaves element_count_ above    *)
(* max_element_count_ or the memory with another number of slots.           *)
THEOREM TypeCorrect == Spec => []TypeOK
  BY Invariance, PTL DEF IInv

(* An element is alive in exactly the slots of the contents, at every step  *)
(* of erase and grow: nothing is overwritten, destroyed twice or leaked in  *)
(* the vector's own memory (vector.hpp:195-223, 395-483).                   *)
THEOREM LifetimesMatchContents == Spec => []ObjectsAreElements
  BY Invariance, PTL DEF IInv

(* What grow has built so far is what it has moved (vector.hpp:395-446).    *)
THEOREM GrowMatchesLoop == Spec => []GrowIsConsistent
  BY Invariance, PTL DEF IInv

-----------------------------------------------------------------------------
(* FixedVector implements SequenceContainer.  The abstract step of erase is *)
(* taken when its loop starts, that of reserve when grow installs the new   *)
(* memory or an exception leaves it.                                        *)

(* What Items says of a vector at rest, element by element.                 *)
LEMMA ItemsAtRest ==
  ASSUME IInv, pc \in {"idle", "undefined"}
  PROVE  /\ Items = [k \in 1 .. element_count |-> memory[k - 1]]
         /\ element_count \in Nat
         /\ Len(Items) = element_count
         /\ \A k \in 1 .. element_count : Items[k] = memory[k - 1]
  <1>1. element_count \in Nat
    BY BoundAssumption DEF IInv, TypeOK
  <1>2. Items = [k \in 1 .. element_count |-> memory[k - 1]]
    BY DEF Items
  <1> HIDE DEF Items
  <1> QED
    BY <1>1, <1>2

LEMMA EmplaceBackRefines ==
  ASSUME IInv, NEW v \in Value, EmplaceBack(v)
  PROVE  Container!SeqEmplaceBack([p \in Param |-> v])
  <1> DEFINE e == [p \in Param |-> v]
  <1>1. /\ element_count \in Nat
        /\ Items = [k \in 1 .. element_count |-> memory[k - 1]]
        /\ Len(Items) = element_count
    BY ItemsAtRest DEF EmplaceBack
  <1>2. Items' = [k \in 1 .. element_count + 1 |-> memory'[k - 1]]
    BY DEF Items, EmplaceBack
  <1>3. \A k \in 1 .. element_count + 1 :
          memory'[k - 1] = IF k = element_count + 1 THEN e ELSE memory[k - 1]
    BY <1>1, BoundAssumption DEF EmplaceBack, IInv, TypeOK, Slots
  <1> HIDE DEF e
  <1>4. Items' = Append(Items, e)
    BY <1>1, <1>2, <1>3
  <1>5. Len(Items) < max_element_count /\ max_element_count' = max_element_count
    BY <1>1 DEF EmplaceBack
  <1> QED
    BY <1>4, <1>5 DEF Container!SeqEmplaceBack, e

(* erase takes the elements t .. f - 1 out of the contents when its loop    *)
(* starts; those that the destructors did not touch are read unchanged.     *)
LEMMA StartEraseRefines ==
  ASSUME IInv, pc = "idle",
         NEW f \in 0 .. element_count, NEW t \in 0 .. f, NEW mem,
         DOMAIN mem = Slots(max_element_count),
         \A s \in Slots(element_count) : s < t \/ s >= f => mem[s] = memory[s],
         StartErase(mem, f, t)
  PROVE  Items' = [k \in 1 .. element_count - (f - t) |->
                     IF k <= t THEN memory[k - 1] ELSE memory[k - 1 + (f - t)]]
  <1>1. /\ element_count \in Nat /\ max_element_count \in Nat
        /\ element_count <= max_element_count
        /\ element_count' = element_count
    BY BoundAssumption DEF IInv, TypeOK, StartErase
  <1>2. from' - to' = f - t
    BY <1>1 DEF StartErase
  <1>3. Items' = [k \in 1 .. element_count - (f - t) |->
                    IF k <= to' THEN memory'[k - 1] ELSE memory'[k - 1 + (f - t)]]
    BY <1>1, <1>2 DEF Items, StartErase
  <1>4. ASSUME NEW k \in 1 .. element_count - (f - t)
        PROVE  (IF k <= to' THEN memory'[k - 1] ELSE memory'[k - 1 + (f - t)])
               = IF k <= t THEN memory[k - 1] ELSE memory[k - 1 + (f - t)]
    <2>1. CASE IsTrivial
      <3>1. memory' = MoveElements(mem, f, t) /\ to' = element_count - (f - t)
        BY <2>1 DEF StartErase
      <3>2. k - 1 \in Slots(max_element_count) /\ k - 1 \in Slots(element_count)
        BY <1>1 DEF Slots
      <3>3. memory'[k - 1] = IF k - 1 >= t THEN mem[k - 1 + (f - t)] ELSE mem[k - 1]
        BY <1>1, <3>1, <3>2 DEF MoveElements
      <3>4. k <= to'
        BY <3>1
      <3>5. CASE k <= t
        BY <1>1, <3>2, <3>3, <3>4, <3>5
      <3>6. CASE ~ k <= t
        <4>1. k - 1 + (f - t) \in Slots(element_count) /\ k - 1 + (f - t) >= f
          BY <1>1, <3>6 DEF Slots
        <4> QED
          BY <1>1, <3>3, <3>4, <3>6, <4>1
      <3> QED
        BY <3>5, <3>6
    <2>2. CASE ~ IsTrivial
      <3>1. memory' = mem /\ to' = t
        BY <2>2 DEF StartErase
      <3> QED
        BY <1>1, <3>1 DEF Slots
    <2> QED
      BY <2>1, <2>2
  <1> QED
    BY <1>3, <1>4

(* Destructors leave the other slots alone.                                 *)
LEMMA DestructRangeElsewhere ==
  ASSUME IInv, NEW first \in Nat, NEW last \in Nat
  PROVE  /\ DOMAIN DestructRange(first, last) = Slots(max_element_count)
         /\ \A s \in Slots(element_count) :
              s < first \/ s >= last => DestructRange(first, last)[s] = memory[s]
  BY BoundAssumption DEF DestructRange, IInv, TypeOK, Slots

LEMMA EraseRangeRefines ==
  ASSUME IInv, NEW first \in 0 .. element_count, NEW last \in 0 .. element_count,
         EraseRange(first, last)
  PROVE  Container!SeqEraseRange(first, last)
  <1>1. /\ Items = [k \in 1 .. element_count |-> memory[k - 1]]
        /\ element_count \in Nat
        /\ Len(Items) = element_count
        /\ \A k \in 1 .. element_count : Items[k] = memory[k - 1]
    BY ItemsAtRest DEF EraseRange
  <1>2. first \in Nat /\ last \in Nat /\ first <= last /\ last <= element_count
    BY <1>1 DEF EraseRange
  <1> DEFINE mem == DestructRange(first, last)
             n   == element_count - (last - first)
  <1>3. /\ DOMAIN mem = Slots(max_element_count)
        /\ \A s \in Slots(element_count) : s < first \/ s >= last => mem[s] = memory[s]
    BY <1>2, DestructRangeElsewhere
  <1>4. n \in 0 .. element_count /\ element_count - (element_count - n) = n
        /\ last - first = element_count - n
    BY <1>1, <1>2
  <1>5. Items' = [k \in 1 .. n |->
                    IF k <= first THEN memory[k - 1] ELSE memory[k - 1 + (last - first)]]
    <2>1. pc = "idle"
      BY DEF EraseRange
    <2>2. CASE last < element_count /\ first # last
      <3>1. StartErase(mem, last, first)
        BY <2>2 DEF EraseRange, Moves
      <3>2. first \in 0 .. last
        BY <1>2
      <3> HIDE DEF mem
      <3> QED
        BY <1>3, <2>1, <3>1, <3>2, StartEraseRefines
    <2>3. CASE ~ (last < element_count /\ first # last)
      <3>1. StartErase(mem, element_count, n)
        BY <2>3 DEF EraseRange, Moves
      <3>2. \A s \in Slots(element_count) :
              s < n \/ s >= element_count => mem[s] = memory[s]
        BY <1>1, <1>2, <1>3, <2>3 DEF Slots
      <3>3. element_count \in 0 .. element_count
        BY <1>1
      <3> HIDE DEF mem, n
      <3>4. Items' = [k \in 1 .. element_count - (element_count - n) |->
                        IF k <= n THEN memory[k - 1]
                                  ELSE memory[k - 1 + (element_count - n)]]
        BY <1>3, <1>4, <2>1, <3>1, <3>2, <3>3, StartEraseRefines
      <3>5. ASSUME NEW k \in 1 .. n
            PROVE  (IF k <= n THEN memory[k - 1] ELSE memory[k - 1 + (element_count - n)])
                   = IF k <= first THEN memory[k - 1] ELSE memory[k - 1 + (last - first)]
        <4>1. k <= n /\ k \in Nat
          BY <1>1, <1>4
        <4>2. k <= first \/ k - 1 + (last - first) = k - 1
          BY <1>1, <1>2, <2>3, <4>1 DEF n
        <4> QED
          BY <4>1, <4>2
      <3> QED
        BY <1>4, <3>4, <3>5
    <2> QED
      BY <2>2, <2>3
  <1>6. Items' = Container!Without(Items, first, last)
    <2>1. \A k \in 1 .. n :
            (IF k <= first THEN memory[k - 1] ELSE memory[k - 1 + (last - first)])
            = IF k <= first THEN Items[k] ELSE Items[k + (last - first)]
      BY <1>1, <1>2
    <2> QED
      BY <1>1, <1>5, <2>1 DEF Container!Without
  <1>7. max_element_count' = max_element_count
    BY DEF EraseRange, StartErase
  <1> QED
    BY <1>1, <1>2, <1>6, <1>7 DEF Container!SeqEraseRange

LEMMA EraseRefines ==
  ASSUME IInv, NEW position \in 0 .. element_count - 1, Erase(position)
  PROVE  Container!SeqErase(position)
  <1>1. /\ Items = [k \in 1 .. element_count |-> memory[k - 1]]
        /\ element_count \in Nat
        /\ Len(Items) = element_count
        /\ \A k \in 1 .. element_count : Items[k] = memory[k - 1]
    BY ItemsAtRest DEF Erase
  <1>2. /\ position \in Nat /\ position + 1 \in 0 .. element_count
        /\ position \in 0 .. position + 1
    BY <1>1
  <1> DEFINE mem == DestructRange(position, position + 1)
  <1>3. /\ DOMAIN mem = Slots(max_element_count)
        /\ \A s \in Slots(element_count) :
             s < position \/ s >= position + 1 => mem[s] = memory[s]
    BY <1>2, DestructRangeElsewhere
  <1>4. pc = "idle" /\ StartErase(mem, position + 1, position)
    BY DEF Erase
  <1> HIDE DEF mem
  <1>5. Items' = [k \in 1 .. element_count - (position + 1 - position) |->
                    IF k <= position THEN memory[k - 1]
                      ELSE memory[k - 1 + (position + 1 - position)]]
    BY <1>2, <1>3, <1>4, StartEraseRefines
  <1>6. \A k \in 1 .. element_count - (position + 1 - position) :
          (IF k <= position THEN memory[k - 1]
             ELSE memory[k - 1 + (position + 1 - position)])
          = IF k <= position THEN Items[k] ELSE Items[k + (position + 1 - position)]
    BY <1>1, <1>2
  <1>7. Items' = Container!Without(Items, position, position + 1)
    BY <1>1, <1>5, <1>6 DEF Container!Without
  <1>8. max_element_count' = max_element_count
    BY <1>4 DEF StartErase
  <1> QED
    BY <1>1, <1>2, <1>7, <1>8 DEF Container!SeqErase, Container!SeqEraseRange

(* pop_back and clear drop the elements from n on.                          *)
LEMMA DropRefines ==
  ASSUME IInv, pc = "idle", NEW n \in 0 .. element_count,
         memory' = DestructRange(n, element_count),
         element_count' = n, pc' = pc, max_element_count' = max_element_count
  PROVE  Container!SeqEraseRange(n, element_count)
  <1>1. /\ Items = [k \in 1 .. element_count |-> memory[k - 1]]
        /\ element_count \in Nat
        /\ Len(Items) = element_count
        /\ \A k \in 1 .. element_count : Items[k] = memory[k - 1]
    BY ItemsAtRest
  <1>2. n \in Nat /\ n <= element_count /\ element_count - (element_count - n) = n
    BY <1>1
  <1>3. Items' = [k \in 1 .. n |-> memory'[k - 1]]
    BY DEF Items
  <1>4. \A k \in 1 .. n : memory'[k - 1] = Items[k]
    BY <1>1, <1>2, DestructRangeElsewhere DEF Slots
  <1>5. Items' = Container!Without(Items, n, element_count)
    <2>1. Container!Without(Items, n, element_count)
          = [k \in 1 .. n |->
               IF k <= n THEN Items[k] ELSE Items[k + (element_count - n)]]
      BY <1>1, <1>2 DEF Container!Without
    <2>2. \A k \in 1 .. n : k <= n
      BY <1>2
    <2> QED
      BY <1>3, <1>4, <2>1, <2>2
  <1> QED
    BY <1>1, <1>2, <1>5 DEF Container!SeqEraseRange

LEMMA PopBackRefines ==
  ASSUME IInv, PopBack
  PROVE  Container!SeqPopBack
  <1>1. Len(Items) = element_count /\ element_count \in Nat /\ element_count > 0
    BY ItemsAtRest DEF PopBack
  <1>2. element_count - 1 \in 0 .. element_count
    BY <1>1
  <1>3. Container!SeqEraseRange(element_count - 1, element_count)
    BY <1>2, DropRefines DEF PopBack
  <1>4. Items # << >>
    BY <1>1
  <1> QED
    BY <1>1, <1>3, <1>4 DEF Container!SeqPopBack

LEMMA ClearRefines ==
  ASSUME IInv, Clear
  PROVE  Container!SeqClear
  <1>1. Len(Items) = element_count /\ 0 \in 0 .. element_count
    BY ItemsAtRest DEF Clear
  <1>2. Container!SeqEraseRange(0, element_count)
    BY <1>1, DropRefines DEF Clear
  <1> QED
    BY <1>1, <1>2 DEF Container!SeqClear

(* The loop of erase changes nothing a caller can see.                      *)
LEMMA EraseMoveStutters ==
  ASSUME IInv, EraseMove
  PROVE  Items' = Items /\ max_element_count' = max_element_count
  <1>1. /\ element_count \in Nat /\ max_element_count \in Nat
        /\ element_count <= max_element_count
        /\ to \in 0 .. from - 1 /\ from \in 0 .. element_count - 1
    BY BoundAssumption DEF IInv, TypeOK, LoopInv, EraseMove
  <1>2. PICK e : memory' = [memory EXCEPT ![to] = memory[from], ![from] = e]
    BY DEF EraseMove
  <1>3. /\ to' = to + 1 /\ from' = from + 1 /\ pc = "erase" /\ pc' = "erase"
        /\ element_count' = element_count
        /\ max_element_count' = max_element_count
        /\ from' - to' = from - to
    BY <1>1 DEF EraseMove
  <1>4. \A s \in Slots(max_element_count) :
          memory'[s] = IF s = from THEN e
                       ELSE IF s = to THEN memory[from] ELSE memory[s]
    BY <1>1, <1>2 DEF IInv, TypeOK, Slots
  <1>5. ASSUME NEW k \in 1 .. element_count - (from - to)
        PROVE  (IF k <= to + 1 THEN memory'[k - 1] ELSE memory'[k - 1 + (from - to)])
               = IF k <= to THEN memory[k - 1] ELSE memory[k - 1 + (from - to)]
    <2>1. k - 1 \in Slots(max_element_count)
          /\ (k > to => k - 1 + (from - to) \in Slots(max_element_count))
      BY <1>1 DEF Slots
    <2>2. CASE k <= to
      BY <1>1, <1>4, <2>1, <2>2
    <2>3. CASE k = to + 1
      BY <1>1, <1>4, <2>1, <2>3
    <2>4. CASE k > to + 1
      BY <1>1, <1>4, <2>1, <2>4
    <2> QED
      BY <1>1, <2>2, <2>3, <2>4
  <1>6. Items' = [k \in 1 .. element_count - (from - to) |->
                    IF k <= to + 1 THEN memory'[k - 1] ELSE memory'[k - 1 + (from - to)]]
    BY <1>3 DEF Items
  <1>7. Items = [k \in 1 .. element_count - (from - to) |->
                   IF k <= to THEN memory[k - 1] ELSE memory[k - 1 + (from - to)]]
    BY <1>3 DEF Items
  <1> QED
    BY <1>3, <1>5, <1>6, <1>7

LEMMA EraseEndStutters ==
  ASSUME IInv, EraseEnd
  PROVE  Items' = Items /\ max_element_count' = max_element_count
  <1>1. /\ element_count \in Nat /\ to \in 0 .. element_count
        /\ from = element_count /\ removed = from - to
        /\ element_count - (from - to) = to
    BY BoundAssumption DEF IInv, TypeOK, LoopInv, EraseEnd
  <1>2. Items' = [k \in 1 .. to |-> memory[k - 1]]
    BY <1>1 DEF Items, EraseEnd
  <1>3. Items = [k \in 1 .. to |-> memory[k - 1]]
    BY <1>1 DEF Items, EraseEnd
  <1> QED
    BY <1>2, <1>3 DEF EraseEnd

-----------------------------------------------------------------------------
(* reserve is one abstract step, at its end, and every element survives it. *)
LEMMA ReserveRefines ==
  ASSUME IInv, NEW n \in 1 .. MaxCapacity, Reserve(n)
  PROVE  \/ Container!SeqReserve(n)
         \/ UNCHANGED Container!seqVars
  <1>1. /\ Items = [k \in 1 .. element_count |-> memory[k - 1]]
        /\ element_count \in Nat
    BY ItemsAtRest DEF Reserve
  <1>2. /\ max_element_count \in Nat /\ element_count <= max_element_count
        /\ n \in Nat /\ max_element_count < n
        /\ element_count' = element_count
    BY BoundAssumption DEF IInv, TypeOK, Reserve, Grows
  <1>3. CASE IsTrivial
    <2>1. /\ memory' = CopiedBytes(n) /\ max_element_count' = n /\ pc' = "idle"
      BY <1>3 DEF Reserve, growVars
    <2>2. Items' = [k \in 1 .. element_count |-> memory'[k - 1]]
      BY <1>2, <2>1 DEF Items
    <2>3. ASSUME NEW k \in 1 .. element_count
          PROVE  memory'[k - 1] = memory[k - 1]
      <3>1. /\ k - 1 \in Slots(n) /\ k - 1 < element_count
            /\ k - 1 \in Slots(max_element_count)
        BY <1>1, <1>2 DEF Slots
      <3>2. memory'[k - 1] = Destroyed(memory[k - 1])
        BY <1>2, <2>1, <3>1, CopiedBytesLifetimes
      <3>3. memory[k - 1] \in Element
        BY <3>1 DEF IInv, TypeOK
      <3> QED
        BY <1>3, <3>2, <3>3 DEF Destroyed, IsTrivial, Element
    <2>4. Items' = Items
      BY <1>1, <2>2, <2>3
    <2> QED
      BY <1>2, <2>1, <2>4 DEF Container!SeqReserve
  <1>4. CASE ~ IsTrivial
    <2>1. /\ memory' = memory /\ max_element_count' = max_element_count
          /\ pc' = IF element_count = 0 THEN "undefined" ELSE "grow"
          /\ to' = 0
      BY <1>4 DEF Reserve, IInv, LoopInv
    <2>2. Items' = [k \in 1 .. element_count |-> memory[k - 1]]
      BY <1>1, <1>2, <2>1 DEF Items
    <2> QED
      BY <1>1, <2>1, <2>2 DEF Container!seqVars
  <1> QED
    BY <1>3, <1>4

LEMMA GrowMoveStutters ==
  ASSUME IInv, GrowMove
  PROVE  Items' = Items /\ max_element_count' = max_element_count
  <1>1. /\ element_count \in Nat /\ max_element_count \in Nat
        /\ new_max_element_count \in Nat
        /\ element_count <= max_element_count
        /\ max_element_count < new_max_element_count
        /\ to \in 0 .. element_count - 1
    BY BoundAssumption DEF IInv, TypeOK, GrowIsConsistent, GrowMove
  <1>2. PICK e : memory' = [memory EXCEPT ![to] = e]
    BY DEF GrowMove
  <1>3. /\ new_memory' = [new_memory EXCEPT ![to] = memory[to]]
        /\ to' = to + 1 /\ pc = "grow" /\ pc' = "grow"
        /\ element_count' = element_count
    BY DEF GrowMove
  <1>4. \A k \in 1 .. element_count :
          (IF k <= to + 1 THEN new_memory'[k - 1] ELSE memory'[k - 1])
          = IF k <= to THEN new_memory[k - 1] ELSE memory[k - 1]
    BY <1>1, <1>2, <1>3 DEF IInv, TypeOK, Slots
  <1>5. Items' = [k \in 1 .. element_count |->
                    IF k <= to + 1 THEN new_memory'[k - 1] ELSE memory'[k - 1]]
    BY <1>3 DEF Items
  <1>6. Items = [k \in 1 .. element_count |->
                   IF k <= to THEN new_memory[k - 1] ELSE memory[k - 1]]
    BY <1>3 DEF Items
  <1> QED
    BY <1>4, <1>5, <1>6 DEF GrowMove

LEMMA GrowEndRefines ==
  ASSUME IInv, GrowEnd
  PROVE  \E n \in 1 .. MaxCapacity : Container!SeqReserve(n)
  <1>1. /\ new_max_element_count \in 1 .. MaxCapacity
        /\ new_max_element_count > max_element_count
        /\ max_element_count' = new_max_element_count
        /\ element_count \in Nat
    BY BoundAssumption DEF IInv, TypeOK, GrowIsConsistent, GrowEnd
  <1>2. Items' = [k \in 1 .. element_count |-> new_memory[k - 1]]
    BY DEF Items, GrowEnd, LeaveGrow
  <1>3. Items = [k \in 1 .. element_count |-> new_memory[k - 1]]
    BY <1>1 DEF Items, GrowEnd
  <1> QED
    BY <1>1, <1>2, <1>3 DEF Container!SeqReserve

(* An exception leaves every element as it was or moved from.               *)
LEMMA GrowThrowRefines ==
  ASSUME IInv, GrowThrow
  PROVE  Container!SeqReserveFails
  <1>1. /\ element_count \in Nat /\ max_element_count \in Nat
        /\ element_count <= max_element_count
        /\ to \in 0 .. element_count - 1 /\ pc = "grow"
    BY BoundAssumption DEF IInv, TypeOK, GrowThrow
  <1>2. PICK thrower \in NonTrivial, partly \in BOOLEAN :
          memory' = [memory EXCEPT ![to] =
                       [p \in Param |->
                          IF p \in NonTrivial /\ (p < thrower \/ (p = thrower /\ partly))
                            THEN Moved ELSE memory[to][p]]]
    BY DEF GrowThrow
  <1> DEFINE e == [p \in Param |->
                     IF p \in NonTrivial /\ (p < thrower \/ (p = thrower /\ partly))
                       THEN Moved ELSE memory[to][p]]
             Husk == {h \in Element : Alive(h) /\ IsHusk(h)}
  <1>3. \A s \in Slots(max_element_count) :
          memory'[s] = IF s = to THEN e ELSE memory[s]
    BY <1>2 DEF IInv, TypeOK
  <1>4. memory[to] \in Element
    BY <1>1 DEF IInv, TypeOK, Slots
  <1>5. e = memory[to] \/ IsHusk(e)
    <2>1. CASE \E p \in NonTrivial : p < thrower \/ (p = thrower /\ partly)
      BY <2>1, ParamAssumption DEF IsHusk
    <2>2. CASE ~ \E p \in NonTrivial : p < thrower \/ (p = thrower /\ partly)
      BY <1>4, <2>2 DEF Element
    <2> QED
      BY <2>1, <2>2
  <1> HIDE DEF e
  <1>6. ASSUME NEW k \in 1 .. element_count
        PROVE  memory'[k - 1] \in {Items[k]} \cup Husk
    <2>1. k - 1 \in Slots(max_element_count) /\ k - 1 < element_count
      BY <1>1 DEF Slots
    <2>2. memory'[k - 1] \in Element /\ Alive(memory'[k - 1])
      <3>1. IInv'
        BY GrowThrowInv
      <3>2. pc' = "idle" /\ element_count' = element_count
            /\ max_element_count' = max_element_count
        BY DEF GrowThrow, LeaveGrow
      <3> QED
        BY <1>1, <2>1, <3>1, <3>2
        DEF IInv, TypeOK, ObjectsAreElements, Occupied, Slots
    <2>3. Items[k] = IF k <= to THEN new_memory[k - 1] ELSE memory[k - 1]
      BY <1>1 DEF Items
    <2>4. CASE k <= to
      <3>1. memory'[k - 1] = memory[k - 1] /\ k - 1 \in Slots(to)
        BY <1>1, <1>3, <2>1, <2>4 DEF Slots
      <3>2. IsHusk(memory[k - 1])
        BY <1>1, <3>1 DEF IInv, GrowIsConsistent
      <3> QED
        BY <2>2, <3>1, <3>2
    <2>5. CASE k = to + 1
      <3>1. memory'[k - 1] = e /\ Items[k] = memory[to]
        BY <1>1, <1>3, <2>1, <2>3, <2>5
      <3> QED
        BY <1>5, <2>2, <3>1
    <2>6. CASE k > to + 1
      BY <1>1, <1>3, <2>1, <2>3, <2>6
    <2> QED
      BY <1>1, <2>4, <2>5, <2>6
  <1>7. Items' = [k \in 1 .. element_count |-> memory'[k - 1]]
    BY DEF Items, GrowThrow, LeaveGrow
  <1>8. DOMAIN Items = 1 .. element_count /\ Len(Items) = element_count
    BY <1>1 DEF Items
  <1>9. max_element_count' = max_element_count
    BY DEF GrowThrow
  <1> HIDE DEF Husk
  <1>10. Len(Items') = element_count
    BY <1>1, <1>7
  <1>11. \A k \in DOMAIN Items : Items'[k] \in {Items[k]} \cup Husk
    BY <1>6, <1>7, <1>8
  <1> QED
    BY <1>8, <1>9, <1>10, <1>11 DEF Container!SeqReserveFails, Husk

-----------------------------------------------------------------------------
LEMMA InitRefines ==
  ASSUME IInv, Init
  PROVE  Container!SeqInit
  <1>1. Items = << >>
    BY DEF Items, Init
  <1> QED
    BY <1>1 DEF Container!SeqInit, Init

LEMMA NextRefines ==
  ASSUME IInv, [Next]_vars
  PROVE  [Container!SeqNext]_(Container!seqVars)
  <1>1. CASE UNCHANGED vars
    BY <1>1 DEF vars, eraseVars, growVars, Items, Container!seqVars
  <1>2. ASSUME NEW v \in Value, EmplaceBack(v)
        PROVE  Container!SeqNext
    BY <1>2, EmplaceBackRefines DEF Container!SeqNext
  <1>3. CASE PopBack
    BY <1>3, PopBackRefines DEF Container!SeqNext
  <1>4. CASE Clear
    BY <1>4, ClearRefines DEF Container!SeqNext
  <1>5. ASSUME NEW position \in 0 .. element_count - 1, Erase(position)
        PROVE  Container!SeqNext
    <2>1. Len(Items) = element_count
      BY <1>5, ItemsAtRest DEF Erase
    <2> QED
      BY <1>5, <2>1, EraseRefines DEF Container!SeqNext
  <1>6. ASSUME NEW first \in 0 .. element_count, NEW last \in 0 .. element_count,
               EraseRange(first, last)
        PROVE  Container!SeqNext
    <2>1. Len(Items) = element_count
      BY <1>6, ItemsAtRest DEF EraseRange
    <2> QED
      BY <1>6, <2>1, EraseRangeRefines DEF Container!SeqNext
  <1>7. CASE EraseMove
    BY <1>7, EraseMoveStutters DEF Container!seqVars
  <1>8. CASE EraseEnd
    BY <1>8, EraseEndStutters DEF Container!seqVars
  <1>9. ASSUME NEW n \in 1 .. MaxCapacity, Reserve(n)
        PROVE  [Container!SeqNext]_(Container!seqVars)
    BY <1>9, ReserveRefines DEF Container!SeqNext
  <1>10. CASE GrowMove
    BY <1>10, GrowMoveStutters DEF Container!seqVars
  <1>11. CASE GrowEnd
    BY <1>11, GrowEndRefines DEF Container!SeqNext
  <1>12. CASE GrowThrow
    BY <1>12, GrowThrowRefines DEF Container!SeqNext
  <1> QED
    BY <1>1, <1>2, <1>3, <1>4, <1>5, <1>6, <1>7, <1>8, <1>9, <1>10, <1>11, <1>12
    DEF Next

(* The vector implements the sequence with a capacity that its interface    *)
(* promises, whether or not move constructors throw (vector.hpp:159-223).   *)
THEOREM Refinement == Spec => ImplementsContainer
  <1>1. Init => Container!SeqInit
    BY InitInv, InitRefines
  <1>2. IInv /\ [Next]_vars => [Container!SeqNext]_(Container!seqVars)
    BY NextRefines
  <1> QED
    BY <1>1, <1>2, Invariance, PTL DEF Spec, ImplementsContainer, Container!SeqSpec
=============================================================================
