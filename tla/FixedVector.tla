---------------------------- MODULE FixedVector ----------------------------
(***************************************************************************)
(* A ContiguousVector whose parameters are all plain or FixedSize          *)
(* (AllFixedSizeElementLocator): every element takes stride_ bytes and     *)
(* element i lives at memory_begin + stride_ * i, so memory is a function  *)
(* from slots to elements and an address is an index.  The bytes of the    *)
(* layout inside a slot are the business of module ElementLayout.          *)
(*                                                                         *)
(* An element has one object per parameter.  The parameters in NonTrivial  *)
(* have move constructors and destructors that do something; objects of    *)
(* the other parameters are bytes that memcpy and memmove may carry.  A    *)
(* method over non-trivial parameters is a loop, and every iteration is a  *)
(* step here, because an exception can leave the loop between two of them. *)
(***************************************************************************)
EXTENDS Naturals, Sequences, FiniteSets

CONSTANTS
  Value,            \* what a caller can store
  Param,            \* the parameters of the vector, numbered in their order
  NonTrivial,       \* those without trivial move and destruction
  Raw,              \* storage that holds no object
  Moved,            \* an object that was moved from and is still alive
  MaxCapacity,      \* bound on max_element_count, of the model only
  MoveMayThrow,     \* does a move constructor of NonTrivial throw?
  ReservesEmpty     \* does the caller reserve on an empty vector?

ASSUME ParamAssumption == Param \subseteq Nat /\ NonTrivial \subseteq Param
ASSUME CellAssumption  == Raw \notin Value /\ Moved \notin Value /\ Raw # Moved
ASSUME BoundAssumption == MaxCapacity \in Nat
ASSUME CallerAssumption == MoveMayThrow \in BOOLEAN /\ ReservesEmpty \in BOOLEAN

VARIABLES
  max_element_count,  \* vector.hpp:91
  memory,             \* the slots of memory_
  element_count,      \* the locator's element_count_
  pc,                 \* the method in progress
  to, from, removed,  \* loop indices of erase (and of grow, which uses to)
  new_max_element_count, new_memory   \* grow's argument and allocation

eraseVars == <<from, removed>>
growVars  == <<new_max_element_count, new_memory>>
vars == <<max_element_count, memory, element_count, pc, to, eraseVars, growVars>>

Cell    == Value \cup {Raw, Moved}
Element == [Param -> Cell]
RawElement == [p \in Param |-> Raw]

(* ListTraits::IS_TRIVIALLY_MOVE_CONSTRUCTIBLE && IS_TRIVIALLY_DESTRUCTIBLE *)
IsTrivial == NonTrivial = {}

(* What ElementTraits::destruct leaves behind: trivial objects stay as they *)
(* are, they are plain bytes.                                               *)
Destroyed(e) == [p \in Param |-> IF p \in NonTrivial THEN Raw ELSE e[p]]
MovedFrom(e) == [p \in Param |-> IF p \in NonTrivial THEN Moved ELSE e[p]]

(* The memory after the elements first .. last - 1 are destroyed.           *)
DestructRange(first, last) ==
  [s \in DOMAIN memory |->
     IF s \in first .. last - 1 THEN Destroyed(memory[s]) ELSE memory[s]]

-----------------------------------------------------------------------------
Init ==
  /\ max_element_count \in 0 .. MaxCapacity
  /\ memory = [s \in 0 .. max_element_count - 1 |-> RawElement]
  /\ element_count = 0
  /\ pc = "idle"
  /\ to = 0 /\ from = 0 /\ removed = 0
  /\ new_max_element_count = 0
  /\ new_memory = << >>

(* The caller must leave room: the code does not check.                     *)
EmplaceBack(v) ==
  /\ pc = "idle"
  /\ element_count < max_element_count
  /\ memory' = [memory EXCEPT ![element_count] = [p \in Param |-> v]]
  /\ element_count' = element_count + 1
  /\ UNCHANGED <<max_element_count, pc, to, eraseVars, growVars>>

PopBack ==
  /\ pc = "idle"
  /\ element_count > 0
  /\ memory' = DestructRange(element_count - 1, element_count)
  /\ element_count' = element_count - 1
  /\ UNCHANGED <<max_element_count, pc, to, eraseVars, growVars>>

Clear ==
  /\ pc = "idle"
  /\ memory' = DestructRange(0, element_count)
  /\ element_count' = 0
  /\ UNCHANGED <<max_element_count, pc, to, eraseVars, growVars>>

(* Faulty: the last element is left behind.                                 *)
MoveElements_OneShort(mem, f, t) ==
  [s \in DOMAIN mem |->
     IF s \in t .. t + (element_count - f) - 2 THEN mem[s + (f - t)] ELSE mem[s]]

(* memmove of the slots f .. element_count - 1 to t, one block.             *)
MoveElements(mem, f, t) ==
  [s \in DOMAIN mem |->
     IF s \in t .. t + (element_count - f) - 1 THEN mem[s + (f - t)] ELSE mem[s]]

(* move_elements_forward(f, t) in mem, which the erased elements have left. *)
(* Elements that can be memmoved go at once, the others one by one.         *)
StartErase(mem, f, t) ==
  /\ pc' = "erase"
  /\ removed' = f - t
  /\ IF IsTrivial
       THEN /\ memory' = MoveElements(mem, f, t)
            /\ from' = element_count
            /\ to' = element_count - (f - t)
       ELSE /\ memory' = mem
            /\ from' = f
            /\ to' = t
  /\ UNCHANGED <<max_element_count, element_count, growVars>>

Erase(position) ==
  /\ pc = "idle"
  /\ position < element_count
  /\ StartErase(DestructRange(position, position + 1), position + 1, position)

(* Faulty: an empty range is moved onto itself; the end is off by one.      *)
Moves_EmptyRange(first, last) == last < element_count
Moves_NotLast(first, last) == last + 1 < element_count /\ first # last

(* Does erase of first .. last - 1 leave a gap to close?                    *)
Moves(first, last) == last < element_count /\ first # last

(* Without a gap the loop is entered with from already at size().           *)
EraseRange(first, last) ==
  /\ pc = "idle"
  /\ first <= last
  /\ last <= element_count
  /\ IF Moves(first, last)
       THEN StartErase(DestructRange(first, last), last, first)
       ELSE StartErase(DestructRange(first, last), element_count,
                       element_count - (last - first))

(* emplace_at: move-construct from the source, then destroy the source.     *)
EraseMove ==
  /\ pc = "erase"
  /\ from < element_count
  /\ memory' = [memory EXCEPT ![to] = memory[from],
                              ![from] = Destroyed(MovedFrom(@))]
  /\ to' = to + 1
  /\ from' = from + 1
  /\ UNCHANGED <<max_element_count, element_count, pc, removed, growVars>>

(* resize(size() - removed) ends both erase functions.                      *)
EraseEnd ==
  /\ pc = "erase"
  /\ from = element_count
  /\ element_count' = element_count - removed
  /\ pc' = "idle"
  /\ to' = 0 /\ from' = 0 /\ removed' = 0
  /\ UNCHANGED <<max_element_count, memory, growVars>>

-----------------------------------------------------------------------------
(* The allocation of n slots with the bytes of the elements copied over;    *)
(* bytes of a non-trivial object are not an object.                         *)
CopiedBytes(n) ==
  [s \in 0 .. n - 1 |->
     IF s < element_count THEN Destroyed(memory[s]) ELSE RawElement]

(* Faulty: reserve shrinks the vector, too.                                 *)
Grows_OrShrinks(n) == n # max_element_count

Grows(n) == n > max_element_count

(* reserve(n) with n > max_element_count_ calls grow.  When the objects     *)
(* must be moved, insert_into first copies data_end() - memory_begin()      *)
(* bytes, and data_end() is nullptr in an empty vector: a copy of nearly    *)
(* 2^64 bytes.                                                              *)
Reserve(n) ==
  /\ pc = "idle"
  /\ Grows(n)
  /\ element_count = 0 => ReservesEmpty \/ IsTrivial
  /\ IF IsTrivial
       THEN /\ memory' = CopiedBytes(n)
            /\ max_element_count' = n
            /\ UNCHANGED <<pc, growVars>>
       ELSE /\ new_memory' = CopiedBytes(n)
            /\ new_max_element_count' = n
            /\ pc' = IF element_count = 0 THEN "undefined" ELSE "grow"
            /\ UNCHANGED <<memory, max_element_count>>
  /\ UNCHANGED <<element_count, to, eraseVars>>

(* Faulty: the target is one slot further; the loop does not go on.         *)
GrowMove_NextSlot ==
  /\ pc = "grow"
  /\ to < element_count
  /\ new_memory' = [new_memory EXCEPT ![to + 1] = memory[to]]
  /\ to' = to + 1
  /\ UNCHANGED <<max_element_count, memory, element_count, pc, eraseVars,
                 new_max_element_count>>

GrowMove_SameSlot ==
  /\ pc = "grow"
  /\ to < element_count
  /\ new_memory' = [new_memory EXCEPT ![to] = memory[to]]
  /\ UNCHANGED <<max_element_count, memory, element_count, pc, to, eraseVars,
                 new_max_element_count>>

(* One iteration of uninitialized_construct_if_non_trivial<true>.           *)
GrowMove ==
  /\ pc = "grow"
  /\ to < element_count
  /\ new_memory' = [new_memory EXCEPT ![to] = memory[to]]
  /\ memory' = [memory EXCEPT ![to] = MovedFrom(@)]
  /\ to' = to + 1
  /\ UNCHANGED <<max_element_count, element_count, pc, eraseVars,
                 new_max_element_count>>

(* Either way the allocation of grow is gone.                               *)
LeaveGrow ==
  /\ new_memory' = << >>
  /\ new_max_element_count' = 0
  /\ to' = 0
  /\ pc' = "idle"
  /\ UNCHANGED <<element_count, eraseVars>>

(* A move constructor throws in the middle of an element: the new           *)
(* allocation is freed on the way out, nobody destroys what was built in    *)
(* it, and what was moved from stays moved from.  Parameters are moved in   *)
(* order; a FixedSize one may throw after some of its objects were moved.   *)
GrowThrow ==
  /\ MoveMayThrow
  /\ pc = "grow"
  /\ to < element_count
  /\ \E thrower \in NonTrivial, partly \in BOOLEAN :
       memory' = [memory EXCEPT ![to] =
                    [p \in Param |->
                       IF p \in NonTrivial /\ (p < thrower \/ (p = thrower /\ partly))
                         THEN Moved ELSE @[p]]]
  /\ LeaveGrow
  /\ UNCHANGED max_element_count

(* The old elements are destroyed and the new allocation takes their place. *)
GrowEnd ==
  /\ pc = "grow"
  /\ to = element_count
  /\ memory' = new_memory
  /\ max_element_count' = new_max_element_count
  /\ LeaveGrow

Next ==
  \/ \E v \in Value : EmplaceBack(v)
  \/ PopBack
  \/ Clear
  \/ \E position \in 0 .. element_count - 1 : Erase(position)
  \/ \E first, last \in 0 .. element_count : EraseRange(first, last)
  \/ EraseMove
  \/ EraseEnd
  \/ \E n \in 1 .. MaxCapacity : Reserve(n)
  \/ GrowMove
  \/ GrowThrow
  \/ GrowEnd

Spec == Init /\ [][Next]_vars

(* A method that was entered runs on: its loop is ordinary sequential code. *)
Continue == EraseMove \/ EraseEnd \/ GrowMove \/ GrowEnd
FairSpec == Spec /\ WF_vars(Continue)

-----------------------------------------------------------------------------
Slots(n) == 0 .. n - 1

(* The type of every variable; memory is as long as max_element_count says. *)
TypeOK ==
  /\ max_element_count \in 0 .. MaxCapacity
  /\ memory \in [Slots(max_element_count) -> Element]
  /\ element_count \in 0 .. max_element_count
  /\ pc \in {"idle", "erase", "grow", "undefined"}
  /\ to \in 0 .. element_count
  /\ from \in 0 .. element_count
  /\ removed \in 0 .. element_count
  /\ new_max_element_count \in 0 .. MaxCapacity
  /\ new_memory \in [Slots(new_max_element_count) -> Element]

(* Every parameter of the element holds an object.                          *)
Alive(e) == \A p \in Param : e[p] # Raw

(* Some object of the element was moved from.                               *)
IsHusk(e) == \E p \in NonTrivial : e[p] = Moved

(* No destructor is owed for anything in these slots.                       *)
Empty(e) == \A p \in NonTrivial : e[p] = Raw

(* The slots whose elements are part of the vector's contents: all below    *)
(* element_count, except the gap an unfinished erase still has to close.    *)
Occupied ==
  {s \in Slots(element_count) : pc = "erase" => s < to \/ s >= from}

(* Object lifetimes.  An element is alive in exactly the slots that belong  *)
(* to the contents, also between two iterations of the loop in erase, so    *)
(* that no element is moved over a living one, destroyed twice or lost      *)
(* (vector.hpp:195-217, 448-461, 478-483).                                  *)
ObjectsAreElements ==
  pc # "undefined" =>
    \A s \in Slots(max_element_count) :
      IF s \in Occupied THEN Alive(memory[s]) ELSE Empty(memory[s])

(* The half-built allocation of grow holds the elements moved so far and    *)
(* nothing else, and exactly those are moved from (vector.hpp:395-446).     *)
GrowIsConsistent ==
  pc = "grow" =>
    /\ max_element_count < new_max_element_count
    /\ \A s \in Slots(new_max_element_count) :
         IF s < to THEN Alive(new_memory[s]) ELSE Empty(new_memory[s])
    /\ ~ IsTrivial /\ \A s \in Slots(to) : IsHusk(memory[s])

(* erase and reserve return (vector.hpp:438, 456).                          *)
MethodsReturn == pc \in {"erase", "grow"} ~> pc = "idle"

-----------------------------------------------------------------------------
(* The contents a caller has asked for: the gap of an unfinished erase is   *)
(* already gone, elements that grow has moved are read where they are now.  *)
Items ==
  IF pc = "erase"
    THEN [k \in 1 .. element_count - (from - to) |->
            IF k <= to THEN memory[k - 1] ELSE memory[k - 1 + (from - to)]]
    ELSE [k \in 1 .. element_count |->
            IF pc = "grow" /\ k <= to THEN new_memory[k - 1] ELSE memory[k - 1]]

Container == INSTANCE SequenceContainer WITH
               Value <- {[p \in Param |-> v] : v \in Value},
               Husk  <- {e \in Element : Alive(e) /\ IsHusk(e)},
               items <- Items, capacity <- max_element_count

(* The vector behaves as a sequence with a capacity: erase removes exactly  *)
(* the elements it was given, in one step for the caller, and reserve       *)
(* changes none, or loses none when a move constructor throws (README, "a   *)
(* container modelled after SequenceContainer").                            *)
ImplementsContainer == Container!SeqSpec
=============================================================================
