--------------------------- MODULE ElementLayout ---------------------------
(***************************************************************************)
(* Where the objects of the elements of a vector lie, in bytes.            *)
(*                                                                         *)
(* The code computes at compile time which alignments need no run-time     *)
(* check and how much memory n elements take; at run time it stores the    *)
(* objects one after the other.  The properties are that the two agree.    *)
(*                                                                         *)
(* The headers in cntgs/ and the single header cntgs.hpp compute different *)
(* sizes and places; which of them the program includes is chosen in Init. *)
(***************************************************************************)
EXTENDS ElementTraits

Single == INSTANCE SingleHeaderTraits

CONSTANTS
  Lists,          \* the parameter lists to look at, with each header
  FixedCount,     \* the numbers of objects a FixedSize parameter may have
  VaryingCount,   \* the same for one element of a VaryingSize parameter
  VaryingBytes,   \* the values of varying_size_bytes to look at
  MaxElements     \* bound on max_element_count, of the model only

ASSUME ListAssumption ==
  \A header \in DOMAIN Lists : \A params \in Lists[header] :
    header \in {"modular", "single"} /\ IsParameterList(params)
ASSUME CountAssumption ==
  /\ FixedCount \subseteq Nat /\ VaryingCount \subseteq Nat
  /\ VaryingBytes \subseteq Nat /\ MaxElements \in Nat

VARIABLES
  header,               \* the header the program includes
  params,               \* the Parameter... of the vector
  counts,               \* fixed_sizes, one entry per parameter, 1 if not fixed
  max_element_count,
  varying_size_bytes,   \* what the caller reserved for VaryingSize objects
  memory_size,          \* bytes of the allocation
  offset,               \* memory_begin(), in bytes from the allocation's start
  elements              \* for each element, <<first, past>> per parameter

type == <<header, params, counts>>
vars == <<type, max_element_count, varying_size_bytes, memory_size, offset, elements>>

Modular == header = "modular"

-----------------------------------------------------------------------------
(* Faulty: without align_for_first_parameter.                               *)
NextStart_Unaligned ==
  IF ~ AllFixed(params)
    THEN IF elements = << >> THEN 0 ELSE Past(elements[Len(elements)])
  ELSE IF Modular
    THEN offset + ElementSize(params, counts).stride * Len(elements)
    ELSE Single!ElementSize(params, counts).stride * Len(elements)

(* Where emplace_back puts the next element: by the stride, or aligned for  *)
(* the first parameter behind the last element.                             *)
NextStart ==
  LET end == IF elements = << >> THEN 0 ELSE Past(elements[Len(elements)])
  IN  IF ~ AllFixed(params)
        THEN IF Modular THEN AlignIf(Bracket(params, Len(params)).trailing < Storage(params),
                                     end, Storage(params))
                        ELSE Single!AlignForFirst(params, end)
      ELSE IF Modular
        THEN offset + ElementSize(params, counts).stride * Len(elements)
        ELSE Single!ElementSize(params, counts).stride * Len(elements)

Placed(cs, start) ==
  IF Modular THEN Placement(params, cs, start) ELSE Single!Placement(params, cs, start)

Begin(element) == IF Modular THEN First(element) ELSE Single!Begin(params, element)

(* What ContiguousReferenceSizeGetter finds in the spans of a reference.    *)
SizesOf(element) ==
  [k \in DOMAIN params |-> (element[k][2] - element[k][1]) \div params[k].bytes]

BytesOf(element) ==
  MapThenSumSet(LAMBDA k : element[k][2] - element[k][1], Varying(params))

(* What the elements have used of varying_size_bytes.                       *)
UsedVarying == MapThenSumSet(LAMBDA i : BytesOf(elements[i]), DOMAIN elements)

(* A vector without VaryingSize parameters reserves no bytes for them.      *)
VaryingChoices == IF AllFixed(params) THEN {0} ELSE VaryingBytes

(* Storage: the bytes from the allocation's start to memory_begin().        *)
GetOffset == offset % Storage(params)

(* Faulty: the distance is one in bytes.                                    *)
Restored_Bytes == offset

(* restore_ptr gives the distance to where the allocation starts, between   *)
(* pointers to storage elements.                                            *)
Restored == offset \div Storage(params)

(* reset: the new memory, and the old distance on top of its own.           *)
Reset(new) == new + Restored

(* The elements of a vector without VaryingSize parameters, from begin on.  *)
Relocated(begin) ==
  [i \in DOMAIN elements |->
     IF Modular /\ AllFixed(params)
       THEN Placed(counts, begin + ElementSize(params, counts).stride * (i - 1))
       ELSE elements[i]]

-----------------------------------------------------------------------------
Init ==
  /\ header \in DOMAIN Lists
  /\ params \in Lists[header]
  /\ counts \in [DOMAIN params -> FixedCount \cup {1}]
  /\ \A k \in DOMAIN params :
       IF params[k].type = "fixed" THEN counts[k] \in FixedCount ELSE counts[k] = 1
  /\ max_element_count \in 0 .. MaxElements
  /\ varying_size_bytes \in VaryingChoices
  /\ memory_size =
       IF Modular
         THEN Allocated(params, NeededMemory(params, counts, max_element_count,
                                             varying_size_bytes))
         ELSE Single!Allocated(params, Single!NeededMemory(params, counts, max_element_count,
                                                           varying_size_bytes))
  /\ offset = IF Modular THEN ElementSize(params, counts).distance ELSE 0
  /\ elements = << >>

(* An element with n[k] objects of the VaryingSize parameter k.  The caller *)
(* keeps to both numbers the memory was reserved for.                       *)
EmplaceBack(n) ==
  LET element == Placed([k \in DOMAIN params |->
                           IF k \in Varying(params) THEN n[k] ELSE counts[k]], NextStart)
  IN  /\ Len(elements) < max_element_count
      /\ UsedVarying + BytesOf(element) <= varying_size_bytes
      /\ elements' = Append(elements, element)
      /\ UNCHANGED <<type, max_element_count, varying_size_bytes, memory_size, offset>>

(* The elements move to a larger allocation, with the same offset.          *)
Reserve(n, varying) ==
  /\ n > max_element_count
  /\ varying >= varying_size_bytes
  /\ max_element_count' = n
  /\ varying_size_bytes' = varying
  /\ memory_size' =
       IF Modular
         THEN Allocated(params, ReservedMemory(params, counts, n, varying, GetOffset))
         ELSE Single!Reserved(params, counts, n, varying)
  /\ offset' = Reset(GetOffset)
  /\ elements' = Relocated(offset')
  /\ UNCHANGED type

Next ==
  \/ \E n \in [Varying(params) -> VaryingCount] : EmplaceBack(n)
  \/ \E n \in 1 .. MaxElements, varying \in VaryingChoices : Reserve(n, varying)

Spec == Init /\ [][Next]_vars

-----------------------------------------------------------------------------
(* Every object starts at a multiple of the alignment AlignAs gave it, also *)
(* where the code decided at compile time not to look, and where reserve    *)
(* took the elements (the assertions in parameterTraits.hpp:78, 328, 396;   *)
(* README.md:243; storage.hpp:49-71).                                       *)
ObjectsAligned ==
  \A i \in DOMAIN elements : \A k \in DOMAIN params :
    IsAligned(elements[i][k][1], params[k].align)

(* No object reaches into the next one, of its element or the next element, *)
(* whose place was computed apart from it (elementTraits.hpp:234-299).      *)
ObjectsDisjoint ==
  \A i \in DOMAIN elements :
    /\ \A k \in DOMAIN params \ {1} : elements[i][k - 1][2] <= elements[i][k][1]
    /\ i > 1 => Past(elements[i - 1]) <= First(elements[i])

(* As many elements as the vector was made for, with no more bytes in       *)
(* VaryingSize objects than it was made for, lie within the allocation      *)
(* (elementTraits.hpp:345-363, README.md:123).                              *)
ElementsFit ==
  \A i \in DOMAIN elements : Past(elements[i]) <= memory_size

(* A ContiguousElement copies the bytes of an element to the start of an    *)
(* allocation of its own and looks for the objects from there on: they are  *)
(* where the copy put them (element.hpp:231-240).  Not so with an offset,   *)
(* which the copy leaves behind.                                            *)
CopyReadsBack ==
  ~ Modular \/ ~ HasOffset(params) =>
  \A i \in DOMAIN elements :
    LET element == elements[i]
        copy    == Placed(SizesOf(element), 0)
    IN  \A k \in DOMAIN params : copy[k][1] = element[k][1] - Begin(element)
=============================================================================
