--------------------------- MODULE ElementTraits ---------------------------
(***************************************************************************)
(* ElementTraits and ParameterTraits, as far as they compute with sizes    *)
(* and addresses.  A parameter list is a sequence of records: the type of  *)
(* the parameter (PLAIN, FIXED_SIZE or VARYING_SIZE), the alignment        *)
(* AlignAs asks for (1 without it) and the bytes of one object.  Every     *)
(* VaryingSize parameter follows a plain one that holds its size.          *)
(*                                                                         *)
(* Addresses count from the start of the allocation, which is aligned to   *)
(* STORAGE_ELEMENT_ALIGNMENT by its type, Aligned<...>.                    *)
(***************************************************************************)
EXTENDS Integers, Sequences, FiniteSets, FiniteSetsExt

Types == {"plain", "fixed", "varying"}

(* Aligned takes powers of two, which no odd number but 1 divides.          *)
IsPowerOfTwo(a) == a \in Nat \ {0} /\ \A d \in 2 .. a : a % d = 0 => d % 2 = 0

(* The parameters of a vector: a VaryingSize one follows the one that holds *)
(* its size.                                                                *)
IsParameterList(ps) ==
  /\ ps \in Seq({ps[k] : k \in DOMAIN ps}) /\ Len(ps) > 0
  /\ \A k \in DOMAIN ps :
       /\ ps[k].type \in Types
       /\ IsPowerOfTwo(ps[k].align) /\ ps[k].bytes \in Nat \ {0}
       /\ ps[k].type = "varying" => k > 1 /\ ps[k - 1].type = "plain"

(* detail::align, also with an alignment of 0; detail::align_if.            *)
Align(x, a) == IF a = 0 THEN 0 ELSE ((x + a - 1) \div a) * a
AlignIf(needed, x, a) == IF needed THEN Align(x, a) ELSE x

IsAligned(x, a) == x % a = 0    \* detail::is_aligned

(* detail::trailing_alignment: the largest power of two, up to a, that      *)
(* divides x; alignments are powers of two.                                 *)
TrailingAlignment(x, a) ==
  IF x = 0 \/ a = 0 THEN 0
  ELSE Max({b \in 1 .. a : a % b = 0 /\ x % b = 0})

Varying(ps) == {k \in DOMAIN ps : ps[k].type = "varying"}

MaxOf(x, y) == IF x < y THEN y ELSE x

AllFixed(ps) == \A k \in DOMAIN ps : ps[k].type # "varying"

(* LARGEST_ALIGNMENT_BETWEEN_VARYING_SIZES: of the parameters around k, up  *)
(* to and including the next VaryingSize one.                               *)
LargestAlignment(ps, k) ==
  LET between(i, j) == {v \in i .. j - 1 : ps[v].type = "varying"}
  IN  Max({ps[j].align : j \in {j \in DOMAIN ps :
             IF j < k THEN between(j, k) = {} ELSE between(k, j) = {}}})

(* STORAGE_ELEMENT_ALIGNMENT                                                *)
Storage(ps) == Max({ps[k].align : k \in DOMAIN ps})

(* INDEX_OF_PARAMETER_WITH_LARGEST_ALIGNMENT, from 1; the first such one.   *)
LargestIndex(ps) ==
  IF AllFixed(ps) THEN Min({k \in DOMAIN ps : ps[k].align = Storage(ps)}) ELSE 1

HasOffset(ps) == LargestIndex(ps) # 1    \* FIRST_ELEMENT_HAS_OFFSET

NextAlignment(ps, k) ==
  IF k = Len(ps) THEN Storage(ps) ELSE LargestAlignment(ps, k + 1)

-----------------------------------------------------------------------------
(* ParameterTraits::trailing_alignment.  The offset counts from the last    *)
(* place the alignment is known of.                                         *)
PlainTrailing(p, b) ==
  LET offset    == IF b.alignment < p.align THEN p.bytes
                   ELSE Align(b.offset, p.align) + p.bytes
      alignment == MaxOf(b.alignment, p.align)
  IN  [offset |-> offset, alignment |-> alignment,
       trailing |-> TrailingAlignment(offset, alignment)]

(* Faulty: the size of an object is taken for its alignment.                *)
SpanTrailing_Bytes(p, b) ==
  [offset |-> 0, alignment |-> p.bytes, trailing |-> p.bytes]

SpanTrailing(p, b) ==
  LET start    == Align(b.offset, p.align)
      leading  == MaxOf(p.align, TrailingAlignment(start, MaxOf(b.alignment, p.align)))
      trailing == TrailingAlignment(p.bytes, leading)
  IN  [offset |-> 0, alignment |-> trailing, trailing |-> trailing]

(* calculate_trailing_alignments: what is known after the first k.          *)
Bracket(ps, k) ==
  LET bracket[i \in 0 .. Len(ps)] ==
        IF i = 0 THEN [offset |-> 0, alignment |-> Storage(ps), trailing |-> Storage(ps)]
        ELSE IF ps[i].type = "plain" THEN PlainTrailing(ps[i], bracket[i - 1])
        ELSE SpanTrailing(ps[i], bracket[i - 1])
  IN  bracket[k]

PreviousTrailing(ps, k) == Bracket(ps, k - 1).trailing

-----------------------------------------------------------------------------
(* Where parameter k starts if the one in front of it ends at address.      *)
FirstByte(ps, k, address) ==
  AlignIf(PreviousTrailing(ps, k) < ps[k].align, address, ps[k].align)

(* aligned_size_in_memory: where a parameter starts, seen from the offset.  *)
AlignedOffset(ps, k, s) ==
  IF s.alignment < ps[k].align
    THEN Align(s.offset, s.alignment) + ps[k].align - s.alignment
    ELSE FirstByte(ps, k, s.offset)

PlainSize(ps, k, s, bytes) ==
  LET start  == AlignedOffset(ps, k, s)
      offset == IF s.alignment < ps[k].align THEN bytes ELSE start + bytes
      next   == NextAlignment(ps, k)
      needed == TrailingAlignment(ps[k].bytes, ps[k].align) < next
  IN  [offset |-> offset, size |-> s.size + (start - s.offset) + bytes,
       padding |-> AlignIf(needed, offset, next) - offset,
       alignment |-> MaxOf(s.alignment, ps[k].align)]

(* The objects of a VaryingSize parameter are not counted here.             *)
VaryingSize(ps, k, s) ==
  LET start    == AlignedOffset(ps, k, s)
      trailing == TrailingAlignment(ps[k].bytes, TrailingAlignment(start, s.alignment))
  IN  [offset |-> 0, size |-> s.size + (start - s.offset),
       padding |-> MaxOf(NextAlignment(ps, k) - trailing, 0), alignment |-> trailing]

(* calculate_element_size_impl                                              *)
SizeFromFirst(ps, cs) ==
  LET after[k \in 0 .. Len(ps)] ==
        IF k = 0 THEN [offset |-> 0, size |-> 0, padding |-> 0, alignment |-> Storage(ps)]
        ELSE IF ps[k].type = "varying" THEN VaryingSize(ps, k, after[k - 1])
        ELSE PlainSize(ps, k, after[k - 1], ps[k].bytes * cs[k])
      total == after[Len(ps)]
  IN  [size |-> total.size, stride |-> total.size + total.padding, distance |-> 0]

(* SizeGetter::get_fixed_size at k, for a parameter that is not FixedSize   *)
(* too: FIXED_SIZE_INDICES holds 0 for it, the first of the fixed sizes.    *)
FixedSizeAt(ps, cs, k) ==
  LET fixed == {j \in DOMAIN ps : ps[j].type = "fixed"}
  IN  IF k \in fixed THEN cs[k] ELSE IF fixed = {} THEN 0 ELSE cs[Min(fixed)]

(* forward_size_in_memory and backward_size_in_memory of n objects.         *)
Forward(p, offset, n) == Align(offset, p.align) + p.bytes * n
Backward(p, offset, n) == offset + p.bytes * n

(* calculate_element_size_all_fixed_size: the parameter with the largest    *)
(* alignment starts a storage unit, those before it end where it starts.    *)
SizeAroundLargest(ps, cs) ==
  LET n       == Len(ps)
      largest == LargestIndex(ps)
      asked(k) == ((largest + k - 2) % n) + 1
      before[k \in 0 .. n] ==
        IF k = 0 THEN 0
        ELSE Backward(ps[k], before[k - 1],
                      IF ps[k].type = "plain" THEN 1 ELSE FixedSizeAt(ps, cs, asked(k)))
      behind[k \in 0 .. n] ==
        IF k < largest THEN 0 ELSE Forward(ps[k], behind[k - 1], cs[k])
      backward == before[largest - 1]
      size     == backward + behind[n]
      distance == Align(backward, Storage(ps)) - backward
      leftover == (distance + size) % Storage(ps)
      padding  == IF leftover > distance THEN Storage(ps) - leftover + distance
                                         ELSE distance - leftover
  IN  [size |-> size, stride |-> size + padding, distance |-> distance]

ElementSize(ps, cs) ==
  IF HasOffset(ps) THEN SizeAroundLargest(ps, cs) ELSE SizeFromFirst(ps, cs)

(* calculate_needed_memory_size, and below it what reserve asks for.        *)
NeededMemory(ps, cs, n, varying) ==
  LET e == ElementSize(ps, cs)
  IN  e.distance + varying + e.stride * n - (IF n = 0 THEN 0 ELSE e.stride - e.size)

ReservedMemory(ps, cs, n, varying, distance) ==
  IF AllFixed(ps) THEN distance + varying + ElementSize(ps, cs).stride * n
                  ELSE NeededMemory(ps, cs, n, varying)

(* allocate_memory: whole units of the storage element.                     *)
Allocated(ps, bytes) == Align(bytes, Storage(ps))

-----------------------------------------------------------------------------
(* The first byte of the objects of a parameter and the one past them.      *)
Extent(first, bytes) == <<first, first + bytes>>

(* store and load of ParameterTraits, at an address.                        *)
PlainPlace(ps, k, address) == Extent(FirstByte(ps, k, address), ps[k].bytes)

(* Faulty: a FixedSize or VaryingSize parameter is left after one object.   *)
SpanPlace_OneObject(ps, k, address, n) == PlainPlace(ps, k, address)

SpanPlace(ps, k, address, n) == Extent(FirstByte(ps, k, address), ps[k].bytes * n)

(* emplace_at and load_element_at, from the address start on.               *)
Placement(ps, cs, start) ==
  LET place[k \in 0 .. Len(ps)] ==
        IF k = 0 THEN <<start, start>>
        ELSE IF ps[k].type = "plain" THEN PlainPlace(ps, k, place[k - 1][2])
        ELSE SpanPlace(ps, k, place[k - 1][2], cs[k])
  IN  [k \in DOMAIN ps |-> place[k]]

First(element) == element[1][1]        \* data_begin
Past(element)  == element[Len(element)][2]   \* data_end
=============================================================================
