------------------------- MODULE SingleHeaderTraits -------------------------
(***************************************************************************)
(* ElementTraits of the single header cntgs.hpp: the sizes it computes for *)
(* elements and allocations, and where it stores objects.  Parameter lists *)
(* are those of ElementTraits.  Here VaryingSize<T> brings its own size    *)
(* along, a std::size_t in front of the objects; it is the plain parameter *)
(* in front of the VaryingSize one of the list.                            *)
(*                                                                         *)
(* Only the parameters up to the first VaryingSize one are guaranteed to   *)
(* find the alignment of the allocation.                                   *)
(***************************************************************************)
EXTENDS Integers, Sequences, FiniteSets, FiniteSetsExt

Align(x, a) == ((x + a - 1) \div a) * a
AlignIf(needed, x, a) == IF needed THEN Align(x, a) ELSE x

MaxOf(x, y) == IF x < y THEN y ELSE x
MinOf(x, y) == IF x < y THEN x ELSE y

(* detail::extract_lowest_set_bit of x > 0; detail::trailing_alignment,     *)
(* where a is a power of two.                                               *)
LowestSetBit(x) == Max({b \in {2 ^ i : i \in 0 .. 8} : x % b = 0})
TrailingAlignment(x, a) == MinOf(LowestSetBit(x), a)

Varying(ps) == {k \in DOMAIN ps : ps[k].type = "varying"}
AllFixed(ps) == Varying(ps) = {}

(* LARGEST_LEADING_ALIGNMENT_UNTIL_VARYING_SIZE, of the storage element.    *)
Storage(ps) ==
  Max({ps[k].align : k \in {k \in DOMAIN ps : \A v \in Varying(ps) : k <= v}})

(* trailing_alignment<I>: the ALIGNMENT of a VaryingSize parameter is that  *)
(* of its size, whatever its objects ask for.                               *)
Trailing(ps, k) ==
  TrailingAlignment(ps[k].bytes, ps[IF k \in Varying(ps) THEN k - 1 ELSE k].align)

PreviousAlignment(ps, k) == IF k = 1 THEN Storage(ps) ELSE Trailing(ps, k - 1)

NextAlignment(ps, k) == IF k = Len(ps) THEN Storage(ps) ELSE ps[k + 1].align

First(ps, k, x) == AlignIf(PreviousAlignment(ps, k) < ps[k].align, x, ps[k].align)

-----------------------------------------------------------------------------
(* aligned_size_in_memory: of n objects that are counted, and of objects of *)
(* a VaryingSize parameter, which are not.                                  *)
PlainSize(ps, k, s, n) ==
  LET offset == First(ps, k, s.offset) + ps[k].bytes * n
      next   == NextAlignment(ps, k)
  IN  [offset |-> offset, size |-> s.size + offset - s.offset,
       padding |-> AlignIf(Trailing(ps, k) < next, offset, next) - offset]

VaryingSize(ps, k, s) ==
  LET start    == First(ps, k, s.offset)
      trailing == TrailingAlignment(ps[k].bytes, LowestSetBit(start))
  IN  [offset |-> 0,
       size |-> s.size + start - s.offset + MaxOf(NextAlignment(ps, k) - trailing, 0),
       padding |-> 0]

(* calculate_element_size                                                   *)
ElementSize(ps, cs) ==
  LET after[k \in 0 .. Len(ps)] ==
        IF k = 0 THEN [offset |-> 0, size |-> 0, padding |-> 0]
        ELSE IF k \in Varying(ps) THEN VaryingSize(ps, k, after[k - 1])
        ELSE PlainSize(ps, k, after[k - 1], cs[k])
      total == after[Len(ps)]
  IN  [size |-> total.size, stride |-> total.size + total.padding]

(* calculate_needed_memory_size                                             *)
NeededMemory(ps, cs, n, varying) ==
  LET e == ElementSize(ps, cs)
  IN  varying + e.stride * n - (IF n = 0 THEN 0 ELSE e.stride - e.size)

(* allocate_memory: whole units of the storage element.                     *)
Allocated(ps, bytes) == Align(bytes, Storage(ps))

(* grow allocates as many units as it needs bytes.                          *)
Reserved(ps, cs, n, varying) ==
  Storage(ps) * (IF AllFixed(ps) THEN varying + ElementSize(ps, cs).stride * n
                                 ELSE NeededMemory(ps, cs, n, varying))

-----------------------------------------------------------------------------
(* store and load at an address: the first byte of the objects of parameter *)
(* k and the one past them.                                                 *)
PlainPlace(ps, k, address) ==
  LET first == First(ps, k, address) IN <<first, first + ps[k].bytes>>

SpanPlace(ps, k, address, n) ==
  LET first == First(ps, k, address) IN <<first, first + ps[k].bytes * n>>

(* emplace_at and load_element_at, from the address start on.               *)
Placement(ps, cs, start) ==
  LET place[k \in 0 .. Len(ps)] ==
        IF k = 0 THEN <<start, start>>
        ELSE IF ps[k].type = "plain" THEN PlainPlace(ps, k, place[k - 1][2])
        ELSE SpanPlace(ps, k, place[k - 1][2], cs[k])
  IN  [k \in DOMAIN ps |-> place[k]]

(* align_for_first_parameter                                                *)
AlignForFirst(ps, x) == AlignIf(Trailing(ps, Len(ps)) < Storage(ps), x, Storage(ps))

(* data_begin: of a VaryingSize parameter, as far in front of the objects   *)
(* as the size is long.                                                     *)
Begin(ps, element) ==
  IF 2 \in Varying(ps) THEN element[2][1] - ps[1].bytes ELSE element[1][1]
=============================================================================
