------------------------ MODULE ElementLayoutProofs ------------------------
(***************************************************************************)
(* The places and sizes that the code computes agree, for every parameter  *)
(* list without an offset and any numbers of objects.                      *)
(***************************************************************************)
EXTENDS ElementLayout, ElementTraitsProofs

(* The headers in cntgs/, with a parameter list whose first parameter is    *)
(* aligned as strictly as any, or that has VaryingSize parameters.          *)
WithoutOffset == Modular /\ ~ HasOffset(params)

Size == ElementSize(params, counts)

(* An element is placed from a multiple of the storage's alignment on; with *)
(* strides, from the multiple that is its own.                              *)
PlacedAt(element, i) ==
  \E cs, start :
    /\ AreCounts(params, cs)
    /\ start \in Nat /\ Multiple(start, Storage(params))
    /\ element = Placement(params, cs, start)
    /\ AllFixed(params) => cs = counts /\ start = Size.stride * (i - 1)

Elements == {Placement(params, cs, start) : cs \in [DOMAIN params -> Nat], start \in Nat}

LayoutTypes ==
  /\ header \in DOMAIN Lists /\ params \in Lists[header]
  /\ AreCounts(params, counts)
  /\ max_element_count \in Nat
  /\ AllFixed(params) => varying_size_bytes = 0
  /\ offset = 0
  /\ elements \in Seq(Elements)

(* The memory holds all elements but the last with the padding behind them. *)
MemoryIsEnough ==
  AllFixed(params) /\ max_element_count > 0
    => memory_size \in Nat /\ Size.stride * (max_element_count - 1) + Size.size <= memory_size

ElementsInPlace ==
  /\ Len(elements) <= max_element_count
  /\ \A i \in DOMAIN elements :
       /\ PlacedAt(elements[i], i)
       /\ i > 1 => Past(elements[i - 1]) <= First(elements[i])

LayoutInv ==
  WithoutOffset => LayoutTypes /\ MemoryIsEnough /\ ElementsInPlace

-----------------------------------------------------------------------------
(* What an element is made of, and how large with strides.                  *)
LEMMA SizeFacts ==
  ASSUME WithoutOffset, IsParameterList(params), AreCounts(params, counts), AllFixed(params)
  PROVE  /\ Size.distance = 0 /\ Size.size = Past(Placement(params, counts, 0))
         /\ Size.size \in Nat /\ Size.stride \in Nat /\ Size.size <= Size.stride
         /\ Multiple(Size.stride, Storage(params))
  <1>1. Size = SizeFromFirst(params, counts)
    BY DEF Size, ElementSize, WithoutOffset
  <1>2. \A k \in DOMAIN params :
          counts[k] \in Nat /\ (params[k].type = "plain" => counts[k] = 1)
    BY DEF AreCounts
  <1> HIDE DEF Size
  <1> QED
    BY <1>1, <1>2, SizeOfFixed

(* The parameter list of the vector is one of Lists.                        *)
LEMMA ListIsTyped ==
  ASSUME LayoutTypes
  PROVE  IsParameterList(params) /\ Storage(params) \in Nat /\ Storage(params) > 0
  BY ListAssumption, StorageIsLargest DEF LayoutTypes

(* An element in place starts at a multiple of the alignment, and ends      *)
(* where the next one may start.                                            *)
LEMMA PlacedFacts ==
  ASSUME WithoutOffset, LayoutTypes, NEW element, NEW i \in Nat, i > 0, PlacedAt(element, i)
  PROVE  /\ First(element) \in Nat /\ Past(element) \in Nat
         /\ First(element) <= Past(element)
         /\ Multiple(First(element), Storage(params))
         /\ Known(Bracket(params, Len(params)), Past(element))
         /\ AllFixed(params) =>
              /\ First(element) = Size.stride * (i - 1)
              /\ Past(element) = Size.stride * (i - 1) + Size.size
              /\ element = Placement(params, counts, Size.stride * (i - 1))
  <1>1. PICK cs, start :
          /\ AreCounts(params, cs) /\ start \in Nat /\ Multiple(start, Storage(params))
          /\ element = Placement(params, cs, start)
          /\ AllFixed(params) => cs = counts /\ start = Size.stride * (i - 1)
    BY DEF PlacedAt
  <1>2. IsParameterList(params)
    BY ListIsTyped
  <1>3. /\ First(element) = start /\ Past(element) \in Nat /\ start <= Past(element)
        /\ Past(element) = Past(Placement(params, cs, 0)) + start
        /\ Known(Bracket(params, Len(params)), Past(element))
    BY <1>1, <1>2, PlacementFacts
  <1>4. ASSUME AllFixed(params)
        PROVE  /\ First(element) = Size.stride * (i - 1)
               /\ Past(element) = Size.stride * (i - 1) + Size.size
               /\ element = Placement(params, counts, Size.stride * (i - 1))
    <2>1. Size.size = Past(Placement(params, counts, 0)) /\ Size.size \in Nat
      BY <1>2, <1>4, SizeFacts DEF LayoutTypes
    <2>2. cs = counts /\ start = Size.stride * (i - 1)
      BY <1>1, <1>4
    <2>3. Past(element) = start + Size.size
      BY <1>1, <1>3, <2>1, <2>2
    <2> QED
      BY <1>1, <1>3, <2>2, <2>3
  <1> QED
    BY <1>1, <1>3, <1>4

(* emplace_back puts the next element behind the last one.                  *)
LEMMA NextStartFacts ==
  ASSUME WithoutOffset, LayoutTypes, ElementsInPlace
  PROVE  /\ NextStart \in Nat /\ Multiple(NextStart, Storage(params))
         /\ AllFixed(params) => NextStart = Size.stride * Len(elements)
         /\ elements # << >> => Past(elements[Len(elements)]) <= NextStart
  <1> DEFINE S == Storage(params)
             n == Len(elements)
             last == elements[n]
             end == IF elements = << >> THEN 0 ELSE Past(last)
             b == Bracket(params, Len(params))
             zero == 0
  <1>1. IsParameterList(params) /\ S \in Nat /\ S > 0
    BY ListIsTyped
  <1>2. n \in Nat /\ DOMAIN elements = 1 .. n /\ (elements = << >> <=> n = 0)
    BY DEF LayoutTypes
  <1>3. ASSUME elements # << >>
        PROVE  /\ Past(last) \in Nat /\ Known(b, Past(last)) /\ n > 0
               /\ AllFixed(params) => Past(last) = Size.stride * (n - 1) + Size.size
    <2>1. n \in DOMAIN elements /\ n > 0
      BY <1>2, <1>3
    <2>2. PlacedAt(last, n)
      BY <2>1 DEF ElementsInPlace
    <2> HIDE DEF n, last
    <2> QED
      BY <1>2, <2>1, <2>2, PlacedFacts
  <1>4. CASE AllFixed(params)
    <2>1. NextStart = 0 + Size.stride * n
      BY <1>4 DEF NextStart, WithoutOffset, LayoutTypes, Size
    <2>2. Size.stride \in Nat /\ Size.size <= Size.stride /\ Multiple(Size.stride, S) /\ Size.size \in Nat
      BY <1>1, <1>4, SizeFacts DEF LayoutTypes
    <2> DEFINE t == Size.stride
               s == Size.size
    <2> HIDE DEF n, S, t, s
    <2>3. t * n \in Nat /\ Multiple(t * n, S)
      BY <1>1, <1>2, <2>2, MultiplesScale DEF t
    <2>4. NextStart = t * n
      BY <2>1, <2>3 DEF t
    <2>5. ASSUME elements # << >> PROVE Past(last) <= NextStart
      <3>1. Past(last) = t * (n - 1) + s
        BY <1>3, <1>4, <2>5 DEF t, s
      <3>2. t * (n - 1) = t * n - t /\ s <= t /\ s \in Nat /\ t \in Nat
        BY <1>2, <2>2 DEF s, t
      <3> QED
        BY <2>3, <2>4, <3>1, <3>2
    <2> QED
      BY <2>3, <2>4, <2>5 DEF t, n, S
  <1>5. CASE ~ AllFixed(params)
    <2>1. NextStart = AlignIf(b.trailing < S, end, S)
      BY <1>5 DEF NextStart, WithoutOffset
    <2>2. CASE elements = << >>
      <3>1. end = zero /\ Multiple(zero, S) /\ Align(zero, S) = zero
        <4>1. Multiple(zero, S) /\ zero \in Nat
          BY <1>1, MultipleOfSelf
        <4> HIDE DEF zero, S
        <4>2. Align(zero, S) = zero
          BY <1>1, <4>1, AlignFindsNext
        <4> QED
          BY <2>2, <4>1, <4>2 DEF zero
      <3>2. NextStart = zero
        BY <2>1, <3>1 DEF AlignIf
      <3> QED
        BY <1>5, <2>2, <3>1, <3>2
    <2>3. CASE elements # << >>
      <3>1. end = Past(last) /\ end \in Nat /\ Known(b, end) /\ IsPowerOfTwo(S)
        BY <1>1, <1>3, <2>3, StorageIsPower
      <3> HIDE DEF end, b, S
      <3>2. NextStart \in Nat /\ end <= NextStart /\ Multiple(NextStart, S)
        BY <2>1, <3>1, FirstIsAligned
      <3> QED
        BY <1>5, <3>1, <3>2 DEF S
    <2> QED
      BY <2>2, <2>3
  <1> QED
    BY <1>4, <1>5

(* reserve leaves every element where it is, from memory_begin() on.        *)
LEMMA ElementsStay ==
  ASSUME WithoutOffset, LayoutTypes, ElementsInPlace
  PROVE  /\ Reset(GetOffset) = 0 /\ GetOffset = 0
         /\ Relocated(0) = elements
  <1> DEFINE S == Storage(params)
             zero == 0
  <1>1. IsParameterList(params) /\ S \in Nat /\ S > 0
    BY ListIsTyped
  <1>2. offset = 0 /\ 0 % S = 0 /\ 0 \div S = 0
    <2> HIDE DEF S
    <2>1. 0 % S = 0 /\ 0 \div S = 0
      BY <1>1
    <2> QED
      BY <2>1 DEF LayoutTypes
  <1>3. GetOffset = 0 /\ Restored = 0
    BY <1>2 DEF GetOffset, Restored
  <1>4. Reset(GetOffset) = 0
    BY <1>3 DEF Reset
  <1>5. elements = [i \in DOMAIN elements |-> elements[i]] /\ DOMAIN elements \subseteq Nat \ {0}
    BY DEF LayoutTypes
  <1>6. ASSUME AllFixed(params), NEW i \in DOMAIN elements
        PROVE  Placed(counts, zero + ElementSize(params, counts).stride * (i - 1)) = elements[i]
    <2>1. elements[i] = Placement(params, counts, Size.stride * (i - 1)) /\ i \in Nat
          /\ First(elements[i]) = Size.stride * (i - 1) /\ First(elements[i]) \in Nat
      BY <1>5, <1>6, PlacedFacts DEF ElementsInPlace
    <2>2. zero + Size.stride * (i - 1) = Size.stride * (i - 1)
      BY <2>1
    <2> QED
      BY <2>1, <2>2 DEF Placed, WithoutOffset, Size
  <1>7. Relocated(zero) = elements
    <2>1. CASE AllFixed(params)
      <3>1. Modular /\ AllFixed(params)
        BY <2>1 DEF WithoutOffset
      <3>2. Relocated(zero) = [i \in DOMAIN elements |->
              Placed(counts, zero + ElementSize(params, counts).stride * (i - 1))]
        BY <3>1 DEF Relocated
      <3> HIDE DEF zero
      <3> QED
        BY <1>5, <1>6, <2>1, <3>2
    <2>2. CASE ~ AllFixed(params)
      BY <1>5, <2>2 DEF Relocated
    <2> QED
      BY <2>1, <2>2
  <1> QED
    BY <1>3, <1>4, <1>7

(* The sizes asked for are enough for n elements, the last without padding. *)
LEMMA MemoryForElements ==
  ASSUME WithoutOffset, IsParameterList(params), AreCounts(params, counts), AllFixed(params),
         NEW n \in Nat, n > 0, NEW zero, zero = 0
  PROVE  LET needed   == Allocated(params, NeededMemory(params, counts, n, zero))
             reserved == Allocated(params, ReservedMemory(params, counts, n, zero, zero))
         IN  /\ needed \in Nat /\ Size.stride * (n - 1) + Size.size <= needed
             /\ reserved \in Nat /\ Size.stride * (n - 1) + Size.size <= reserved
  <1> DEFINE t == Size.stride
             s == Size.size
             S == Storage(params)
             all == t * n
             exact == all - (t - s)
  <1>1. Size.distance = 0 /\ t \in Nat /\ s \in Nat /\ s <= t
    BY SizeFacts
  <1>2. S \in Nat /\ S > 0
    BY StorageIsLargest
  <1>3. NeededMemory(params, counts, n, zero) = 0 + 0 + all - (t - s)
    BY <1>1 DEF NeededMemory, Size
  <1>4. ReservedMemory(params, counts, n, zero, zero) = 0 + 0 + all
    BY DEF ReservedMemory, Size
  <1> HIDE DEF t, s, S
  <1>5. all \in Nat /\ t * (n - 1) = all - t /\ t * (n - 1) \in Nat
    <2>1. t * (n - 1) = t * n - t /\ n - 1 \in Nat
      BY <1>1
    <2>2. t * (n - 1) \in Nat
      BY <1>1, <2>1
    <2> QED
      BY <1>1, <2>1, <2>2
  <1> HIDE DEF all
  <1>6. exact \in Nat /\ exact <= all /\ t * (n - 1) + s = exact /\ 0 + 0 + all - (t - s) = exact
        /\ 0 + 0 + all = all
    BY <1>1, <1>5
  <1> HIDE DEF exact
  <1>7. /\ Align(exact, S) \in Nat /\ exact <= Align(exact, S)
        /\ Align(all, S) \in Nat /\ all <= Align(all, S)
    BY <1>2, <1>5, <1>6, AlignRoundsUp
  <1>8. /\ Allocated(params, NeededMemory(params, counts, n, zero)) = Align(exact, S)
        /\ Allocated(params, ReservedMemory(params, counts, n, zero, zero)) = Align(all, S)
    BY <1>3, <1>4, <1>6 DEF Allocated, S
  <1>9. exact <= Align(exact, S) /\ exact <= Align(all, S)
    BY <1>5, <1>6, <1>7
  <1> QED
    BY <1>6, <1>7, <1>8, <1>9 DEF t, s

-----------------------------------------------------------------------------
(* The constructor allocates what its elements take.                        *)
LEMMA InitLayout ==
  ASSUME Init
  PROVE  LayoutInv
  <1> SUFFICES ASSUME WithoutOffset
               PROVE  LayoutTypes /\ MemoryIsEnough /\ ElementsInPlace
    BY DEF LayoutInv
  <1>2. IsParameterList(params) /\ header \in DOMAIN Lists /\ params \in Lists[header]
    BY ListAssumption DEF Init
  <1>3. AreCounts(params, counts)
    <2>1. counts \in [DOMAIN params -> Nat]
      <3>1. FixedCount \cup {1} \subseteq Nat
        BY CountAssumption
      <3>2. counts \in [DOMAIN params -> FixedCount \cup {1}]
        BY DEF Init
      <3> QED
        BY <3>1, <3>2
    <2> QED
      BY <2>1 DEF Init, AreCounts
  <1>4. max_element_count \in Nat
    BY CountAssumption DEF Init
  <1>5. elements = << >> /\ AllFixed(params) => varying_size_bytes = 0
    BY DEF Init, VaryingChoices
  <1>6. AllFixed(params) => varying_size_bytes = 0
    BY DEF Init, VaryingChoices
  <1>7. ElementSize(params, counts) = SizeFromFirst(params, counts)
    BY DEF ElementSize, WithoutOffset
  <1>8. offset = 0
    BY <1>7 DEF Init, WithoutOffset, SizeFromFirst
  <1>9. LayoutTypes
    BY <1>2, <1>3, <1>4, <1>6, <1>8 DEF LayoutTypes, Init
  <1>10. MemoryIsEnough
    <2> DEFINE n == max_element_count
               v == varying_size_bytes
    <2> SUFFICES ASSUME AllFixed(params), n > 0
                 PROVE  memory_size \in Nat /\ Size.stride * (n - 1) + Size.size <= memory_size
      BY DEF MemoryIsEnough
    <2>2. memory_size = Allocated(params, NeededMemory(params, counts, n, v))
      BY DEF Init, WithoutOffset
    <2>3. n \in Nat /\ v = 0
      BY <1>4, <1>6
    <2> HIDE DEF n, v
    <2> QED
      BY <1>2, <1>3, <2>2, <2>3, MemoryForElements
  <1>11. ElementsInPlace
    BY <1>4 DEF Init, ElementsInPlace
  <1> QED
    BY <1>9, <1>10, <1>11

(* emplace_back keeps the invariant: the next element starts where          *)
(* NextStart puts it.                                                       *)
LEMMA EmplaceLayout ==
  ASSUME WithoutOffset, LayoutTypes, MemoryIsEnough, ElementsInPlace,
         NEW n \in [Varying(params) -> VaryingCount], EmplaceBack(n)
  PROVE  (LayoutTypes /\ MemoryIsEnough /\ ElementsInPlace)'
  <1> DEFINE cs == [k \in DOMAIN params |-> IF k \in Varying(params) THEN n[k] ELSE counts[k]]
             start == NextStart
             element == Placement(params, cs, start)
             size == Len(elements)
  <1>1. /\ IsParameterList(params) /\ header' = header /\ params' = params /\ counts' = counts
        /\ max_element_count' = max_element_count /\ varying_size_bytes' = varying_size_bytes
        /\ memory_size' = memory_size /\ offset' = offset
        /\ size < max_element_count /\ elements' = Append(elements, element)
    BY ListIsTyped DEF EmplaceBack, type, Placed, WithoutOffset
  <1>2. AreCounts(params, cs)
    <2>1. ASSUME NEW k \in DOMAIN params
          PROVE  cs[k] \in Nat /\ (params[k].type = "plain" => cs[k] = 1)
      <3>1. counts[k] \in Nat /\ (params[k].type = "plain" => counts[k] = 1)
        BY DEF LayoutTypes, AreCounts
      <3>2. CASE k \in Varying(params)
        <4>1. n[k] \in Nat /\ params[k].type = "varying"
          BY <3>2, CountAssumption DEF Varying
        <4> QED
          BY <3>2, <4>1
      <3>3. CASE k \notin Varying(params)
        BY <3>1, <3>3
      <3> QED
        BY <3>2, <3>3
    <2>2. cs \in [DOMAIN params -> Nat]
      BY <2>1
    <2> QED
      BY <2>1, <2>2 DEF AreCounts
  <1>3. AllFixed(params) => cs = counts
    <2>1. AllFixed(params) => Varying(params) = {}
      BY DEF AllFixed, Varying
    <2>2. counts = [k \in DOMAIN params |-> counts[k]]
      BY DEF LayoutTypes, AreCounts
    <2> QED
      BY <2>1, <2>2
  <1>4. /\ start \in Nat /\ Multiple(start, Storage(params))
        /\ AllFixed(params) => start = Size.stride * size
        /\ elements # << >> => Past(elements[size]) <= start
    BY NextStartFacts
  <1>5. size \in Nat /\ DOMAIN elements = 1 .. size /\ elements \in Seq(Elements)
        /\ (size > 0 => elements # << >>) /\ max_element_count \in Nat
    BY DEF LayoutTypes
  <1>6. element \in Elements
    <2>1. cs \in [DOMAIN params -> Nat] /\ start \in Nat
      BY <1>2, <1>4 DEF AreCounts
    <2> HIDE DEF cs, start
    <2> QED
      BY <2>1 DEF Elements
  <1>7. First(element) = start
    <2> HIDE DEF cs, start
    <2> QED
      BY <1>1, <1>2, <1>4, PlacementFacts
  <1>8. PlacedAt(element, size + 1)
    <2>1. AllFixed(params) => start = Size.stride * ((size + 1) - 1)
      BY <1>4, <1>5
    <2> HIDE DEF cs, start, size
    <2> QED
      BY <1>2, <1>3, <1>4, <2>1 DEF PlacedAt
  <1> HIDE DEF element, start, cs
  <1>9. LayoutTypes'
    <2>1. elements' \in Seq(Elements)
      BY <1>1, <1>5, <1>6
    <2>2. Elements' = Elements
      BY <1>1 DEF Elements
    <2> QED
      BY <1>1, <2>1, <2>2 DEF LayoutTypes
  <1>10. MemoryIsEnough'
    BY <1>1 DEF MemoryIsEnough, Size
  <1>11. ElementsInPlace'
    <2>1. Len(elements') = size + 1 /\ DOMAIN elements' = 1 .. size + 1
          /\ elements'[size + 1] = element /\ \A i \in 1 .. size : elements'[i] = elements[i]
      BY <1>1, <1>5
    <2>2. \A e, i : PlacedAt(e, i)' <=> PlacedAt(e, i)
      BY <1>1 DEF PlacedAt, Size
    <2>3. ASSUME NEW i \in 1 .. size + 1
          PROVE  PlacedAt(elements'[i], i) /\ (i > 1 => Past(elements'[i - 1]) <= First(elements'[i]))
      <3>1. CASE i \in 1 .. size
        <4>1. elements'[i] = elements[i] /\ (i > 1 => elements'[i - 1] = elements[i - 1])
          BY <1>5, <2>1, <3>1
        <4> QED
          BY <1>5, <3>1, <4>1 DEF ElementsInPlace
      <3>2. CASE i = size + 1
        <4>1. i > 1 => i - 1 = size /\ size \in 1 .. size /\ elements # << >>
          BY <1>5, <3>2
        <4>2. i > 1 => elements'[i - 1] = elements[size]
          BY <2>1, <4>1
        <4> HIDE DEF size
        <4> QED
          BY <1>4, <1>7, <1>8, <2>1, <3>2, <4>1, <4>2
      <3> QED
        BY <1>5, <3>1, <3>2
    <2>4. Len(elements') <= max_element_count'
      BY <1>1, <1>5, <2>1
    <2> HIDE DEF size
    <2>5. ASSUME NEW i \in DOMAIN elements'
          PROVE  PlacedAt(elements[i], i)' /\ (i > 1 => Past(elements'[i - 1]) <= First(elements'[i]))
      <3>1. i \in 1 .. size + 1 /\ i' = i
        BY <2>1
      <3>2. PlacedAt(elements'[i], i)
        BY <2>3, <3>1
      <3>3. PlacedAt(elements[i], i)'
        BY <1>1, <3>2 DEF PlacedAt, Size
      <3> QED
        BY <2>3, <3>1, <3>3
    <2> QED
      BY <2>4, <2>5 DEF ElementsInPlace
  <1> QED
    BY <1>9, <1>10, <1>11

(* reserve keeps the invariant: the elements stay, the memory grows.        *)
LEMMA ReserveLayout ==
  ASSUME WithoutOffset, LayoutTypes, MemoryIsEnough, ElementsInPlace,
         NEW n \in 1 .. MaxElements, NEW varying \in VaryingChoices, Reserve(n, varying)
  PROVE  (LayoutTypes /\ MemoryIsEnough /\ ElementsInPlace)'
  <1>1. /\ IsParameterList(params) /\ header' = header /\ params' = params /\ counts' = counts
        /\ n > max_element_count /\ max_element_count' = n /\ varying_size_bytes' = varying
        /\ memory_size' = Allocated(params, ReservedMemory(params, counts, n, varying, GetOffset))
    BY ListIsTyped DEF Reserve, type, WithoutOffset
  <1>2. offset' = 0 /\ elements' = elements /\ GetOffset = 0
    <2>1. offset' = Reset(GetOffset) /\ elements' = Relocated(offset')
      BY DEF Reserve
    <2> QED
      BY <2>1, ElementsStay
  <1>3. n \in Nat /\ n > 0 /\ (AllFixed(params) => varying = 0)
    BY CountAssumption DEF VaryingChoices
  <1>4. LayoutTypes'
    BY <1>1, <1>2, <1>3 DEF LayoutTypes, Elements
  <1>5. MemoryIsEnough'
    <2>1. AllFixed(params) => /\ memory_size' \in Nat
                              /\ Size.stride * (n - 1) + Size.size <= memory_size'
      <3>1. SUFFICES ASSUME AllFixed(params)
                     PROVE  /\ memory_size' \in Nat
                            /\ Size.stride * (n - 1) + Size.size <= memory_size'
        OBVIOUS
      <3>2. varying = 0 /\ GetOffset = varying /\ AreCounts(params, counts)
        BY <1>2, <1>3, <3>1 DEF LayoutTypes
      <3> QED
        BY <1>1, <1>3, <3>1, <3>2, MemoryForElements
    <2> QED
      BY <1>1, <2>1 DEF MemoryIsEnough, Size
  <1>6. ElementsInPlace'
    <2>1. Len(elements) <= n
      <3>1. Len(elements) \in Nat /\ max_element_count \in Nat
        BY DEF LayoutTypes
      <3> QED
        BY <1>1, <1>3, <3>1 DEF ElementsInPlace
    <2>2. ASSUME NEW i \in DOMAIN elements PROVE PlacedAt(elements[i], i)'
      BY <1>1, <1>2 DEF ElementsInPlace, PlacedAt, Size
    <2> QED
      BY <1>1, <1>2, <2>1, <2>2 DEF ElementsInPlace
  <1> QED
    BY <1>4, <1>5, <1>6

(* Every step keeps the invariant.                                          *)
LEMMA NextLayout ==
  ASSUME LayoutInv, [Next]_vars
  PROVE  LayoutInv'
  <1>1. WithoutOffset' => WithoutOffset
    BY DEF Next, EmplaceBack, Reserve, vars, type, WithoutOffset, Modular
  <1>2. SUFFICES ASSUME WithoutOffset, LayoutTypes, MemoryIsEnough, ElementsInPlace
                 PROVE  (LayoutTypes /\ MemoryIsEnough /\ ElementsInPlace)'
    BY <1>1 DEF LayoutInv
  <1>3. CASE \E n \in [Varying(params) -> VaryingCount] : EmplaceBack(n)
    BY <1>2, <1>3, EmplaceLayout
  <1>4. CASE \E n \in 1 .. MaxElements, varying \in VaryingChoices : Reserve(n, varying)
    BY <1>2, <1>4, ReserveLayout
  <1>5. CASE UNCHANGED vars
    BY <1>2, <1>5 DEF vars, type, LayoutTypes, MemoryIsEnough, ElementsInPlace, PlacedAt, Size,
                      Elements
  <1> QED
    BY <1>3, <1>4, <1>5 DEF Next

(* Every element lies where the sizes and alignments of its list put it.    *)
THEOREM LayoutHolds == Spec => []LayoutInv
  <1>1. Init => LayoutInv
    BY InitLayout
  <1>2. LayoutInv /\ [Next]_vars => LayoutInv'
    BY NextLayout
  <1> QED
    BY <1>1, <1>2, PTL DEF Spec

-----------------------------------------------------------------------------
(* What the properties say of one element.                                  *)
LEMMA PropertiesHold ==
  ASSUME LayoutInv
  PROVE  /\ WithoutOffset => ObjectsAligned
         /\ WithoutOffset => ObjectsDisjoint
         /\ Modular => CopyReadsBack
         /\ WithoutOffset /\ AllFixed(params) => ElementsFit
  <1> SUFFICES ASSUME WithoutOffset
               PROVE  /\ ObjectsAligned /\ ObjectsDisjoint /\ CopyReadsBack
                      /\ AllFixed(params) => ElementsFit
    BY DEF WithoutOffset, CopyReadsBack
  <1>1. /\ LayoutTypes /\ MemoryIsEnough /\ ElementsInPlace /\ IsParameterList(params)
        /\ \A i \in DOMAIN elements : i \in Nat /\ i > 0
    <2>1. LayoutTypes /\ MemoryIsEnough /\ ElementsInPlace
      BY DEF LayoutInv
    <2> QED
      BY <2>1, ListIsTyped DEF LayoutTypes
  <1>2. ASSUME NEW i \in DOMAIN elements
        PROVE  /\ \A k \in DOMAIN params :
                    /\ IsAligned(elements[i][k][1], params[k].align)
                    /\ k # 1 => elements[i][k - 1][2] <= elements[i][k][1]
                    /\ Placed(SizesOf(elements[i]), 0)[k][1]
                         = elements[i][k][1] - Begin(elements[i])
    <2> DEFINE p == elements[i]
               zero == 0
    <2>1. PICK cs, start :
            /\ AreCounts(params, cs) /\ start \in Nat /\ Multiple(start, Storage(params))
            /\ p = Placement(params, cs, start)
      BY <1>1 DEF ElementsInPlace, PlacedAt
    <2> HIDE DEF p
    <2>2. /\ First(p) = start
          /\ \A k \in DOMAIN params :
               /\ IsAligned(p[k][1], params[k].align)
               /\ k # 1 => p[k - 1][2] <= p[k][1]
               /\ (p[k][2] - p[k][1]) \div params[k].bytes = cs[k]
               /\ Placement(params, cs, 0)[k][1] = p[k][1] - start
      BY <1>1, <2>1, PlacementFacts
    <2>3. SizesOf(p) = cs
      <3>1. cs = [k \in DOMAIN params |-> cs[k]]
        BY <2>1 DEF AreCounts
      <3> QED
        BY <2>2, <3>1 DEF SizesOf
    <2>4. Placed(SizesOf(p), 0) = Placement(params, cs, 0) /\ Begin(p) = First(p)
      BY <2>3 DEF Placed, Begin, WithoutOffset
    <2>5. \A k \in DOMAIN params :
            /\ IsAligned(p[k][1], params[k].align)
            /\ k # 1 => p[k - 1][2] <= p[k][1]
            /\ Placed(SizesOf(p), 0)[k][1] = p[k][1] - Begin(p)
      BY <2>2, <2>4
    <2> QED
      BY <2>5 DEF p
  <1>3. ObjectsAligned
    BY <1>2 DEF ObjectsAligned
  <1>4. ObjectsDisjoint
    BY <1>1, <1>2 DEF ObjectsDisjoint, ElementsInPlace
  <1>5. CopyReadsBack
    BY <1>2 DEF CopyReadsBack
  <1>6. ASSUME AllFixed(params), NEW i \in DOMAIN elements
        PROVE  Past(elements[i]) <= memory_size
    <2> DEFINE t == Size.stride
               s == Size.size
               n == max_element_count
    <2>1. Past(elements[i]) = t * (i - 1) + s
      BY <1>1, <1>6, PlacedFacts DEF ElementsInPlace
    <2>2. t \in Nat /\ s \in Nat
      BY <1>1, <1>6, SizeFacts DEF LayoutTypes
    <2>3. i \in Nat /\ i > 0 /\ i <= n /\ n \in Nat
      BY <1>1 DEF LayoutTypes, ElementsInPlace
    <2>4. memory_size \in Nat /\ t * (n - 1) + s <= memory_size
      BY <1>1, <1>6, <2>3 DEF MemoryIsEnough
    <2> HIDE DEF t, s, n
    <2>5. t * (n - 1) = t * (i - 1) + t * (n - i) /\ t * (n - i) \in Nat /\ t * (i - 1) \in Nat
      <3>1. n - i \in Nat /\ i - 1 \in Nat /\ n - 1 = (i - 1) + (n - i)
        BY <2>3
      <3> DEFINE a == i - 1
                 b == n - i
      <3> HIDE DEF a, b
      <3>2. t * (a + b) = t * a + t * b /\ t * a \in Nat /\ t * b \in Nat
        BY <2>2, <3>1 DEF a, b
      <3> QED
        BY <3>1, <3>2 DEF a, b
    <2> QED
      BY <2>1, <2>2, <2>4, <2>5
  <1> QED
    BY <1>3, <1>4, <1>5, <1>6 DEF ElementsFit

(* Every object starts at a multiple of its alignment, also where           *)
(* trailing_alignment told the code not to look, at every reallocation.     *)
THEOREM ObjectsStayAligned == Spec => [](WithoutOffset => ObjectsAligned)
  <1>1. LayoutInv => (WithoutOffset => ObjectsAligned)
    BY PropertiesHold
  <1> QED
    BY <1>1, LayoutHolds, PTL

(* No object reaches into the next one, of its element or of another.       *)
THEOREM ObjectsStayApart == Spec => [](WithoutOffset => ObjectsDisjoint)
  <1>1. LayoutInv => (WithoutOffset => ObjectsDisjoint)
    BY PropertiesHold
  <1> QED
    BY <1>1, LayoutHolds, PTL

(* The copy that a ContiguousElement makes of the bytes of an element has   *)
(* its objects where the element looks for them, with every parameter list  *)
(* without an offset.                                                       *)
THEOREM CopiesReadBack == Spec => [](Modular => CopyReadsBack)
  <1>1. LayoutInv => (Modular => CopyReadsBack)
    BY PropertiesHold
  <1> QED
    BY <1>1, LayoutHolds, PTL

(* The allocation holds every element of a vector without VaryingSize       *)
(* parameters.                                                              *)
THEOREM FixedElementsFit == Spec => [](WithoutOffset /\ AllFixed(params) => ElementsFit)
  <1>1. LayoutInv => (WithoutOffset /\ AllFixed(params) => ElementsFit)
    BY PropertiesHold
  <1> QED
    BY <1>1, LayoutHolds, PTL
=============================================================================
