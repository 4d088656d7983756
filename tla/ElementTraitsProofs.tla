------------------------ MODULE ElementTraitsProofs ------------------------
(***************************************************************************)
(* What ElementTraits computes over a parameter list of any length.        *)
(*                                                                         *)
(* Its computations are functions defined by recursion over the list.      *)
(* That there is such a function (PlacementIsFunction, BracketIsFunction,  *)
(* RecursionExists), and what is true of all its values, follows by        *)
(* induction.  The induction is on sets of numbers (Induction) and comes   *)
(* from the theorem that inclusion is well-founded on finite sets.         *)
(*                                                                         *)
(*   PlacesInOrder   objects lie one after the other;                      *)
(*   PlacesAligned   at addresses that are multiples of their alignments,  *)
(*                   also where a bracket says that no check is needed     *)
(*                   (Known);                                              *)
(*   PlacesShift     the same distances from any aligned start;            *)
(*   SizeOfFixed     the size is where such an element ends, and the       *)
(*                   stride keeps the next one aligned.                    *)
(***************************************************************************)
EXTENDS ElementTraits, FiniteSetTheorems, TLAPS

(* A set of natural numbers has a least element: the intervals below its    *)
(* elements are finite sets, so one of them includes no other.              *)
LEMMA LeastElement ==
  ASSUME NEW T, T \subseteq Nat, T # {}
  PROVE  \E n \in T : \A m \in T : n <= m
  <1> DEFINE R == StrictSubsetOrdering(Nat)
             U == {0 .. n - 1 : n \in T}
  <1>1. IsWellFoundedOn(R, FiniteSubsetsOf(Nat))
    BY FS_StrictSubsetOrderingWellFounded
  <1>2. U # {} /\ U \subseteq FiniteSubsetsOf(Nat)
    <2>1. ASSUME NEW n \in T PROVE 0 .. n - 1 \in FiniteSubsetsOf(Nat)
      <3>1. n - 1 \in Int /\ 0 .. n - 1 \subseteq Nat
        OBVIOUS
      <3> QED
        BY <3>1, FS_Interval DEF FiniteSubsetsOf
    <2> QED
      BY <2>1
  <1> HIDE DEF R, U
  <1>3. PICK x \in U : \A y \in U : ~ (<<y, x>> \in R)
    BY <1>1, <1>2, WFMin, Zenon
  <1>4. PICK n \in T : x = 0 .. n - 1
    BY DEF U
  <1>5. ASSUME NEW m \in T, m < n PROVE FALSE
    <2>1. 0 .. m - 1 \in U
      BY DEF U
    <2>2. <<0 .. m - 1, x>> \in R
      <3>1. m \in 0 .. n - 1 /\ m \notin 0 .. m - 1
        BY <1>5
      <3>2. 0 .. m - 1 \subseteq 0 .. n - 1 /\ 0 .. n - 1 \subseteq Nat
        BY <1>5
      <3> QED
        BY <3>1, <3>2, <1>4 DEF R, StrictSubsetOrdering
    <2> QED
      BY <1>3, <2>1, <2>2
  <1> QED
    BY <1>5

(* Induction up to N, for the numbers in T.                                 *)
LEMMA Induction ==
  ASSUME NEW N \in Nat, NEW T, T \subseteq 0 .. N, 0 \in T,
         \A n \in T : n < N => n + 1 \in T
  PROVE  T = 0 .. N
  <1> DEFINE U == {n \in 0 .. N : n \notin T}
  <1>1. SUFFICES ASSUME U # {} PROVE FALSE
    OBVIOUS
  <1>2. U \subseteq Nat
    OBVIOUS
  <1> HIDE DEF U
  <1>3. PICK n \in U : \A m \in U : n <= m
    BY <1>1, <1>2, LeastElement
  <1>4. n # 0 /\ n \in 1 .. N /\ n - 1 \in 0 .. N
    BY <1>3 DEF U
  <1>5. n - 1 \notin U
    BY <1>3, <1>4
  <1> QED
    BY <1>3, <1>4, <1>5 DEF U

(* A bounded set of numbers has a greatest element, which Max chooses.       *)
LEMMA GreatestElement ==
  ASSUME NEW N \in Nat, NEW S, S \subseteq 0 .. N, S # {}
  PROVE  Max(S) \in S /\ \A y \in S : Max(S) >= y
  <1> DEFINE T == {c \in 0 .. N : N - c \in S}
  <1>1. ASSUME NEW b \in S PROVE N - b \in T
    <2>1. N - b \in 0 .. N /\ N - (N - b) = b
      OBVIOUS
    <2> QED
      BY <2>1
  <1>2. T \subseteq 0 .. N
    OBVIOUS
  <1>3. \A c \in T : N - c \in S /\ c \in 0 .. N
    OBVIOUS
  <1> HIDE DEF T
  <1> PICK b \in S : TRUE
    OBVIOUS
  <1>0. T \subseteq Nat /\ T # {}
    BY <1>1, <1>2
  <1>4. PICK c \in T : \A d \in T : c <= d
    BY <1>0, LeastElement
  <1> DEFINE m == N - c
  <1>5. m \in S /\ \A y \in S : m >= y
    BY <1>1, <1>3, <1>4
  <1> HIDE DEF m
  <1> QED
    BY <1>5 DEF Max

-----------------------------------------------------------------------------
(* The places of parameters 1 to n of ps, one behind the other from start.  *)
Place(ps, cs, k, address) ==
  IF ps[k].type = "plain" THEN PlainPlace(ps, k, address)
                          ELSE SpanPlace(ps, k, address, cs[k])

ArePlaces(ps, cs, start, n, f) ==
  f = [k \in 0 .. n |-> IF k = 0 THEN <<start, start>> ELSE Place(ps, cs, k, f[k - 1][2])]

(* There are such places, by induction on their number.                     *)
LEMMA PlacesExist ==
  ASSUME NEW ps, NEW cs, NEW start, NEW N \in Nat
  PROVE  \E f : ArePlaces(ps, cs, start, N, f)
  <1> DEFINE T == {n \in 0 .. N : \E f : ArePlaces(ps, cs, start, n, f)}
  <1>1. 0 \in T
    <2> DEFINE f == [k \in 0 .. 0 |-> <<start, start>>]
    <2>1. ArePlaces(ps, cs, start, 0, f)
      BY DEF ArePlaces
    <2> QED
      BY <2>1
  <1>2. ASSUME NEW n \in T, n < N PROVE n + 1 \in T
    <2>1. PICK f : ArePlaces(ps, cs, start, n, f)
      OBVIOUS
    <2>2. f[0] = <<start, start>> /\ \A k \in 1 .. n : f[k] = Place(ps, cs, k, f[k - 1][2])
      BY <2>1 DEF ArePlaces
    <2> DEFINE g == [k \in 0 .. n + 1 |->
                       IF k = n + 1 THEN Place(ps, cs, k, f[n][2]) ELSE f[k]]
    <2>3. \A k \in 0 .. n : g[k] = f[k]
      OBVIOUS
    <2>4. ASSUME NEW k \in 1 .. n + 1 PROVE g[k] = Place(ps, cs, k, g[k - 1][2])
      <3>1. k - 1 \in 0 .. n
        OBVIOUS
      <3> QED
        BY <3>1, <2>2, <2>3
    <2>5. g[0] = <<start, start>> /\ DOMAIN g = 0 .. n + 1 /\ g = [k \in DOMAIN g |-> g[k]]
      BY <2>2, <2>3
    <2> HIDE DEF g
    <2>6. ArePlaces(ps, cs, start, n + 1, g)
      BY <2>4, <2>5 DEF ArePlaces
    <2> QED
      BY <1>2, <2>6
  <1> HIDE DEF T
  <1>3. T = 0 .. N
    BY <1>1, <1>2, Induction DEF T
  <1> QED
    BY <1>3 DEF T

(* What the recursive function in Placement is.                             *)
LEMMA PlacementIsFunction ==
  ASSUME NEW ps, NEW cs, NEW start, Len(ps) \in Nat
  PROVE  \E f : /\ ArePlaces(ps, cs, start, Len(ps), f)
                /\ Placement(ps, cs, start) = [k \in DOMAIN ps |-> f[k]]
  <1> DEFINE f == CHOOSE g : ArePlaces(ps, cs, start, Len(ps), g)
  <1>1. ArePlaces(ps, cs, start, Len(ps), f)
    BY PlacesExist
  <1>2. Placement(ps, cs, start) = [k \in DOMAIN ps |-> f[k]]
    BY DEF Placement, ArePlaces, Place
  <1> QED
    BY <1>1, <1>2

-----------------------------------------------------------------------------
(* The parameters are those of a list, and how many objects of each.        *)
LEMMA ListFacts ==
  ASSUME NEW ps, IsParameterList(ps)
  PROVE  /\ Len(ps) \in Nat /\ Len(ps) > 0 /\ DOMAIN ps = 1 .. Len(ps)
         /\ \A k \in 1 .. Len(ps) : /\ ps[k].align \in Nat /\ ps[k].align > 0
                                    /\ ps[k].bytes \in Nat /\ ps[k].bytes > 0
  BY DEF IsParameterList, IsPowerOfTwo

(* STORAGE_ELEMENT_ALIGNMENT is the alignment of a parameter, the largest.  *)
LEMMA StorageIsLargest ==
  ASSUME NEW ps, IsParameterList(ps)
  PROVE  /\ Storage(ps) \in Nat /\ Storage(ps) > 0
         /\ \A k \in DOMAIN ps : ps[k].align <= Storage(ps)
         /\ \E k \in DOMAIN ps : ps[k].align = Storage(ps)
  <1> DEFINE N == Len(ps)
             Best(m, n) == m \in 1 .. n /\ \A k \in 1 .. n : ps[k].align <= ps[m].align
             T == {n \in 0 .. N : n > 0 => \E m \in 1 .. n : Best(m, n)}
  <1>1. /\ N \in Nat /\ N > 0 /\ DOMAIN ps = 1 .. N
        /\ \A k \in 1 .. N : ps[k].align \in Nat /\ ps[k].align > 0
    BY ListFacts
  <1> HIDE DEF N
  <1>2. 0 \in T
    BY <1>1
  <1>3. ASSUME NEW n \in T, n < N PROVE n + 1 \in T
    <2>1. n \in Nat /\ n + 1 \in 1 .. N /\ n + 1 \in 1 .. n + 1 /\ 1 .. n \subseteq 1 .. N
          /\ 1 .. n + 1 = (1 .. n) \cup {n + 1}
      BY <1>1, <1>3
    <2>2. CASE n = 0
      <3>1. Best(1, n + 1)
        BY <2>1, <2>2, <1>1
      <3> QED
        BY <2>1, <2>2, <3>1
    <2>3. CASE n # 0
      <3>1. PICK m \in 1 .. n : Best(m, n)
        BY <2>1, <2>3
      <3>2. m \in 1 .. N /\ m \in 1 .. n + 1
        BY <2>1
      <3>3. CASE ps[n + 1].align <= ps[m].align
        <4>1. Best(m, n + 1)
          BY <2>1, <3>1, <3>2, <3>3
        <4> QED
          BY <2>1, <3>2, <4>1
      <3>4. CASE ps[m].align < ps[n + 1].align
        <4>1. ASSUME NEW k \in 1 .. n PROVE ps[k].align <= ps[n + 1].align
          BY <1>1, <2>1, <3>1, <3>2, <3>4
        <4>2. ps[n + 1].align <= ps[n + 1].align
          BY <1>1, <2>1
        <4>3. Best(n + 1, n + 1)
          BY <2>1, <4>1, <4>2
        <4> QED
          BY <2>1, <4>3
      <3> QED
        BY <1>1, <2>1, <3>2, <3>3, <3>4
    <2> QED
      BY <2>2, <2>3
  <1> HIDE DEF T
  <1>4. T = 0 .. N
    BY <1>1, <1>2, <1>3, Induction DEF T
  <1>5. PICK m \in 1 .. N : Best(m, N)
    <2>1. N \in T
      BY <1>1, <1>4
    <2> QED
      BY <1>1, <2>1 DEF T
  <1> DEFINE S == {ps[k].align : k \in DOMAIN ps}
  <1>6. ps[m].align \in S /\ \A y \in S : ps[m].align >= y
    BY <1>1, <1>5
  <1>7. Max(S) \in S /\ \A y \in S : Max(S) >= y
    BY <1>6 DEF Max
  <1>8. Storage(ps) = Max(S) /\ \E k \in DOMAIN ps : Max(S) = ps[k].align
    BY <1>7 DEF Storage
  <1> QED
    BY <1>1, <1>7, <1>8

(* detail::align rounds up.                                                 *)
LEMMA AlignRoundsUp ==
  ASSUME NEW x \in Nat, NEW a \in Nat, a > 0
  PROVE  Align(x, a) \in Nat /\ x <= Align(x, a) /\ Align(x, a) < x + a
  <1> DEFINE y == x + a - 1
             q == y \div a
             r == y % a
  <1>1. y \in Nat
    OBVIOUS
  <1> HIDE DEF y
  <1>2. q \in Nat /\ r \in Nat /\ r < a /\ y = a * q + r
    BY <1>1
  <1> HIDE DEF q, r
  <1>3. a * q \in Nat /\ q * a = a * q
    BY <1>2
  <1>4. x <= a * q /\ a * q < x + a
    BY <1>1, <1>2, <1>3 DEF y
  <1>5. Align(x, a) = a * q
    BY <1>3 DEF Align, q, y
  <1> QED
    BY <1>3, <1>4, <1>5

(* One parameter is placed where the last one ended, or behind.             *)
LEMMA PlaceIsBehind ==
  ASSUME NEW ps, IsParameterList(ps), NEW cs, NEW k \in DOMAIN ps, cs[k] \in Nat,
         NEW address \in Nat
  PROVE  LET p == Place(ps, cs, k, address)
         IN  p[1] \in Nat /\ p[2] \in Nat /\ address <= p[1] /\ p[1] <= p[2]
  <1> DEFINE p == Place(ps, cs, k, address)
             first == FirstByte(ps, k, address)
  <1>1. /\ ps[k].align \in Nat /\ ps[k].align > 0
        /\ ps[k].bytes \in Nat
    BY ListFacts
  <1>2. first = address \/ first = Align(address, ps[k].align)
    BY DEF FirstByte, AlignIf
  <1>3. first \in Nat /\ address <= first
    <2>1. Align(address, ps[k].align) \in Nat /\ address <= Align(address, ps[k].align)
      BY <1>1, AlignRoundsUp
    <2> QED
      BY <1>2, <2>1
  <1>4. \/ p = <<first, first + ps[k].bytes>>
        \/ p = <<first, first + ps[k].bytes * cs[k]>>
    BY DEF Place, PlainPlace, SpanPlace, Extent
  <1>5. ps[k].bytes * cs[k] \in Nat
    BY <1>1
  <1> HIDE DEF p, first
  <1>6. p[1] = first /\ (p[2] = first + ps[k].bytes \/ p[2] = first + ps[k].bytes * cs[k])
    BY <1>4
  <1>7. p[1] \in Nat /\ p[2] \in Nat /\ address <= p[1] /\ p[1] <= p[2]
    BY <1>1, <1>3, <1>5, <1>6
  <1> QED
    BY <1>7 DEF p

(* The objects of the parameters lie one after the other, none in front of  *)
(* start.                                                                   *)
LEMMA PlacesInOrder ==
  ASSUME NEW ps, IsParameterList(ps), NEW cs, \A k \in DOMAIN ps : cs[k] \in Nat,
         NEW start \in Nat
  PROVE  LET p == Placement(ps, cs, start)
         IN  /\ DOMAIN p = DOMAIN ps
             /\ \A k \in DOMAIN ps : /\ p[k][1] \in Nat /\ p[k][2] \in Nat
                                     /\ start <= p[k][1] /\ p[k][1] <= p[k][2]
             /\ \A j, k \in DOMAIN ps : j < k => p[j][2] <= p[k][1]
  <1> DEFINE n == Len(ps)
  <1>1. n \in Nat /\ DOMAIN ps = 1 .. n
    BY ListFacts
  <1>2. PICK f : /\ ArePlaces(ps, cs, start, n, f)
                 /\ Placement(ps, cs, start) = [k \in DOMAIN ps |-> f[k]]
    BY <1>1, PlacementIsFunction
  <1> HIDE DEF n
  <1>3. f[0] = <<start, start>> /\ \A k \in 1 .. n : f[k] = Place(ps, cs, k, f[k - 1][2])
    BY <1>1, <1>2 DEF ArePlaces
  <1> DEFINE Good(k) == /\ f[k][1] \in Nat /\ f[k][2] \in Nat
                        /\ start <= f[k][1] /\ f[k][1] <= f[k][2]
                        /\ k > 0 => f[k - 1][2] <= f[k][1]
             T == {k \in 0 .. n : Good(k)}
  <1>4. 0 \in T
    BY <1>1, <1>3
  <1>5. ASSUME NEW k \in T, k < n PROVE k + 1 \in T
    <2>1. k + 1 \in 1 .. n /\ k + 1 \in DOMAIN ps /\ cs[k + 1] \in Nat /\ (k + 1) - 1 = k
      BY <1>1, <1>5
    <2>2. f[k + 1] = Place(ps, cs, k + 1, f[k][2])
      BY <1>3, <2>1
    <2>3. f[k][2] \in Nat /\ start <= f[k][2]
      OBVIOUS
    <2>4. /\ f[k + 1][1] \in Nat /\ f[k + 1][2] \in Nat
          /\ f[k][2] <= f[k + 1][1] /\ f[k + 1][1] <= f[k + 1][2]
      BY <2>1, <2>2, <2>3, PlaceIsBehind
    <2> QED
      BY <2>1, <2>3, <2>4
  <1> HIDE DEF T
  <1>6. T = 0 .. n
    BY <1>1, <1>4, <1>5, Induction DEF T
  <1>7. \A k \in 0 .. n : Good(k)
    BY <1>6 DEF T
  <1>8. ASSUME NEW j \in 0 .. n PROVE \A k \in 0 .. n : j < k => f[j][2] <= f[k][1]
    <2> DEFINE S == {k \in 0 .. n : j < k => f[j][2] <= f[k][1]}
    <2>1. 0 \in S
      BY <1>1
    <2>2. ASSUME NEW k \in S, k < n PROVE k + 1 \in S
      <3>1. k \in 0 .. n /\ k + 1 \in 0 .. n /\ (k + 1) - 1 = k /\ k + 1 > 0
        BY <1>1, <2>2
      <3>2. f[k][2] <= f[k + 1][1] /\ f[k][1] <= f[k][2] /\ f[k][2] \in Nat
            /\ f[k][1] \in Nat /\ f[k + 1][1] \in Nat /\ f[j][2] \in Nat
        BY <1>7, <3>1
      <3>3. j = k \/ f[j][2] <= f[k][1] \/ ~ j < k + 1
        BY <3>1
      <3> QED
        BY <3>1, <3>2, <3>3
    <2> HIDE DEF S
    <2>3. S = 0 .. n
      BY <1>1, <2>1, <2>2, Induction DEF S
    <2> QED
      BY <2>3 DEF S
  <1> QED
    BY <1>1, <1>2, <1>7, <1>8

-----------------------------------------------------------------------------
(* x is a multiple of d.                                                    *)
Multiple(x, d) == \E q \in Int : x = q * d

(* Every number is a multiple of itself, and 0 of every number.             *)
LEMMA MultipleOfSelf ==
  ASSUME NEW d \in Int
  PROVE  Multiple(d, d) /\ Multiple(0, d)
  <1>1. d = 1 * d /\ 0 = 0 * d
    OBVIOUS
  <1> QED
    BY <1>1 DEF Multiple

(* Every number is a multiple of 1.                                         *)
LEMMA MultipleOfOne ==
  ASSUME NEW x \in Int
  PROVE  Multiple(x, 1)
  <1>1. x = x * 1
    OBVIOUS
  <1> QED
    BY <1>1 DEF Multiple

(* Sums and differences of multiples are multiples.                         *)
LEMMA MultiplesAdd ==
  ASSUME NEW d \in Int, NEW x, NEW y, Multiple(x, d), Multiple(y, d)
  PROVE  Multiple(x + y, d) /\ Multiple(x - y, d) /\ x \in Int /\ y \in Int
  <1>1. PICK q \in Int : x = q * d
    BY DEF Multiple
  <1>2. PICK r \in Int : y = r * d
    BY DEF Multiple
  <1>3. /\ x + y = (q + r) * d /\ q + r \in Int
        /\ x - y = (q - r) * d /\ q - r \in Int
        /\ x \in Int /\ y \in Int
    BY <1>1, <1>2
  <1>4. Multiple(x + y, d)
    BY <1>3 DEF Multiple
  <1>5. Multiple(x - y, d)
    BY <1>3 DEF Multiple
  <1> QED
    BY <1>3, <1>4, <1>5

(* So are their products with any number.                                   *)
LEMMA MultiplesScale ==
  ASSUME NEW d \in Int, NEW x, NEW n \in Int, Multiple(x, d)
  PROVE  Multiple(x * n, d) /\ Multiple(n * x, d)
  <1>1. PICK q \in Int : x = q * d
    BY DEF Multiple
  <1>2. x * n = (q * n) * d /\ n * x = (q * n) * d /\ q * n \in Int
    BY <1>1
  <1> QED
    BY <1>2 DEF Multiple

(* Multiples of a multiple of d are multiples of d.                         *)
LEMMA MultipleIsTransitive ==
  ASSUME NEW d \in Int, NEW e, NEW x, Multiple(x, e), Multiple(e, d)
  PROVE  Multiple(x, d)
  <1>1. PICK q \in Int : x = q * e
    BY DEF Multiple
  <1>2. PICK r \in Int : e = r * d
    BY DEF Multiple
  <1>3. x = (q * r) * d /\ q * r \in Int
    BY <1>1, <1>2
  <1> QED
    BY <1>3 DEF Multiple

(* Two multiples of d less than d apart are equal.                          *)
LEMMA MultiplesApart ==
  ASSUME NEW d \in Nat, d > 0, NEW x, NEW y, Multiple(x, d), Multiple(y, d),
         x - y < d, y - x < d
  PROVE  x = y
  <1>1. PICK q \in Int : x = q * d
    BY DEF Multiple
  <1>2. PICK r \in Int : y = r * d
    BY DEF Multiple
  <1>3. x - y = (q - r) * d /\ y - x = (r - q) * d
    BY <1>1, <1>2
  <1>4. ASSUME NEW n \in Int, n > 0 PROVE n * d >= d
    BY <1>4
  <1>5. ~ q - r > 0 /\ ~ r - q > 0
    BY <1>3, <1>4
  <1>6. q = r
    BY <1>5
  <1> QED
    BY <1>1, <1>2, <1>6

(* The remainder tells the multiples, as detail::is_aligned does.           *)
LEMMA RemainderOfMultiple ==
  ASSUME NEW d \in Nat, d > 0, NEW x \in Nat
  PROVE  x % d = 0 <=> Multiple(x, d)
  <1> DEFINE q == x \div d
             r == x % d
  <1>1. q \in Int /\ r \in Int /\ 0 <= r /\ r < d /\ x = d * q + r
    OBVIOUS
  <1> HIDE DEF q, r
  <1>2. d * q = q * d /\ q * d \in Int
    BY <1>1
  <1>3. r = 0 => Multiple(x, d)
    BY <1>1, <1>2 DEF Multiple
  <1>4. ASSUME Multiple(x, d) PROVE r = 0
    <2>1. Multiple(q * d, d)
      BY <1>1 DEF Multiple
    <2>2. x - q * d < d /\ q * d - x < d
      BY <1>1, <1>2
    <2>3. x = q * d
      BY <1>2, <1>4, <2>1, <2>2, MultiplesApart
    <2> QED
      BY <1>1, <1>2, <2>3
  <1> QED
    BY <1>3, <1>4 DEF r

(* A divisor is not greater.                                                *)
LEMMA DivisorIsLess ==
  ASSUME NEW d \in Nat, d > 0, NEW x \in Nat, x > 0, Multiple(x, d)
  PROVE  d <= x
  <1>1. PICK q \in Int : x = q * d
    BY DEF Multiple
  <1>2. q > 0
    BY <1>1
  <1> QED
    BY <1>1, <1>2

(* Every divisor of a power of two, but 1, is even.                         *)
LEMMA PowerFacts ==
  ASSUME NEW a, IsPowerOfTwo(a)
  PROVE  /\ a \in Nat /\ a > 0
         /\ \A d \in Nat : d > 1 /\ Multiple(a, d) => Multiple(d, 2)
  <1>1. a \in Nat /\ a > 0
    BY DEF IsPowerOfTwo
  <1>2. ASSUME NEW d \in Nat, d > 1, Multiple(a, d) PROVE Multiple(d, 2)
    <2>1. d <= a /\ a % d = 0
      BY <1>1, <1>2, DivisorIsLess, RemainderOfMultiple
    <2>2. d % 2 = 0
      BY <1>1, <1>2, <2>1 DEF IsPowerOfTwo
    <2> QED
      BY <1>2, <2>2, RemainderOfMultiple
  <1> QED
    BY <1>1, <1>2

(* What divides a power of two is one.                                      *)
LEMMA DivisorOfPower ==
  ASSUME NEW a, IsPowerOfTwo(a), NEW d \in Nat, d > 0, Multiple(a, d)
  PROVE  IsPowerOfTwo(d)
  <1>1. ASSUME NEW c \in 2 .. d, d % c = 0 PROVE c % 2 = 0
    <2>1. Multiple(d, c)
      BY <1>1, RemainderOfMultiple
    <2>2. Multiple(a, c)
      BY <2>1, MultipleIsTransitive
    <2>3. Multiple(c, 2)
      BY <2>2, PowerFacts
    <2> QED
      BY <2>3, RemainderOfMultiple
  <1> QED
    BY <1>1 DEF IsPowerOfTwo

(* Half of an even number.                                                  *)
LEMMA HalfOfPower ==
  ASSUME NEW a, IsPowerOfTwo(a), a > 1
  PROVE  \E b : a = 2 * b /\ b \in Nat /\ IsPowerOfTwo(b)
  <1>1. a \in Nat /\ Multiple(a, 2)
    <2>1. a \in Nat /\ Multiple(a, a)
      BY PowerFacts, MultipleOfSelf
    <2> QED
      BY <2>1, PowerFacts
  <1>2. PICK b \in Int : a = b * 2
    BY <1>1 DEF Multiple
  <1>3. b \in Nat /\ b > 0 /\ a = 2 * b
    BY <1>1, <1>2
  <1>4. Multiple(a, b)
    BY <1>3 DEF Multiple
  <1> QED
    BY <1>3, <1>4, DivisorOfPower

(* Of two powers of two the greater is a multiple of the other.             *)
LEMMA PowersDivide ==
  ASSUME NEW a, IsPowerOfTwo(a), NEW b, IsPowerOfTwo(b), a <= b
  PROVE  Multiple(b, a)
  <1> DEFINE Below(n) == \A x, y \in Nat : IsPowerOfTwo(x) /\ IsPowerOfTwo(y) /\ x <= y /\ x <= n
                                            => Multiple(y, x)
             T == {n \in 0 .. a : Below(n)}
  <1>1. a \in Nat /\ b \in Nat
    BY PowerFacts
  <1>2. 0 \in T
    BY <1>1, PowerFacts
  <1>3. ASSUME NEW n \in T, n < a PROVE n + 1 \in T
    <2>1. ASSUME NEW x \in Nat, NEW y \in Nat, IsPowerOfTwo(x), IsPowerOfTwo(y), x <= y, x <= n + 1
          PROVE  Multiple(y, x)
      <3>1. CASE x = 1
        BY <3>1, MultipleOfOne
      <3>2. CASE x > 1
        <4>1. PICK u : x = 2 * u /\ u \in Nat /\ IsPowerOfTwo(u)
          BY <2>1, <3>2, HalfOfPower
        <4>2. PICK v : y = 2 * v /\ v \in Nat /\ IsPowerOfTwo(v)
          BY <2>1, <3>2, HalfOfPower
        <4>3. u <= v /\ u <= n
          BY <2>1, <3>2, <4>1, <4>2
        <4>4. Multiple(v, u)
          BY <4>1, <4>2, <4>3
        <4>5. PICK q \in Int : v = q * u
          BY <4>4 DEF Multiple
        <4>6. y = q * x
          BY <4>1, <4>2, <4>5
        <4> QED
          BY <4>6 DEF Multiple
      <3> QED
        BY <2>1, <3>1, <3>2, PowerFacts
    <2> QED
      BY <1>1, <1>3, <2>1
  <1> HIDE DEF T
  <1>4. T = 0 .. a
    BY <1>1, <1>2, <1>3, Induction DEF T
  <1>5. Below(a)
    BY <1>1, <1>4 DEF T
  <1> QED
    BY <1>1, <1>5

(* detail::align finds the next multiple.                                   *)
LEMMA AlignFindsNext ==
  ASSUME NEW a \in Nat, a > 0, NEW x \in Nat
  PROVE  /\ Align(x, a) \in Nat /\ x <= Align(x, a) /\ Align(x, a) < x + a
         /\ Multiple(Align(x, a), a)
         /\ \A y \in Nat : x <= y /\ y < x + a /\ Multiple(y, a) => Align(x, a) = y
         /\ Multiple(x, a) => Align(x, a) = x
  <1>1. Align(x, a) \in Nat /\ x <= Align(x, a) /\ Align(x, a) < x + a
    BY AlignRoundsUp
  <1>2. Multiple(Align(x, a), a)
    <2> DEFINE q == (x + a - 1) \div a
    <2>1. q \in Int /\ Align(x, a) = q * a
      BY DEF Align
    <2> QED
      BY <2>1 DEF Multiple
  <1>3. ASSUME NEW y \in Nat, x <= y, y < x + a, Multiple(y, a) PROVE Align(x, a) = y
    <2> DEFINE z == Align(x, a)
    <2>1. z - y < a /\ y - z < a /\ Multiple(z, a)
      BY <1>1, <1>2, <1>3
    <2> HIDE DEF z
    <2>2. z = y
      BY <1>3, <2>1, MultiplesApart
    <2> QED
      BY <2>2 DEF z
  <1> QED
    BY <1>1, <1>2, <1>3

(* Addresses that differ by a multiple are aligned to such.                 *)
LEMMA AlignShifts ==
  ASSUME NEW a \in Nat, a > 0, NEW x \in Nat, NEW y \in Nat, Multiple(y - x, a)
  PROVE  Align(y, a) - Align(x, a) = y - x
  <1> DEFINE z == Align(x, a) + (y - x)
  <1>1. /\ Align(x, a) \in Nat /\ x <= Align(x, a) /\ Align(x, a) < x + a
        /\ Multiple(Align(x, a), a)
    BY AlignFindsNext
  <1>2. z \in Nat /\ y <= z /\ z < y + a
    BY <1>1
  <1>3. Multiple(z, a)
    BY <1>1, MultiplesAdd
  <1> HIDE DEF z
  <1>4. Align(y, a) = z
    BY <1>2, <1>3, AlignFindsNext
  <1> QED
    BY <1>1, <1>4 DEF z

(* A power of two that divides both numbers, if x is not 0.                 *)
LEMMA TrailingDivides ==
  ASSUME NEW x \in Nat, NEW a, IsPowerOfTwo(a)
  PROVE  LET t == TrailingAlignment(x, a)
         IN  /\ t \in Nat
             /\ x = 0 => t = 0
             /\ x > 0 => IsPowerOfTwo(t) /\ Multiple(x, t) /\ Multiple(a, t)
  <1> DEFINE S == {b \in 1 .. a : a % b = 0 /\ x % b = 0}
             t == TrailingAlignment(x, a)
  <1>1. a \in Nat /\ a > 0
    BY PowerFacts
  <1>2. CASE x = 0
    BY <1>2 DEF TrailingAlignment
  <1>3. CASE x > 0
    <2>1. 1 \in S /\ S \subseteq 0 .. a
      BY <1>1
    <2> HIDE DEF S
    <2>2. Max(S) \in S
      BY <1>1, <2>1, GreatestElement
    <2>3. t = Max(S)
      BY <1>1, <1>3 DEF TrailingAlignment, S
    <2>4. t \in Nat /\ t > 0 /\ a % t = 0 /\ x % t = 0
      BY <1>1, <2>2, <2>3 DEF S
    <2> HIDE DEF t
    <2>5. Multiple(a, t) /\ Multiple(x, t)
      BY <1>1, <2>4, RemainderOfMultiple
    <2> QED
      BY <1>3, <2>4, <2>5, DivisorOfPower DEF t
  <1> QED
    BY <1>2, <1>3

-----------------------------------------------------------------------------
(* There is a sequence of states that begins with init and goes on as step  *)
(* says.                                                                    *)
IsRun(f, n, S, init, step) ==
  f \in [0 .. n -> S] /\ f[0] = init /\ \A k \in 1 .. n : f[k] = step[k][f[k - 1]]

(* A recursive definition has a value at every step.                        *)
LEMMA RecursionExists ==
  ASSUME NEW N \in Nat, NEW S, NEW init \in S, NEW step, step \in [1 .. N -> [S -> S]]
  PROVE  \E f : IsRun(f, N, S, init, step)
  <1> DEFINE T == {n \in 0 .. N : \E f : IsRun(f, n, S, init, step)}
  <1>1. 0 \in T
    <2> DEFINE f == [k \in 0 .. 0 |-> init]
    <2>1. IsRun(f, 0, S, init, step)
      BY DEF IsRun
    <2> QED
      BY <2>1
  <1>2. ASSUME NEW n \in T, n < N PROVE n + 1 \in T
    <2>1. n \in Nat /\ n + 1 \in 1 .. N /\ n \in 0 .. n /\ n + 1 \in 0 .. N
      BY <1>2
    <2>2. PICK f : IsRun(f, n, S, init, step)
      BY <1>2
    <2> DEFINE s == step[n + 1][f[n]]
               g == [k \in 0 .. n + 1 |-> IF k = n + 1 THEN s ELSE f[k]]
    <2>3. s \in S
      BY <2>1, <2>2 DEF IsRun
    <2> HIDE DEF s
    <2>4. g \in [0 .. n + 1 -> S]
      BY <2>1, <2>2, <2>3 DEF IsRun
    <2>5. g[0] = init
      BY <2>1, <2>2 DEF IsRun
    <2>6. ASSUME NEW k \in 1 .. n + 1 PROVE g[k] = step[k][g[k - 1]]
      <3>1. k - 1 \in 0 .. n /\ g[k - 1] = f[k - 1]
        BY <2>1
      <3>2. CASE k = n + 1
        BY <2>1, <3>1, <3>2 DEF s
      <3>3. CASE k # n + 1
        <4>1. k \in 1 .. n /\ g[k] = f[k]
          BY <2>1, <3>3
        <4> QED
          BY <2>2, <3>1, <4>1 DEF IsRun
      <3> QED
        BY <3>2, <3>3
    <2> HIDE DEF g
    <2>7. IsRun(g, n + 1, S, init, step)
      BY <2>4, <2>5, <2>6 DEF IsRun
    <2> QED
      BY <2>1, <2>7
  <1> HIDE DEF T
  <1>3. T = 0 .. N
    BY <1>1, <1>2, Induction DEF T
  <1>4. N \in T
    BY <1>3
  <1> QED
    BY <1>4 DEF T

-----------------------------------------------------------------------------
(* What a bracket says of the address e: how far it is from a multiple of   *)
(* its alignment, and what divides it.                                      *)
Known(b, e) ==
  /\ b = [offset |-> b.offset, alignment |-> b.alignment, trailing |-> b.trailing]
  /\ b.offset \in Nat /\ IsPowerOfTwo(b.alignment) /\ b.trailing \in Nat
  /\ Multiple(e - b.offset, b.alignment)
  /\ b.trailing # 0 => IsPowerOfTwo(b.trailing) /\ Multiple(e, b.trailing)

(* A parameter behind e is aligned, also where the code does not look.      *)
LEMMA FirstIsAligned ==
  ASSUME NEW e \in Nat, NEW b, Known(b, e), NEW a, IsPowerOfTwo(a)
  PROVE  LET first == AlignIf(b.trailing < a, e, a)
         IN  /\ first \in Nat /\ e <= first
             /\ Multiple(first, a)
             /\ a <= b.alignment => Multiple(first - Align(b.offset, a), b.alignment)
             /\ Align(b.offset, a) \in Nat
  <1> DEFINE first == AlignIf(b.trailing < a, e, a)
             o == b.offset
             l == b.alignment
  <1>1. /\ a \in Nat /\ a > 0 /\ o \in Nat /\ l \in Nat /\ l > 0 /\ b.trailing \in Nat
        /\ Multiple(e - o, l) /\ IsPowerOfTwo(l)
    BY PowerFacts DEF Known
  <1>2. /\ Align(o, a) \in Nat /\ Align(e, a) \in Nat /\ e <= Align(e, a)
        /\ Multiple(Align(e, a), a)
    BY <1>1, AlignFindsNext
  <1>3. a <= l => Multiple(e - o, a) /\ Multiple(l, a)
    BY <1>1, PowersDivide, MultipleIsTransitive
  <1>4. CASE b.trailing < a
    <2>1. first = Align(e, a)
      BY <1>4 DEF AlignIf
    <2>2. a <= l => Align(e, a) - Align(o, a) = e - o
      BY <1>1, <1>3, AlignShifts
    <2> QED
      BY <1>1, <1>2, <2>1, <2>2
  <1>5. CASE ~ b.trailing < a
    <2>1. first = e
      BY <1>5 DEF AlignIf
    <2>2. a <= b.trailing /\ b.trailing # 0
      BY <1>1, <1>5
    <2>3. IsPowerOfTwo(b.trailing) /\ Multiple(e, b.trailing)
      BY <2>2 DEF Known
    <2>4. Multiple(e, a)
      BY <1>1, <2>2, <2>3, PowersDivide, MultipleIsTransitive
    <2>5. ASSUME a <= l PROVE Align(o, a) = o
      <3> DEFINE d == e - o
      <3>1. Multiple(d, a) /\ a \in Int /\ e - d = o
        BY <1>1, <1>3, <2>5
      <3> HIDE DEF d
      <3>2. Multiple(e - d, a)
        BY <2>4, <3>1, MultiplesAdd
      <3> HIDE DEF o
      <3>3. Multiple(o, a)
        BY <3>1, <3>2
      <3> QED
        BY <1>1, <3>3, AlignFindsNext
    <2> QED
      BY <1>1, <1>2, <2>1, <2>4, <2>5
  <1> HIDE DEF first
  <1> QED
    BY <1>2, <1>4, <1>5 DEF first

(* The greater of two alignments is one of them.                            *)
LEMMA GreaterPower ==
  ASSUME NEW a, IsPowerOfTwo(a), NEW b, IsPowerOfTwo(b)
  PROVE  IsPowerOfTwo(MaxOf(a, b)) /\ a <= MaxOf(a, b) /\ b <= MaxOf(a, b)
  BY PowerFacts DEF MaxOf

(* What trailing_alignment says behind a plain parameter is true.           *)
LEMMA PlainIsKnown ==
  ASSUME NEW e \in Nat, NEW b, Known(b, e), NEW p, IsPowerOfTwo(p.align), p.bytes \in Nat
  PROVE  Known(PlainTrailing(p, b), AlignIf(b.trailing < p.align, e, p.align) + p.bytes)
  <1> DEFINE a == p.align
             n == p.bytes
             o == IF b.alignment < a THEN n ELSE Align(b.offset, a) + n
             l == MaxOf(b.alignment, a)
             t == TrailingAlignment(o, l)
             first == AlignIf(b.trailing < a, e, a)
  <1>1. PlainTrailing(p, b) = [offset |-> o, alignment |-> l, trailing |-> t]
    BY DEF PlainTrailing
  <1>2. /\ first \in Nat /\ Multiple(first, a)
        /\ a <= b.alignment => Multiple(first - Align(b.offset, a), b.alignment)
        /\ Align(b.offset, a) \in Nat
    BY FirstIsAligned
  <1>3. /\ n \in Nat /\ o \in Nat /\ IsPowerOfTwo(l) /\ a \in Nat /\ b.alignment \in Nat
    BY <1>2, GreaterPower, PowerFacts DEF Known
  <1>4. Multiple((first + n) - o, l)
    <2> HIDE DEF first
    <2>1. CASE b.alignment < a
      <3>1. l = a /\ (first + n) - o = first
        BY <1>2, <1>3, <2>1 DEF MaxOf
      <3> QED
        BY <1>2, <3>1
    <2>2. CASE ~ b.alignment < a
      <3>1. l = b.alignment /\ (first + n) - o = first - Align(b.offset, a) /\ a <= b.alignment
        BY <1>2, <1>3, <2>2 DEF MaxOf
      <3> QED
        BY <1>2, <3>1
    <2> QED
      BY <2>1, <2>2
  <1> HIDE DEF o, l, first, n
  <1>5. t \in Nat /\ (o = 0 => t = 0) /\ (o > 0 => IsPowerOfTwo(t) /\ Multiple(o, t) /\ Multiple(l, t))
    BY <1>3, TrailingDivides
  <1> HIDE DEF t
  <1>6. ASSUME t # 0 PROVE IsPowerOfTwo(t) /\ Multiple(first + n, t)
    <2>1. IsPowerOfTwo(t) /\ Multiple(o, t) /\ Multiple(l, t) /\ t \in Int
      BY <1>3, <1>5, <1>6
    <2> DEFINE d == (first + n) - o
    <2>2. Multiple(d, t) /\ d + o = first + n
      BY <1>2, <1>3, <1>4, <2>1, MultipleIsTransitive
    <2> HIDE DEF d
    <2>3. Multiple(d + o, t)
      BY <2>1, <2>2, MultiplesAdd
    <2> QED
      BY <2>1, <2>2, <2>3
  <1>7. Known([offset |-> o, alignment |-> l, trailing |-> t], first + n)
    BY <1>3, <1>4, <1>5, <1>6 DEF Known
  <1> QED
    BY <1>1, <1>7 DEF first, n

(* What trailing_alignment says behind a FixedSize or VaryingSize parameter *)
(* is true, whatever the number of objects.                                 *)
LEMMA SpanIsKnown ==
  ASSUME NEW e \in Nat, NEW b, Known(b, e), NEW p, IsPowerOfTwo(p.align),
         p.bytes \in Nat, p.bytes > 0, NEW c \in Nat
  PROVE  Known(SpanTrailing(p, b), AlignIf(b.trailing < p.align, e, p.align) + p.bytes * c)
  <1> DEFINE a == p.align
             n == p.bytes
             o == Align(b.offset, a)
             l == MaxOf(b.alignment, a)
             t == TrailingAlignment(o, l)
             leading == MaxOf(a, t)
             u == TrailingAlignment(n, leading)
             first == AlignIf(b.trailing < a, e, a)
             zero == 0
  <1>1. SpanTrailing(p, b) = [offset |-> zero, alignment |-> u, trailing |-> u]
    BY DEF SpanTrailing
  <1>2. /\ first \in Nat /\ Multiple(first, a)
        /\ a <= b.alignment => Multiple(first - o, b.alignment)
        /\ o \in Nat
    BY FirstIsAligned
  <1>3. /\ n \in Nat /\ n > 0 /\ IsPowerOfTwo(l) /\ a \in Nat /\ a > 0 /\ b.alignment \in Nat
        /\ l \in Nat /\ l > 0 /\ IsPowerOfTwo(a)
    BY GreaterPower, PowerFacts DEF Known
  <1>4. l = IF b.alignment < a THEN a ELSE b.alignment
    BY DEF MaxOf
  <1> HIDE DEF o, l, first, n, a
  <1>5. t \in Nat /\ (o = 0 => t = 0) /\ (o > 0 => IsPowerOfTwo(t) /\ Multiple(o, t) /\ Multiple(l, t))
    BY <1>2, <1>3, TrailingDivides
  <1> HIDE DEF t
  <1>6. IsPowerOfTwo(leading) /\ Multiple(first, leading)
    <2>1. CASE ~ a < t
      <3>1. leading = a
        BY <2>1 DEF MaxOf
      <3> QED
        BY <1>2, <1>3, <3>1
    <2>2. CASE a < t
      <3>1. leading = t /\ IsPowerOfTwo(t) /\ Multiple(o, t) /\ Multiple(l, t) /\ t > 0
        BY <1>2, <1>3, <1>5, <2>2 DEF MaxOf
      <3>2. t <= l
        BY <1>3, <1>5, <3>1, DivisorIsLess
      <3>3. l = b.alignment /\ a <= b.alignment
        BY <1>3, <1>4, <1>5, <2>2, <3>2
      <3>4. Multiple(first - o, t)
        BY <1>2, <1>5, <3>1, <3>3, MultipleIsTransitive
      <3>5. Multiple((first - o) + o, t) /\ (first - o) + o = first
        BY <1>2, <1>5, <3>1, <3>4, MultiplesAdd
      <3> QED
        BY <3>1, <3>5
    <2> QED
      BY <2>1, <2>2
  <1> HIDE DEF leading
  <1>7. IsPowerOfTwo(u) /\ Multiple(n, u) /\ Multiple(leading, u)
    BY <1>3, <1>6, TrailingDivides
  <1> HIDE DEF u
  <1>8. u \in Nat /\ u > 0 /\ n * c \in Nat
    BY <1>3, <1>7, PowerFacts
  <1>9. Multiple(first + n * c, u)
    <2>1. Multiple(first, u)
      BY <1>6, <1>7, <1>8, MultipleIsTransitive
    <2>2. Multiple(n * c, u)
      BY <1>7, <1>8, MultiplesScale
    <2> QED
      BY <1>8, <2>1, <2>2, MultiplesAdd
  <1>10. zero \in Nat /\ (first + n * c) - zero = first + n * c
    BY <1>2, <1>8
  <1> HIDE DEF zero
  <1>11. Known([offset |-> zero, alignment |-> u, trailing |-> u], first + n * c)
    BY <1>7, <1>8, <1>9, <1>10 DEF Known
  <1> QED
    BY <1>1, <1>11 DEF first, n, a

-----------------------------------------------------------------------------
(* The brackets of ps, in front of and behind each parameter.               *)
FirstBracket(ps) == [offset |-> 0, alignment |-> Storage(ps), trailing |-> Storage(ps)]
NextBracket(p, b) == IF p.type = "plain" THEN PlainTrailing(p, b) ELSE SpanTrailing(p, b)

AreBrackets(ps, f) ==
  f = [i \in 0 .. Len(ps) |-> IF i = 0 THEN FirstBracket(ps) ELSE NextBracket(ps[i], f[i - 1])]

Brackets ==
  {b \in [offset : Nat, alignment : Nat, trailing : Nat] : IsPowerOfTwo(b.alignment)}

(* The largest alignment is one of a parameter.                             *)
LEMMA StorageIsPower ==
  ASSUME NEW ps, IsParameterList(ps)
  PROVE  IsPowerOfTwo(Storage(ps))
  <1>1. PICK k \in DOMAIN ps : ps[k].align = Storage(ps)
    BY StorageIsLargest
  <1> QED
    BY <1>1 DEF IsParameterList

(* Behind a parameter the bracket is again one.                             *)
LEMMA BracketsGoOn ==
  ASSUME NEW b \in Brackets, NEW p, IsPowerOfTwo(p.align), p.bytes \in Nat, p.bytes > 0
  PROVE  PlainTrailing(p, b) \in Brackets /\ SpanTrailing(p, b) \in Brackets
  <1>1. /\ b.offset \in Nat /\ b.alignment \in Nat /\ IsPowerOfTwo(b.alignment)
        /\ p.align \in Nat /\ p.align > 0 /\ Align(b.offset, p.align) \in Nat
    BY PowerFacts, AlignRoundsUp DEF Brackets
  <1>2. PlainTrailing(p, b) \in Brackets
    <2> DEFINE o == IF b.alignment < p.align THEN p.bytes ELSE Align(b.offset, p.align) + p.bytes
               l == MaxOf(b.alignment, p.align)
               t == TrailingAlignment(o, l)
    <2>1. o \in Nat /\ IsPowerOfTwo(l)
      BY <1>1, GreaterPower
    <2>2. PlainTrailing(p, b) = [offset |-> o, alignment |-> l, trailing |-> t]
      BY DEF PlainTrailing
    <2> HIDE DEF o, l
    <2>3. t \in Nat /\ l \in Nat
      BY <2>1, TrailingDivides, PowerFacts
    <2> HIDE DEF t
    <2> QED
      BY <2>1, <2>2, <2>3 DEF Brackets
  <1>3. SpanTrailing(p, b) \in Brackets
    <2> DEFINE o == Align(b.offset, p.align)
               l == MaxOf(b.alignment, p.align)
               t == TrailingAlignment(o, l)
               m == MaxOf(p.align, t)
               u == TrailingAlignment(p.bytes, m)
    <2>1. o \in Nat /\ IsPowerOfTwo(l)
      BY <1>1, GreaterPower
    <2>2. SpanTrailing(p, b) = [offset |-> 0, alignment |-> u, trailing |-> u]
      BY DEF SpanTrailing
    <2> HIDE DEF o, l
    <2>3. t \in Nat /\ (t # 0 => IsPowerOfTwo(t))
      BY <2>1, TrailingDivides
    <2> HIDE DEF t
    <2>4. IsPowerOfTwo(m)
      <3>1. CASE t = 0
        BY <1>1, <3>1 DEF MaxOf
      <3>2. CASE t # 0
        BY <2>3, <3>2, GreaterPower
      <3> QED
        BY <3>1, <3>2
    <2> HIDE DEF m
    <2>5. u \in Nat /\ IsPowerOfTwo(u)
      BY <2>4, TrailingDivides
    <2> HIDE DEF u
    <2> QED
      BY <2>2, <2>5 DEF Brackets
  <1> QED
    BY <1>2, <1>3

(* What the recursive function in Bracket is.                               *)
LEMMA BracketIsFunction ==
  ASSUME NEW ps, IsParameterList(ps)
  PROVE  \E f : /\ f[0] = FirstBracket(ps)
                /\ \A k \in DOMAIN ps : f[k] = NextBracket(ps[k], f[k - 1])
                /\ \A k \in 0 .. Len(ps) : Bracket(ps, k) = f[k]
  <1> DEFINE N == Len(ps)
             first == FirstBracket(ps)
             step == [k \in 1 .. N |-> [b \in Brackets |-> NextBracket(ps[k], b)]]
  <1>1. /\ N \in Nat /\ DOMAIN ps = 1 .. N
        /\ \A k \in 1 .. N : IsPowerOfTwo(ps[k].align) /\ ps[k].bytes \in Nat /\ ps[k].bytes > 0
    BY ListFacts DEF IsParameterList
  <1> HIDE DEF N
  <1>2. first \in Brackets
    BY StorageIsPower, PowerFacts DEF FirstBracket, Brackets
  <1>3. ASSUME NEW k \in 1 .. N, NEW b \in Brackets PROVE NextBracket(ps[k], b) \in Brackets
    <2> DEFINE p == ps[k]
    <2>1. IsPowerOfTwo(p.align) /\ p.bytes \in Nat /\ p.bytes > 0
      BY <1>1
    <2> HIDE DEF p
    <2>2. NextBracket(p, b) \in Brackets
      BY <2>1, BracketsGoOn DEF NextBracket
    <2> QED
      BY <2>2 DEF p
  <1>4. step \in [1 .. N -> [Brackets -> Brackets]]
    <2>1. ASSUME NEW k \in 1 .. N PROVE step[k] \in [Brackets -> Brackets]
      BY <1>3
    <2>2. step = [k \in 1 .. N |-> step[k]]
      OBVIOUS
    <2> HIDE DEF step
    <2> QED
      BY <2>1, <2>2
  <1> HIDE DEF first, step
  <1>5. PICK g : IsRun(g, N, Brackets, first, step)
    BY <1>1, <1>2, <1>4, RecursionExists
  <1>6. ASSUME NEW k \in 1 .. N PROVE g[k] = NextBracket(ps[k], g[k - 1])
    <2>1. k - 1 \in 0 .. N
      BY <1>1
    <2>2. g[k - 1] \in Brackets
      BY <1>5, <2>1 DEF IsRun
    <2> QED
      BY <1>5, <2>2 DEF step, IsRun
  <1>7. AreBrackets(ps, g)
    <2>1. g = [i \in 0 .. N |-> g[i]]
      BY <1>5 DEF IsRun
    <2>2. \A i \in 0 .. N : g[i] = IF i = 0 THEN FirstBracket(ps) ELSE NextBracket(ps[i], g[i - 1])
      BY <1>1, <1>5, <1>6 DEF first, IsRun
    <2> QED
      BY <2>1, <2>2 DEF AreBrackets, N
  <1> DEFINE f == CHOOSE h : AreBrackets(ps, h)
  <1>8. AreBrackets(ps, f)
    BY <1>7
  <1>9. \A k : Bracket(ps, k) = f[k]
    BY DEF Bracket, AreBrackets, FirstBracket, NextBracket
  <1> HIDE DEF f
  <1>10. f[0] = FirstBracket(ps) /\ \A k \in 1 .. N : f[k] = NextBracket(ps[k], f[k - 1])
    <2>1. f = [i \in 0 .. N |-> IF i = 0 THEN FirstBracket(ps) ELSE NextBracket(ps[i], f[i - 1])]
      BY <1>8 DEF AreBrackets, N
    <2> QED
      BY <1>1, <2>1
  <1> QED
    BY <1>1, <1>9, <1>10

-----------------------------------------------------------------------------
(* The alignment of a parameter divides that of the memory.                 *)
LEMMA StorageIsMultiple ==
  ASSUME NEW ps, IsParameterList(ps), NEW k \in DOMAIN ps, NEW x, Multiple(x, Storage(ps))
  PROVE  Multiple(x, ps[k].align) /\ IsPowerOfTwo(ps[k].align)
  <1>1. /\ IsPowerOfTwo(ps[k].align) /\ IsPowerOfTwo(Storage(ps))
        /\ ps[k].align <= Storage(ps)
    BY StorageIsPower, StorageIsLargest DEF IsParameterList
  <1>2. Multiple(Storage(ps), ps[k].align) /\ ps[k].align \in Int
    BY <1>1, PowersDivide, PowerFacts
  <1> QED
    BY <1>1, <1>2, MultipleIsTransitive

(* What is between the parameters of an element.                            *)
PlacesOf(ps, cs, start, f) ==
  /\ f[0] = <<start, start>>
  /\ \A k \in DOMAIN ps : f[k] = Place(ps, cs, k, f[k - 1][2])
  /\ \A k \in DOMAIN ps : Placement(ps, cs, start)[k] = f[k]
  /\ \A k \in 0 .. Len(ps) : f[k][1] \in Nat /\ f[k][2] \in Nat
  /\ Past(Placement(ps, cs, start)) = f[Len(ps)][2]

(* What the recursive function in Placement is, with its values typed.      *)
LEMMA PlacesFromStart ==
  ASSUME NEW ps, IsParameterList(ps), NEW cs, \A k \in DOMAIN ps : cs[k] \in Nat,
         NEW start \in Nat
  PROVE  \E f : PlacesOf(ps, cs, start, f)
  <1> DEFINE n == Len(ps)
             p == Placement(ps, cs, start)
  <1>1. n \in Nat /\ n > 0 /\ DOMAIN ps = 1 .. n
    BY ListFacts
  <1>2. PICK f : ArePlaces(ps, cs, start, n, f) /\ p = [k \in DOMAIN ps |-> f[k]]
    BY <1>1, PlacementIsFunction
  <1>3. \A k \in DOMAIN ps : p[k][1] \in Nat /\ p[k][2] \in Nat
    BY PlacesInOrder
  <1> HIDE DEF n, p
  <1>4. f[0] = <<start, start>> /\ \A k \in 1 .. n : f[k] = Place(ps, cs, k, f[k - 1][2])
    BY <1>1, <1>2 DEF ArePlaces
  <1>5. Len(p) = n
    BY <1>1, <1>2
  <1>6. Past(p) = f[n][2]
    BY <1>1, <1>2, <1>5 DEF Past
  <1>7. \A k \in 0 .. n : f[k][1] \in Nat /\ f[k][2] \in Nat
    BY <1>1, <1>2, <1>3, <1>4
  <1> QED
    BY <1>1, <1>2, <1>4, <1>6, <1>7 DEF PlacesOf, n, p

(* Every parameter is aligned, and what is known at compile time of where   *)
(* it ends is true.                                                         *)
LEMMA PlacesAligned ==
  ASSUME NEW ps, IsParameterList(ps), NEW cs, \A k \in DOMAIN ps : cs[k] \in Nat,
         NEW start \in Nat, Multiple(start, Storage(ps)),
         NEW f, PlacesOf(ps, cs, start, f)
  PROVE  /\ \A k \in DOMAIN ps : Multiple(f[k][1], ps[k].align)
         /\ Known(Bracket(ps, Len(ps)), f[Len(ps)][2])
  <1> DEFINE n == Len(ps)
             Good(k) == /\ Known(Bracket(ps, k), f[k][2])
                        /\ k > 0 => Multiple(f[k][1], ps[k].align)
             T == {k \in 0 .. n : Good(k)}
  <1>1. n \in Nat /\ DOMAIN ps = 1 .. n
    BY ListFacts
  <1>2. /\ Bracket(ps, 0) = FirstBracket(ps)
        /\ \A k \in 1 .. n : Bracket(ps, k) = NextBracket(ps[k], Bracket(ps, k - 1))
    <2>1. PICK g : /\ g[0] = FirstBracket(ps)
                   /\ \A k \in DOMAIN ps : g[k] = NextBracket(ps[k], g[k - 1])
                   /\ \A k \in 0 .. n : Bracket(ps, k) = g[k]
      BY BracketIsFunction
    <2>2. \A k \in 1 .. n : k \in 0 .. n /\ k - 1 \in 0 .. n
      BY <1>1
    <2> HIDE DEF n
    <2> QED
      BY <1>1, <2>1, <2>2
  <1>3. /\ f[0] = <<start, start>>
        /\ \A k \in 1 .. n : f[k] = Place(ps, cs, k, f[k - 1][2])
        /\ \A k \in 0 .. n : f[k][1] \in Nat /\ f[k][2] \in Nat
    BY <1>1 DEF PlacesOf
  <1> HIDE DEF n
  <1>4. 0 \in T
    <2> DEFINE s == Storage(ps)
    <2>1. IsPowerOfTwo(s) /\ s \in Nat /\ start - 0 = start /\ Multiple(start, s)
      BY StorageIsPower, PowerFacts
    <2> HIDE DEF s
    <2>2. Known([offset |-> 0, alignment |-> s, trailing |-> s], start)
      BY <2>1 DEF Known
    <2>3. Known(Bracket(ps, 0), f[0][2])
      BY <1>2, <1>3, <2>2 DEF s, FirstBracket
    <2> QED
      BY <1>1, <2>3
  <1>5. ASSUME NEW j \in T, j < n PROVE j + 1 \in T
    <2> DEFINE k == j + 1
               b == Bracket(ps, j)
               e == f[j][2]
               p == ps[k]
               c == cs[k]
               first == AlignIf(b.trailing < p.align, e, p.align)
    <2>1. k \in 1 .. n /\ k \in 0 .. n /\ j \in 0 .. n /\ k - 1 = j /\ k > 0
      BY <1>1, <1>5
    <2>2. e \in Nat /\ Known(b, e)
      BY <1>3, <2>1
    <2>3. IsPowerOfTwo(p.align) /\ p.bytes \in Nat /\ p.bytes > 0 /\ c \in Nat
      BY <1>1, <2>1, ListFacts DEF IsParameterList
    <2>4. first = FirstByte(ps, k, e)
      BY <2>1 DEF FirstByte, PreviousTrailing
    <2>5. f[k] = Place(ps, cs, k, e) /\ Bracket(ps, k) = NextBracket(p, b)
      BY <1>2, <1>3, <2>1
    <2> HIDE DEF k, b, e, p, c
    <2>6. first \in Nat /\ Multiple(first, p.align)
      BY <2>2, <2>3, FirstIsAligned
    <2>7. Multiple(f[k][1], p.align) /\ Known(Bracket(ps, k), f[k][2])
      <3>1. CASE p.type = "plain"
        <4>1. f[k] = <<first, first + p.bytes>> /\ Bracket(ps, k) = PlainTrailing(p, b)
          BY <2>4, <2>5, <3>1 DEF Place, PlainPlace, Extent, NextBracket, p
        <4>2. Known(PlainTrailing(p, b), first + p.bytes)
          BY <2>2, <2>3, PlainIsKnown
        <4> HIDE DEF first
        <4>3. f[k][1] = first /\ f[k][2] = first + p.bytes
          BY <4>1
        <4> QED
          BY <2>6, <4>1, <4>2, <4>3
      <3>2. CASE p.type # "plain"
        <4>1. f[k] = <<first, first + p.bytes * c>> /\ Bracket(ps, k) = SpanTrailing(p, b)
          BY <2>4, <2>5, <3>2 DEF Place, SpanPlace, Extent, NextBracket, p, c
        <4>2. Known(SpanTrailing(p, b), first + p.bytes * c)
          BY <2>2, <2>3, SpanIsKnown
        <4> HIDE DEF first
        <4>3. f[k][1] = first /\ f[k][2] = first + p.bytes * c
          BY <4>1
        <4> QED
          BY <2>6, <4>1, <4>2, <4>3
      <3> QED
        BY <3>1, <3>2
    <2>8. Good(k)
      BY <2>7 DEF p
    <2> QED
      BY <2>1, <2>8 DEF k
  <1> HIDE DEF T
  <1>6. T = 0 .. n
    BY <1>1, <1>4, <1>5, Induction DEF T
  <1>7. \A k \in 0 .. n : Good(k)
    BY <1>6 DEF T
  <1> QED
    BY <1>1, <1>7 DEF n

(* An element that starts at another multiple has its objects as far from   *)
(* its start.                                                               *)
LEMMA PlacesShift ==
  ASSUME NEW ps, IsParameterList(ps), NEW cs, \A k \in DOMAIN ps : cs[k] \in Nat,
         NEW start \in Nat, Multiple(start, Storage(ps)),
         NEW f, PlacesOf(ps, cs, start, f), NEW g, PlacesOf(ps, cs, 0, g)
  PROVE  \A k \in 0 .. Len(ps) : f[k][1] = g[k][1] + start /\ f[k][2] = g[k][2] + start
  <1> DEFINE n == Len(ps)
             Good(k) == f[k][1] = g[k][1] + start /\ f[k][2] = g[k][2] + start
             T == {k \in 0 .. n : Good(k)}
  <1>1. n \in Nat /\ DOMAIN ps = 1 .. n
    BY ListFacts
  <1>2. /\ f[0] = <<start, start>> /\ g[0] = <<0, 0>>
        /\ \A k \in 1 .. n : /\ f[k] = Place(ps, cs, k, f[k - 1][2])
                             /\ g[k] = Place(ps, cs, k, g[k - 1][2])
        /\ \A k \in 0 .. n : f[k][2] \in Nat /\ g[k][2] \in Nat
    BY <1>1 DEF PlacesOf
  <1> HIDE DEF n
  <1>3. 0 \in T
    BY <1>1, <1>2
  <1>4. ASSUME NEW j \in T, j < n PROVE j + 1 \in T
    <2> DEFINE k == j + 1
               e == f[j][2]
               d == g[j][2]
               a == ps[k].align
               t == PreviousTrailing(ps, k)
    <2>1. k \in 1 .. n /\ k \in 0 .. n /\ j \in 0 .. n /\ k - 1 = j
      BY <1>1, <1>4
    <2>2. e \in Nat /\ d \in Nat /\ e = d + start /\ e - d = start
      BY <1>2, <2>1
    <2>3. a \in Nat /\ a > 0 /\ Multiple(start, a) /\ ps[k].bytes \in Nat /\ cs[k] \in Nat
      BY <1>1, <2>1, StorageIsMultiple, PowerFacts, ListFacts
    <2>4. f[k] = Place(ps, cs, k, e) /\ g[k] = Place(ps, cs, k, d)
      BY <1>2, <2>1
    <2>5. FirstByte(ps, k, e) = AlignIf(t < a, e, a) /\ FirstByte(ps, k, d) = AlignIf(t < a, d, a)
      BY DEF FirstByte
    <2> HIDE DEF k, e, d, a, t
    <2>6. Align(e, a) - Align(d, a) = start /\ Align(e, a) \in Nat /\ Align(d, a) \in Nat
      BY <2>2, <2>3, AlignShifts, AlignRoundsUp
    <2>7. /\ FirstByte(ps, k, e) = FirstByte(ps, k, d) + start
          /\ FirstByte(ps, k, d) \in Nat
      BY <2>2, <2>5, <2>6 DEF AlignIf
    <2> DEFINE s == IF ps[k].type = "plain" THEN ps[k].bytes ELSE ps[k].bytes * cs[k]
    <2>8. /\ f[k] = <<FirstByte(ps, k, e), FirstByte(ps, k, e) + s>>
          /\ g[k] = <<FirstByte(ps, k, d), FirstByte(ps, k, d) + s>>
      BY <2>4 DEF Place, PlainPlace, SpanPlace, Extent
    <2>9. s \in Nat
      BY <2>3
    <2> HIDE DEF s
    <2>10. Good(k)
      BY <2>7, <2>8, <2>9
    <2> QED
      BY <2>1, <2>10 DEF k
  <1> HIDE DEF T
  <1>5. T = 0 .. n
    BY <1>1, <1>3, <1>4, Induction DEF T
  <1> QED
    BY <1>5 DEF T, n

-----------------------------------------------------------------------------
(* calculate_element_size_impl as a recursive function.                     *)
FirstSize(ps) == [offset |-> 0, size |-> 0, padding |-> 0, alignment |-> Storage(ps)]

AreSizes(ps, cs, h) ==
  h = [k \in 0 .. Len(ps) |->
         IF k = 0 THEN FirstSize(ps)
         ELSE IF ps[k].type = "varying" THEN VaryingSize(ps, k, h[k - 1])
         ELSE PlainSize(ps, k, h[k - 1], ps[k].bytes * cs[k])]

PaddingAt(ps, k, size) ==
  AlignIf(TrailingAlignment(ps[k].bytes, ps[k].align) < NextAlignment(ps, k),
          size, NextAlignment(ps, k)) - size

SizeUpTo(ps, k, size) ==
  [offset |-> size, size |-> size, padding |-> PaddingAt(ps, k, size),
   alignment |-> Storage(ps)]

(* The size up to a parameter is where an element that starts at 0 has got. *)
LEMMA SizeGoesOn ==
  ASSUME NEW ps, IsParameterList(ps), AllFixed(ps),
         NEW cs, \A k \in DOMAIN ps : cs[k] \in Nat /\ (ps[k].type = "plain" => cs[k] = 1),
         NEW zero, zero = 0, NEW g, PlacesOf(ps, cs, zero, g), NEW k \in DOMAIN ps, NEW s,
         s.offset = g[k - 1][2], s.size = g[k - 1][2], s.alignment = Storage(ps)
  PROVE  PlainSize(ps, k, s, ps[k].bytes * cs[k]) = SizeUpTo(ps, k, g[k][2])
  <1> DEFINE e == g[k - 1][2]
             a == ps[k].align
             n == ps[k].bytes * cs[k]
             first == FirstByte(ps, k, e)
  <1>1. /\ k \in 1 .. Len(ps) /\ k - 1 \in 0 .. Len(ps)
        /\ a <= Storage(ps) /\ a \in Nat /\ Storage(ps) \in Nat /\ ps[k].bytes \in Nat
    BY ListFacts, StorageIsLargest
  <1>2. e \in Nat /\ g[k][1] \in Nat /\ g[k][2] \in Nat /\ n \in Nat
    <2>1. e \in Nat /\ g[k][1] \in Nat /\ g[k][2] \in Nat
      BY <1>1 DEF PlacesOf
    <2>2. cs[k] \in Nat
      OBVIOUS
    <2> QED
      BY <1>1, <2>1, <2>2
  <1>3. g[k] = <<first, first + n>>
    <2>1. g[k] = Place(ps, cs, k, e)
      BY DEF PlacesOf
    <2>2. ps[k].type = "plain" => n = ps[k].bytes
      BY <1>1
    <2> HIDE DEF n, first, e
    <2>3. Place(ps, cs, k, e)
            = IF ps[k].type = "plain" THEN <<FirstByte(ps, k, e), FirstByte(ps, k, e) + ps[k].bytes>>
                                      ELSE <<FirstByte(ps, k, e), FirstByte(ps, k, e) + n>>
      BY DEF Place, PlainPlace, SpanPlace, Extent, n
    <2> QED
      BY <2>1, <2>2, <2>3 DEF first
  <1>4. ~ s.alignment < a /\ MaxOf(s.alignment, a) = Storage(ps)
    BY <1>1 DEF MaxOf
  <1>5. AlignedOffset(ps, k, s) = first
    BY <1>4 DEF AlignedOffset
  <1> HIDE DEF first, n, e
  <1>6. first \in Nat /\ first + n = g[k][2]
    BY <1>2, <1>3
  <1>7. PlainSize(ps, k, s, n)
          = [offset |-> first + n, size |-> e + (first - e) + n,
             padding |-> PaddingAt(ps, k, first + n), alignment |-> Storage(ps)]
    BY <1>4, <1>5 DEF PlainSize, PaddingAt, a, e
  <1>8. e + (first - e) + n = first + n
    BY <1>2, <1>6
  <1> QED
    BY <1>6, <1>7, <1>8 DEF n, SizeUpTo

(* What the sizes add up to: an element ends where one that starts at 0     *)
(* does, and the next one is aligned for the memory.                        *)
LEMMA SizeOfFixed ==
  ASSUME NEW ps, IsParameterList(ps), AllFixed(ps),
         NEW cs, \A k \in DOMAIN ps : cs[k] \in Nat /\ (ps[k].type = "plain" => cs[k] = 1)
  PROVE  LET e == SizeFromFirst(ps, cs)
         IN  /\ e.distance = 0 /\ e.size = Past(Placement(ps, cs, 0))
             /\ e.size \in Nat /\ e.stride \in Nat /\ e.size <= e.stride
             /\ Multiple(e.stride, Storage(ps))
  <1> DEFINE n == Len(ps)
             S == Storage(ps)
             zero == 0
  <1>1. /\ n \in Nat /\ n > 0 /\ DOMAIN ps = 1 .. n /\ S \in Nat /\ S > 0
        /\ \A k \in 1 .. n : ps[k].type # "varying"
    BY ListFacts, StorageIsLargest DEF AllFixed
  <1>2. PICK g : PlacesOf(ps, cs, zero, g)
    BY PlacesFromStart
  <1>3. \A k \in 0 .. n : g[k][2] \in Nat /\ g[k][1] \in Nat
    BY <1>2 DEF PlacesOf
  <1> DEFINE w == [k \in 0 .. n |-> IF k = 0 THEN FirstSize(ps) ELSE SizeUpTo(ps, k, g[k][2])]
             Fits(s, k) == s.offset = g[k][2] /\ s.size = g[k][2] /\ s.alignment = S
             h == CHOOSE f : AreSizes(ps, cs, f)
  <1>4. \A k \in 0 .. n : Fits(w[k], k)
    <2>1. g[0] = <<0, 0>>
      BY <1>2 DEF PlacesOf
    <2>2. ASSUME NEW k \in 0 .. n PROVE Fits(w[k], k)
      <3>1. CASE k = 0
        BY <2>1, <3>1, <1>1 DEF FirstSize
      <3>2. CASE k # 0
        BY <3>2 DEF SizeUpTo
      <3> QED
        BY <3>1, <3>2
    <2> QED
      BY <2>2
  <1>5. ASSUME NEW k \in 1 .. n, NEW s, Fits(s, k - 1)
        PROVE  PlainSize(ps, k, s, ps[k].bytes * cs[k]) = SizeUpTo(ps, k, g[k][2])
    <2>1. /\ k \in DOMAIN ps /\ s.offset = g[k - 1][2] /\ s.size = g[k - 1][2]
          /\ s.alignment = Storage(ps) /\ zero = 0
      BY <1>1, <1>5
    <2> HIDE DEF zero
    <2> QED
      BY <1>2, <2>1, SizeGoesOn
  <1>6. AreSizes(ps, cs, w)
    <2>1. ASSUME NEW k \in 1 .. n
          PROVE  w[k] = PlainSize(ps, k, w[k - 1], ps[k].bytes * cs[k])
      <3>1. k - 1 \in 0 .. n /\ k \in 0 .. n /\ k # 0
        BY <1>1
      <3>2. Fits(w[k - 1], k - 1)
        BY <1>4, <3>1
      <3>3. w[k] = SizeUpTo(ps, k, g[k][2])
        BY <3>1
      <3> HIDE DEF w
      <3> QED
        BY <1>5, <3>2, <3>3
    <2>2. w = [k \in 0 .. n |-> w[k]] /\ w[0] = FirstSize(ps)
      BY <1>1
    <2> HIDE DEF w
    <2>3. \A k \in 0 .. n :
            w[k] = IF k = 0 THEN FirstSize(ps)
                   ELSE IF ps[k].type = "varying" THEN VaryingSize(ps, k, w[k - 1])
                   ELSE PlainSize(ps, k, w[k - 1], ps[k].bytes * cs[k])
      <3>1. ASSUME NEW k \in 0 .. n, k # 0
            PROVE  k \in 1 .. n /\ ps[k].type # "varying"
        BY <1>1, <3>1
      <3> HIDE DEF n
      <3> QED
        BY <2>1, <2>2, <3>1
    <2> QED
      BY <2>2, <2>3 DEF AreSizes, n
  <1>7. AreSizes(ps, cs, h)
    BY <1>6
  <1>8. SizeFromFirst(ps, cs)
          = [size |-> h[n].size, stride |-> h[n].size + h[n].padding, distance |-> 0]
    BY DEF SizeFromFirst, AreSizes, FirstSize
  <1> HIDE DEF w, h
  <1>9. \A k \in 0 .. n :
          h[k] = IF k = 0 THEN FirstSize(ps)
                 ELSE IF ps[k].type = "varying" THEN VaryingSize(ps, k, h[k - 1])
                 ELSE PlainSize(ps, k, h[k - 1], ps[k].bytes * cs[k])
    <2>1. h = [k \in 0 .. n |->
                 IF k = 0 THEN FirstSize(ps)
                 ELSE IF ps[k].type = "varying" THEN VaryingSize(ps, k, h[k - 1])
                 ELSE PlainSize(ps, k, h[k - 1], ps[k].bytes * cs[k])]
      BY <1>7 DEF AreSizes
    <2> QED
      BY <2>1
  <1> DEFINE T == {k \in 0 .. n : Fits(h[k], k)}
  <1>10. 0 \in T
    <2>1. g[0] = <<0, 0>> /\ h[0] = FirstSize(ps) /\ 0 \in 0 .. n
      BY <1>1, <1>2, <1>9 DEF PlacesOf
    <2> QED
      BY <2>1 DEF FirstSize
  <1>11. ASSUME NEW k \in 1 .. n, Fits(h[k - 1], k - 1)
         PROVE  h[k] = SizeUpTo(ps, k, g[k][2]) /\ Fits(h[k], k)
    <2>1. h[k] = PlainSize(ps, k, h[k - 1], ps[k].bytes * cs[k])
      BY <1>1, <1>9
    <2>2. h[k] = SizeUpTo(ps, k, g[k][2])
      BY <1>5, <1>11, <2>1
    <2> QED
      BY <2>2 DEF SizeUpTo
  <1>12. ASSUME NEW j \in T, j < n PROVE j + 1 \in T
    <2> DEFINE k == j + 1
    <2>1. k \in 1 .. n /\ k - 1 = j /\ k \in 0 .. n /\ Fits(h[j], j)
      BY <1>1, <1>12
    <2> HIDE DEF k
    <2>2. Fits(h[k], k)
      BY <1>11, <2>1
    <2> QED
      BY <2>1, <2>2 DEF k
  <1> HIDE DEF T
  <1>13. T = 0 .. n
    BY <1>1, <1>10, <1>12, Induction DEF T
  <1> DEFINE size == g[n][2]
             t == TrailingAlignment(ps[n].bytes, ps[n].align)
             stride == size + PaddingAt(ps, n, size)
  <1>14. h[n] = SizeUpTo(ps, n, size)
    <2> DEFINE j == n - 1
    <2>1. n \in 1 .. n /\ j \in 0 .. n
      BY <1>1
    <2>2. Fits(h[j], j)
      BY <1>13, <2>1 DEF T
    <2> QED
      BY <1>11, <2>1, <2>2
  <1>15. h[n].size = size /\ h[n].padding = PaddingAt(ps, n, size) /\ size \in Nat
    BY <1>1, <1>3, <1>14 DEF SizeUpTo
  <1>16. NextAlignment(ps, n) = S
    BY DEF NextAlignment
  <1>17. /\ IsPowerOfTwo(ps[n].align) /\ ps[n].align \in Nat /\ ps[n].align <= S
         /\ ps[n].bytes \in Nat /\ ps[n].bytes > 0 /\ cs[n] \in Nat /\ n \in DOMAIN ps
    <2>1. n \in DOMAIN ps
      BY <1>1
    <2> QED
      BY <1>1, <2>1, ListFacts, StorageIsLargest DEF IsParameterList
  <1> HIDE DEF T
  <1>18. stride \in Nat /\ size <= stride /\ Multiple(stride, S)
    <2>1. CASE t < S
      <3>1. PaddingAt(ps, n, size) = Align(size, S) - size
        BY <1>16, <2>1 DEF PaddingAt, AlignIf
      <3> HIDE DEF size, S
      <3>2. Align(size, S) \in Nat /\ size <= Align(size, S) /\ Multiple(Align(size, S), S)
        BY <1>1, <1>15, AlignFindsNext
      <3>3. stride = Align(size, S)
        BY <1>15, <3>1, <3>2
      <3> QED
        BY <3>2, <3>3
    <2>2. CASE ~ t < S
      <3>1. PaddingAt(ps, n, size) = 0
        BY <1>15, <1>16, <2>2 DEF PaddingAt, AlignIf
      <3>2. t \in Nat /\ Multiple(ps[n].bytes, t) /\ Multiple(ps[n].align, t)
        BY <1>17, TrailingDivides
      <3> HIDE DEF t
      <3>3. ps[n].align > 0 /\ t > 0
        BY <1>1, <1>17, <2>2, <3>2, PowerFacts
      <3>4. t <= ps[n].align
        BY <1>17, <3>2, <3>3, DivisorIsLess
      <3>5. t = S /\ ps[n].align = S
        BY <1>1, <1>17, <2>2, <3>2, <3>4
      <3> DEFINE first == g[n][1]
                 many == ps[n].bytes * cs[n]
      <3>6. Multiple(first, ps[n].align)
        <4>1. Multiple(zero, S)
          BY <1>1, MultipleOfSelf
        <4> HIDE DEF zero
        <4>2. \A k \in DOMAIN ps : Multiple(g[k][1], ps[k].align)
          BY <1>2, <4>1, PlacesAligned DEF zero
        <4> QED
          BY <1>17, <4>2
      <3>7. Multiple(many, S)
        BY <1>1, <1>17, <3>2, <3>5, MultiplesScale
      <3>8. size = first + many
        <4>1. g[n] = Place(ps, cs, n, g[n - 1][2])
          BY <1>2, <1>17 DEF PlacesOf
        <4>2. ps[n].type = "plain" => many = ps[n].bytes
          BY <1>17
        <4> HIDE DEF many
        <4> DEFINE f == FirstByte(ps, n, g[n - 1][2])
        <4>3. g[n] = IF ps[n].type = "plain" THEN <<f, f + ps[n].bytes>> ELSE <<f, f + many>>
          BY <4>1 DEF Place, PlainPlace, SpanPlace, Extent, many
        <4> HIDE DEF f
        <4>4. g[n] = <<f, f + many>>
          BY <4>2, <4>3
        <4> QED
          BY <4>4
      <3> HIDE DEF size, S, first, many
      <3>9. Multiple(size, S)
        BY <1>1, <3>5, <3>6, <3>7, <3>8, MultiplesAdd
      <3>10. stride = size
        BY <1>15, <3>1
      <3> QED
        BY <1>15, <3>9, <3>10
    <2> QED
      BY <2>1, <2>2
  <1>19. Past(Placement(ps, cs, zero)) = size
    BY <1>2 DEF PlacesOf
  <1> HIDE DEF size
  <1> QED
    BY <1>8, <1>15, <1>18, <1>19 DEF stride

-----------------------------------------------------------------------------
(* How many objects each parameter of an element has.                       *)
AreCounts(ps, cs) ==
  /\ cs \in [DOMAIN ps -> Nat]
  /\ \A k \in DOMAIN ps : ps[k].type = "plain" => cs[k] = 1

(* The size of a parameter is a multiple of that of its objects.            *)
LEMMA DivisionIsExact ==
  ASSUME NEW b \in Nat, b > 0, NEW c \in Nat
  PROVE  (b * c) \div b = c
  <1> DEFINE y == b * c
             q == y \div b
             r == y % b
  <1>1. y \in Nat /\ Multiple(y, b)
    <2>1. y \in Nat /\ y = c * b /\ c \in Int
      OBVIOUS
    <2> QED
      BY <2>1 DEF Multiple
  <1> HIDE DEF y
  <1>2. r = 0 /\ q \in Int /\ y = b * q + r
    BY <1>1, RemainderOfMultiple
  <1> HIDE DEF q, r
  <1>3. b * q = b * c
    BY <1>2 DEF y
  <1>4. q = c
    BY <1>2, <1>3
  <1> QED
    BY <1>4 DEF q, y

(* An element that starts at a multiple of the storage's alignment: its     *)
(* parameters are aligned and in order, and lie as in one that starts at 0. *)
LEMMA PlacementFacts ==
  ASSUME NEW ps, IsParameterList(ps), NEW cs, AreCounts(ps, cs),
         NEW start \in Nat, Multiple(start, Storage(ps))
  PROVE  LET p == Placement(ps, cs, start)
             z == Placement(ps, cs, 0)
         IN  /\ First(p) = start /\ Past(p) \in Nat /\ start <= Past(p)
             /\ Past(p) = Past(z) + start
             /\ Known(Bracket(ps, Len(ps)), Past(p))
             /\ \A k \in DOMAIN ps :
                  /\ IsAligned(p[k][1], ps[k].align)
                  /\ k # 1 => p[k - 1][2] <= p[k][1]
                  /\ (p[k][2] - p[k][1]) \div ps[k].bytes = cs[k]
                  /\ z[k][1] = p[k][1] - start
  <1> DEFINE n == Len(ps)
             S == Storage(ps)
             zero == 0
             p == Placement(ps, cs, start)
             z == Placement(ps, cs, zero)
  <1>1. /\ n \in Nat /\ n > 0 /\ DOMAIN ps = 1 .. n /\ S \in Nat /\ S > 0
        /\ \A k \in DOMAIN ps : /\ cs[k] \in Nat /\ (ps[k].type = "plain" => cs[k] = 1)
                                /\ ps[k].align \in Nat /\ ps[k].align > 0
                                /\ ps[k].bytes \in Nat /\ ps[k].bytes > 0
    BY ListFacts, StorageIsLargest DEF AreCounts
  <1>2. zero \in Nat /\ Multiple(zero, S)
    BY <1>1, MultipleOfSelf
  <1> HIDE DEF zero
  <1>3. PICK f : PlacesOf(ps, cs, start, f)
    BY <1>1, PlacesFromStart
  <1>4. PICK g : PlacesOf(ps, cs, zero, g)
    BY <1>1, <1>2, PlacesFromStart
  <1>5. /\ \A k \in DOMAIN ps : p[k] = f[k] /\ z[k] = g[k]
        /\ Past(p) = f[n][2] /\ Past(z) = g[n][2]
        /\ \A k \in 0 .. n : f[k][1] \in Nat /\ f[k][2] \in Nat /\ g[k][1] \in Nat /\ g[k][2] \in Nat
    BY <1>3, <1>4 DEF PlacesOf
  <1>6. /\ \A k \in DOMAIN ps : Multiple(f[k][1], ps[k].align)
        /\ Known(Bracket(ps, n), f[n][2])
    BY <1>1, <1>3, PlacesAligned
  <1>7. \A k \in 0 .. n : f[k][1] = g[k][1] + start /\ f[k][2] = g[k][2] + start
    BY <1>1, <1>3, <1>4, PlacesShift DEF zero
  <1>8. /\ \A k \in DOMAIN ps : start <= p[k][1] /\ p[k][1] <= p[k][2]
        /\ \A j, k \in DOMAIN ps : j < k => p[j][2] <= p[k][1]
    BY <1>1, PlacesInOrder
  <1> DEFINE many(k) == ps[k].bytes * cs[k]
  <1>9. ASSUME NEW k \in DOMAIN ps
        PROVE  f[k] = <<FirstByte(ps, k, f[k - 1][2]), FirstByte(ps, k, f[k - 1][2]) + many(k)>>
    <2>1. f[k] = Place(ps, cs, k, f[k - 1][2])
      BY <1>3 DEF PlacesOf
    <2>2. ps[k].type = "plain" => many(k) = ps[k].bytes
      BY <1>1
    <2> DEFINE m == many(k)
               b == FirstByte(ps, k, f[k - 1][2])
    <2>3. f[k] = IF ps[k].type = "plain" THEN <<b, b + ps[k].bytes>> ELSE <<b, b + m>>
      BY <2>1 DEF Place, PlainPlace, SpanPlace, Extent
    <2> HIDE DEF b, m
    <2>4. f[k] = <<b, b + m>>
      BY <2>2, <2>3 DEF m
    <2> QED
      BY <2>4 DEF b, m
  <1> HIDE DEF p, z, n, S
  <1>10. ASSUME NEW k \in DOMAIN ps
         PROVE  /\ IsAligned(p[k][1], ps[k].align)
                /\ k # 1 => p[k - 1][2] <= p[k][1]
                /\ (p[k][2] - p[k][1]) \div ps[k].bytes = cs[k]
                /\ z[k][1] = p[k][1] - start
    <2>1. k \in 1 .. n /\ k \in 0 .. n /\ p[k] = f[k] /\ z[k] = g[k]
      BY <1>1, <1>5
    <2>2. IsAligned(p[k][1], ps[k].align)
      BY <1>1, <1>5, <1>6, <2>1, RemainderOfMultiple DEF IsAligned
    <2>3. k # 1 => p[k - 1][2] <= p[k][1]
      <3>1. k # 1 => k - 1 \in DOMAIN ps /\ k - 1 < k
        BY <1>1, <2>1
      <3> QED
        BY <1>8, <3>1
    <2>4. z[k][1] = p[k][1] - start
      BY <1>5, <1>7, <2>1
    <2>5. p[k][2] - p[k][1] = many(k)
      <3> DEFINE b == FirstByte(ps, k, f[k - 1][2])
                 m == many(k)
      <3>1. f[k] = <<b, b + m>> /\ m \in Nat
        BY <1>1, <1>9
      <3> HIDE DEF b, m
      <3>2. f[k][1] = b /\ f[k][2] = b + m /\ b \in Nat
        BY <1>5, <2>1, <3>1
      <3>3. p[k][2] - p[k][1] = m
        BY <2>1, <3>1, <3>2
      <3> QED
        BY <3>3 DEF m
    <2>6. many(k) \div ps[k].bytes = cs[k]
      BY <1>1, DivisionIsExact
    <2> QED
      BY <2>2, <2>3, <2>4, <2>5, <2>6
  <1>11. First(p) = start
    <2>1. p[1] = f[1] /\ z[1] = g[1] /\ 1 \in DOMAIN ps /\ 1 \in 0 .. n
      BY <1>1, <1>5
    <2>2. g[1][1] = 0
      <3>1. g[0] = <<0, 0>> /\ g[1] = Place(ps, cs, 1, g[1 - 1][2])
        BY <1>4, <2>1 DEF PlacesOf, zero
      <3>2. g[1] = Place(ps, cs, 1, 0)
        BY <3>1
      <3>3. FirstByte(ps, 1, 0) = AlignIf(PreviousTrailing(ps, 1) < ps[1].align, 0, ps[1].align)
        BY DEF FirstByte
      <3>4. Align(zero, ps[1].align) = zero
        <4>1. Multiple(zero, ps[1].align) /\ ps[1].align \in Nat /\ ps[1].align > 0
          BY <1>1, <2>1, MultipleOfSelf DEF zero
        <4> QED
          BY <1>2, <4>1, AlignFindsNext
      <3>5. FirstByte(ps, 1, 0) = 0
        BY <3>3, <3>4 DEF AlignIf, zero
      <3>6. Place(ps, cs, 1, 0)[1] = FirstByte(ps, 1, 0)
        BY DEF Place, PlainPlace, SpanPlace, Extent
      <3> QED
        BY <3>2, <3>5, <3>6
    <2>3. f[1][1] = start
      BY <1>7, <2>1, <2>2
    <2> QED
      BY <2>1, <2>3 DEF First
  <1>12. Past(p) \in Nat /\ Past(p) = Past(z) + start /\ start <= Past(p)
    <2>1. n \in 0 .. n
      BY <1>1
    <2> QED
      BY <1>5, <1>7, <2>1
  <1> QED
    BY <1>5, <1>6, <1>10, <1>11, <1>12 DEF p, z, n, zero
=============================================================================
