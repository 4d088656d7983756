----------------------- MODULE VectorIteratorsProofs -----------------------
(***************************************************************************)
(* Iterators of the single header's vectors lead to their elements, and    *)
(* the comparisons of vectors compare elements.                            *)
(*                                                                         *)
(* The inductive invariant, IteratorsInv, adds to that of the vectors      *)
(* where their tables are and what an iterator has copied:                 *)
(*                                                                         *)
(*   BuffersOwned  every vector has a table of its own, with room for the  *)
(*                 entries it has;                                         *)
(*   AllLead       an iterator obtained for an element has the memory, the *)
(*                 index and the locator of the vector the element is in   *)
(*                 (LeadsInto), whoever that vector got it from.           *)
(*                                                                         *)
(* A call is shown to keep both by what it does to the contents, which is  *)
(* known from SingleHeaderProofs, to the tables and to the iterators:      *)
(* those that are kept find their vector Unmoved, or Follow an element     *)
(* into the vector that has it now.                                        *)
(***************************************************************************)
EXTENDS VectorIterators, SingleHeaderProofs, FiniteSetTheorems

(* A caller that holds iterators only over calls that keep their table.     *)
KeepsTables == Careful /\ {"grow_table", "copy_tables"} \subseteq Avoided

(* However many vectors have a table, there are names left for two more.    *)
EnoughBuffers ==
  \A f \in [Vector -> Buffer \cup {Null}] :
    \E b, c \in Buffer \ {f[v] : v \in Vector} : b # c

(* The table t has room for the elements of m, which are not more than m is *)
(* made for.                                                                *)
Room(m, t) ==
  /\ t.buffer \in Buffer \cup {Null}
  /\ t.capacity \in Nat
  /\ t.buffer = Null => t.capacity = 0
  /\ Varying => /\ Len(m.table) <= t.capacity
                /\ Len(m.table) <= m.max_element_count

(* Every vector has its own table.                                          *)
BuffersOwned ==
  /\ DOMAIN tables = DOMAIN vectors
  /\ \A v \in DOMAIN tables : Room(vectors[v], tables[v])
  /\ \A v, w \in DOMAIN tables :
       v # w /\ tables[v].buffer = tables[w].buffer => tables[v].buffer = Null

(* IteratorTo for any members and table.                                    *)
IteratorFor(m, t, n) ==
  IF Varying THEN [i |-> n, memory |-> m.block, buffer |-> t.buffer]
  ELSE [i |-> n, memory |-> m.block, start |-> m.edge, stride |-> m.stride]

(* h leads to an element of s, in the vector with members m and table t.    *)
LeadsInto(h, m, t, s) ==
  /\ s # Unspecified
  /\ h.position + 1 \in 1 .. Len(s)
  /\ h.element = s[h.position + 1]
  /\ h.it = IteratorFor(m, t, h.position)

IsHeld(h) == h = Held(h.it, h.vector, h.position, h.element) /\ h.position \in Nat

(* An iterator that was obtained for an element leads to it, in the vector  *)
(* that it is said to lead to.                                              *)
Leads(h, V, T, C) ==
  h.element # Null =>
    h.vector \in DOMAIN V /\ LeadsInto(h, V[h.vector], T[h.vector], C[h.vector])

AllLead ==
  \A x \in DOMAIN iterators :
    IsHeld(iterators[x]) /\ Leads(iterators[x], vectors, tables, contents)

IteratorsInv == Inv /\ BuffersOwned /\ AllLead

-----------------------------------------------------------------------------
LEMMA IteratorToIsFor ==
  ASSUME NEW v, NEW n
  PROVE  IteratorTo(v, n) = IteratorFor(vectors[v], tables[v], n)
  BY DEF IteratorTo, IteratorFor

LEMMA BuffersNext ==
  ASSUME UNCHANGED kind, DOMAIN tables' = DOMAIN vectors',
         \A x \in DOMAIN vectors' : Room(vectors'[x], tables'[x]),
         \A x, y \in DOMAIN vectors' :
           x # y /\ tables'[x].buffer = tables'[y].buffer => tables'[x].buffer = Null
  PROVE  BuffersOwned'
  <1>1. Varying' = Varying
    BY DEF Varying
  <1> QED
    BY <1>1 DEF BuffersOwned, Room

LEMMA AllLeadNext ==
  ASSUME UNCHANGED kind,
         \A x \in DOMAIN iterators' :
           IsHeld(iterators'[x]) /\ Leads(iterators'[x], vectors', tables', contents')
  PROVE  AllLead'
  <1>1. Varying' = Varying
    BY DEF Varying
  <1> QED
    BY <1>1 DEF AllLead, Leads, LeadsInto, IteratorFor, IsHeld, Held

(* The tables as a function of all vectors.                                 *)
BufferOf(v) == IF v \in DOMAIN tables THEN tables[v].buffer ELSE Null

LEMMA BuffersOfVectors ==
  ASSUME Inv, BuffersOwned
  PROVE  /\ [v \in Vector |-> BufferOf(v)] \in [Vector -> Buffer \cup {Null}]
         /\ Buffer \ {BufferOf(v) : v \in Vector} \subseteq FreshBuffers
  <1>1. DOMAIN tables \subseteq Vector
    BY DEF Inv, OwnInv, AreVectors, BuffersOwned
  <1>2. \A v \in Vector : BufferOf(v) \in Buffer \cup {Null}
    BY DEF BuffersOwned, Room, BufferOf
  <1>3. \A v \in DOMAIN tables : tables[v].buffer \in {BufferOf(x) : x \in Vector}
    BY <1>1 DEF BufferOf
  <1> QED
    BY <1>2, <1>3 DEF FreshBuffers

(* There is a name for another table.                                       *)
LEMMA FreshBufferIsFree ==
  ASSUME Inv, BuffersOwned
  PROVE  (CHOOSE b \in FreshBuffers : TRUE) \in FreshBuffers
  <1> DEFINE f == [v \in Vector |-> BufferOf(v)]
  <1>1. f \in [Vector -> Buffer \cup {Null}]
    BY BuffersOfVectors
  <1>2. {f[v] : v \in Vector} = {BufferOf(v) : v \in Vector}
    OBVIOUS
  <1> HIDE DEF f
  <1>3. PICK b \in Buffer : b \notin {f[v] : v \in Vector}
    BY <1>1, BufferAssumption
  <1>4. b \in FreshBuffers
    BY <1>2, <1>3, BuffersOfVectors
  <1> QED
    BY <1>4

(* There is a name for yet another one.                                     *)
LEMMA OtherBufferIsFree ==
  ASSUME Inv, BuffersOwned, EnoughBuffers, NEW c
  PROVE  LET d == CHOOSE d \in FreshBuffers : d # c
         IN  d \in FreshBuffers /\ d # c
  <1> DEFINE f == [v \in Vector |-> BufferOf(v)]
  <1>1. f \in [Vector -> Buffer \cup {Null}]
    BY BuffersOfVectors
  <1>2. {f[v] : v \in Vector} = {BufferOf(v) : v \in Vector}
    OBVIOUS
  <1> HIDE DEF f
  <1>3. PICK a, b \in Buffer \ {f[v] : v \in Vector} : a # b
    BY <1>1 DEF EnoughBuffers
  <1>4. a \in FreshBuffers /\ b \in FreshBuffers
    BY <1>2, <1>3, BuffersOfVectors
  <1>5. \E d \in FreshBuffers : d # c
    BY <1>3, <1>4
  <1> QED
    BY <1>5

-----------------------------------------------------------------------------
(* No vector but v has t.                                                   *)
NobodyElses(v, t) ==
  \A x \in DOMAIN tables : x # v /\ tables[x].buffer = t.buffer => t.buffer = Null

LEMMA TableInIs ==
  ASSUME BuffersOwned, NEW b \in FreshBuffers, NEW n \in Nat, NEW a, NEW v
  PROVE  LET t == TableIn(b, n, a)
         IN  /\ t.buffer \in Buffer \cup {Null} /\ t.capacity \in Nat
             /\ t.buffer = Null => t.capacity = 0
             /\ Varying => t.capacity = n
             /\ t.buffer \in {b, Null}
             /\ NobodyElses(v, t)
  <1>1. /\ b \in Buffer /\ b # Null
        /\ \A x \in DOMAIN tables : tables[x].buffer # b
    BY BufferAssumption DEF FreshBuffers
  <1>2. CASE Varying /\ n > 0
    BY <1>1, <1>2 DEF TableIn, NobodyElses
  <1>3. CASE ~ (Varying /\ n > 0)
    BY <1>3 DEF TableIn, NobodyElses, NoTable
  <1> QED
    BY <1>2, <1>3

LEMMA TableForIs ==
  ASSUME Inv, BuffersOwned, NEW n \in Nat, NEW a, NEW v
  PROVE  LET t == TableFor(n, a)
         IN  /\ t.buffer \in Buffer \cup {Null} /\ t.capacity \in Nat
             /\ t.buffer = Null => t.capacity = 0
             /\ Varying => t.capacity = n
             /\ NobodyElses(v, t)
  <1> DEFINE b == CHOOSE b \in FreshBuffers : TRUE
  <1>1. b \in FreshBuffers
    BY FreshBufferIsFree
  <1>2. TableFor(n, a) = TableIn(b, n, a)
    BY DEF TableFor
  <1> HIDE DEF b
  <1> QED
    BY <1>1, <1>2, TableInIs

LEMMA OwnTableIs ==
  ASSUME BuffersOwned, NEW v \in DOMAIN vectors
  PROVE  /\ Room(vectors[v], tables[v])
         /\ tables[v].buffer \in Buffer \cup {Null} /\ tables[v].capacity \in Nat
         /\ tables[v].buffer = Null => tables[v].capacity = 0
         /\ NobodyElses(v, tables[v])
  BY DEF BuffersOwned, NobodyElses, Room

(* v is given the table t, the others keep theirs.                          *)
Placed(v, t) ==
  /\ DOMAIN tables' = DOMAIN tables \cup {v} /\ tables'[v] = t
  /\ \A x \in DOMAIN tables \ {v} : tables'[x] = tables[x]

LEMMA PlaceIsPlaced ==
  ASSUME NEW v, NEW t, Place(v, t)
  PROVE  Placed(v, t)
  BY DEF Place, Placed

LEMMA PlaceBuffers ==
  ASSUME BuffersOwned, UNCHANGED kind, NEW v, NEW t, Placed(v, t),
         DOMAIN vectors' = DOMAIN vectors \cup {v},
         \A x \in DOMAIN vectors \ {v} : vectors'[x] = vectors[x],
         Room(vectors'[v], t), NobodyElses(v, t)
  PROVE  BuffersOwned'
  <1>1. /\ DOMAIN tables = DOMAIN vectors
        /\ DOMAIN tables' = DOMAIN vectors' /\ tables'[v] = t
        /\ \A x \in DOMAIN vectors \ {v} : tables'[x] = tables[x]
    BY DEF Placed, BuffersOwned
  <1>2. \A x \in DOMAIN vectors' : Room(vectors'[x], tables'[x])
    BY <1>1 DEF BuffersOwned
  <1>3. ASSUME NEW x \in DOMAIN vectors', NEW y \in DOMAIN vectors', x # y,
               tables'[x].buffer = tables'[y].buffer
        PROVE  tables'[x].buffer = Null
    BY <1>1, <1>3 DEF BuffersOwned, NobodyElses
  <1> QED
    BY <1>1, <1>2, <1>3, BuffersNext

-----------------------------------------------------------------------------
(* Behind a step y locates its elements where x did, in the same table.     *)
SameLocator(x, y) ==
  /\ vectors'[y].block = vectors[x].block
  /\ Varying => tables'[y].buffer = tables[x].buffer
  /\ ~ Varying => vectors'[y].edge = vectors[x].edge /\ vectors'[y].stride = vectors[x].stride

(* What led to element n of x leads to the same element of y.               *)
Follows(x, y, n) ==
  /\ y \in DOMAIN vectors'
  /\ SameLocator(x, y)
  /\ contents'[y] # Unspecified /\ n + 1 \in 1 .. Len(contents'[y])
  /\ contents'[y][n + 1] = contents[x][n + 1]

Unmoved(x) ==
  /\ x \in DOMAIN vectors'
  /\ vectors'[x] = vectors[x] /\ tables'[x] = tables[x] /\ contents'[x] = contents[x]

(* g is h, but for the vector that has the element now.                     *)
LEMMA StillLeads ==
  ASSUME NEW h, Leads(h, vectors, tables, contents), NEW g,
         g.element = h.element, g.position = h.position, g.it = h.it,
         h.element # Null => \/ g.vector = h.vector /\ Unmoved(h.vector)
                             \/ Follows(h.vector, g.vector, h.position)
  PROVE  Leads(g, vectors', tables', contents')
  <1>1. SUFFICES ASSUME h.element # Null
                 PROVE  /\ g.vector \in DOMAIN vectors'
                        /\ LeadsInto(g, vectors'[g.vector], tables'[g.vector],
                                     contents'[g.vector])
    BY DEF Leads
  <1>2. LeadsInto(h, vectors[h.vector], tables[h.vector], contents[h.vector])
    BY <1>1 DEF Leads
  <1>3. CASE g.vector = h.vector /\ Unmoved(h.vector)
    BY <1>2, <1>3 DEF Unmoved, LeadsInto
  <1>4. CASE Follows(h.vector, g.vector, h.position)
    <2>1. IteratorFor(vectors'[g.vector], tables'[g.vector], h.position)
            = IteratorFor(vectors[h.vector], tables[h.vector], h.position)
      BY <1>4 DEF Follows, SameLocator, IteratorFor
    <2> QED
      BY <1>2, <1>4, <2>1 DEF Follows, LeadsInto
  <1> QED
    BY <1>1, <1>3, <1>4

(* The iterators that are kept keep leading.                                *)
LEMMA KeptLead ==
  ASSUME AllLead, UNCHANGED kind, NEW S, S \subseteq DOMAIN iterators, Keep(S),
         ASSUME NEW x \in S, iterators[x].element # Null
         PROVE  \/ Unmoved(iterators[x].vector)
                \/ Follows(iterators[x].vector, iterators[x].vector, iterators[x].position)
  PROVE  AllLead'
  <1>1. ASSUME NEW x \in DOMAIN iterators'
        PROVE  IsHeld(iterators'[x]) /\ Leads(iterators'[x], vectors', tables', contents')
    <2>1. x \in S /\ iterators'[x] = iterators[x]
      BY <1>1 DEF Keep
    <2>2. IsHeld(iterators[x]) /\ Leads(iterators[x], vectors, tables, contents)
      BY <2>1 DEF AllLead
    <2>3. Leads(iterators[x], vectors', tables', contents')
      BY <2>1, <2>2, StillLeads
    <2> QED
      BY <2>1, <2>2, <2>3
  <1> QED
    BY <1>1, AllLeadNext

(* Elements of x \in DOMAIN f go to f[x], the others stay.                  *)
LEMMA FollowLead ==
  ASSUME AllLead, UNCHANGED kind, NEW S, S \subseteq DOMAIN iterators, NEW f, Follow(S, f),
         ASSUME NEW x \in S, iterators[x].element # Null,
                iterators[x].vector \notin DOMAIN f
         PROVE  Unmoved(iterators[x].vector),
         ASSUME NEW x \in S, iterators[x].element # Null, iterators[x].vector \in DOMAIN f
         PROVE  Follows(iterators[x].vector, f[iterators[x].vector], iterators[x].position)
  PROVE  AllLead'
  <1>1. ASSUME NEW x \in DOMAIN iterators'
        PROVE  IsHeld(iterators'[x]) /\ Leads(iterators'[x], vectors', tables', contents')
    <2> DEFINE h == iterators[x]
               g == iterators'[x]
    <2>1. /\ x \in S
          /\ h.vector \in DOMAIN f => h.element # Null
          /\ g = IF h.vector \in DOMAIN f THEN [h EXCEPT !.vector = f[h.vector]] ELSE h
      BY <1>1 DEF Follow
    <2>2. IsHeld(h) /\ Leads(h, vectors, tables, contents)
      BY <2>1 DEF AllLead
    <2> HIDE DEF h, g
    <2>3. CASE h.vector \in DOMAIN f
      <3>1. g = Held(h.it, f[h.vector], h.position, h.element)
        BY <2>1, <2>2, <2>3 DEF IsHeld, Held
      <3>2. /\ g.it = h.it /\ g.vector = f[h.vector]
            /\ g.position = h.position /\ g.element = h.element
        BY <3>1 DEF Held
      <3>3. Follows(h.vector, g.vector, h.position)
        BY <2>1, <2>3, <3>2 DEF h
      <3>4. Leads(g, vectors', tables', contents')
        BY <2>2, <3>2, <3>3, StillLeads
      <3>5. IsHeld(g)
        BY <2>2, <3>1, <3>2 DEF IsHeld
      <3> QED
        BY <3>4, <3>5 DEF g
    <2>4. CASE h.vector \notin DOMAIN f
      <3>1. g = h
        BY <2>1, <2>4
      <3>2. h.element # Null => Unmoved(h.vector)
        BY <2>1, <2>4 DEF h
      <3>3. Leads(g, vectors', tables', contents')
        BY <2>2, <3>1, <3>2, StillLeads
      <3> QED
        BY <2>2, <3>1, <3>3 DEF g
    <2> QED
      BY <2>3, <2>4
  <1> QED
    BY <1>1, AllLeadNext

-----------------------------------------------------------------------------
(* What a step that gives or hands values does to the contents.             *)
LEMMA GivenContents ==
  ASSUME Inv, Inv', UNCHANGED kind, NEW v, NEW s, Gives(v, s)
  PROVE  /\ DOMAIN vectors' = DOMAIN vectors \cup {v}
         /\ contents'[v] = s
         /\ \A x \in DOMAIN vectors \ {v} : contents'[x] = contents[x]
  BY ValuesBefore, ValuesAfter DEF Gives

LEMMA GivenAwayContents ==
  ASSUME Inv, Inv', UNCHANGED kind, NEW v, NEW w \in DOMAIN vectors, v # w,
         NEW left, GivesAway(v, w, ValueOf(vectors[w], heap), left)
  PROVE  /\ DOMAIN vectors' = DOMAIN vectors \cup {v}
         /\ contents'[v] = contents[w] /\ contents'[w] = left
         /\ \A x \in DOMAIN vectors \ {v, w} : contents'[x] = contents[x]
  BY ValuesBefore, ValuesAfter DEF GivesAway

LEMMA HandedContents ==
  ASSUME Inv, Inv', UNCHANGED kind, NEW v, NEW w \in DOMAIN vectors, v # w, Hands(v, w)
  PROVE  /\ DOMAIN vectors' = DOMAIN vectors \cup {v}
         /\ contents'[v] = contents[w]
         /\ \A x \in DOMAIN vectors \ {v, w} : contents'[x] = contents[x]
  <1>1. PICK left \in {Unspecified, << >>} :
          GivesAway(v, w, ValueOf(vectors[w], heap), left)
    BY DEF Hands
  <1> QED
    BY <1>1, GivenAwayContents

(* A vector with contents holds as many values as it has elements.          *)
LEMMA ContentsOf ==
  ASSUME Inv, Careful, NEW v \in DOMAIN vectors, contents[v] # Unspecified
  PROVE  /\ contents[v] \in Seq(Value)
         /\ Size(vectors[v]) \in Nat /\ Len(contents[v]) = Size(vectors[v])
         /\ contents[v] = ThingsOf(vectors[v], heap)
         /\ ~ IsHollow(vectors[v])
  <1> DEFINE s == ThingsOf(vectors[v], heap)
  <1>1. Usable(v)
    BY DEF Usable, Inv
  <1>2. contents[v] = s /\ contents[v] \in Seq(Value) /\ ~ IsHollow(vectors[v])
    BY <1>1, UsableVectors
  <1>3. Size(vectors[v]) \in Nat
    BY NumbersOf
  <1>4. DOMAIN s = 1 .. Size(vectors[v])
    BY DEF ThingsOf
  <1> HIDE DEF s
  <1>5. Len(s) = Size(vectors[v])
    BY <1>2, <1>3, <1>4
  <1> QED
    BY <1>2, <1>3, <1>5 DEF s

LEMMA ContentsLength ==
  Inv /\ Careful =>
    \A v \in DOMAIN vectors :
      contents[v] # Unspecified /\ Varying => Len(vectors[v].table) = Len(contents[v])
  BY ContentsOf DEF Size

LEMMA ContentsLengthNext ==
  (Inv /\ Careful =>
    \A v \in DOMAIN vectors :
      contents[v] # Unspecified /\ Varying => Len(vectors[v].table) = Len(contents[v]))'
  BY ContentsLength, PTL

(* The table behind a step, from the contents.                              *)
LEMMA TableLength ==
  ASSUME Inv', Careful, UNCHANGED kind, NEW v \in DOMAIN vectors',
         contents'[v] # Unspecified, Varying
  PROVE  Len(vectors'[v].table) = Len(contents'[v])
  BY ContentsLengthNext DEF Careful, Varying

LEMMA SetFrame ==
  ASSUME NEW v, NEW n, vectors' = Set(v, n)
  PROVE  /\ DOMAIN vectors' = DOMAIN vectors \cup {v} /\ vectors'[v] = n
         /\ \A x \in DOMAIN vectors \ {v} : vectors'[x] = vectors[x]
  BY DEF Set

(* A vector that is not given to a call.                                    *)
LEMMA PlaceUnmoved ==
  ASSUME BuffersOwned, NEW v, NEW t, Placed(v, t),
         DOMAIN vectors' = DOMAIN vectors \cup {v}, NEW x \in DOMAIN vectors \ {v},
         vectors'[x] = vectors[x], contents'[x] = contents[x]
  PROVE  Unmoved(x)
  BY DEF Placed, Unmoved, BuffersOwned

(* A call that gives v a value, a table, and drops its iterators, if it had *)
(* any.                                                                     *)
LEMMA GiveAndDrop ==
  ASSUME IteratorsInv, Careful, Inv', UNCHANGED kind, NEW v, NEW s \in Seq(Value), Gives(v, s),
         \A x \in DOMAIN vectors \ {v} : vectors'[x] = vectors[x],
         NEW t, Placed(v, t), NobodyElses(v, t),
         t.buffer \in Buffer \cup {Null}, t.capacity \in Nat, t.buffer = Null => t.capacity = 0,
         Varying => Len(s) <= t.capacity /\ Len(s) <= vectors'[v].max_element_count,
         NEW S, Keep(S), S = Spared(v, 0) \/ (S = DOMAIN iterators /\ v \notin DOMAIN vectors)
  PROVE  BuffersOwned' /\ AllLead'
  <1>1. /\ Inv /\ BuffersOwned /\ AllLead
    BY DEF IteratorsInv
  <1>2. /\ DOMAIN vectors' = DOMAIN vectors \cup {v}
        /\ contents'[v] = s
        /\ \A x \in DOMAIN vectors \ {v} : contents'[x] = contents[x]
    BY <1>1, GivenContents
  <1>3. Room(vectors'[v], t)
    <2>1. s # Unspecified
      BY UnspecifiedAssumption
    <2>2. Varying => Len(vectors'[v].table) = Len(s)
      BY <1>2, <2>1, TableLength
    <2> QED
      BY <2>2 DEF Room
  <1>4. BuffersOwned'
    BY <1>1, <1>2, <1>3, PlaceBuffers
  <1>5. S \subseteq DOMAIN iterators
    BY DEF Spared
  <1>6. ASSUME NEW x \in S, iterators[x].element # Null
        PROVE  Unmoved(iterators[x].vector)
    <2> DEFINE h == iterators[x]
    <2>1. h.vector \in DOMAIN vectors /\ h.position \in Nat
      BY <1>1, <1>5, <1>6 DEF AllLead, Leads, IsHeld
    <2>2. h.vector # v
      BY <2>1 DEF Spared
    <2> HIDE DEF h
    <2>3. Unmoved(h.vector)
      BY <1>1, <1>2, <2>1, <2>2, PlaceUnmoved
    <2> QED
      BY <2>3 DEF h
  <1>7. AllLead'
    BY <1>1, <1>5, <1>6, KeptLead
  <1> QED
    BY <1>4, <1>7

-----------------------------------------------------------------------------
(* The calls.                                                               *)
LEMMA EmptyFits ==
  ASSUME Inv, BuffersOwned, NEW v, NEW a
  PROVE  /\ << >> \in Seq(Value) /\ Len(<< >>) = 0
         /\ NoTable(a).buffer = Null /\ NoTable(a).capacity = 0
         /\ NobodyElses(v, NoTable(a))
  BY DEF NoTable, NobodyElses

LEMMA ConstructLeads ==
  ASSUME IteratorsInv, Careful, Inv', UNCHANGED kind, NEW v \in Vector, ConstructAndPlace(v)
  PROVE  BuffersOwned' /\ AllLead'
  <1>1. Inv /\ BuffersOwned /\ Keep(DOMAIN iterators)
    BY DEF IteratorsInv, ConstructAndPlace
  <1>2. ASSUME NEW a \in Allocator, ConstructDefault(v, a), Place(v, NoTable(a))
        PROVE  BuffersOwned' /\ AllLead'
    <2>1. Gives(v, << >>) /\ v \notin DOMAIN vectors
      BY <1>1, <1>2, ConstructDefaultSound
    <2>2. /\ \A x \in DOMAIN vectors \ {v} : vectors'[x] = vectors[x]
          /\ vectors'[v].max_element_count = 0
      <3> DEFINE k == [max_element_count |-> 0, block |-> Null, units |-> 0,
                       allocator |-> a, element_count |-> 0, stride |-> 0,
                       table |-> << >>, edge |-> Null]
      <3>1. vectors' = Set(v, k)
        BY <1>2 DEF ConstructDefault
      <3>2. k.max_element_count = 0
        OBVIOUS
      <3> HIDE DEF k
      <3> QED
        BY <3>1, <3>2, SetFrame
    <2> DEFINE t == NoTable(a)
    <2>3. /\ << >> \in Seq(Value) /\ NobodyElses(v, t)
          /\ t.buffer \in Buffer \cup {Null} /\ t.capacity \in Nat
          /\ t.buffer = Null => t.capacity = 0
          /\ Varying => Len(<< >>) <= t.capacity
                        /\ Len(<< >>) <= vectors'[v].max_element_count
      BY <1>1, <2>2, EmptyFits
    <2>4. Place(v, t)
      BY <1>2
    <2> HIDE DEF t
    <2> QED
      BY <1>1, <2>1, <2>2, <2>3, <2>4, PlaceIsPlaced, GiveAndDrop
  <1>3. ASSUME NEW n \in 0 .. MaxCapacity, NEW bytes \in 0 .. MaxVarying, NEW a \in Allocator,
               Construct(v, n, bytes, a), Place(v, TableFor(n, a))
        PROVE  BuffersOwned' /\ AllLead'
    <2>1. n \in Nat /\ bytes \in Nat
      BY SizesAssumption
    <2>2. Gives(v, << >>) /\ v \notin DOMAIN vectors
      BY <1>1, <1>3, <2>1, ConstructSound
    <2>3. /\ \A x \in DOMAIN vectors \ {v} : vectors'[x] = vectors[x]
          /\ vectors'[v].max_element_count = n
      <3> DEFINE k == [max_element_count |-> n, block |-> Fresh,
                       units |-> NeededUnits(n, bytes, 1), allocator |-> a,
                       element_count |-> 0, stride |-> IF Varying THEN 0 ELSE 1,
                       table |-> << >>, edge |-> <<Fresh, 0>>]
      <3>1. vectors' = Set(v, k)
        BY <1>3 DEF Construct
      <3>2. k.max_element_count = n
        OBVIOUS
      <3> HIDE DEF k
      <3> QED
        BY <3>1, <3>2, SetFrame
    <2>4. /\ << >> \in Seq(Value) /\ Len(<< >>) = 0
      BY <1>1, EmptyFits
    <2> DEFINE t == TableFor(n, a)
    <2>5. /\ t.buffer \in Buffer \cup {Null} /\ t.capacity \in Nat
          /\ t.buffer = Null => t.capacity = 0
          /\ NobodyElses(v, t)
      BY <1>1, <2>1, TableForIs
    <2> HIDE DEF t
    <2>6. Varying => Len(<< >>) <= t.capacity /\ Len(<< >>) <= vectors'[v].max_element_count
      BY <2>1, <2>3, <2>4, <2>5
    <2>7. Place(v, t)
      BY <1>3 DEF t
    <2> QED
      BY <1>1, <2>2, <2>3, <2>4, <2>5, <2>6, <2>7, PlaceIsPlaced, GiveAndDrop
  <1>4. ASSUME NEW w \in Vector, NEW a \in Allocator, NEW b \in Allocator,
               CopyConstruct(v, w, a), Place(v, CopiedTable(vectors[w], b))
        PROVE  BuffersOwned' /\ AllLead'
    <2>1. Gives(v, contents[w]) /\ v \notin DOMAIN vectors /\ w \in DOMAIN vectors
      BY <1>1, <1>4, CopyConstructSound
    <2> DEFINE o == vectors[w]
               s == contents[w]
               t == CopiedTable(o, b)
               c == TriviallyCopied(o, Fresh)
               k == [c EXCEPT !.allocator = a]
    <2>2. s # Unspecified
      BY <1>4 DEF CopyConstruct, Usable, Careful
    <2>3. s \in Seq(Value) /\ Size(o) \in Nat /\ Len(s) = Size(o)
      BY <1>1, <2>1, <2>2, ContentsOf
    <2>4. MayCopy(o) /\ o.max_element_count \in Nat /\ IsMembers(o)
      BY <1>1, <1>4, <2>1, UsableVectors, CopyableVectors, UnitsOfVectors DEF CopyConstruct
    <2>5. vectors' = Set(v, k)
      BY <2>4, <1>4 DEF CopyConstruct
    <2>6. IsMembers(c) /\ c.max_element_count = o.max_element_count
      BY <2>4, TriviallyCopiedCounts
    <2> HIDE DEF c
    <2>7. k.max_element_count = o.max_element_count
      BY <2>6 DEF IsMembers, Fields
    <2> HIDE DEF k
    <2>8. /\ \A x \in DOMAIN vectors \ {v} : vectors'[x] = vectors[x]
          /\ vectors'[v].max_element_count = o.max_element_count
      BY <2>5, <2>7, SetFrame
    <2>9. Varying => Size(o) <= o.max_element_count
      BY <1>1, <2>1 DEF BuffersOwned, Room, Size
    <2> DEFINE n == IF NonTrivial THEN o.max_element_count ELSE Size(o)
    <2>10. n \in Nat /\ t = TableFor(n, b) /\ (Varying => Size(o) <= n)
      BY <2>3, <2>4, <2>9 DEF CopiedTable
    <2> HIDE DEF n, t
    <2>11. /\ t.buffer \in Buffer \cup {Null} /\ t.capacity \in Nat
           /\ t.buffer = Null => t.capacity = 0
           /\ NobodyElses(v, t)
           /\ Varying => Len(s) <= t.capacity /\ Len(s) <= vectors'[v].max_element_count
      BY <1>1, <2>3, <2>8, <2>9, <2>10, TableForIs
    <2>12. Place(v, t) /\ Gives(v, s)
      BY <1>4, <2>1 DEF t
    <2> HIDE DEF s
    <2> QED
      BY <1>1, <2>1, <2>3, <2>8, <2>11, <2>12, PlaceIsPlaced, GiveAndDrop
  <1> QED
    BY <1>2, <1>3, <1>4 DEF ConstructAndPlace

(* The table that v has with room for n.                                    *)
LEMMA TableAfterGrowIs ==
  ASSUME Inv, BuffersOwned, NEW v \in DOMAIN vectors, NEW n \in Nat
  PROVE  LET t == TableAfterGrow(v, n)
         IN  /\ t.buffer \in Buffer \cup {Null} /\ t.capacity \in Nat
             /\ t.buffer = Null => t.capacity = 0
             /\ NobodyElses(v, t)
             /\ Varying => tables[v].capacity <= t.capacity
  <1> DEFINE t == TableAfterGrow(v, n)
  <1>1. /\ tables[v].buffer \in Buffer \cup {Null} /\ tables[v].capacity \in Nat
        /\ tables[v].buffer = Null => tables[v].capacity = 0
        /\ NobodyElses(v, tables[v])
    BY OwnTableIs
  <1>2. CASE NonTrivial /\ n > tables[v].capacity
    <2>1. t = TableFor(n, tables[v].allocator)
      BY <1>2 DEF TableAfterGrow
    <2> HIDE DEF t
    <2>2. /\ t.buffer \in Buffer \cup {Null} /\ t.capacity \in Nat
          /\ t.buffer = Null => t.capacity = 0
          /\ NobodyElses(v, t)
          /\ Varying => t.capacity = n
      BY <2>1, TableForIs
    <2>3. tables[v].capacity <= n
      BY <1>1, <1>2
    <2> QED
      BY <2>2, <2>3 DEF t
  <1>3. CASE ~ (NonTrivial /\ n > tables[v].capacity)
    <2>1. t = tables[v]
      BY <1>3 DEF TableAfterGrow
    <2> HIDE DEF t
    <2> QED
      BY <1>1, <2>1 DEF t
  <1> QED
    BY <1>2, <1>3

LEMMA ReserveLeads ==
  ASSUME IteratorsInv, Careful, Inv', UNCHANGED kind, NEW v \in Vector, ReserveAndDrop(v)
  PROVE  BuffersOwned' /\ AllLead'
  <1>1. Inv /\ BuffersOwned
    BY DEF IteratorsInv
  <1>2. PICK n \in 1 .. MaxCapacity, bytes \in 0 .. MaxVarying :
          Reserve(v, n, bytes) /\ Place(v, TableAfterGrow(v, n)) /\ Keep(Spared(v, 0))
    BY DEF ReserveAndDrop
  <1>3. n \in Nat /\ bytes \in Nat
    BY SizesAssumption
  <1>4. v \in DOMAIN vectors /\ Gives(v, contents[v])
    BY <1>1, <1>2, <1>3, ReserveSound
  <1> DEFINE m == vectors[v]
             s == contents[v]
             t == TableAfterGrow(v, n)
             units == UnitBytes * NeededUnits(n, bytes, m.stride)
             c == TriviallyCopied(m, Fresh)
             k == [c EXCEPT !.max_element_count = n, !.units = units]
  <1>5. s # Unspecified /\ n > m.max_element_count /\ status = "defined"
    BY <1>2 DEF Reserve, Usable, Careful
  <1>6. s \in Seq(Value) /\ Size(m) \in Nat /\ Len(s) = Size(m)
    BY <1>1, <1>4, <1>5, ContentsOf
  <1>7. m.max_element_count \in Nat /\ IsMembers(m)
    BY <1>1, <1>4, <1>5, ContentsOf, UnitsOfVectors
  <1>8. vectors' = Set(v, k)
    <2>1. Defined
      BY <1>1, <1>2, <1>3, ReserveSound
    <2>2. ~ Undefined
      BY <1>5, <2>1 DEF Defined, Undefined
    <2> QED
      BY <1>2, <2>2 DEF Reserve
  <1>9. IsMembers(c)
    BY <1>7, TriviallyCopiedCounts
  <1> HIDE DEF c, units
  <1>10. k.max_element_count = n
    BY <1>9 DEF IsMembers, Fields
  <1> HIDE DEF k
  <1>11. /\ \A x \in DOMAIN vectors \ {v} : vectors'[x] = vectors[x]
         /\ vectors'[v].max_element_count = n
    BY <1>8, <1>10, SetFrame
  <1>12. /\ Varying => Size(m) <= m.max_element_count /\ Size(m) <= tables[v].capacity
         /\ tables[v].buffer \in Buffer \cup {Null} /\ tables[v].capacity \in Nat
         /\ tables[v].buffer = Null => tables[v].capacity = 0
         /\ NobodyElses(v, tables[v])
    BY <1>1, <1>4, OwnTableIs DEF Room, Size
  <1>13. /\ t.buffer \in Buffer \cup {Null} /\ t.capacity \in Nat
         /\ t.buffer = Null => t.capacity = 0
         /\ NobodyElses(v, t)
         /\ Varying => Size(m) <= t.capacity
    <2>1. /\ t.buffer \in Buffer \cup {Null} /\ t.capacity \in Nat
          /\ t.buffer = Null => t.capacity = 0
          /\ NobodyElses(v, t)
          /\ Varying => tables[v].capacity <= t.capacity
      BY <1>1, <1>3, <1>4, TableAfterGrowIs
    <2> HIDE DEF t
    <2> QED
      BY <1>6, <1>12, <2>1
  <1>14. Place(v, t) /\ Gives(v, s) /\ Keep(Spared(v, 0))
    BY <1>2, <1>4
  <1> HIDE DEF t, s
  <1>15. Varying => Len(s) <= t.capacity /\ Len(s) <= vectors'[v].max_element_count
    BY <1>3, <1>5, <1>6, <1>7, <1>11, <1>12, <1>13
  <1> QED
    BY <1>1, <1>6, <1>11, <1>13, <1>14, <1>15, PlaceIsPlaced, GiveAndDrop

(* The table that v is left with once it was assigned the entries of o.     *)
LEMMA AssignedTableIs ==
  ASSUME Inv, BuffersOwned, NEW v \in DOMAIN vectors, NEW o, Size(o) \in Nat, NEW b
  PROVE  LET t == AssignedTable(v, o, b)
         IN  /\ t.buffer \in Buffer \cup {Null} /\ t.capacity \in Nat
             /\ t.buffer = Null => t.capacity = 0
             /\ NobodyElses(v, t)
             /\ Varying => Size(o) <= t.capacity
  <1> DEFINE t == AssignedTable(v, o, b)
             a == IF traits.copy THEN b ELSE tables[v].allocator
             grows == Size(o) > tables[v].capacity \/ a # tables[v].allocator
  <1>1. /\ tables[v].buffer \in Buffer \cup {Null} /\ tables[v].capacity \in Nat
        /\ tables[v].buffer = Null => tables[v].capacity = 0
        /\ NobodyElses(v, tables[v])
    BY OwnTableIs
  <1>2. CASE grows
    <2>1. t = TableFor(Size(o), a)
      BY <1>2 DEF AssignedTable
    <2> HIDE DEF t, a
    <2>2. /\ t.buffer \in Buffer \cup {Null} /\ t.capacity \in Nat
          /\ t.buffer = Null => t.capacity = 0
          /\ NobodyElses(v, t)
          /\ Varying => t.capacity = Size(o)
      BY <2>1, TableForIs
    <2>3. Varying => Size(o) <= t.capacity
      BY <2>2
    <2> QED
      BY <2>2, <2>3 DEF t
  <1>3. CASE ~ grows
    <2>1. t = tables[v] /\ ~ (Size(o) > tables[v].capacity)
      BY <1>3 DEF AssignedTable
    <2> HIDE DEF t, grows
    <2>2. Size(o) <= tables[v].capacity
      BY <1>1, <2>1
    <2> QED
      BY <1>1, <2>1, <2>2 DEF t
  <1> QED
    BY <1>2, <1>3

LEMMA EntriesMovedIs ==
  ASSUME Inv, BuffersOwned, NEW v \in DOMAIN vectors, NEW w \in DOMAIN vectors
  PROVE  LET t == EntriesMoved(v, w)
         IN  /\ t.buffer \in Buffer \cup {Null} /\ t.capacity \in Nat
             /\ t.buffer = Null => t.capacity = 0
             /\ NobodyElses(v, t)
             /\ Varying => Size(vectors[w]) <= t.capacity
  <1> DEFINE t == EntriesMoved(v, w)
             n == Size(vectors[w])
  <1>1. /\ tables[v].buffer \in Buffer \cup {Null} /\ tables[v].capacity \in Nat
        /\ tables[v].buffer = Null => tables[v].capacity = 0
        /\ NobodyElses(v, tables[v])
    BY OwnTableIs
  <1>2. n \in Nat
    BY NumbersOf
  <1>3. CASE n > tables[v].capacity
    <2>1. t = TableFor(n, tables[v].allocator)
      BY <1>3 DEF EntriesMoved
    <2> HIDE DEF t, n
    <2>2. /\ t.buffer \in Buffer \cup {Null} /\ t.capacity \in Nat
          /\ t.buffer = Null => t.capacity = 0
          /\ NobodyElses(v, t)
          /\ Varying => t.capacity = n
      BY <1>2, <2>1, TableForIs
    <2>3. Varying => n <= t.capacity
      BY <1>2, <2>2
    <2> QED
      BY <2>2, <2>3 DEF t, n
  <1>4. CASE ~ (n > tables[v].capacity)
    <2>1. t = tables[v]
      BY <1>4 DEF EntriesMoved
    <2> HIDE DEF t, n
    <2>2. n <= tables[v].capacity
      BY <1>1, <1>2, <1>4
    <2> QED
      BY <1>1, <2>1, <2>2 DEF t, n
  <1> QED
    BY <1>3, <1>4

LEMMA CopyAssignLeads ==
  ASSUME IteratorsInv, Careful, Inv', UNCHANGED kind, NEW v \in Vector, NEW w \in Vector,
         CopyAssignAndDrop(v, w)
  PROVE  BuffersOwned' /\ AllLead'
  <1>0. PICK selected \in Allocator : Place(v, AssignedTable(v, vectors[w], selected))
    BY DEF CopyAssignAndDrop
  <1>1. Inv /\ BuffersOwned /\ CopyAssign(v, w) /\ Keep(Spared(v, 0))
    BY DEF IteratorsInv, CopyAssignAndDrop
  <1>2. v \in DOMAIN vectors /\ w \in DOMAIN vectors /\ Gives(v, contents[w]) /\ Defined
    BY <1>1, CopyAssignSound
  <1> DEFINE m == vectors[v]
             o == vectors[w]
             s == contents[w]
             t == AssignedTable(v, o, selected)
             replaces == Replaces(m, o)
             block == IF replaces THEN Fresh ELSE m.block
             units == IF replaces THEN o.units ELSE m.units
             a == IF traits.copy THEN o.allocator ELSE m.allocator
             c == TriviallyCopied(o, block)
             k == [c EXCEPT !.units = units, !.allocator = a]
  <1>3. s # Unspecified /\ status = "defined"
    BY <1>1 DEF CopyAssign, Usable, Careful
  <1>4. s \in Seq(Value) /\ Size(o) \in Nat /\ Len(s) = Size(o) /\ ~ IsHollow(o)
    BY <1>1, <1>2, <1>3, ContentsOf
  <1>5. o.max_element_count \in Nat /\ IsMembers(o)
    BY <1>1, <1>2, <1>4, UnitsOfVectors
  <1>6. vectors' = Set(v, k)
    <2>1. ~ Undefined
      BY <1>2, <1>3 DEF Defined, Undefined
    <2> QED
      BY <1>1, <2>1 DEF CopyAssign
  <1>7. IsMembers(c) /\ c.max_element_count = o.max_element_count
    BY <1>5, TriviallyCopiedCounts
  <1> HIDE DEF c, units, a
  <1>8. k.max_element_count = o.max_element_count
    BY <1>7 DEF IsMembers, Fields
  <1> HIDE DEF k
  <1>9. /\ \A x \in DOMAIN vectors \ {v} : vectors'[x] = vectors[x]
        /\ vectors'[v].max_element_count = o.max_element_count
    BY <1>6, <1>8, SetFrame
  <1>10. /\ Varying => Size(o) <= o.max_element_count
         /\ tables[v].buffer \in Buffer \cup {Null} /\ tables[v].capacity \in Nat
         /\ tables[v].buffer = Null => tables[v].capacity = 0
         /\ NobodyElses(v, tables[v])
    BY <1>1, <1>2, OwnTableIs DEF Room, Size
  <1>11. /\ t.buffer \in Buffer \cup {Null} /\ t.capacity \in Nat
         /\ t.buffer = Null => t.capacity = 0
         /\ NobodyElses(v, t)
         /\ Varying => Size(o) <= t.capacity
    BY <1>1, <1>2, <1>4, AssignedTableIs
  <1>12. Place(v, t) /\ Gives(v, s) /\ Keep(Spared(v, 0))
    BY <1>0, <1>1, <1>2
  <1> HIDE DEF t, s
  <1>13. Varying => Len(s) <= t.capacity /\ Len(s) <= vectors'[v].max_element_count
    BY <1>4, <1>5, <1>9, <1>10, <1>11
  <1> QED
    BY <1>1, <1>4, <1>9, <1>11, <1>12, <1>13, PlaceIsPlaced, GiveAndDrop

LEMMA DestructLeads ==
  ASSUME IteratorsInv, Careful, Inv', UNCHANGED kind, NEW v \in Vector, DestructAndDrop(v)
  PROVE  BuffersOwned' /\ AllLead'
  <1>1. /\ Inv /\ BuffersOwned /\ AllLead /\ Destruct(v) /\ Keep(Spared(v, 0))
        /\ tables' = [x \in DOMAIN tables \ {v} |-> tables[x]]
    BY DEF IteratorsInv, DestructAndDrop
  <1>2. /\ Defined /\ v \in DOMAIN vectors /\ DOMAIN vectors' = DOMAIN vectors \ {v}
        /\ \A x \in DOMAIN vectors' : ValueOf(vectors'[x], heap') = ValueOf(vectors[x], heap)
    BY <1>1, DestructSound
  <1>3. \A x \in DOMAIN vectors \ {v} : contents'[x] = contents[x]
    BY <1>1, <1>2, ValuesBefore, ValuesAfter
  <1>4. \A x \in DOMAIN vectors \ {v} : vectors'[x] = vectors[x]
    <2>1. status = "defined" /\ status' = "defined"
      BY <1>1, <1>2 DEF Inv, Defined
    <2>2. ~ Undefined
      BY <2>1 DEF Undefined
    <2>3. vectors' = [x \in DOMAIN vectors \ {v} |-> vectors[x]]
      BY <1>1, <2>2 DEF Destruct
    <2> QED
      BY <2>3
  <1>5. /\ DOMAIN tables = DOMAIN vectors /\ DOMAIN tables' = DOMAIN vectors'
        /\ \A x \in DOMAIN vectors \ {v} : tables'[x] = tables[x]
    BY <1>1, <1>2 DEF BuffersOwned
  <1>6. \A x \in DOMAIN vectors' : Room(vectors'[x], tables'[x])
    BY <1>1, <1>2, <1>4, <1>5 DEF BuffersOwned
  <1>7. BuffersOwned'
    <2>1. \A x, y \in DOMAIN vectors' :
            x # y /\ tables'[x].buffer = tables'[y].buffer => tables'[x].buffer = Null
      BY <1>1, <1>2, <1>5 DEF BuffersOwned
    <2> QED
      BY <1>5, <1>6, <2>1, BuffersNext
  <1>8. ASSUME NEW x \in Spared(v, 0), iterators[x].element # Null
        PROVE  Unmoved(iterators[x].vector)
    <2> DEFINE h == iterators[x]
    <2>1. h.vector \in DOMAIN vectors /\ h.position \in Nat
      BY <1>1, <1>8 DEF AllLead, Leads, IsHeld, Spared
    <2>2. h.vector # v
      BY <2>1 DEF Spared
    <2> HIDE DEF h
    <2>3. Unmoved(h.vector)
      BY <1>2, <1>3, <1>4, <1>5, <2>1, <2>2 DEF Unmoved
    <2> QED
      BY <2>3 DEF h
  <1>9. AllLead'
    <2>1. Spared(v, 0) \subseteq DOMAIN iterators
      BY DEF Spared
    <2> QED
      BY <1>1, <1>8, <2>1, KeptLead
  <1> QED
    BY <1>7, <1>9

-----------------------------------------------------------------------------
(* emplace_back: the iterators of v keep their table, or there are none.    *)
LEMMA AppendedFields ==
  ASSUME NEW m, IsMembers(m), NEW a, NEW e
  PROVE  LET n == Appended(m, a, e)
         IN  /\ n.block = m.block /\ n.max_element_count = m.max_element_count
             /\ ~ Varying => n.edge = m.edge /\ n.stride = m.stride
  <1>1. CASE Varying
    <2> DEFINE x == <<m.edge[1], a + Width(e)>>
               y == Append(m.table, a)
    <2>1. Appended(m, a, e) = [m EXCEPT !.table = y, !.edge = x]
      BY <1>1 DEF Appended
    <2> HIDE DEF x, y
    <2> QED
      BY <1>1, <2>1 DEF IsMembers, Fields
  <1>2. CASE ~ Varying
    <2> DEFINE x == m.element_count + 1
    <2>1. Appended(m, a, e) = [m EXCEPT !.element_count = x]
      BY <1>2 DEF Appended
    <2> HIDE DEF x
    <2> QED
      BY <1>2, <2>1 DEF IsMembers, Fields
  <1> QED
    BY <1>1, <1>2

LEMMA EmplaceBackLeads ==
  ASSUME IteratorsInv, KeepsTables, Inv', UNCHANGED kind, NEW v \in Vector,
         EmplaceBackAndKeep(v)
  PROVE  BuffersOwned' /\ AllLead'
  <1>1. Inv /\ BuffersOwned /\ AllLead /\ Careful
    BY DEF IteratorsInv, KeepsTables
  <1>2. PICK e \in Value : EmplaceBack(v, e)
    BY DEF EmplaceBackAndKeep
  <1> DEFINE m == vectors[v]
             s == contents[v]
             c == MaxOf(1, 2 * tables[v].capacity)
             t == IF IsFull(v) THEN GrownTable(tables[v]) ELSE tables[v]
             n == Appended(m, Used(m), e)
             S == Spared(v, Size(m))
  <1>3. /\ IsFull(v) => Spared(v, 0) = DOMAIN iterators
        /\ Place(v, t) /\ Keep(S)
    BY DEF EmplaceBackAndKeep, KeepsTables
  <1>4. Defined /\ v \in DOMAIN vectors /\ Gives(v, Append(s, e))
    BY <1>1, <1>2, EmplaceBackSound
  <1>5. s # Unspecified /\ Size(m) < m.max_element_count /\ status = "defined"
    BY <1>1, <1>2 DEF EmplaceBack, Usable, Careful
  <1>6. s \in Seq(Value) /\ Size(m) \in Nat /\ Len(s) = Size(m)
    BY <1>1, <1>4, <1>5, ContentsOf
  <1>7. vectors' = Set(v, n)
    <2>1. ~ Undefined
      BY <1>4, <1>5 DEF Defined, Undefined
    <2> QED
      BY <1>2, <2>1 DEF EmplaceBack
  <1>8. m.max_element_count \in Nat /\ IsMembers(m)
    BY <1>1, <1>4, <1>5, ContentsOf, UnitsOfVectors
  <1>9. /\ n.block = m.block /\ n.max_element_count = m.max_element_count
        /\ ~ Varying => n.edge = m.edge /\ n.stride = m.stride
    BY <1>8, AppendedFields
  <1> HIDE DEF n
  <1>10. /\ \A x \in DOMAIN vectors \ {v} : vectors'[x] = vectors[x]
         /\ vectors'[v] = n /\ DOMAIN vectors' = DOMAIN vectors \cup {v}
    BY <1>7, SetFrame
  <1>11. /\ contents'[v] = Append(s, e)
         /\ \A x \in DOMAIN vectors \ {v} : contents'[x] = contents[x]
    BY <1>1, <1>4, GivenContents
  <1>12. /\ Append(s, e) \in Seq(Value) /\ Len(Append(s, e)) = Size(m) + 1
         /\ \A k \in 1 .. Size(m) : Append(s, e)[k] = s[k]
    BY <1>6
  <1>13. Append(s, e) # Unspecified
    BY <1>12, UnspecifiedAssumption
  <1>14. /\ Varying => Size(m) <= tables[v].capacity
         /\ tables[v].buffer \in Buffer \cup {Null} /\ tables[v].capacity \in Nat
         /\ tables[v].buffer = Null => tables[v].capacity = 0
         /\ NobodyElses(v, tables[v])
    BY <1>1, <1>4, OwnTableIs DEF Room, Size
  <1>15. /\ t.buffer \in Buffer \cup {Null} /\ t.capacity \in Nat
         /\ t.buffer = Null => t.capacity = 0
         /\ NobodyElses(v, t)
         /\ Varying => Size(m) + 1 <= t.capacity
    <2>1. CASE IsFull(v)
      <3>1. c \in Nat /\ c >= 1 /\ c >= 2 * tables[v].capacity
        BY <1>14 DEF MaxOf
      <3>2. Varying /\ Size(m) = tables[v].capacity
        BY <2>1 DEF IsFull
      <3> HIDE DEF c
      <3>3. t = TableFor(c, tables[v].allocator)
        BY <2>1 DEF GrownTable, c
      <3> HIDE DEF t
      <3>4. /\ t.buffer \in Buffer \cup {Null} /\ t.capacity \in Nat
            /\ t.buffer = Null => t.capacity = 0
            /\ NobodyElses(v, t)
            /\ t.capacity = c
        BY <1>1, <3>1, <3>2, <3>3, TableForIs
      <3>5. Size(m) + 1 <= c
        BY <1>6, <3>1, <3>2
      <3> QED
        BY <3>4, <3>5
    <2>2. CASE ~ IsFull(v)
      <3>1. t = tables[v] /\ (Varying => Size(m) # tables[v].capacity)
        BY <2>2 DEF IsFull
      <3> HIDE DEF t
      <3> QED
        BY <1>6, <1>14, <3>1
    <2> QED
      BY <2>1, <2>2
  <1>16. ~ IsFull(v) => t = tables[v]
    OBVIOUS
  <1> HIDE DEF t, c
  <1>17. Room(vectors'[v], t)
    <2>1. Varying => Len(vectors'[v].table) = Size(m) + 1
      BY <1>1, <1>4, <1>10, <1>11, <1>12, <1>13, TableLength
    <2> QED
      BY <1>5, <1>6, <1>8, <1>9, <1>10, <1>15, <2>1 DEF Room
  <1>18. BuffersOwned'
    BY <1>1, <1>3, <1>10, <1>15, <1>17, PlaceIsPlaced, PlaceBuffers
  <1>19. S \subseteq DOMAIN iterators
    BY DEF Spared
  <1>20. ASSUME NEW x \in S, iterators[x].element # Null
         PROVE  \/ Unmoved(iterators[x].vector)
                \/ Follows(iterators[x].vector, iterators[x].vector, iterators[x].position)
    <2> DEFINE h == iterators[x]
               k == h.position + 1
    <2>1. h.vector \in DOMAIN vectors /\ h.position \in Nat
      BY <1>1, <1>19, <1>20 DEF AllLead, Leads, IsHeld
    <2>2. CASE h.vector # v
      <3> HIDE DEF h
      <3>1. Unmoved(h.vector)
        BY <1>1, <1>3, <1>10, <1>11, <2>1, <2>2, PlaceIsPlaced, PlaceUnmoved
      <3> QED
        BY <3>1 DEF h
    <2>3. CASE h.vector = v
      <3>1. h.position < Size(m)
        BY <2>3 DEF Spared
      <3>2. ~ IsFull(v)
        <4>1. x \notin Spared(v, 0)
          BY <2>1, <2>3 DEF Spared
        <4> QED
          BY <1>3, <1>19, <4>1
      <3>3. tables'[v] = tables[v]
        BY <1>3, <1>16, <3>2 DEF Place
      <3>4. SameLocator(v, v)
        BY <1>9, <1>10, <3>3 DEF SameLocator
      <3> HIDE DEF h
      <3>5. k \in 1 .. Size(m) /\ k \in 1 .. Size(m) + 1
        BY <1>6, <2>1, <3>1
      <3>6. k \in 1 .. Len(contents'[v]) /\ contents'[v][k] = contents[v][k]
        BY <1>11, <1>12, <3>5
      <3>7. Follows(v, v, h.position)
        BY <1>10, <1>11, <1>13, <3>4, <3>6 DEF Follows
      <3> QED
        BY <2>3, <3>7 DEF h
    <2> QED
      BY <2>2, <2>3
  <1>21. AllLead'
    BY <1>1, <1>3, <1>19, <1>20, KeptLead
  <1> QED
    BY <1>18, <1>21

-----------------------------------------------------------------------------
(* What is left of a sequence that loses elements.                          *)
LEMMA ErasedHas ==
  ASSUME NEW s \in Seq(Value), NEW first \in Nat, NEW last \in Nat, first <= last,
         last <= Len(s)
  PROVE  LET t == SubSeq(s, 1, first) \o SubSeq(s, last + 1, Len(s))
         IN  /\ t \in Seq(Value) /\ Len(t) = Len(s) - (last - first)
             /\ \A k \in 1 .. first : t[k] = s[k]
             /\ last < Len(s) => t[first + 1] = s[last + 1]
  <1> DEFINE n == Len(s) - (last - first)
             t == [k \in 1 .. n |-> IF k <= first THEN s[k] ELSE s[k + (last - first)]]
  <1>1. /\ n \in Nat /\ first <= n /\ Len(s) \in Nat
        /\ \A k \in 1 .. Len(s) : s[k] \in Value
        /\ last < Len(s) => first + 1 <= n
    OBVIOUS
  <1>2. ASSUME NEW k \in 1 .. n
        PROVE  t[k] \in Value
    <2>1. k > first => k + (last - first) \in 1 .. Len(s)
      BY <1>1
    <2>2. k <= first => k \in 1 .. Len(s)
      BY <1>1
    <2> QED
      BY <1>1, <2>1, <2>2
  <1>3. t \in [1 .. n -> Value]
    BY <1>2
  <1>4. t \in Seq(Value) /\ Len(t) = n
    BY <1>1, <1>3
  <1>5. IsErased(t, s, first, last)
    BY DEF IsErased
  <1>6. \A k \in 1 .. first : t[k] = s[k]
    BY <1>1
  <1>7. last < Len(s) => t[first + 1] = s[last + 1]
    <2>1. last < Len(s) => first + 1 \in 1 .. n /\ ~ (first + 1 <= first)
                           /\ (first + 1) + (last - first) = last + 1
      BY <1>1
    <2> QED
      BY <2>1
  <1> HIDE DEF t
  <1>8. t = SubSeq(s, 1, first) \o SubSeq(s, last + 1, Len(s))
    BY <1>5, ErasedSequence
  <1> QED
    BY <1>4, <1>6, <1>7, <1>8

(* v loses its elements first .. last - 1 and keeps its locator; the other  *)
(* vectors stay as they are.                                                *)
Shrinks(v, first, last) ==
  /\ v \in DOMAIN vectors
  /\ DOMAIN vectors' = DOMAIN vectors
  /\ \A x \in DOMAIN vectors \ {v} :
       vectors'[x] = vectors[x] /\ contents'[x] = contents[x]
  /\ SameLocator(v, v)
  /\ vectors'[v].max_element_count = vectors[v].max_element_count
  /\ contents[v] \in Seq(Value) /\ contents'[v] \in Seq(Value)
  /\ first \in Nat /\ last \in Nat /\ first <= last /\ last <= Len(contents[v])
  /\ Len(contents[v]) = Size(vectors[v])
  /\ Len(contents'[v]) = Len(contents[v]) - (last - first)
  /\ \A k \in 1 .. first : contents'[v][k] = contents[v][k]
  /\ last < Len(contents[v]) => contents'[v][first + 1] = contents[v][last + 1]

LEMMA EraseShrinks ==
  ASSUME IteratorsInv, Careful, Inv', UNCHANGED kind, UNCHANGED tables, NEW v, Usable(v),
         NEW first \in Nat, NEW last \in Nat, first <= last, last <= Size(vectors[v]),
         NEW moves, EraseFrom(v, first, last, moves), Defined,
         \/ Loses(v, first, last)
         \/ first = last /\ Gives(v, contents[v])
  PROVE  Shrinks(v, first, last)
  <1>1. /\ Inv /\ v \in DOMAIN vectors /\ contents[v] # Unspecified /\ status = "defined"
    BY DEF IteratorsInv, Usable, Careful
  <1> DEFINE m == vectors[v]
             s == contents[v]
             n == Size(m) - (last - first)
             table == IF moves /\ Varying /\ last < Size(m)
                        THEN ShiftedTable(m, last, first) ELSE m.table
             r == SubSeq(s, 1, first) \o SubSeq(s, last + 1, Len(s))
  <1>2. s \in Seq(Value) /\ Size(m) \in Nat /\ Len(s) = Size(m)
    BY <1>1, ContentsOf
  <1>3. vectors' = Set(v, Resized(m, table, n))
    <2>1. ~ Undefined
      BY <1>1 DEF Defined, Undefined
    <2> QED
      BY <2>1 DEF EraseFrom
  <1>4. IsMembers(m)
    BY <1>1 DEF Inv, OwnInv, AreVectors
  <1> HIDE DEF table
  <1>5. LET k == Resized(m, table, n)
        IN  /\ k.block = m.block /\ k.max_element_count = m.max_element_count
            /\ ~ Varying => k.edge = m.edge /\ k.stride = m.stride
    BY <1>4, ResizedFields
  <1>6. /\ DOMAIN vectors' = DOMAIN vectors
        /\ \A x \in DOMAIN vectors \ {v} : vectors'[x] = vectors[x]
        /\ SameLocator(v, v) /\ vectors'[v].max_element_count = m.max_element_count
    <2> DEFINE k == Resized(m, table, n)
    <2>1. /\ k.block = m.block /\ k.max_element_count = m.max_element_count
          /\ ~ Varying => k.edge = m.edge /\ k.stride = m.stride
      BY <1>5
    <2>2. vectors' = Set(v, k)
      BY <1>3
    <2> HIDE DEF k
    <2>3. /\ DOMAIN vectors' = DOMAIN vectors \cup {v} /\ vectors'[v] = k
          /\ \A x \in DOMAIN vectors \ {v} : vectors'[x] = vectors[x]
      BY <2>2, SetFrame
    <2> QED
      BY <1>1, <2>1, <2>3 DEF SameLocator
  <1>7. CASE Loses(v, first, last)
    <2>1. /\ r \in Seq(Value) /\ Len(r) = Len(s) - (last - first)
          /\ \A k \in 1 .. first : r[k] = s[k]
          /\ last < Len(s) => r[first + 1] = s[last + 1]
      BY <1>2, ErasedHas
    <2> HIDE DEF r
    <2>2. Gives(v, r)
      BY <1>7 DEF Loses, r
    <2>3. /\ contents'[v] = r
          /\ \A x \in DOMAIN vectors \ {v} : contents'[x] = contents[x]
      BY <1>1, <2>2, GivenContents
    <2> QED
      BY <1>1, <1>2, <1>6, <2>1, <2>3 DEF Shrinks
  <1>8. CASE first = last /\ Gives(v, s)
    <2>1. /\ contents'[v] = s
          /\ \A x \in DOMAIN vectors \ {v} : contents'[x] = contents[x]
      BY <1>1, <1>8, GivenContents
    <2> QED
      BY <1>1, <1>2, <1>6, <1>8, <2>1 DEF Shrinks
  <1> QED
    BY <1>7, <1>8

LEMMA ShrinksBuffers ==
  ASSUME IteratorsInv, Careful, Inv', UNCHANGED kind, UNCHANGED tables, NEW v, NEW first,
         NEW last, Shrinks(v, first, last)
  PROVE  BuffersOwned'
  <1>1. Inv /\ BuffersOwned /\ v \in DOMAIN vectors
    BY DEF IteratorsInv, Shrinks
  <1>2. /\ Room(vectors[v], tables[v])
        /\ vectors'[v].max_element_count = vectors[v].max_element_count
    BY <1>1, OwnTableIs DEF Shrinks
  <1>3. Varying => /\ Len(vectors'[v].table) = Len(contents'[v])
                   /\ Len(vectors[v].table) = Len(contents[v])
    <2>1. contents'[v] # Unspecified /\ v \in DOMAIN vectors'
      BY UnspecifiedAssumption DEF Shrinks
    <2> QED
      BY <2>1, TableLength DEF Shrinks, Size
  <1>4. Len(contents'[v]) \in Nat /\ Len(contents[v]) \in Nat
        /\ Len(contents'[v]) <= Len(contents[v])
    BY DEF Shrinks
  <1>5. Room(vectors'[v], tables[v])
    <2>1. CASE Varying
      <3>1. Len(vectors[v].table) <= tables[v].capacity
                            /\ Len(vectors[v].table) <= vectors[v].max_element_count
        BY <1>2, <2>1 DEF Room
      <3>2. vectors[v].max_element_count \in Nat
        BY <1>1, NumbersOf DEF Numbers
      <3> QED
        BY <1>2, <1>3, <1>4, <2>1, <3>1, <3>2 DEF Room
    <2>2. CASE ~ Varying
      BY <1>2, <2>2 DEF Room
    <2> QED
      BY <2>1, <2>2
  <1>6. /\ DOMAIN tables' = DOMAIN vectors'
        /\ \A x \in DOMAIN vectors' : Room(vectors'[x], tables'[x])
    BY <1>1, <1>5 DEF BuffersOwned, Shrinks
  <1> QED
    BY <1>1, <1>6, BuffersNext DEF BuffersOwned, Shrinks

(* The iterators in front of the first element erased.                      *)
LEMMA SparedFollow ==
  ASSUME IteratorsInv, UNCHANGED kind, UNCHANGED tables, NEW v, NEW first,
         NEW last, Shrinks(v, first, last), NEW x \in Spared(v, first),
         iterators[x].element # Null
  PROVE  \/ Unmoved(iterators[x].vector)
         \/ Follows(iterators[x].vector, iterators[x].vector, iterators[x].position)
  <1> DEFINE h == iterators[x]
             k == h.position + 1
  <1>1. /\ x \in DOMAIN iterators /\ h.vector \in DOMAIN vectors /\ h.position \in Nat
        /\ k \in 1 .. Len(contents[h.vector])
    BY DEF AllLead, Leads, IsHeld, Spared, IteratorsInv, LeadsInto
  <1>2. CASE h.vector # v
    BY <1>1, <1>2 DEF Shrinks, Unmoved
  <1>3. CASE h.vector = v
    <2>1. h.position < first
      BY <1>3 DEF Spared
    <2> HIDE DEF h
    <2>2. /\ first \in Nat /\ first <= Len(contents'[v]) /\ Len(contents'[v]) \in Nat
          /\ contents'[v] # Unspecified
      BY UnspecifiedAssumption DEF Shrinks
    <2>3. k \in 1 .. first /\ k \in 1 .. Len(contents'[v])
      BY <1>1, <2>1, <2>2
    <2>4. contents'[v][k] = contents[v][k] /\ SameLocator(v, v) /\ v \in DOMAIN vectors'
      BY <2>3 DEF Shrinks
    <2>5. Follows(v, v, h.position)
      BY <2>2, <2>3, <2>4 DEF Follows
    <2> QED
      BY <1>3, <2>5 DEF h
  <1> QED
    BY <1>2, <1>3

LEMMA ShrinksKeep ==
  ASSUME IteratorsInv, UNCHANGED kind, UNCHANGED tables, NEW v, NEW first,
         NEW last, Shrinks(v, first, last), Keep(Spared(v, first))
  PROVE  AllLead'
  <1>1. AllLead /\ Spared(v, first) \subseteq DOMAIN iterators
    BY DEF IteratorsInv, Spared
  <1>2. ASSUME NEW x \in Spared(v, first), iterators[x].element # Null
        PROVE  \/ Unmoved(iterators[x].vector)
               \/ Follows(iterators[x].vector, iterators[x].vector, iterators[x].position)
    BY <1>2, SparedFollow
  <1> QED
    BY <1>1, <1>2, KeptLead

LEMMA ShrinksHold ==
  ASSUME IteratorsInv, UNCHANGED kind, UNCHANGED tables, NEW v, NEW first,
         NEW last, Shrinks(v, first, last), HoldReturned(v, first, last)
  PROVE  AllLead'
  <1>1. CASE Keep(Spared(v, first))
    BY <1>1, ShrinksKeep
  <1>2. CASE ~ Keep(Spared(v, first))
    <2> DEFINE S == Spared(v, first)
               e == IF last < Size(vectors[v]) THEN contents[v][last + 1] ELSE Null
               it == Returned(v, first)
               g == Held(it, v, first, e)
    <2>1. PICK z \in Iterator :
            iterators' = [y \in S \cup {z} |-> IF y = z THEN g ELSE iterators[y]]
      BY <1>2 DEF HoldReturned
    <2>2. IsHeld(g)
      BY DEF IsHeld, Held, Shrinks
    <2>3. Leads(g, vectors', tables', contents')
      <3>1. SUFFICES ASSUME e # Null
                     PROVE  v \in DOMAIN vectors'
                            /\ LeadsInto(g, vectors'[v], tables'[v], contents'[v])
        BY DEF Leads, Held
      <3>2. last < Size(vectors[v]) /\ e = contents[v][last + 1]
        BY <3>1
      <3>3. it = IteratorFor(vectors[v], tables[v], first)
        BY IteratorToIsFor DEF Returned
      <3>4. IteratorFor(vectors'[v], tables'[v], first)
              = IteratorFor(vectors[v], tables[v], first)
        BY DEF Shrinks, SameLocator, IteratorFor
      <3> HIDE DEF e, it
      <3>5. g.it = it /\ g.position = first /\ g.element = e
        BY DEF Held
      <3>6. /\ first + 1 \in 1 .. Len(contents'[v]) /\ contents'[v] # Unspecified
            /\ contents'[v][first + 1] = e
        <4>1. /\ first \in Nat /\ last \in Nat /\ last < Len(contents[v])
              /\ Len(contents[v]) \in Nat
              /\ Len(contents'[v]) = Len(contents[v]) - (last - first)
          BY <3>2 DEF Shrinks
        <4>2. first + 1 \in 1 .. Len(contents'[v])
          BY <4>1
        <4> QED
          BY <3>2, <4>1, <4>2, UnspecifiedAssumption DEF Shrinks
      <3> HIDE DEF g
      <3> QED
        BY <3>3, <3>4, <3>5, <3>6 DEF LeadsInto, Shrinks
    <2> HIDE DEF g
    <2>4. ASSUME NEW x \in DOMAIN iterators'
          PROVE  IsHeld(iterators'[x]) /\ Leads(iterators'[x], vectors', tables', contents')
      <3>1. CASE x = z
        BY <2>1, <2>2, <2>3, <2>4, <3>1
      <3>2. CASE x # z
        <4>1. x \in S /\ iterators'[x] = iterators[x]
          BY <2>1, <2>4, <3>2
        <4>2. IsHeld(iterators[x]) /\ Leads(iterators[x], vectors, tables, contents)
          BY <4>1 DEF AllLead, IteratorsInv, Spared
        <4>3. iterators[x].element # Null =>
                \/ Unmoved(iterators[x].vector)
                \/ Follows(iterators[x].vector, iterators[x].vector, iterators[x].position)
          BY <4>1, SparedFollow
        <4>4. Leads(iterators[x], vectors', tables', contents')
          BY <4>2, <4>3, StillLeads
        <4> QED
          BY <4>1, <4>2, <4>4
      <3> QED
        BY <3>1, <3>2
    <2> QED
      BY <2>4, AllLeadNext
  <1> QED
    BY <1>1, <1>2

LEMMA EraseLeads ==
  ASSUME IteratorsInv, Careful, Inv', UNCHANGED kind, NEW v \in Vector, EraseAndKeep(v)
  PROVE  BuffersOwned' /\ AllLead'
  <1>1. Inv /\ BuffersOwned /\ AllLead /\ UNCHANGED tables
    BY DEF IteratorsInv, EraseAndKeep
  <1> DEFINE m == vectors[v]
  <1>2. ASSUME Usable(v)
        PROVE  v \in DOMAIN vectors /\ Size(m) \in Nat
    BY <1>1, <1>2, NumbersOf DEF Usable
  <1>3. CASE PopBack(v) /\ Keep(Spared(v, Size(m) - 1))
    <2> DEFINE first == Size(m) - 1
               last == Size(m)
    <2>1. Usable(v) /\ Size(m) > 0 /\ EraseFrom(v, first, last, FALSE)
      BY <1>3 DEF PopBack
    <2>2. /\ first \in Nat /\ last \in Nat /\ first < last /\ first <= last /\ last <= Size(m)
          /\ ~ (last < Size(m)) /\ FALSE \in BOOLEAN
      BY <1>2, <2>1
    <2>3. Keep(Spared(v, first))
      BY <1>3
    <2> HIDE DEF first, last
    <2>4. Defined /\ Loses(v, first, last)
      BY <1>1, <2>1, <2>2, EraseSound
    <2>5. Shrinks(v, first, last)
      BY <1>1, <2>1, <2>2, <2>4, EraseShrinks
    <2> QED
      BY <1>1, <2>3, <2>5, ShrinksBuffers, ShrinksKeep
  <1>4. CASE Clear(v) /\ Keep(Spared(v, 0))
    <2>1. Gives(v, << >>) /\ Defined /\ v \in DOMAIN vectors
      BY <1>1, <1>4, ClearSound
    <2>2. status = "defined"
      BY <1>1 DEF Inv
    <2> DEFINE k == Resized(m, m.table, Size(m) - (Size(m) - 0))
    <2>3. vectors' = Set(v, k)
      <3>1. ~ Undefined /\ EraseFrom(v, 0, Size(m), FALSE)
        BY <1>4, <2>1, <2>2 DEF Defined, Undefined, Clear
      <3> QED
        BY <3>1 DEF EraseFrom
    <2>4. IsMembers(m) /\ m.max_element_count \in Nat
      BY <1>1, <2>1, NumbersOf DEF Inv, OwnInv, AreVectors, Numbers
    <2>5. k.max_element_count = m.max_element_count
      BY <2>4, ResizedFields
    <2> HIDE DEF k
    <2>6. /\ \A x \in DOMAIN vectors \ {v} : vectors'[x] = vectors[x]
          /\ vectors'[v].max_element_count \in Nat
      BY <2>3, <2>4, <2>5, SetFrame
    <2> DEFINE t == tables[v]
    <2>7. /\ t.buffer \in Buffer \cup {Null} /\ t.capacity \in Nat
          /\ t.buffer = Null => t.capacity = 0
          /\ NobodyElses(v, t)
      BY <1>1, <2>1, OwnTableIs
    <2>8. Placed(v, t)
      BY <1>1, <2>1 DEF Placed, BuffersOwned
    <2> HIDE DEF t
    <2>9. << >> \in Seq(Value) /\ Len(<< >>) = 0
      BY <1>1, EmptyFits
    <2>10. Varying => Len(<< >>) <= t.capacity /\ Len(<< >>) <= vectors'[v].max_element_count
      BY <2>6, <2>7, <2>9
    <2> QED
      BY <1>1, <1>4, <2>1, <2>6, <2>7, <2>8, <2>9, <2>10, GiveAndDrop
  <1>5. ASSUME NEW position \in 0 .. MaxCapacity, Erase(v, position),
               HoldReturned(v, position, position + 1)
        PROVE  BuffersOwned' /\ AllLead'
    <2> DEFINE last == position + 1
    <2>1. /\ Usable(v) /\ position < Size(m)
          /\ NonTrivial \/ ~ Varying \/ last < Size(m)
          /\ ~ Narrow(m, last, position)
          /\ EraseFrom(v, position, last, TRUE)
      BY <1>5 DEF Erase, Careful
    <2>2. position \in Nat /\ last \in Nat /\ position < last /\ position <= last
          /\ last <= Size(m)
      BY <1>2, <2>1, SizesAssumption
    <2>3. HoldReturned(v, position, last)
      BY <1>5
    <2> HIDE DEF last
    <2>4. /\ TRUE \in BOOLEAN
          /\ last = Size(m) => NonTrivial \/ ~ Varying
      BY <1>2, <2>1, <2>2
    <2>5. Defined /\ Loses(v, position, last)
      BY <1>1, <2>1, <2>2, <2>4, EraseSound
    <2>6. Shrinks(v, position, last)
      BY <1>1, <2>1, <2>2, <2>5, EraseShrinks
    <2> QED
      BY <1>1, <2>3, <2>6, ShrinksBuffers, ShrinksHold
  <1>6. ASSUME NEW first \in 0 .. MaxCapacity, NEW last \in 0 .. MaxCapacity,
               EraseRange(v, first, last), HoldReturned(v, first, last)
        PROVE  BuffersOwned' /\ AllLead'
    <2> DEFINE moves == last < Size(m) /\ first # last
    <2>1. /\ Usable(v) /\ first <= last /\ last <= Size(m)
          /\ first < last \/ ~ Varying
          /\ first = last \/ ~ Narrow(m, last, first)
          /\ EraseFrom(v, first, last, moves)
      BY <1>6 DEF EraseRange, Careful
    <2>2. first \in Nat /\ last \in Nat
      BY SizesAssumption
    <2>3. Defined /\ (Loses(v, first, last) \/ (first = last /\ Gives(v, contents[v])))
      <3>1. CASE first = last
        <4>1. ~ Varying /\ moves = FALSE /\ first <= Size(m)
          BY <1>2, <2>1, <2>2, <3>1
        <4>2. EraseFrom(v, first, first, FALSE)
          BY <2>1, <3>1, <4>1
        <4>3. ~ IsHollow(m) /\ contents[v] = ValueOf(m, heap)
          BY <1>1, <2>1, UsableVectors
        <4>4. Defined /\ Gives(v, ValueOf(m, heap))
          BY <1>1, <1>2, <2>1, <2>2, <4>1, <4>2, <4>3, EraseNothing
        <4> QED
          BY <3>1, <4>3, <4>4
      <3>2. CASE first < last
        <4>1. /\ moves \in BOOLEAN /\ ~ Narrow(m, last, first)
              /\ last = Size(m) => ~ moves
              /\ last < Size(m) => moves
          BY <1>2, <2>1, <2>2, <3>2
        <4> HIDE DEF moves
        <4>2. Defined /\ Loses(v, first, last)
          BY <1>1, <2>1, <2>2, <3>2, <4>1, EraseSound
        <4> QED
          BY <4>2
      <3> QED
        BY <2>1, <2>2, <3>1, <3>2
    <2> HIDE DEF moves
    <2>4. Shrinks(v, first, last)
      BY <1>1, <2>1, <2>2, <2>3, EraseShrinks
    <2> QED
      BY <1>1, <1>6, <2>4, ShrinksBuffers, ShrinksHold
  <1> QED
    BY <1>3, <1>4, <1>5, <1>6 DEF EraseAndKeep

-----------------------------------------------------------------------------
(* v becomes k, with the table of w, and w becomes r, which has none.       *)
(* v is given the table t and w is given u, which no other vector has.      *)
BothPlaced(v, t, w, u) ==
  /\ DOMAIN tables' = DOMAIN tables \cup {v} /\ tables'[v] = t /\ tables'[w] = u
  /\ \A x \in DOMAIN tables \ {v, w} : tables'[x] = tables[x]

Apart(v, t, w, u) ==
  /\ t.buffer = u.buffer => t.buffer = Null
  /\ \A x \in DOMAIN tables \ {v, w} :
       /\ tables[x].buffer = t.buffer => t.buffer = Null
       /\ tables[x].buffer = u.buffer => u.buffer = Null

LEMMA BothBuffers ==
  ASSUME BuffersOwned, UNCHANGED kind, NEW v, NEW w \in DOMAIN vectors, v # w,
         DOMAIN vectors' = DOMAIN vectors \cup {v},
         \A x \in DOMAIN vectors \ {v, w} : vectors'[x] = vectors[x],
         NEW t, NEW u, BothPlaced(v, t, w, u), Apart(v, t, w, u),
         Room(vectors'[v], t), Room(vectors'[w], u)
  PROVE  BuffersOwned'
  <1>1. /\ DOMAIN tables = DOMAIN vectors /\ DOMAIN tables' = DOMAIN vectors'
        /\ tables'[v] = t /\ tables'[w] = u
        /\ \A x \in DOMAIN vectors \ {v, w} : tables'[x] = tables[x]
    BY DEF BothPlaced, BuffersOwned
  <1>2. \A x \in DOMAIN vectors' : Room(vectors'[x], tables'[x])
    BY <1>1 DEF BuffersOwned
  <1>3. ASSUME NEW x \in DOMAIN vectors', NEW y \in DOMAIN vectors', x # y,
               tables'[x].buffer = tables'[y].buffer
        PROVE  tables'[x].buffer = Null
    BY <1>1, <1>3 DEF BuffersOwned, Apart
  <1> QED
    BY <1>1, <1>2, <1>3, BuffersNext

(* What the iterators to w are left with if v does not take its buffer:     *)
(* nothing, as there are none.                                              *)
BuffersFollow(S, w, t) ==
  \A x \in S : Varying /\ iterators[x].vector = w => t.buffer = tables[w].buffer

LEMMA HandOver ==
  ASSUME IteratorsInv, Inv', UNCHANGED kind, NEW v, NEW w \in DOMAIN vectors, v # w,
         Hands(v, w),
         NEW t, NEW u, BothPlaced(v, t, w, u), Apart(v, t, w, u),
         Room(vectors[w], t), u.buffer \in Buffer \cup {Null}, u.capacity \in Nat,
         u.buffer = Null => u.capacity = 0,
         NEW k, NEW r, Become(v, k, w, r), r.table = << >>,
         k.table = vectors[w].table, k.max_element_count = vectors[w].max_element_count,
         k.block = vectors[w].block, k.edge = vectors[w].edge, k.stride = vectors[w].stride,
         r.max_element_count \in Nat,
         NEW S, S \subseteq DOMAIN iterators, Follow(S, [x \in {w} |-> v]),
         BuffersFollow(S, w, t),
         v \in DOMAIN vectors => S = Spared(v, 0)
  PROVE  BuffersOwned' /\ AllLead'
  <1>1. Inv /\ BuffersOwned /\ AllLead
    BY DEF IteratorsInv
  <1>2. /\ DOMAIN vectors' = DOMAIN vectors \cup {v}
        /\ contents'[v] = contents[w]
        /\ \A x \in DOMAIN vectors \ {v, w} : contents'[x] = contents[x]
    BY <1>1, HandedContents
  <1>3. /\ vectors'[v] = k /\ vectors'[w] = r
        /\ \A x \in DOMAIN vectors \ {v, w} : vectors'[x] = vectors[x]
    BY <1>2 DEF Become
  <1>4. /\ tables'[v] = t
        /\ \A x \in DOMAIN vectors \ {v, w} : tables'[x] = tables[x]
    BY <1>1 DEF BothPlaced, BuffersOwned
  <1>5. Room(r, u) /\ Room(k, t)
    <2>1. Len(r.table) = 0
      OBVIOUS
    <2> QED
      BY <2>1 DEF Room
  <1>9. BuffersOwned'
    BY <1>1, <1>2, <1>3, <1>5, BothBuffers
  <1> DEFINE f == [x \in {w} |-> v]
  <1>10. DOMAIN f = {w} /\ f[w] = v
    OBVIOUS
  <1>11. Follow(S, f)
    OBVIOUS
  <1> HIDE DEF f
  <1>12. ASSUME NEW x \in S, iterators[x].element # Null,
                iterators[x].vector \notin DOMAIN f
         PROVE  Unmoved(iterators[x].vector)
    <2> DEFINE h == iterators[x]
    <2>1. h.vector \in DOMAIN vectors /\ h.position \in Nat
      BY <1>1, <1>12 DEF AllLead, Leads, IsHeld
    <2>2. h.vector # v /\ h.vector # w
      BY <1>10, <1>12, <2>1 DEF Spared
    <2> HIDE DEF h
    <2>3. Unmoved(h.vector)
      BY <1>2, <1>3, <1>4, <2>1, <2>2 DEF Unmoved
    <2> QED
      BY <2>3 DEF h
  <1>13. ASSUME NEW x \in S, iterators[x].element # Null, iterators[x].vector \in DOMAIN f
         PROVE  Follows(iterators[x].vector, f[iterators[x].vector], iterators[x].position)
    <2>1. iterators[x].vector = w
      BY <1>10, <1>13
    <2>2. LeadsInto(iterators[x], vectors[w], tables[w], contents[w])
      BY <1>1, <1>13, <2>1 DEF AllLead, Leads
    <2>3. SameLocator(w, v)
      BY <1>3, <1>4, <1>13, <2>1 DEF SameLocator, BuffersFollow
    <2>4. Follows(w, v, iterators[x].position)
      BY <1>2, <2>2, <2>3 DEF Follows, LeadsInto
    <2> QED
      BY <1>10, <2>1, <2>4
  <1>14. AllLead'
    BY <1>1, <1>11, <1>12, <1>13, FollowLead
  <1> QED
    BY <1>9, <1>14

(* A buffer that is taken, and that of the table it is taken from.          *)
LEMMA HandedOverIs ==
  ASSUME BuffersOwned, NEW v, NEW w \in DOMAIN vectors, v # w, HandedOver(v, w)
  PROVE  LET t == tables[w]
             u == Emptied(w)
         IN  /\ BothPlaced(v, t, w, u) /\ Apart(v, t, w, u)
             /\ Room(vectors[w], t)
             /\ u.buffer = Null /\ u.capacity = 0
  <1>1. DOMAIN tables = DOMAIN vectors /\ Room(vectors[w], tables[w])
    BY DEF BuffersOwned
  <1>2. Emptied(w).buffer = Null /\ Emptied(w).capacity = 0
    BY DEF Emptied, NoTable
  <1>3. Apart(v, tables[w], w, Emptied(w))
    BY <1>1, <1>2 DEF Apart, BuffersOwned
  <1>4. BothPlaced(v, tables[w], w, Emptied(w))
    BY <1>1 DEF BothPlaced, HandedOver
  <1> QED
    BY <1>1, <1>2, <1>3, <1>4

LEMMA ReleasedFields ==
  ASSUME NEW m, IsMembers(m)
  PROVE  Released(m).table = << >> /\ Released(m).max_element_count = m.max_element_count
  BY DEF Released, IsMembers, Fields

LEMMA MoveConstructLeads ==
  ASSUME IteratorsInv, Careful, Inv', UNCHANGED kind, NEW v \in Vector, NEW w \in Vector,
         MoveConstructAndFollow(v, w)
  PROVE  BuffersOwned' /\ AllLead'
  <1>1. /\ Inv /\ BuffersOwned /\ MoveConstruct(v, w) /\ HandedOver(v, w)
        /\ Follow(DOMAIN iterators, [x \in {w} |-> v])
    BY DEF IteratorsInv, MoveConstructAndFollow
  <1>2. v # w /\ w \in DOMAIN vectors /\ Hands(v, w)
    BY <1>1, MoveConstructSound
  <1> DEFINE k == vectors[w]
             r == Released(k)
  <1>3. IsMembers(k) /\ k.max_element_count \in Nat
    BY <1>1, <1>2, NumbersOf DEF Inv, OwnInv, AreVectors, Numbers
  <1>4. r.table = << >> /\ r.max_element_count \in Nat
    BY <1>3, ReleasedFields
  <1>5. /\ v \notin DOMAIN vectors
        /\ vectors' = [x \in DOMAIN vectors \cup {v} |->
                         IF x = v THEN k ELSE IF x = w THEN r ELSE vectors[x]]
    BY <1>1 DEF MoveConstruct
  <1> HIDE DEF r
  <1>6. Become(v, k, w, r)
    BY <1>5 DEF Become
  <1> DEFINE t == tables[w]
             u == Emptied(w)
  <1>7. /\ BothPlaced(v, t, w, u) /\ Apart(v, t, w, u) /\ Room(vectors[w], t)
        /\ u.buffer = Null /\ u.capacity = 0
    BY <1>1, <1>2, HandedOverIs
  <1>8. BuffersFollow(DOMAIN iterators, w, t)
    BY DEF BuffersFollow
  <1> HIDE DEF t, u
  <1>9. /\ u.buffer \in Buffer \cup {Null} /\ u.capacity \in Nat
        /\ u.buffer = Null => u.capacity = 0
    BY <1>7
  <1>10. /\ k.table = vectors[w].table /\ k.max_element_count = vectors[w].max_element_count
         /\ k.block = vectors[w].block /\ k.edge = vectors[w].edge
         /\ k.stride = vectors[w].stride
    OBVIOUS
  <1> HIDE DEF k
  <1> QED
    BY <1>1, <1>2, <1>4, <1>5, <1>6, <1>7, <1>8, <1>9, <1>10, HandOver

(* No iterator leads to v.                                                  *)
LEMMA NoneHeld ==
  ASSUME AllLead, NEW v, Spared(v, 0) = DOMAIN iterators, NEW x \in DOMAIN iterators
  PROVE  iterators[x].vector # v
  BY DEF AllLead, IsHeld, Spared

LEMMA StealLeads ==
  ASSUME IteratorsInv, KeepsTables, Inv', UNCHANGED kind, NEW v \in Vector, NEW w \in Vector,
         v # w, Assignable(v), w \in DOMAIN vectors, Steal(v, w), StealAndFollow(v, w)
  PROVE  BuffersOwned' /\ AllLead'
  <1>1. Inv /\ BuffersOwned /\ AllLead /\ Careful /\ Follow(Spared(v, 0), [x \in {w} |-> v])
    BY DEF IteratorsInv, KeepsTables, StealAndFollow
  <1>2. Defined /\ v \in DOMAIN vectors /\ Hands(v, w)
    BY <1>1, StealSound
  <1> DEFINE m == vectors[v]
             o == vectors[w]
             a == IF traits.move THEN o.allocator ELSE m.allocator
             k == [o EXCEPT !.allocator = a]
             r == Released(o)
  <1>3. vectors' = [vectors EXCEPT ![v] = k, ![w] = r]
    <2>1. status = "defined"
      BY <1>1 DEF Inv
    <2>2. ~ Undefined /\ ~ Misreleased
      BY <1>2, <2>1 DEF Defined, Undefined, Misreleased
    <2> QED
      BY <2>2 DEF Steal
  <1>4. IsMembers(o) /\ o.max_element_count \in Nat /\ AreVectors(vectors)
    BY <1>1, <1>2, NumbersOf DEF Inv, OwnInv, AreVectors, Numbers
  <1>5. r.table = << >> /\ r.max_element_count \in Nat
    BY <1>4, ReleasedFields
  <1> HIDE DEF a, r
  <1>6. /\ k.block = o.block /\ k.max_element_count = o.max_element_count
        /\ k.stride = o.stride /\ k.table = o.table /\ k.edge = o.edge
    BY <1>4 DEF IsMembers, Fields
  <1> HIDE DEF k
  <1>7. Become(v, k, w, r)
    BY <1>2, <1>3, <1>4 DEF Become, AreVectors
  <1>8. Spared(v, 0) \subseteq DOMAIN iterators
    BY DEF Spared
  <1>9. ASSUME NEW t, NEW u, BothPlaced(v, t, w, u), Apart(v, t, w, u), Room(vectors[w], t),
               u.buffer \in Buffer \cup {Null}, u.capacity \in Nat,
               u.buffer = Null => u.capacity = 0, BuffersFollow(Spared(v, 0), w, t)
        PROVE  BuffersOwned' /\ AllLead'
    BY <1>1, <1>2, <1>5, <1>6, <1>7, <1>8, <1>9, HandOver
  <1> HIDE DEF m, o
  <1>10. CASE TakesTable(v, w)
    <2> DEFINE t == tables[w]
               u == Emptied(w)
    <2>1. HandedOver(v, w)
      BY <1>10 DEF StealAndFollow
    <2>2. /\ BothPlaced(v, t, w, u) /\ Apart(v, t, w, u) /\ Room(vectors[w], t)
          /\ u.buffer = Null /\ u.capacity = 0
      BY <1>1, <2>1, HandedOverIs
    <2>3. BuffersFollow(Spared(v, 0), w, t)
      BY DEF BuffersFollow
    <2> HIDE DEF t, u
    <2> QED
      BY <1>9, <2>2, <2>3
  <1>11. CASE ~ TakesTable(v, w)
    <2> DEFINE t == EntriesMoved(v, w)
               u == tables[w]
    <2>1. Place(v, t) /\ (Varying => Spared(w, 0) = DOMAIN iterators)
      BY <1>11 DEF StealAndFollow, MayCopyTables, KeepsTables
    <2>2. /\ t.buffer \in Buffer \cup {Null} /\ t.capacity \in Nat
          /\ t.buffer = Null => t.capacity = 0
          /\ NobodyElses(v, t)
          /\ Varying => Size(vectors[w]) <= t.capacity
      BY <1>1, <1>2, EntriesMovedIs
    <2>3. /\ Room(vectors[w], u)
          /\ u.buffer \in Buffer \cup {Null} /\ u.capacity \in Nat
          /\ u.buffer = Null => u.capacity = 0
          /\ NobodyElses(w, u)
      BY <1>1, OwnTableIs
    <2>4. DOMAIN tables = DOMAIN vectors
      BY <1>1 DEF BuffersOwned
    <2>5. BuffersFollow(Spared(v, 0), w, t)
      BY <1>1, <1>8, <2>1, NoneHeld DEF BuffersFollow
    <2> HIDE DEF t
    <2>6. BothPlaced(v, t, w, u)
      BY <2>1, <2>4 DEF BothPlaced, Place
    <2>7. Apart(v, t, w, u)
      BY <2>2, <2>3, <2>4 DEF Apart, NobodyElses
    <2>8. Room(vectors[w], t)
      BY <2>2, <2>3 DEF Room, Size
    <2> HIDE DEF u
    <2> QED
      BY <1>9, <2>3, <2>5, <2>6, <2>7, <2>8
  <1> QED
    BY <1>10, <1>11

LEMMA MoveElementsLeads ==
  ASSUME IteratorsInv, Careful, Inv', UNCHANGED kind, NEW v \in Vector, NEW w \in Vector,
         v # w, Assignable(v), Usable(w), MoveElements(v, w), MoveElementsAndDrop(v, w)
  PROVE  BuffersOwned' /\ AllLead'
  <1>1. Inv /\ BuffersOwned /\ AllLead
    BY DEF IteratorsInv
  <1>2. /\ Defined /\ v \in DOMAIN vectors /\ w \in DOMAIN vectors
        /\ Hands(v, w) \/ Gives(v, contents[w])
    BY <1>1, MoveElementsSound
  <1> DEFINE m == vectors[v]
             o == vectors[w]
             grows == Outgrows(m, o)
             units == IF grows THEN o.units * UnitBytes ELSE m.units
             block == IF grows THEN Fresh ELSE m.block
             a == m.allocator
             c == TriviallyCopied(o, block)
             k == [c EXCEPT !.units = units, !.allocator = a]
             r == [o EXCEPT !.table = << >>]
             t == IF TakesTable(v, w) THEN TableAfterGrow(w, o.max_element_count)
                  ELSE EntriesMoved(v, w)
             u == Emptied(w)
  <1>3. contents[w] # Unspecified /\ status = "defined"
    BY DEF Usable, Careful
  <1>4. contents[w] \in Seq(Value) /\ Size(o) \in Nat
        /\ Len(contents[w]) = Size(o) /\ ~ IsHollow(o)
    BY <1>1, <1>2, <1>3, ContentsOf
  <1>5. o.max_element_count \in Nat /\ IsMembers(o)
    BY <1>1, <1>2, <1>4, UnitsOfVectors
  <1>6. vectors' = [vectors EXCEPT ![v] = k, ![w] = r]
    <2>1. ~ Undefined
      BY <1>2, <1>3 DEF Defined, Undefined
    <2> QED
      BY <2>1 DEF MoveElements
  <1>7. IsMembers(c) /\ c.max_element_count = o.max_element_count /\ c.table = o.table
    <2>1. IsMembers(c) /\ c.max_element_count = o.max_element_count
      BY <1>5, TriviallyCopiedCounts
    <2>2. c.table = o.table
      BY <1>5 DEF TriviallyCopied, IsMembers, Fields
    <2> QED
      BY <2>1, <2>2
  <1> HIDE DEF c, units, a
  <1>8. k.max_element_count = o.max_element_count /\ k.table = o.table
    BY <1>7 DEF IsMembers, Fields
  <1>9. r.max_element_count = o.max_element_count /\ r.table = << >>
    BY <1>5 DEF IsMembers, Fields
  <1> HIDE DEF k, r
  <1>10. /\ DOMAIN vectors' = DOMAIN vectors
         /\ vectors'[v] = k /\ vectors'[w] = r
         /\ \A x \in DOMAIN vectors \ {v, w} : vectors'[x] = vectors[x]
    BY <1>2, <1>6
  <1>11. \A x \in DOMAIN vectors \ {v, w} : contents'[x] = contents[x]
    BY <1>1, <1>2, GivenContents, HandedContents
  <1>12. /\ DOMAIN tables = DOMAIN vectors
         /\ Room(o, tables[w]) /\ tables[w].capacity \in Nat
         /\ Varying => Len(o.table) = Size(o)
    BY <1>1, <1>2, OwnTableIs DEF BuffersOwned, Size
  <1>13. /\ t.buffer \in Buffer \cup {Null} /\ t.capacity \in Nat
         /\ t.buffer = Null => t.capacity = 0
         /\ \A x \in DOMAIN tables \ {v, w} : tables[x].buffer = t.buffer => t.buffer = Null
         /\ Varying => Size(o) <= t.capacity
    <2>1. CASE TakesTable(v, w)
      <3> DEFINE g == TableAfterGrow(w, o.max_element_count)
      <3>1. /\ g.buffer \in Buffer \cup {Null} /\ g.capacity \in Nat
            /\ g.buffer = Null => g.capacity = 0
            /\ NobodyElses(w, g)
            /\ Varying => tables[w].capacity <= g.capacity
        BY <1>1, <1>2, <1>5, TableAfterGrowIs
      <3>2. t = g
        BY <2>1
      <3> HIDE DEF g, t
      <3>3. Varying => Size(o) <= tables[w].capacity
        BY <1>12 DEF Room
      <3>4. Varying => Size(o) <= g.capacity
        BY <1>4, <1>12, <3>1, <3>3
      <3> QED
        BY <3>1, <3>2, <3>4 DEF NobodyElses
    <2>2. CASE ~ TakesTable(v, w)
      <3>1. t = EntriesMoved(v, w)
        BY <2>2
      <3> HIDE DEF t
      <3>2. /\ t.buffer \in Buffer \cup {Null} /\ t.capacity \in Nat
            /\ t.buffer = Null => t.capacity = 0
            /\ NobodyElses(v, t)
            /\ Varying => Size(o) <= t.capacity
        BY <1>1, <1>2, <3>1, EntriesMovedIs
      <3> QED
        BY <3>2 DEF NobodyElses
    <2> QED
      BY <2>1, <2>2
  <1>14. Keep(Spared(v, 0) \cap Spared(w, 0)) /\ BothPlaced(v, t, w, u)
    BY <1>2, <1>12 DEF MoveElementsAndDrop, BothPlaced
  <1>15. u.buffer = Null /\ u.capacity = 0
    BY DEF Emptied, NoTable
  <1> HIDE DEF t, u
  <1>16. Apart(v, t, w, u)
    BY <1>13, <1>15 DEF Apart
  <1>17. Room(k, t)
    BY <1>8, <1>12, <1>13 DEF Room
  <1>18. Room(r, u)
    <2>1. Len(r.table) = 0
      BY <1>9
    <2> QED
      BY <1>5, <1>9, <1>15, <2>1 DEF Room
  <1>19. BuffersOwned'
    BY <1>1, <1>2, <1>10, <1>14, <1>16, <1>17, <1>18, BothBuffers
  <1> DEFINE S == Spared(v, 0) \cap Spared(w, 0)
  <1>20. S \subseteq DOMAIN iterators /\ Keep(S)
    BY <1>14 DEF Spared
  <1>21. ASSUME NEW x \in S, iterators[x].element # Null
         PROVE  Unmoved(iterators[x].vector)
    <2> DEFINE h == iterators[x]
    <2>1. h.vector \in DOMAIN vectors /\ h.position \in Nat
      BY <1>1, <1>20, <1>21 DEF AllLead, Leads, IsHeld
    <2>2. h.vector # v /\ h.vector # w
      BY <1>21, <2>1 DEF Spared
    <2> HIDE DEF h
    <2>3. Unmoved(h.vector)
      BY <1>10, <1>11, <1>12, <1>14, <2>1, <2>2 DEF Unmoved, BothPlaced
    <2> QED
      BY <2>3 DEF h
  <1> HIDE DEF S
  <1>22. AllLead'
    BY <1>1, <1>20, <1>21, KeptLead
  <1> QED
    BY <1>19, <1>22

LEMMA MoveAssignLeads ==
  ASSUME IteratorsInv, KeepsTables, Inv', UNCHANGED kind, NEW v \in Vector, NEW w \in Vector,
         MoveAssignAndFollow(v, w)
  PROVE  BuffersOwned' /\ AllLead'
  <1>1. /\ v # w /\ Assignable(v) /\ w \in DOMAIN vectors
        /\ ~ Steals(vectors[v], vectors[w]) => Usable(w)
        /\ IF Steals(vectors[v], vectors[w]) THEN Steal(v, w) ELSE MoveElements(v, w)
        /\ StealAndFollow(v, w) \/ MoveElementsAndDrop(v, w)
        /\ Careful
    BY DEF MoveAssignAndFollow, MoveAssign, KeepsTables
  <1>2. CASE StealAndFollow(v, w)
    <2>1. Steals(vectors[v], vectors[w])
      BY <1>2 DEF StealAndFollow
    <2> QED
      BY <1>1, <1>2, <2>1, StealLeads
  <1>3. CASE MoveElementsAndDrop(v, w)
    <2>1. ~ Steals(vectors[v], vectors[w])
      BY <1>3 DEF MoveElementsAndDrop
    <2> QED
      BY <1>1, <1>3, <2>1, MoveElementsLeads
  <1> QED
    BY <1>1, <1>2, <1>3

-----------------------------------------------------------------------------
(* Where two swapped vectors have their tables.                             *)
LEMMA SwappedIs ==
  ASSUME Inv, BuffersOwned, EnoughBuffers, NEW v \in DOMAIN vectors, NEW w \in DOMAIN vectors,
         v # w, tables' = Swapped(v, w)
  PROVE  LET t == tables'[v]
             u == tables'[w]
         IN  /\ BothPlaced(v, t, w, u) /\ Apart(v, t, w, u)
             /\ Room(vectors[w], t) /\ Room(vectors[v], u)
             /\ TakesTable(v, w) => t = tables[w] /\ u = tables[v]
  <1>1. /\ DOMAIN tables = DOMAIN vectors
        /\ Room(vectors[v], tables[v]) /\ NobodyElses(v, tables[v])
        /\ Room(vectors[w], tables[w]) /\ NobodyElses(w, tables[w])
    BY OwnTableIs DEF BuffersOwned
  <1>2. BothPlaced(v, tables'[v], w, tables'[w])
    BY <1>1 DEF BothPlaced, Swapped
  <1>3. CASE TakesTable(v, w)
    <2>1. tables'[v] = tables[w] /\ tables'[w] = tables[v]
      BY <1>1, <1>3 DEF Swapped
    <2>2. Apart(v, tables[w], w, tables[v])
      BY <1>1 DEF Apart, NobodyElses
    <2> QED
      BY <1>1, <1>2, <2>1, <2>2
  <1>4. CASE ~ TakesTable(v, w)
    <2> DEFINE n == Size(vectors[w])
               l == Size(vectors[v])
               t == TableFor(n, tables[v].allocator)
               b == CHOOSE b \in FreshBuffers : b # t.buffer
               g == TableIn(b, l, tables[w].allocator)
               u == IF l > tables[w].capacity THEN g ELSE tables[w]
    <2>1. tables'[v] = t /\ tables'[w] = u
      BY <1>1, <1>4 DEF Swapped
    <2>2. n \in Nat /\ l \in Nat /\ tables[w].capacity \in Nat
      BY <1>1, NumbersOf DEF Room
    <2>3. /\ t.buffer \in Buffer \cup {Null} /\ t.capacity \in Nat
          /\ t.buffer = Null => t.capacity = 0
          /\ Varying => t.capacity = n
          /\ NobodyElses(v, t)
      BY <2>2, TableForIs
    <2>4. b \in FreshBuffers /\ b # t.buffer
      BY OtherBufferIsFree
    <2> HIDE DEF t, b, n, l
    <2>5. /\ g.buffer \in Buffer \cup {Null} /\ g.capacity \in Nat
          /\ g.buffer = Null => g.capacity = 0
          /\ Varying => g.capacity = l
          /\ g.buffer \in {b, Null}
          /\ NobodyElses(w, g)
      BY <2>2, <2>4, TableInIs
    <2> HIDE DEF g
    <2>6. Room(vectors[w], t)
      BY <1>1, <2>2, <2>3 DEF Room, Size, n
    <2>7. CASE l > tables[w].capacity
      <3>1. u = g
        BY <2>7
      <3>2. Room(vectors[v], g)
        BY <1>1, <2>2, <2>5 DEF Room, Size, l
      <3>3. Apart(v, t, w, g)
        BY <1>1, <2>3, <2>4, <2>5 DEF Apart, NobodyElses
      <3> HIDE DEF u
      <3> QED
        BY <1>2, <1>4, <2>1, <2>6, <3>1, <3>2, <3>3
    <2>8. CASE ~ (l > tables[w].capacity)
      <3>1. u = tables[w] /\ l <= tables[w].capacity
        BY <2>2, <2>8
      <3>2. Room(vectors[v], tables[w])
        BY <1>1, <3>1 DEF Room, Size, l
      <3>3. Apart(v, t, w, tables[w])
        BY <1>1, <2>3 DEF Apart, NobodyElses
      <3> HIDE DEF u
      <3> QED
        BY <1>2, <1>4, <2>1, <2>6, <3>1, <3>2, <3>3
    <2> QED
      BY <2>7, <2>8
  <1> QED
    BY <1>3, <1>4

LEMMA SwapLeads ==
  ASSUME IteratorsInv, KeepsTables, EnoughBuffers, Inv', UNCHANGED kind,
         NEW v \in Vector, NEW w \in Vector, SwapAndFollow(v, w)
  PROVE  BuffersOwned' /\ AllLead'
  <1> DEFINE f == [x \in {v, w} |-> IF x = v THEN w ELSE v]
  <1>1. /\ Inv /\ BuffersOwned /\ AllLead /\ Swap(v, w)
        /\ tables' = Swapped(v, w)
        /\ Follow(DOMAIN iterators, f)
        /\ Varying /\ ~ TakesTable(v, w) =>
             Spared(v, 0) \cap Spared(w, 0) = DOMAIN iterators
    BY DEF IteratorsInv, SwapAndFollow, MayCopyTables, KeepsTables
  <1>2. /\ v # w /\ v \in DOMAIN vectors /\ w \in DOMAIN vectors
        /\ GivesAway(v, w, ValueOf(vectors[w], heap), ValueOf(vectors[v], heap))
    <2>1. Inv /\ Careful /\ Swap(v, w)
      BY <1>1 DEF KeepsTables
    <2>2. v # w
      BY <2>1 DEF Swap
    <2> QED
      BY <2>1, <2>2, SwapSound
  <1>3. /\ DOMAIN vectors' = DOMAIN vectors
        /\ vectors'[v] = vectors[w] /\ vectors'[w] = vectors[v]
        /\ \A x \in DOMAIN vectors \ {v, w} : vectors'[x] = vectors[x]
    BY <1>1, <1>2 DEF Swap
  <1>4. /\ contents'[v] = contents[w] /\ contents'[w] = contents[v]
        /\ \A x \in DOMAIN vectors \ {v, w} : contents'[x] = contents[x]
    <2>1. contents[v] = ValueOf(vectors[v], heap)
      BY <1>1, <1>2, ValuesBefore
    <2> DEFINE left == ValueOf(vectors[v], heap)
    <2> HIDE DEF left
    <2>2. /\ contents'[v] = contents[w] /\ contents'[w] = left
          /\ \A x \in DOMAIN vectors \ {v, w} : contents'[x] = contents[x]
      BY <1>1, <1>2, GivenAwayContents DEF left
    <2> QED
      BY <2>1, <2>2 DEF left
  <1> DEFINE t == tables'[v]
             u == tables'[w]
  <1>5. /\ BothPlaced(v, t, w, u) /\ Apart(v, t, w, u)
        /\ Room(vectors[w], t) /\ Room(vectors[v], u)
        /\ TakesTable(v, w) => t = tables[w] /\ u = tables[v]
    BY <1>1, <1>2, SwappedIs
  <1>6. /\ BuffersOwned'
        /\ \A x \in DOMAIN vectors \ {v, w} : tables'[x] = tables[x]
    <2> HIDE DEF t, u
    <2>1. Room(vectors'[v], t) /\ Room(vectors'[w], u)
      BY <1>3, <1>5
    <2>2. DOMAIN vectors' = DOMAIN vectors \cup {v}
      BY <1>2, <1>3
    <2>3. BuffersOwned'
      BY <1>1, <1>2, <1>3, <1>5, <2>1, <2>2, BothBuffers
    <2>4. \A x \in DOMAIN vectors \ {v, w} : tables'[x] = tables[x]
      BY <1>1, <1>5 DEF BothPlaced, BuffersOwned
    <2> QED
      BY <2>3, <2>4
  <1>7. DOMAIN f = {v, w} /\ f[v] = w /\ f[w] = v
    BY <1>2
  <1> HIDE DEF f
  <1>8. ASSUME NEW x \in DOMAIN iterators, iterators[x].element # Null,
               iterators[x].vector \notin DOMAIN f
        PROVE  Unmoved(iterators[x].vector)
    <2> DEFINE h == iterators[x]
    <2>1. h.vector \in DOMAIN vectors /\ h.vector # v /\ h.vector # w
      BY <1>1, <1>7, <1>8 DEF AllLead, Leads
    <2> HIDE DEF h
    <2>2. Unmoved(h.vector)
      BY <1>3, <1>4, <1>6, <2>1 DEF Unmoved
    <2> QED
      BY <2>2 DEF h
  <1>9. ASSUME NEW x \in DOMAIN iterators, iterators[x].element # Null,
               iterators[x].vector \in DOMAIN f
        PROVE  Follows(iterators[x].vector, f[iterators[x].vector], iterators[x].position)
    <2> DEFINE h == iterators[x]
               y == h.vector
    <2>1. y \in {v, w} /\ LeadsInto(h, vectors[y], tables[y], contents[y])
      BY <1>1, <1>7, <1>9 DEF AllLead, Leads
    <2>0. Varying => TakesTable(v, w)
      <3>1. SUFFICES ASSUME Varying, ~ TakesTable(v, w)
                     PROVE  FALSE
        OBVIOUS
      <3>2. Spared(v, 0) = DOMAIN iterators /\ Spared(w, 0) = DOMAIN iterators
        BY <1>1, <3>1 DEF Spared
      <3>3. y # v /\ y # w
        BY <1>1, <3>2, NoneHeld
      <3> QED
        BY <2>1, <3>3
    <2> HIDE DEF h
    <2>2. SameLocator(y, f[y])
      BY <1>3, <1>5, <1>7, <2>0, <2>1 DEF SameLocator
    <2>3. f[y] \in DOMAIN vectors' /\ contents'[f[y]] = contents[y]
      BY <1>2, <1>3, <1>4, <1>7, <2>1
    <2>4. Follows(y, f[y], h.position)
      BY <2>1, <2>2, <2>3 DEF Follows, LeadsInto
    <2> QED
      BY <2>4 DEF h
  <1>10. AllLead'
    <2>1. DOMAIN iterators \subseteq DOMAIN iterators
      OBVIOUS
    <2> DEFINE S == DOMAIN iterators
    <2> HIDE DEF S
    <2>2. Follow(S, f) /\ S \subseteq DOMAIN iterators
      BY <1>1, <2>1 DEF S
    <2>3. ASSUME NEW x \in S, iterators[x].element # Null,
                 iterators[x].vector \notin DOMAIN f
          PROVE  Unmoved(iterators[x].vector)
      BY <1>8, <2>3 DEF S
    <2>4. ASSUME NEW x \in S, iterators[x].element # Null,
                 iterators[x].vector \in DOMAIN f
          PROVE  Follows(iterators[x].vector, f[iterators[x].vector], iterators[x].position)
      BY <1>9, <2>4 DEF S
    <2> QED
      BY <1>1, <2>2, <2>3, <2>4, FollowLead
  <1> QED
    BY <1>6, <1>10

-----------------------------------------------------------------------------
(* +, begin() and end().                                                    *)
LEMMA AdvancedIs ==
  ASSUME NEW v, NEW n \in Nat, NEW d \in Int
  PROVE  Advanced(IteratorTo(v, n), d) = IteratorTo(v, n + d)
  <1> DEFINE it == IteratorTo(v, n)
             k == n + d
             b == vectors[v].block
             e == vectors[v].edge
             s == vectors[v].stride
             t == tables[v].buffer
  <1>1. CASE Varying
    <2>1. it = [i |-> n, memory |-> b, buffer |-> t]
          /\ IteratorTo(v, k) = [i |-> k, memory |-> b, buffer |-> t]
      BY <1>1 DEF IteratorTo
    <2>2. it.i = n
      BY <2>1
    <2>3. Advanced(it, d) = [it EXCEPT !.i = k]
      BY <2>2 DEF Advanced
    <2> HIDE DEF it, b, t, k
    <2> QED
      BY <2>1, <2>3 DEF it, k
  <1>2. CASE ~ Varying
    <2>1. it = [i |-> n, memory |-> b, start |-> e, stride |-> s]
          /\ IteratorTo(v, k) = [i |-> k, memory |-> b, start |-> e, stride |-> s]
      BY <1>2 DEF IteratorTo
    <2>2. it.i = n
      BY <2>1
    <2>3. Advanced(it, d) = [it EXCEPT !.i = k]
      BY <2>2 DEF Advanced
    <2> HIDE DEF it, b, e, s, k
    <2> QED
      BY <2>1, <2>3 DEF it, k
  <1> QED
    BY <1>1, <1>2

LEMMA ObtainLeads ==
  ASSUME IteratorsInv, Careful, UNCHANGED kind, NEW x, NEW v \in Vector, NEW n \in Nat,
         Obtain(x, v, n), vectors' = vectors
  PROVE  BuffersOwned' /\ AllLead'
  <1>1. /\ Inv /\ BuffersOwned /\ AllLead /\ v \in DOMAIN vectors
        /\ contents[v] # Unspecified /\ n <= Size(vectors[v])
        /\ UNCHANGED <<contents, tables>>
    BY DEF IteratorsInv, Obtain, Usable, Careful
  <1>2. contents[v] \in Seq(Value) /\ Size(vectors[v]) \in Nat
        /\ Len(contents[v]) = Size(vectors[v])
    BY <1>1, ContentsOf
  <1> DEFINE size == Size(vectors[v])
             element == IF n < size THEN contents[v][n + 1] ELSE Null
  <1>3. PICK it \in {Advanced(BeginOf(v), n), Advanced(EndOf(v), n - size)} :
          Hold(x, Held(it, v, n, element))
    BY DEF Obtain
  <1>4. it = IteratorTo(v, n)
    <2>1. Advanced(BeginOf(v), n) = IteratorTo(v, 0 + n)
      BY AdvancedIs DEF BeginOf
    <2>2. Advanced(EndOf(v), n - size) = IteratorTo(v, size + (n - size))
      BY <1>2, AdvancedIs DEF EndOf
    <2>3. 0 + n = n /\ size + (n - size) = n
      BY <1>2
    <2> QED
      BY <1>3, <2>1, <2>2, <2>3
  <1> DEFINE h == Held(it, v, n, element)
  <1>5. h.it = it /\ h.vector = v /\ h.position = n /\ h.element = element /\ IsHeld(h)
    BY DEF Held, IsHeld
  <1>6. Leads(h, vectors, tables, contents)
    <2>1. SUFFICES ASSUME element # Null
                   PROVE  LeadsInto(h, vectors[v], tables[v], contents[v])
      BY <1>1, <1>5 DEF Leads
    <2>2. n < size /\ element = contents[v][n + 1]
      BY <2>1
    <2>3. n + 1 \in 1 .. Len(contents[v])
      BY <1>2, <2>2
    <2> HIDE DEF h, element
    <2> QED
      BY <1>1, <1>4, <1>5, <2>2, <2>3, IteratorToIsFor DEF LeadsInto
  <1>7. ASSUME NEW y \in DOMAIN iterators'
        PROVE  IsHeld(iterators'[y]) /\ Leads(iterators'[y], vectors', tables', contents')
    <2> HIDE DEF h, element
    <2>1. iterators'[y] = h \/ (y \in DOMAIN iterators /\ iterators'[y] = iterators[y])
      BY <1>3, <1>7 DEF Hold, h
    <2>2. IsHeld(iterators'[y]) /\ Leads(iterators'[y], vectors, tables, contents)
      BY <1>1, <1>5, <1>6, <2>1 DEF AllLead
    <2> QED
      BY <1>1, <2>2
  <1>8. AllLead'
    BY <1>7, AllLeadNext
  <1>9. BuffersOwned'
    BY <1>1, BuffersNext DEF BuffersOwned
  <1> QED
    BY <1>8, <1>9

-----------------------------------------------------------------------------
(* The steps of the program with iterators are steps with its vectors.      *)
LEMMA CallWithIterators ==
  ASSUME CallAndFollow
  PROVE  Call
  <1>1. PICK v \in Vector :
          \/ ConstructAndPlace(v) \/ DestructAndDrop(v)
          \/ EmplaceBackAndKeep(v) \/ EraseAndKeep(v) \/ ReserveAndDrop(v)
          \/ \E w \in Vector :
               \/ CopyAssignAndDrop(v, w) \/ MoveConstructAndFollow(v, w)
               \/ MoveAssignAndFollow(v, w) \/ SwapAndFollow(v, w)
    BY DEF CallAndFollow
  <1>2. CASE ConstructAndPlace(v)
    BY <1>2 DEF ConstructAndPlace, Call
  <1>3. CASE DestructAndDrop(v)
    BY <1>3 DEF DestructAndDrop, Call
  <1>4. CASE EmplaceBackAndKeep(v)
    BY <1>4 DEF EmplaceBackAndKeep, Call
  <1>5. CASE EraseAndKeep(v)
    BY <1>5 DEF EraseAndKeep, Call
  <1>6. CASE ReserveAndDrop(v)
    BY <1>6 DEF ReserveAndDrop, Call
  <1>7. ASSUME NEW w \in Vector,
               \/ CopyAssignAndDrop(v, w) \/ MoveConstructAndFollow(v, w)
               \/ MoveAssignAndFollow(v, w) \/ SwapAndFollow(v, w)
        PROVE  Call
    BY <1>7 DEF CopyAssignAndDrop, MoveConstructAndFollow, MoveAssignAndFollow,
       SwapAndFollow, Call
  <1> QED
    BY <1>1, <1>2, <1>3, <1>4, <1>5, <1>6, <1>7

LEMMA StepOfVectors == IteratorsNext => [Next]_vars
  <1> SUFFICES ASSUME IteratorsNext PROVE [Next]_vars
    OBVIOUS
  <1>1. CASE CallAndFollow /\ contents' = Found'
    BY <1>1, CallWithIterators DEF IteratorsNext, Next
  <1>2. ASSUME NEW x \in Iterator, NEW v \in Vector, NEW n \in 0 .. MaxCapacity,
               Obtain(x, v, n)
        PROVE  [Next]_vars
    BY <1>2 DEF IteratorsNext, Obtain, vars
  <1> QED
    BY <1>1, <1>2 DEF IteratorsNext

LEMMA NextIteratorsInv ==
  ASSUME KeepsTables, EnoughBuffers, IteratorsInv,
         [IteratorsNext]_<<vars, tables, iterators>>
  PROVE  IteratorsInv'
  <1>1. Careful /\ Inv /\ BuffersOwned /\ AllLead
    BY DEF KeepsTables, IteratorsInv
  <1>2. CASE IteratorsNext
    <2>1. UNCHANGED kind /\ Inv'
      BY <1>1, <1>2, StepOfVectors, NextInv DEF IteratorsNext
    <2>2. CASE CallAndFollow
      <3>1. PICK v \in Vector :
              \/ ConstructAndPlace(v) \/ DestructAndDrop(v)
              \/ EmplaceBackAndKeep(v) \/ EraseAndKeep(v) \/ ReserveAndDrop(v)
              \/ \E w \in Vector :
                   \/ CopyAssignAndDrop(v, w) \/ MoveConstructAndFollow(v, w)
                   \/ MoveAssignAndFollow(v, w) \/ SwapAndFollow(v, w)
        BY <2>2 DEF CallAndFollow
      <3>2. CASE ConstructAndPlace(v)
        BY <1>1, <2>1, <3>2, ConstructLeads DEF IteratorsInv
      <3>3. CASE DestructAndDrop(v)
        BY <1>1, <2>1, <3>3, DestructLeads DEF IteratorsInv
      <3>4. CASE EmplaceBackAndKeep(v)
        BY <2>1, <3>4, EmplaceBackLeads DEF IteratorsInv
      <3>5. CASE EraseAndKeep(v)
        BY <1>1, <2>1, <3>5, EraseLeads DEF IteratorsInv
      <3>6. CASE ReserveAndDrop(v)
        BY <1>1, <2>1, <3>6, ReserveLeads DEF IteratorsInv
      <3>7. ASSUME NEW w \in Vector, CopyAssignAndDrop(v, w)
            PROVE  IteratorsInv'
        BY <1>1, <2>1, <3>7, CopyAssignLeads DEF IteratorsInv
      <3>8. ASSUME NEW w \in Vector, MoveConstructAndFollow(v, w)
            PROVE  IteratorsInv'
        BY <1>1, <2>1, <3>8, MoveConstructLeads DEF IteratorsInv
      <3>9. ASSUME NEW w \in Vector, MoveAssignAndFollow(v, w)
            PROVE  IteratorsInv'
        BY <2>1, <3>9, MoveAssignLeads DEF IteratorsInv
      <3>10. ASSUME NEW w \in Vector, SwapAndFollow(v, w)
             PROVE  IteratorsInv'
        BY <2>1, <3>10, SwapLeads DEF IteratorsInv
      <3> QED
        BY <3>1, <3>2, <3>3, <3>4, <3>5, <3>6, <3>7, <3>8, <3>9, <3>10
    <2>3. ASSUME NEW x \in Iterator, NEW v \in Vector, NEW n \in 0 .. MaxCapacity,
                 Obtain(x, v, n)
          PROVE  IteratorsInv'
      <3>1. n \in Nat /\ vectors' = vectors
        BY <2>3, SizesAssumption DEF Obtain, members
      <3> QED
        BY <1>1, <2>1, <2>3, <3>1, ObtainLeads DEF IteratorsInv
    <2> QED
      BY <1>2, <2>2, <2>3 DEF IteratorsNext
  <1>3. CASE UNCHANGED <<vars, tables, iterators>>
    <2>1. /\ UNCHANGED <<kind, vectors, contents, tables, iterators>>
          /\ Inv'
      BY <1>1, <1>3, UnchangedInv DEF vars, members
    <2>2. BuffersOwned'
      BY <1>1, <2>1, BuffersNext DEF BuffersOwned
    <2>3. AllLead'
      BY <1>1, <2>1, AllLeadNext DEF AllLead
    <2> QED
      BY <2>1, <2>2, <2>3 DEF IteratorsInv
  <1> QED
    BY <1>2, <1>3

LEMMA InitIteratorsInv == IteratorsInit => IteratorsInv
  <1> SUFFICES ASSUME IteratorsInit PROVE IteratorsInv
    OBVIOUS
  <1>1. Inv /\ vectors = << >> /\ tables = << >> /\ iterators = << >>
    BY InitInv DEF IteratorsInit, Init
  <1>2. DOMAIN vectors = {} /\ DOMAIN tables = {} /\ DOMAIN iterators = {}
    BY <1>1
  <1> QED
    BY <1>1, <1>2 DEF IteratorsInv, BuffersOwned, AllLead

(* The inductive invariant holds in every state.                            *)
LEMMA SpecIteratorsInv ==
  ASSUME KeepsTables, EnoughBuffers
  PROVE  IteratorsSpec => []IteratorsInv
  <1>1. IteratorsInv /\ [IteratorsNext]_<<vars, tables, iterators>> => IteratorsInv'
    BY NextIteratorsInv
  <1> QED
    BY <1>1, InitIteratorsInv, PTL DEF IteratorsSpec

-----------------------------------------------------------------------------
(* An element of a vector that has values.                                  *)
LEMMA ElementOf ==
  ASSUME Inv, Careful, NEW v \in DOMAIN vectors, contents[v] # Unspecified,
         NEW i \in Nat, i < Size(vectors[v])
  PROVE  LET m == vectors[v]
         IN  /\ m.block # Null /\ i \in Elements(m) /\ i + 1 \in 1 .. Size(m)
             /\ ElementAt(m, i) = contents[v][i + 1] /\ contents[v][i + 1] \in Value
             /\ Whole(heap[m.block].cells, Offset(m, i))
             /\ heap[m.block].cells[Offset(m, i)][1] = contents[v][i + 1]
  <1> DEFINE m == vectors[v]
             s == contents[v]
  <1>1. /\ s \in Seq(Value) /\ Size(m) \in Nat /\ Len(s) = Size(m)
        /\ s = ThingsOf(m, heap) /\ ~ IsHollow(m)
    BY ContentsOf
  <1>2. i \in Elements(m) /\ i + 1 \in 1 .. Size(m) /\ (i + 1) - 1 = i /\ Size(m) # 0
    BY <1>1, NumbersOf
  <1>3. m.block # Null
    BY <1>1, <1>2, WithoutMemory
  <1>4. m.block \in DOMAIN heap /\ Sound(m, heap) /\ Laid(m, heap[m.block].cells)
    BY <1>3, InMemory DEF Inv, AllSound
  <1>5. ElementAt(m, i) = Thing(m, heap, i)
    BY <1>2, <1>3, <1>4, ElementFound
  <1>6. s[i + 1] = Thing(m, heap, i)
    <2> DEFINE k == i + 1
    <2>1. k \in 1 .. Size(m) /\ k - 1 = i
      BY <1>2
    <2> HIDE DEF k
    <2>2. s[k] = Thing(m, heap, k - 1)
      BY <1>1, <2>1 DEF ThingsOf
    <2> QED
      BY <2>1, <2>2 DEF k
  <1>7. s[i + 1] \in Value
    BY <1>1, <1>2
  <1>8. Whole(heap[m.block].cells, Offset(m, i))
    BY <1>2, <1>4 DEF Laid
  <1> QED
    BY <1>2, <1>3, <1>5, <1>6, <1>7, <1>8 DEF Thing

(* An iterator to an element, and the vector that has it.                   *)
LEMMA LeadsToElement ==
  ASSUME IteratorsInv, Careful, NEW x \in DOMAIN iterators, iterators[x].element # Null
  PROVE  LET h == iterators[x]
             m == vectors[h.vector]
         IN  /\ h.vector \in DOMAIN vectors /\ contents[h.vector] # Unspecified
             /\ h.position \in Nat /\ h.position < Size(m) /\ m.block # Null
             /\ h.it = IteratorFor(m, tables[h.vector], h.position)
             /\ ElementAt(m, h.position) = h.element
  <1> DEFINE h == iterators[x]
             v == h.vector
             m == vectors[v]
  <1>1. /\ Inv /\ v \in DOMAIN vectors /\ h.position \in Nat
        /\ LeadsInto(h, m, tables[v], contents[v])
    BY DEF IteratorsInv, AllLead, Leads, IsHeld
  <1>2. /\ contents[v] # Unspecified /\ h.position + 1 \in 1 .. Len(contents[v])
        /\ h.element = contents[v][h.position + 1]
        /\ h.it = IteratorFor(m, tables[v], h.position)
    BY <1>1 DEF LeadsInto
  <1>3. Size(m) \in Nat /\ Len(contents[v]) = Size(m)
    BY <1>1, <1>2, ContentsOf
  <1>4. h.position < Size(m)
    BY <1>1, <1>2, <1>3
  <1>5. m.block # Null /\ ElementAt(m, h.position) = contents[v][h.position + 1]
    BY <1>1, <1>2, <1>4, ElementOf
  <1> QED
    BY <1>1, <1>2, <1>4, <1>5

(* The entries of a table are found by whoever has its address.             *)
LEMMA EntriesAre ==
  ASSUME BuffersOwned, NEW v \in DOMAIN vectors, tables[v].buffer # Null
  PROVE  Entries(tables[v].buffer) = vectors[v].table
  <1> DEFINE b == tables[v].buffer
             owners == {w \in DOMAIN tables : tables[w].buffer = b /\ b # Null}
  <1>1. owners = {v}
    BY DEF BuffersOwned
  <1>2. owners # {} /\ (CHOOSE w \in owners : TRUE) = v
    BY <1>1
  <1> QED
    BY <1>2 DEF Entries

(* Who keeps iterators only over calls that keep the table reads through    *)
(* them what they were obtained for (iterator.hpp:37-47,                    *)
(* cntgs.hpp:3261-3311, 3757-3779).                                         *)
THEOREM IteratorsLeadToElements ==
  ASSUME KeepsTables, EnoughBuffers
  PROVE  IteratorsSpec => []IteratorsFollow
  <1>1. IteratorsInv => IteratorsFollow
    <2> SUFFICES ASSUME IteratorsInv, NEW x \in DOMAIN iterators, iterators[x].element # Null
                 PROVE  Read(iterators[x].it) = iterators[x].element
      BY DEF IteratorsFollow
    <2> DEFINE h == iterators[x]
               v == h.vector
               m == vectors[v]
               t == tables[v]
               n == h.position
    <2>1. /\ v \in DOMAIN vectors /\ n \in Nat /\ n < Size(m)
          /\ h.it = IteratorFor(m, t, n) /\ ElementAt(m, n) = h.element
      BY LeadsToElement DEF KeepsTables
    <2> HIDE DEF h
    <2>2. CASE Varying
      <3>1. Room(m, t) /\ Len(m.table) = Size(m)
        BY <2>1, <2>2, OwnTableIs DEF IteratorsInv, Size
      <3>2. Size(m) \in Nat
        BY <2>1, NumbersOf DEF IteratorsInv
      <3>3. t.buffer # Null
        BY <2>1, <2>2, <3>1, <3>2 DEF Room
      <3>4. h.it.i = n /\ h.it.memory = m.block /\ h.it.buffer = t.buffer
        BY <2>1, <2>2 DEF IteratorFor
      <3>5. Entries(h.it.buffer) = m.table
        BY <2>1, <3>3, <3>4, EntriesAre DEF IteratorsInv
      <3>6. Read(h.it) = ElementAt(Located(h.it), n)
        BY <2>1, <3>1, <3>2, <3>4, <3>5 DEF Read
      <3>7. Located(h.it) = [block |-> m.block, table |-> m.table]
        BY <2>2, <3>4, <3>5 DEF Located
      <3> DEFINE l == Located(h.it)
      <3>8. l.block = m.block /\ l.table = m.table
        BY <3>7
      <3> HIDE DEF l
      <3>9. Base(l) = Base(m) /\ \A i : Offset(l, i) = Offset(m, i)
        BY <2>2, <3>8 DEF Base, Offset
      <3>10. \A c : Cell(l, c) = Cell(m, c)
        BY <3>9 DEF Cell
      <3>11. ElementAt(l, n) = ElementAt(m, n)
        BY <3>9, <3>10 DEF ElementAt
      <3> QED
        BY <2>1, <3>6, <3>11 DEF l, h
    <2>3. CASE ~ Varying
      <3>1. h.it = [i |-> n, memory |-> m.block, start |-> m.edge, stride |-> m.stride]
        BY <2>1, <2>3 DEF IteratorFor
      <3>2. Read(h.it) = ElementAt(Located(h.it), n)
        BY <2>3, <3>1 DEF Read
      <3> DEFINE l == Located(h.it)
      <3>3. l.block = m.block /\ l.edge = m.edge /\ l.stride = m.stride
        BY <2>3, <3>1 DEF Located
      <3> HIDE DEF l
      <3>4. Base(l) = Base(m) /\ \A i : Offset(l, i) = Offset(m, i)
        BY <2>3, <3>3 DEF Base, Offset
      <3>5. \A c : Cell(l, c) = Cell(m, c)
        BY <3>4 DEF Cell
      <3>6. ElementAt(l, n) = ElementAt(m, n)
        BY <3>4, <3>5 DEF ElementAt
      <3> QED
        BY <2>1, <3>2, <3>6 DEF l, h
    <2> QED
      BY <2>2, <2>3
  <1> QED
    BY <1>1, SpecIteratorsInv, PTL

(* Iterators to elements are equal, before and behind each other and as far *)
(* apart as the elements are, and never so if they lead into two vectors    *)
(* (iterator.hpp:139, 149-177).                                             *)
THEOREM IteratorsCompare ==
  ASSUME KeepsTables, EnoughBuffers
  PROVE  IteratorsSpec => []IteratorsTellApart
  <1>1. IteratorsInv => IteratorsTellApart
    <2> SUFFICES ASSUME IteratorsInv, NEW x \in DOMAIN iterators, NEW v \in DOMAIN vectors,
                        NEW n \in 0 .. Size(vectors[v]) - 1,
                        contents[v] # Unspecified, iterators[x].element # Null
                 PROVE  LET h     == iterators[x]
                            other == Advanced(BeginOf(v), n)
                            of    == h.vector = v
                        IN  /\ IsSame(h.it, other) <=> of /\ h.position = n
                            /\ IsBefore(h.it, other) <=> of /\ h.position < n
                            /\ IsBefore(other, h.it) <=> of /\ n < h.position
                            /\ of => Difference(h.it, other) = h.position - n
      BY DEF IteratorsTellApart
    <2> DEFINE h == iterators[x]
               w == h.vector
               it == h.it
               p == h.position
               other == Advanced(BeginOf(v), n)
    <2>1. /\ w \in DOMAIN vectors /\ p \in Nat /\ vectors[w].block # Null
          /\ it = IteratorFor(vectors[w], tables[w], p)
      BY LeadsToElement DEF KeepsTables
    <2>2. n \in Nat /\ n < Size(vectors[v])
      BY NumbersOf DEF IteratorsInv
    <2>3. vectors[v].block # Null
      BY <2>2, ElementOf DEF IteratorsInv, KeepsTables
    <2>4. other = IteratorFor(vectors[v], tables[v], n)
      <3>1. other = IteratorTo(v, 0 + n)
        BY <2>2, AdvancedIs DEF BeginOf
      <3>2. 0 + n = n
        BY <2>2
      <3> QED
        BY <3>1, <3>2, IteratorToIsFor
    <2> HIDE DEF it, p, other, w
    <2>5. it.i = p /\ it.memory = vectors[w].block
      BY <2>1 DEF IteratorFor
    <2>6. other.i = n /\ other.memory = vectors[v].block
      BY <2>4 DEF IteratorFor
    <2>7. it.memory = other.memory <=> w = v
      BY <2>1, <2>3, <2>5, <2>6 DEF IteratorsInv, Inv, OwnInv, OneOwner
    <2>8. /\ IsSame(it, other) <=> w = v /\ p = n
          /\ IsBefore(it, other) <=> w = v /\ p < n
          /\ IsBefore(other, it) <=> w = v /\ n < p
          /\ w = v => Difference(it, other) = p - n
      BY <2>5, <2>6, <2>7 DEF IsSame, IsBefore, Difference
    <2> QED
      BY <2>8 DEF it, p, other, w
  <1> QED
    BY <1>1, SpecIteratorsInv, PTL

-----------------------------------------------------------------------------
(* A set of natural numbers has a least element: the intervals below its    *)
(* elements are finite sets, so one of them includes no other.              *)
LEMMA LeastElement ==
  ASSUME NEW T, T \subseteq Nat, T # {}
  PROVE  \E n \in T : \A m \in T : n <= m
  <1> DEFINE R == StrictSubsetOrdering(Nat)
             U == {0 .. n - 1 : n \in T}
  <1>1. IsWellFoundedOn(R, FiniteSubsetsOf(Nat))
    BY FS_StrictSubsetOrderingWellFounded
  <1>2. U # {} /\ U \subseteq FiniteSubsetsOf(Nat)
    <2>1. ASSUME NEW n \in T PROVE 0 .. n - 1 \in FiniteSubsetsOf(Nat)
      <3>1. n - 1 \in Int /\ 0 .. n - 1 \subseteq Nat
        OBVIOUS
      <3> QED
        BY <3>1, FS_Interval DEF FiniteSubsetsOf
    <2> QED
      BY <2>1
  <1> HIDE DEF R, U
  <1>3. PICK x \in U : \A y \in U : ~ (<<y, x>> \in R)
    BY <1>1, <1>2, WFMin, Zenon
  <1>4. PICK n \in T : x = 0 .. n - 1
    BY DEF U
  <1>5. ASSUME NEW m \in T, m < n PROVE FALSE
    <2>1. 0 .. m - 1 \in U
      BY DEF U
    <2>2. <<0 .. m - 1, x>> \in R
      <3>1. m \in 0 .. n - 1 /\ m \notin 0 .. m - 1
        BY <1>5
      <3>2. 0 .. m - 1 \subseteq 0 .. n - 1 /\ 0 .. n - 1 \subseteq Nat
        BY <1>5
      <3> QED
        BY <3>1, <3>2, <1>4 DEF R, StrictSubsetOrdering
    <2> QED
      BY <1>3, <2>1, <2>2
  <1> QED
    BY <1>5

-----------------------------------------------------------------------------
(* The order of sequences, for elements of which one may be less.           *)
InOrder(less, e, f) == <<e, f>> \in less \/ <<f, e>> \in less

LEMMA OrderIsAsymmetric ==
  ASSUME NEW order \in Orders
  PROVE  \A e, f \in Value : ~ (<<e, f>> \in order.less /\ <<f, e>> \in order.less)
  BY OrdersAssumption

LEMMA LessIsAsymmetric ==
  ASSUME NEW order \in Orders, NEW s \in Seq(Value), NEW t \in Seq(Value),
         IsLess(order.less, s, t)
  PROVE  ~ IsLess(order.less, t, s) /\ ~ Unordered(order.less, s, t) /\ s # t
  <1> DEFINE less == order.less
  <1>1. /\ Len(s) \in Nat /\ \A k \in 1 .. Len(s) : s[k] \in Value
        /\ Len(t) \in Nat /\ \A k \in 1 .. Len(t) : t[k] \in Value
    OBVIOUS
  <1>2. \A e, f \in Value : ~ (<<e, f>> \in less /\ <<f, e>> \in less)
    BY OrderIsAsymmetric
  <1> HIDE DEF less
  <1>3. PICK k \in 1 .. Len(t) :
          /\ k <= Len(s) + 1
          /\ \A j \in 1 .. k - 1 : <<s[j], t[j]>> \notin less /\ <<t[j], s[j]>> \notin less
          /\ k > Len(s) \/ <<s[k], t[k]>> \in less
    BY DEF IsLess, less
  <1>4. ~ Unordered(less, s, t)
    <2>1. SUFFICES ASSUME Unordered(less, s, t) PROVE FALSE
      OBVIOUS
    <2>2. Len(s) = Len(t)
      BY <2>1 DEF Unordered
    <2>3. k \in 1 .. Len(s) /\ ~ (k > Len(s))
      BY <1>1, <1>3, <2>2
    <2>4. <<s[k], t[k]>> \notin less
      BY <2>1, <2>3 DEF Unordered
    <2> QED
      BY <1>3, <2>3, <2>4
  <1>5. s # t
    <2>1. SUFFICES ASSUME s = t PROVE FALSE
      OBVIOUS
    <2>2. k \in 1 .. Len(s) /\ ~ (k > Len(s)) /\ s[k] \in Value
      BY <1>1, <1>3, <2>1
    <2>3. <<s[k], s[k]>> \in less
      BY <1>3, <2>1, <2>2
    <2> QED
      BY <1>2, <2>2, <2>3
  <1>6. ASSUME NEW l \in 1 .. Len(s), l <= Len(t) + 1,
               \A j \in 1 .. l - 1 : <<t[j], s[j]>> \notin less /\ <<s[j], t[j]>> \notin less,
               l > Len(t) \/ <<t[l], s[l]>> \in less
        PROVE  FALSE
    <2>1. CASE k < l
      <3>1. k \in 1 .. l - 1 /\ ~ (k > Len(s))
        BY <1>1, <1>3, <1>6, <2>1
      <3> QED
        BY <1>3, <1>6, <3>1
    <2>2. CASE l < k
      <3>1. l \in 1 .. k - 1 /\ ~ (l > Len(t))
        BY <1>1, <1>3, <1>6, <2>2
      <3> QED
        BY <1>3, <1>6, <3>1
    <2>3. CASE k = l
      <3>1. ~ (k > Len(s)) /\ ~ (k > Len(t)) /\ k \in 1 .. Len(s)
        BY <1>1, <1>3, <1>6, <2>3
      <3>2. <<s[k], t[k]>> \in less /\ <<t[k], s[k]>> \in less
        BY <1>3, <1>6, <2>3, <3>1
      <3> QED
        BY <1>1, <1>2, <3>1, <3>2
    <2> QED
      BY <1>1, <1>3, <1>6, <2>1, <2>2, <2>3
  <1>7. ~ IsLess(less, t, s)
    BY <1>6 DEF IsLess
  <1> QED
    BY <1>4, <1>5, <1>7 DEF less

(* One sequence is less, unless they differ in no place and in length.      *)
LEMMA LessIsDecided ==
  ASSUME NEW less, NEW s \in Seq(Value), NEW t \in Seq(Value),
         ~ IsLess(less, s, t), ~ IsLess(less, t, s)
  PROVE  Unordered(less, s, t)
  <1>1. Len(s) \in Nat /\ Len(t) \in Nat
    OBVIOUS
  <1> DEFINE D == {k \in Nat : k \in 1 .. Len(s) /\ k \in 1 .. Len(t)
                               /\ InOrder(less, s[k], t[k])}
  <1>2. CASE D = {}
    <2>1. \A k \in 1 .. Len(s) : k \in 1 .. Len(t) =>
            <<s[k], t[k]>> \notin less /\ <<t[k], s[k]>> \notin less
      BY <1>2 DEF InOrder
    <2>2. CASE Len(s) < Len(t)
      <3> DEFINE k == Len(s) + 1
      <3>1. /\ k \in 1 .. Len(t) /\ k <= Len(s) + 1 /\ k > Len(s)
            /\ \A j \in 1 .. k - 1 : j \in 1 .. Len(s) /\ j \in 1 .. Len(t)
        BY <1>1, <2>2
      <3> HIDE DEF k
      <3>2. IsLess(less, s, t)
        BY <2>1, <3>1 DEF IsLess
      <3> QED
        BY <3>2
    <2>3. CASE Len(t) < Len(s)
      <3> DEFINE k == Len(t) + 1
      <3>1. /\ k \in 1 .. Len(s) /\ k <= Len(t) + 1 /\ k > Len(t)
            /\ \A j \in 1 .. k - 1 : j \in 1 .. Len(s) /\ j \in 1 .. Len(t)
        BY <1>1, <2>3
      <3> HIDE DEF k
      <3>2. IsLess(less, t, s)
        BY <2>1, <3>1 DEF IsLess
      <3> QED
        BY <3>2
    <2>4. CASE Len(s) = Len(t)
      BY <2>1, <2>4 DEF Unordered
    <2> QED
      BY <1>1, <2>2, <2>3, <2>4
  <1>3. CASE D # {}
    <2>1. PICK k \in D : \A j \in D : k <= j
      BY <1>3, LeastElement
    <2>2. k \in Nat /\ k \in 1 .. Len(s) /\ k \in 1 .. Len(t) /\ InOrder(less, s[k], t[k])
      OBVIOUS
    <2>3. ASSUME NEW j \in 1 .. k - 1
          PROVE  <<s[j], t[j]>> \notin less /\ <<t[j], s[j]>> \notin less
      <3>1. j \in Nat /\ j \in 1 .. Len(s) /\ j \in 1 .. Len(t) /\ ~ (k <= j)
        BY <1>1, <2>2
      <3> QED
        BY <2>1, <3>1 DEF InOrder
    <2>4. k <= Len(s) + 1 /\ k <= Len(t) + 1
      BY <1>1, <2>2
    <2>5. IsLess(less, s, t) \/ IsLess(less, t, s)
      BY <2>2, <2>3, <2>4 DEF IsLess, InOrder
    <2> QED
      BY <2>5
  <1> QED
    BY <1>2, <1>3

(* Equal sequences are unordered, and no others if the elements are all in  *)
(* order.                                                                   *)
LEMMA UnorderedIs ==
  ASSUME NEW order \in Orders, NEW s \in Seq(Value), NEW t \in Seq(Value)
  PROVE  /\ s = t => Unordered(order.less, s, t)
         /\ order.bytes /\ Unordered(order.less, s, t) => s = t
  <1>1. /\ Len(s) \in Nat /\ \A k \in 1 .. Len(s) : s[k] \in Value
        /\ Len(t) \in Nat /\ \A k \in 1 .. Len(t) : t[k] \in Value
    OBVIOUS
  <1>2. \A e \in Value : <<e, e>> \notin order.less
    BY OrderIsAsymmetric
  <1>3. s = t => Unordered(order.less, s, t)
    BY <1>1, <1>2 DEF Unordered
  <1>4. ASSUME order.bytes, Unordered(order.less, s, t)
        PROVE  s = t
    <2>1. Len(s) = Len(t)
      BY <1>4 DEF Unordered
    <2>2. \A k \in 1 .. Len(s) : s[k] = t[k]
      BY <1>1, <1>4, <2>1, OrdersAssumption DEF Unordered
    <2> QED
      BY <2>1, <2>2, SeqEqual
  <1> QED
    BY <1>3, <1>4

-----------------------------------------------------------------------------
(* The bytes b of length u are the elements s, which begin at a.            *)
HasBytes(s, a, u, b) ==
  /\ s \in Seq(Value) /\ Len(s) \in Nat \ {0} /\ u \in Nat
  /\ b = [k \in 1 .. u |-> b[k]]
  /\ a[1] = 0
  /\ \A i \in 1 .. Len(s) :
       /\ a[i] \in Nat /\ Width(s[i]) \in Nat \ {0} /\ a[i] + Width(s[i]) <= u
       /\ a[i] + Width(s[i]) = IF i < Len(s) THEN a[i + 1] ELSE u
       /\ \A k \in UnitsOf(Width(s[i])) : b[a[i] + k + 1] = <<s[i], k>>

(* Bytes that are equal hold equal elements.                                *)
LEMMA SameBytesPrefix ==
  ASSUME NEW s, NEW a, NEW u, NEW b, HasBytes(s, a, u, b),
         NEW t, NEW c, HasBytes(t, c, u, b)
  PROVE  Len(s) <= Len(t) /\ \A i \in 1 .. Len(s) : s[i] = t[i]
  <1> DEFINE Good(i) == i \in 1 .. Len(t) /\ a[i] = c[i] /\ s[i] = t[i]
             D == {i \in Nat : i \in 1 .. Len(s) /\ ~ Good(i)}
  <1>1. Len(s) \in Nat /\ Len(t) \in Nat /\ 1 \in 1 .. Len(s) /\ 1 \in 1 .. Len(t)
        /\ a[1] = 0 /\ c[1] = 0 /\ u \in Nat
    BY DEF HasBytes
  <1>2. ASSUME NEW i \in 1 .. Len(s), i \in 1 .. Len(t), a[i] = c[i]
        PROVE  s[i] = t[i]
    <2>1. /\ Width(s[i]) \in Nat \ {0} /\ Width(t[i]) \in Nat \ {0}
          /\ \A k \in UnitsOf(Width(s[i])) : b[a[i] + k + 1] = <<s[i], k>>
          /\ \A k \in UnitsOf(Width(t[i])) : b[c[i] + k + 1] = <<t[i], k>>
      BY <1>2 DEF HasBytes
    <2>2. 0 \in UnitsOf(Width(s[i])) /\ 0 \in UnitsOf(Width(t[i]))
      BY <2>1 DEF UnitsOf
    <2>3. b[a[i] + 0 + 1] = <<s[i], 0>> /\ b[a[i] + 0 + 1] = <<t[i], 0>>
      BY <1>2, <2>1, <2>2
    <2> QED
      BY <2>3
  <1>3. D = {}
    <2>1. SUFFICES ASSUME D # {} PROVE FALSE
      OBVIOUS
    <2>2. D \subseteq Nat
      OBVIOUS
    <2> HIDE DEF D
    <2>3. PICK i \in D : \A j \in D : i <= j
      BY <2>1, <2>2, LeastElement
    <2>4. i \in 1 .. Len(s) /\ ~ Good(i) /\ i \in Nat
      BY DEF D
    <2>5. i # 1
      BY <1>1, <1>2, <2>4
    <2> DEFINE j == i - 1
    <2>6. j \in Nat /\ j \in 1 .. Len(s) /\ j < Len(s) /\ j + 1 = i /\ ~ (i <= j)
      BY <1>1, <2>4, <2>5
    <2>7. Good(j)
      BY <2>3, <2>6 DEF D
    <2> HIDE DEF j
    <2>8. /\ a[j] + Width(s[j]) = a[i] /\ a[i] \in Nat
          /\ Width(s[i]) \in Nat \ {0} /\ a[i] + Width(s[i]) <= u
      BY <2>4, <2>6 DEF HasBytes
    <2>9. c[j] + Width(t[j]) = IF j < Len(t) THEN c[j + 1] ELSE u
      BY <2>7 DEF HasBytes
    <2>10. a[i] < u
      BY <1>1, <2>8
    <2>11. a[i] = IF j < Len(t) THEN c[i] ELSE u
      BY <2>6, <2>7, <2>8, <2>9
    <2>12. j < Len(t)
      BY <1>1, <2>8, <2>10, <2>11
    <2>13. i \in 1 .. Len(t) /\ a[i] = c[i]
      BY <1>1, <2>4, <2>6, <2>11, <2>12
    <2> QED
      BY <1>2, <2>4, <2>13
  <1>4. \A i \in 1 .. Len(s) : Good(i)
    BY <1>3
  <1>5. Len(s) \in 1 .. Len(s)
    BY <1>1
  <1>6. Len(s) \in 1 .. Len(t)
    BY <1>4, <1>5
  <1> QED
    BY <1>1, <1>4, <1>6

(* Every byte belongs to an element.                                        *)
LEMMA ByteOfElement ==
  ASSUME NEW s, NEW a, NEW u, NEW b, HasBytes(s, a, u, b), NEW n \in 1 .. u
  PROVE  \E i \in 1 .. Len(s) : \E k \in UnitsOf(Width(s[i])) : n = a[i] + k + 1
  <1>1. Len(s) \in Nat /\ Len(s) \in 1 .. Len(s) /\ 1 \in 1 .. Len(s) /\ a[1] = 0 /\ u \in Nat
        /\ n \in Nat
    BY DEF HasBytes
  <1>2. \A i \in 1 .. Len(s) :
          /\ a[i] \in Nat /\ Width(s[i]) \in Nat
          /\ a[i] + Width(s[i]) = IF i < Len(s) THEN a[i + 1] ELSE u
    BY DEF HasBytes
  <1> DEFINE D == {i \in Nat : i \in 1 .. Len(s) /\ n <= a[i] + Width(s[i])}
  <1>3. D \subseteq Nat /\ Len(s) \in D
    <2>1. a[Len(s)] + Width(s[Len(s)]) = u
      BY <1>1, <1>2
    <2> QED
      BY <1>1, <2>1
  <1> HIDE DEF D
  <1>4. PICK i \in D : \A j \in D : i <= j
    BY <1>3, LeastElement
  <1>5. i \in 1 .. Len(s) /\ n <= a[i] + Width(s[i]) /\ i \in Nat
    BY DEF D
  <1>6. a[i] < n
    <2>1. CASE i = 1
      BY <1>1, <2>1
    <2>2. CASE i # 1
      <3> DEFINE j == i - 1
      <3>1. j \in Nat /\ j \in 1 .. Len(s) /\ j < Len(s) /\ j + 1 = i /\ ~ (i <= j)
        BY <1>1, <1>5, <2>2
      <3>2. j \notin D
        BY <1>4, <3>1
      <3> HIDE DEF j
      <3>3. ~ (n <= a[j] + Width(s[j])) /\ a[j] + Width(s[j]) = a[i]
        BY <1>2, <3>1, <3>2 DEF D
      <3> QED
        BY <1>1, <1>2, <1>5, <3>3
    <2> QED
      BY <2>1, <2>2
  <1> DEFINE k == n - 1 - a[i]
  <1>7. k \in UnitsOf(Width(s[i])) /\ n = a[i] + k + 1
    BY <1>1, <1>2, <1>5, <1>6 DEF UnitsOf
  <1> QED
    BY <1>5, <1>7

(* Elements that are equal have equal bytes.                                *)
LEMMA SameElementsBytes ==
  ASSUME NEW s, NEW a, NEW u, NEW b, HasBytes(s, a, u, b),
         NEW c, NEW w, NEW d, HasBytes(s, c, w, d)
  PROVE  b = d
  <1>1. /\ Len(s) \in Nat /\ 1 \in 1 .. Len(s) /\ a[1] = 0 /\ c[1] = 0
        /\ Len(s) \in 1 .. Len(s)
    BY DEF HasBytes
  <1>2. \A i \in 1 .. Len(s) :
          /\ a[i] + Width(s[i]) = IF i < Len(s) THEN a[i + 1] ELSE u
          /\ c[i] + Width(s[i]) = IF i < Len(s) THEN c[i + 1] ELSE w
    BY DEF HasBytes
  <1> DEFINE D == {i \in Nat : i \in 1 .. Len(s) /\ a[i] # c[i]}
  <1>3. D = {}
    <2>1. SUFFICES ASSUME D # {} PROVE FALSE
      OBVIOUS
    <2>2. D \subseteq Nat
      OBVIOUS
    <2> HIDE DEF D
    <2>3. PICK i \in D : \A j \in D : i <= j
      BY <2>1, <2>2, LeastElement
    <2>4. i \in 1 .. Len(s) /\ a[i] # c[i] /\ i \in Nat
      BY DEF D
    <2>5. i # 1
      BY <1>1, <2>4
    <2> DEFINE j == i - 1
    <2>6. j \in Nat /\ j \in 1 .. Len(s) /\ j < Len(s) /\ j + 1 = i /\ ~ (i <= j)
      BY <1>1, <2>4, <2>5
    <2>7. a[j] = c[j]
      BY <2>3, <2>6 DEF D
    <2> HIDE DEF j
    <2>8. a[j] + Width(s[j]) = a[i] /\ c[j] + Width(s[j]) = c[i]
      BY <1>2, <2>6
    <2> QED
      BY <2>4, <2>7, <2>8
  <1>4. \A i \in 1 .. Len(s) : a[i] = c[i]
    BY <1>3
  <1>5. u = w
    BY <1>1, <1>2, <1>4
  <1>6. ASSUME NEW n \in 1 .. u
        PROVE  b[n] = d[n]
    <2>1. PICK i \in 1 .. Len(s) : \E k \in UnitsOf(Width(s[i])) : n = a[i] + k + 1
      BY ByteOfElement
    <2>2. PICK k \in UnitsOf(Width(s[i])) : n = a[i] + k + 1
      BY <2>1
    <2>3. b[a[i] + k + 1] = <<s[i], k>> /\ d[c[i] + k + 1] = <<s[i], k>>
      BY DEF HasBytes
    <2> QED
      BY <1>4, <2>2, <2>3
  <1>7. b = [k \in 1 .. u |-> b[k]] /\ d = [k \in 1 .. u |-> d[k]]
    BY <1>5 DEF HasBytes
  <1> QED
    BY <1>6, <1>7

(* A vector whose elements are bytes without gaps.                          *)
LEMMA BytesOf ==
  ASSUME Inv, Careful, NEW v \in DOMAIN vectors, contents[v] # Unspecified,
         Size(vectors[v]) > 0, IsPacked(vectors[v])
  PROVE  LET m == vectors[v]
         IN  HasBytes(contents[v], [i \in 1 .. Size(m) |-> Offset(m, i - 1)], Used(m), Bytes(m))
  <1> DEFINE m == vectors[v]
             s == contents[v]
             u == Used(m)
             b == Bytes(m)
             d == heap[m.block].cells
             a == [i \in 1 .. Size(m) |-> Offset(m, i - 1)]
  <1>1. s \in Seq(Value) /\ Size(m) \in Nat /\ Len(s) = Size(m) /\ ~ IsHollow(m)
    BY ContentsOf
  <1>2. m.block # Null
    BY <1>1, WithoutMemory
  <1>3. /\ u \in Nat /\ Laid(m, d) /\ m.block \in DOMAIN heap /\ Base(m) = m.block
    BY <1>2, InMemory
  <1>4. Elements(m) # {} /\ Offset(m, 0) = 0
    <2>1. 0 \in Elements(m)
      BY <1>1, NumbersOf
    <2> QED
      BY <1>3, <2>1 DEF Laid
  <1>5. b = [k \in 1 .. u |-> Cell(m, k - 1)]
    <2>1. b = [k \in 1 .. u - 0 |-> Cell(m, 0 + k - 1)]
      BY <1>4 DEF Bytes
    <2>2. u - 0 = u /\ \A k \in 1 .. u : 0 + k - 1 = k - 1
      BY <1>3
    <2> QED
      BY <2>1, <2>2
  <1>6. ASSUME NEW i \in 1 .. Len(s)
        PROVE  /\ a[i] \in Nat /\ Width(s[i]) \in Nat \ {0} /\ a[i] + Width(s[i]) <= u
               /\ a[i] + Width(s[i]) = IF i < Len(s) THEN a[i + 1] ELSE u
               /\ \A k \in UnitsOf(Width(s[i])) : b[a[i] + k + 1] = <<s[i], k>>
    <2> DEFINE j == i - 1
               x == s[i]
               p == Offset(m, j)
    <2>1. j \in Nat /\ j < Size(m) /\ j + 1 = i
      BY <1>1
    <2>2. /\ j \in Elements(m) /\ ElementAt(m, j) = x /\ x \in Value
          /\ Whole(d, p) /\ d[p][1] = x
      BY <2>1, ElementOf
    <2>3. a[i] = p
      BY <1>1
    <2>4. i < Len(s) => a[i + 1] = Offset(m, i)
      <3>1. i < Len(s) => i + 1 \in 1 .. Size(m) /\ (i + 1) - 1 = i
        BY <1>1
      <3> QED
        BY <3>1
    <2> HIDE DEF m, a, b, s, u, j, x, p, d
    <2>5. p \in Nat /\ EndAt(d, p) <= u
      BY <1>3, <2>2 DEF Laid, m, u, d, p
    <2>6. Width(x) \in Nat /\ Width(x) >= 1
      BY <2>2, SizesAssumption DEF Width
    <2>7. p + Width(x) <= u
      BY <2>2, <2>5 DEF EndAt
    <2>8. p + Width(x) = IF i < Size(m) THEN Offset(m, i) ELSE u
      BY <2>1, <2>2 DEF IsPacked, m, u, p
    <2>9. ASSUME NEW k \in UnitsOf(Width(x))
          PROVE  b[p + k + 1] = <<x, k>>
      <3>1. p + k \in DOMAIN d /\ d[p + k] = <<x, k>>
        BY <2>2 DEF Whole
      <3>2. k \in Nat /\ k < Width(x)
        BY <2>6 DEF UnitsOf
      <3>3. p + k + 1 \in 1 .. u /\ (p + k + 1) - 1 = p + k
        BY <1>3, <2>5, <2>6, <2>7, <3>2
      <3>4. b[p + k + 1] = Cell(m, p + k)
        BY <1>5, <3>3
      <3>5. Cell(m, p + k) = d[p + k]
        BY <1>3, <3>1 DEF Cell, d
      <3> QED
        BY <3>1, <3>4, <3>5
    <2>10. \A k \in UnitsOf(Width(x)) : b[a[i] + k + 1] = <<x, k>>
      BY <2>3, <2>9
    <2> QED
      BY <1>1, <2>3, <2>4, <2>5, <2>6, <2>7, <2>8, <2>10 DEF x
  <1>7. a[1] = 0
    <2>1. 1 \in 1 .. Size(m) /\ 1 - 1 = 0
      BY <1>1
    <2> QED
      BY <1>4, <2>1
  <1>8. b = [k \in 1 .. u |-> b[k]]
    BY <1>5
  <1>9. Len(s) \in Nat \ {0}
    BY <1>1
  <1> HIDE DEF a, b, u, s, m
  <1>10. HasBytes(s, a, u, b)
    BY <1>1, <1>3, <1>6, <1>7, <1>8, <1>9 DEF HasBytes
  <1> QED
    BY <1>10 DEF a, b, u, s, m

(* What the iterators of a vector read, one after the other.                *)
LEMMA SequenceIs ==
  ASSUME Inv, Careful, NEW v \in DOMAIN vectors, contents[v] # Unspecified
  PROVE  Sequence(vectors[v]) = contents[v]
  <1> DEFINE m == vectors[v]
             s == contents[v]
  <1>1. s \in Seq(Value) /\ Size(m) \in Nat /\ Len(s) = Size(m)
    BY ContentsOf
  <1>2. s = [k \in 1 .. Size(m) |-> s[k]]
    BY <1>1
  <1>3. ASSUME NEW k \in 1 .. Size(m)
        PROVE  ElementAt(m, k - 1) = s[k]
    <2>1. k - 1 \in Nat /\ k - 1 < Size(m) /\ (k - 1) + 1 = k
      BY <1>1
    <2> QED
      BY <2>1, ElementOf
  <1> QED
    BY <1>2, <1>3 DEF Sequence

(* Vectors that are comparable are equal if their elements are.             *)
LEMMA EqualIs ==
  ASSUME Inv, Careful, {"compare_sizes", "compare_gaps"} \subseteq Avoided,
         NEW v \in DOMAIN vectors, NEW w \in DOMAIN vectors, Comparable(v, w)
  PROVE  Equal(vectors[v], vectors[w]) <=> contents[v] = contents[w]
  <1> DEFINE m == vectors[v]
             o == vectors[w]
             s == contents[v]
             t == contents[w]
  <1>1. s # Unspecified /\ t # Unspecified
    BY DEF Comparable
  <1>2. s \in Seq(Value) /\ Size(m) \in Nat /\ Len(s) = Size(m)
    BY <1>1, ContentsOf
  <1>3. t \in Seq(Value) /\ Size(o) \in Nat /\ Len(t) = Size(o)
    BY <1>1, ContentsOf
  <1>4. CASE NonTrivial
    <2>1. Len(s) = Len(t)
      BY <1>4 DEF Comparable
    <2>2. Sequence(m) = s /\ Sequence(o) = t
      BY <1>1, SequenceIs
    <2>3. Equal(m, o) <=> \A k \in 1 .. Len(s) : s[k] = t[k]
      BY <1>2, <1>4, <2>2 DEF Equal
    <2> QED
      BY <1>2, <1>3, <2>1, <2>3, SeqEqual
  <1>5. CASE ~ NonTrivial /\ (Size(m) = 0 \/ Size(o) = 0)
    <2>1. Equal(m, o) <=> Size(m) = 0 /\ Size(o) = 0
      BY <1>2, <1>3, <1>5 DEF Equal
    <2>2. s = t <=> Len(s) = 0 /\ Len(t) = 0
      <3>1. Len(s) = 0 /\ Len(t) = 0 => s = t
        BY <1>2, <1>3, EmptySeq
      <3> QED
        BY <1>2, <1>3, <1>5, <3>1
    <2> QED
      BY <1>2, <1>3, <2>1, <2>2
  <1>6. CASE ~ NonTrivial /\ Size(m) > 0 /\ Size(o) > 0
    <2> DEFINE a == [i \in 1 .. Size(m) |-> Offset(m, i - 1)]
               c == [i \in 1 .. Size(o) |-> Offset(o, i - 1)]
    <2>1. Equal(m, o) <=> Bytes(m) = Bytes(o)
      BY <1>2, <1>3, <1>6 DEF Equal
    <2>2. IsPacked(m) /\ IsPacked(o)
      BY <1>6 DEF Comparable
    <2>3. HasBytes(s, a, Used(m), Bytes(m))
      BY <1>1, <1>6, <2>2, BytesOf
    <2>4. HasBytes(t, c, Used(o), Bytes(o))
      BY <1>1, <1>6, <2>2, BytesOf
    <2> HIDE DEF a, c, m, o, s, t
    <2>5. s = t => Bytes(m) = Bytes(o)
      BY <2>3, <2>4, SameElementsBytes
    <2>6. ASSUME Bytes(m) = Bytes(o)
          PROVE  s = t
      <3>1. Used(m) = Used(o)
        <4>1. /\ Used(m) \in Nat /\ DOMAIN Bytes(m) = 1 .. Used(m)
              /\ Used(o) \in Nat /\ DOMAIN Bytes(o) = 1 .. Used(o)
          BY <2>3, <2>4 DEF HasBytes
        <4>2. 1 .. Used(m) = 1 .. Used(o)
          BY <2>6, <4>1
        <4> QED
          BY <4>1, <4>2
      <3>2. HasBytes(t, c, Used(m), Bytes(m))
        BY <2>4, <2>6, <3>1
      <3>3. Len(s) <= Len(t) /\ \A i \in 1 .. Len(s) : s[i] = t[i]
        BY <2>3, <3>2, SameBytesPrefix
      <3>4. Len(t) <= Len(s)
        BY <2>3, <3>2, SameBytesPrefix
      <3>5. Len(s) = Len(t)
        BY <1>2, <1>3, <3>3, <3>4 DEF s, t
      <3> QED
        BY <1>2, <1>3, <3>3, <3>5, SeqEqual DEF s, t
    <2> QED
      BY <2>1, <2>5, <2>6 DEF m, o, s, t
  <1> QED
    BY <1>2, <1>3, <1>4, <1>5, <1>6

(* The bytes of a vector whose elements have one size, a unit each.         *)
LEMMA FixedBytes ==
  ASSUME Inv, Careful, ~ Varying, NEW v \in DOMAIN vectors, contents[v] # Unspecified,
         Size(vectors[v]) > 0
  PROVE  LET m == vectors[v]
         IN  [k \in DOMAIN Bytes(m) |-> Bytes(m)[k][1]] = contents[v]
  <1> DEFINE m == vectors[v]
             s == contents[v]
             b == Bytes(m)
             d == heap[m.block].cells
  <1>1. s \in Seq(Value) /\ Size(m) \in Nat /\ Len(s) = Size(m) /\ ~ IsHollow(m)
    BY ContentsOf
  <1>2. m.block # Null
    BY <1>1, WithoutMemory
  <1>3. m.block \in DOMAIN heap /\ Base(m) = m.block
    BY <1>2, InMemory
  <1>4. Used(m) = Size(m) /\ \A i \in Elements(m) : Offset(m, i) = i
    BY <1>2, FixedOffsets
  <1>5. b = [k \in 1 .. Size(m) |-> Cell(m, k - 1)]
    <2>1. 0 \in Elements(m)
      BY <1>1, NumbersOf
    <2>2. Offset(m, 0) = 0
      BY <1>4, <2>1
    <2>3. b = [k \in 1 .. Size(m) - 0 |-> Cell(m, 0 + k - 1)]
      BY <1>4, <2>2 DEF Bytes
    <2>4. Size(m) - 0 = Size(m) /\ \A k \in 1 .. Size(m) : 0 + k - 1 = k - 1
      BY <1>1
    <2> QED
      BY <2>3, <2>4
  <1>6. ASSUME NEW k \in 1 .. Size(m)
        PROVE  b[k][1] = s[k]
    <2> DEFINE j == k - 1
    <2>1. j \in Nat /\ j < Size(m) /\ j + 1 = k
      BY <1>1
    <2>2. j \in Elements(m) /\ Whole(d, Offset(m, j)) /\ d[Offset(m, j)][1] = s[k]
      BY <2>1, ElementOf
    <2>3. Offset(m, j) = j
      BY <1>4, <2>2
    <2>4. b[k] = Cell(m, j)
      BY <1>5
    <2> HIDE DEF j
    <2>5. Cell(m, j) = d[j]
      BY <1>3, <2>2, <2>3 DEF Cell, Whole
    <2> QED
      BY <2>2, <2>3, <2>4, <2>5
  <1>7. DOMAIN b = 1 .. Size(m)
    BY <1>5
  <1>8. s = [k \in 1 .. Size(m) |-> s[k]]
    BY <1>1
  <1> HIDE DEF b, s, m
  <1>9. [k \in DOMAIN b |-> b[k][1]] = s
    BY <1>6, <1>7, <1>8
  <1> QED
    BY <1>9 DEF b, s, m

(* A vector is less than another if its elements are.                       *)
LEMMA LessIs ==
  ASSUME Inv, Careful, NEW order, NEW v \in DOMAIN vectors, NEW w \in DOMAIN vectors,
         contents[v] # Unspecified, contents[w] # Unspecified
  PROVE  Less(order, vectors[v], vectors[w])
           <=> IsLess(order.less, contents[v], contents[w])
  <1> DEFINE m == vectors[v]
             o == vectors[w]
             s == contents[v]
             t == contents[w]
  <1>1. s \in Seq(Value) /\ Size(m) \in Nat /\ Len(s) = Size(m)
    BY ContentsOf
  <1>2. t \in Seq(Value) /\ Size(o) \in Nat /\ Len(t) = Size(o)
    BY ContentsOf
  <1>3. CASE NonTrivial \/ Varying \/ ~ order.bytes
    BY <1>3, SequenceIs DEF Less
  <1>4. CASE ~ (NonTrivial \/ Varying \/ ~ order.bytes) /\ Size(o) = 0
    <2>1. ~ Less(order, m, o)
      BY <1>2, <1>4 DEF Less
    <2>2. ~ IsLess(order.less, s, t)
      BY <1>2, <1>4 DEF IsLess
    <2> QED
      BY <2>1, <2>2
  <1>5. CASE ~ (NonTrivial \/ Varying \/ ~ order.bytes) /\ Size(m) = 0 /\ Size(o) > 0
    <2>1. Less(order, m, o)
      BY <1>5 DEF Less
    <2>2. 1 \in 1 .. Len(t) /\ 1 <= Len(s) + 1 /\ 1 > Len(s)
          /\ 1 .. 1 - 1 = {}
      BY <1>1, <1>2, <1>5
    <2>3. IsLess(order.less, s, t)
      BY <2>2 DEF IsLess
    <2> QED
      BY <2>1, <2>3
  <1>6. CASE ~ (NonTrivial \/ Varying \/ ~ order.bytes) /\ Size(m) > 0 /\ Size(o) > 0
    <2> DEFINE a == [k \in DOMAIN Bytes(m) |-> Bytes(m)[k][1]]
               b == [k \in DOMAIN Bytes(o) |-> Bytes(o)[k][1]]
    <2>1. a = s /\ b = t
      BY <1>6, FixedBytes
    <2>2. Less(order, m, o) <=> IsLess(order.less, a, b)
      BY <1>1, <1>6 DEF Less
    <2> HIDE DEF a, b
    <2> QED
      BY <2>1, <2>2
  <1> QED
    BY <1>1, <1>2, <1>3, <1>4, <1>5, <1>6

LEMMA SpecOfVectors == IteratorsSpec => Spec
  <1>1. IteratorsInit => Init
    BY DEF IteratorsInit
  <1>2. [IteratorsNext]_<<vars, tables, iterators>> => [Next]_vars
    <2>1. CASE IteratorsNext
      BY <2>1, StepOfVectors
    <2>2. CASE UNCHANGED <<vars, tables, iterators>>
      BY <2>2
    <2> QED
      BY <2>1, <2>2
  <1> QED
    BY <1>1, <1>2, PTL DEF IteratorsSpec, Spec

(* Two vectors are equal if and only if they have the same elements, where  *)
(* the caller compares objects in equal numbers and bytes without gaps      *)
(* (cntgs.hpp:4087-4105).                                                   *)
THEOREM EqualVectorsHaveEqualElements ==
  ASSUME Careful, {"compare_sizes", "compare_gaps"} \subseteq Avoided
  PROVE  IteratorsSpec => []EqualComparesElements
  <1>1. Inv => EqualComparesElements
    BY EqualIs DEF EqualComparesElements
  <1> QED
    BY <1>1, SpecOfVectors, SpecInv, PTL

(* Such vectors are in the lexicographical order of their elements, however *)
(* elements are ordered and whether or not bytes are compared for it; equal *)
(* vectors are not less, and if the elements are all in order exactly one   *)
(* of ==, < and > is true (cntgs.hpp:3859-3905, 4106-4128).                 *)
THEOREM ComparisonsAreConsistent ==
  ASSUME Careful, {"compare_sizes", "compare_gaps"} \subseteq Avoided
  PROVE  IteratorsSpec => []ComparisonsAgree
  <1>1. Inv => ComparisonsAgree
    <2> SUFFICES ASSUME Inv, NEW order \in Orders, NEW v \in DOMAIN vectors,
                        NEW w \in DOMAIN vectors, Comparable(v, w)
                 PROVE  LET m == vectors[v]
                            o == vectors[w]
                        IN  /\ Less(order, m, o)
                                 <=> IsLess(order.less, contents[v], contents[w])
                            /\ ~ (Less(order, m, o) /\ Greater(order, m, o))
                            /\ Equal(m, o) => ~ Less(order, m, o) /\ ~ Greater(order, m, o)
                            /\ AtMost(order, m, o) /\ AtLeast(order, m, o) <=>
                                 Unordered(order.less, contents[v], contents[w])
                            /\ order.bytes =>
                                 /\ Differs(m, o) <=> Less(order, m, o) \/ Greater(order, m, o)
                                 /\ AtMost(order, m, o) <=> Less(order, m, o) \/ Equal(m, o)
                                 /\ AtLeast(order, m, o) <=> Greater(order, m, o) \/ Equal(m, o)
      BY DEF ComparisonsAgree
    <2> DEFINE s == contents[v]
               t == contents[w]
    <2>1. s # Unspecified /\ t # Unspecified
      BY DEF Comparable
    <2>2. s \in Seq(Value) /\ t \in Seq(Value)
      BY <2>1, ContentsOf
    <2>3. /\ Less(order, vectors[v], vectors[w]) <=> IsLess(order.less, s, t)
          /\ Less(order, vectors[w], vectors[v]) <=> IsLess(order.less, t, s)
      BY <2>1, LessIs
    <2>4. Equal(vectors[v], vectors[w]) <=> s = t
      BY EqualIs
    <2>5. Unordered(order.less, s, t) <=> Unordered(order.less, t, s)
      BY DEF Unordered
    <2>6. /\ ~ (IsLess(order.less, s, t) /\ IsLess(order.less, t, s))
          /\ Unordered(order.less, s, t)
               <=> ~ IsLess(order.less, s, t) /\ ~ IsLess(order.less, t, s)
      BY <2>2, <2>5, LessIsAsymmetric, LessIsDecided
    <2>7. /\ s = t => Unordered(order.less, s, t)
          /\ order.bytes /\ Unordered(order.less, s, t) => s = t
      BY <2>2, UnorderedIs
    <2> HIDE DEF s, t
    <2> QED
      BY <2>3, <2>4, <2>6, <2>7 DEF Greater, Differs, AtMost, AtLeast, s, t
  <1> QED
    BY <1>1, SpecOfVectors, SpecInv, PTL
=============================================================================
