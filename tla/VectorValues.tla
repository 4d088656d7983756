---------------------------- MODULE VectorValues ----------------------------
(***************************************************************************)
(* What copying, moving and swapping vectors promises: every vector has a  *)
(* value of its own, the sequence of its elements.  A vector that was      *)
(* moved from exists, but nothing is promised of its value until it gets   *)
(* a new one.  Memory and allocators do not appear here.                   *)
(***************************************************************************)
EXTENDS Naturals, Sequences

CONSTANTS
  Vector,        \* the vectors of the program
  Value,         \* what an element can hold
  Unspecified    \* the value of a vector that was moved from

VARIABLE value   \* of every vector that exists

Give(v, s) ==
  value' = [x \in DOMAIN value \cup {v} |-> IF x = v THEN s ELSE value[x]]

-----------------------------------------------------------------------------
ValuesInit == value = << >>

Create(v) == v \notin DOMAIN value /\ Give(v, << >>)

CreateCopy(v, w) == v \notin DOMAIN value /\ w \in DOMAIN value /\ Give(v, value[w])

Drop(v) ==
  /\ v \in DOMAIN value
  /\ value' = [x \in DOMAIN value \ {v} |-> value[x]]

AppendTo(v, e) ==
  /\ v \in DOMAIN value
  /\ Give(v, IF value[v] = Unspecified THEN Unspecified ELSE Append(value[v], e))

(* Elements first + 1 .. last go.                                           *)
Remove(v) ==
  /\ v \in DOMAIN value /\ value[v] # Unspecified
  /\ \E first, last \in 0 .. Len(value[v]) :
       /\ first <= last
       /\ Give(v, SubSeq(value[v], 1, first) \o SubSeq(value[v], last + 1, Len(value[v])))

InsertInto(v, e) ==
  /\ v \in DOMAIN value /\ value[v] # Unspecified
  /\ \E i \in 0 .. Len(value[v]) :
       Give(v, SubSeq(value[v], 1, i) \o <<e>> \o SubSeq(value[v], i + 1, Len(value[v])))

Empty(v) == v \in DOMAIN value /\ Give(v, << >>)

Copy(v, w) ==
  /\ v \in DOMAIN value /\ w \in DOMAIN value
  /\ Give(v, value[w])

(* v is constructed from or assigned w, which gives its elements away.      *)
Move(v, w) ==
  /\ v # w /\ w \in DOMAIN value
  /\ \E left \in {Unspecified, << >>} :
       value' = [x \in DOMAIN value \cup {v} |->
                   IF x = v THEN value[w] ELSE IF x = w THEN left ELSE value[x]]

Exchange(v, w) ==
  /\ v \in DOMAIN value /\ w \in DOMAIN value
  /\ value' = [value EXCEPT ![v] = value[w], ![w] = value[v]]

ValuesNext ==
  \E v \in Vector :
    \/ Create(v)
    \/ Drop(v)
    \/ Empty(v)
    \/ Remove(v)
    \/ \E e \in Value : AppendTo(v, e) \/ InsertInto(v, e)
    \/ \E w \in Vector : CreateCopy(v, w) \/ Copy(v, w) \/ Move(v, w) \/ Exchange(v, w)

ValuesSpec == ValuesInit /\ [][ValuesNext]_value
=============================================================================
