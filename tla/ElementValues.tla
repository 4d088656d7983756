--------------------------- MODULE ElementValues ---------------------------
(***************************************************************************)
(* What elements promise, wherever they are: in a vector or on their own.  *)
(* Each has a value, the objects of its parameters; assigning or           *)
(* constructing from another element copies or moves its value, swap       *)
(* exchanges two, and nothing else changes.  Memory, padding and           *)
(* allocators do not appear here.                                          *)
(***************************************************************************)
EXTENDS Sequences

CONSTANTS
  Slot,          \* elements of a vector
  Element,       \* elements of the program's own
  Moved,         \* the value of an object that was moved from
  ObjectBytes,   \* of an element, by its shape: where its objects are
  Unspecified    \* the value of an element that was moved from as a whole

VARIABLE value   \* of every element there is: what its objects hold

(* From v to w at most the values at these places change.                   *)
OnlyAt(places, v, w) ==
  /\ DOMAIN v \ places = DOMAIN w \ places
  /\ \A x \in DOMAIN v \ places : w[x] = v[x]

(* What moving may leave of a value: all but the objects, which have their  *)
(* values or none.                                                          *)
IsLeftover(x, y) ==
  \/ x = Unspecified
  \/ /\ y # Unspecified
     /\ x.shape = y.shape /\ DOMAIN x.bytes = DOMAIN y.bytes
     /\ \A a \in DOMAIN y.bytes :
          \/ x.bytes[a] = y.bytes[a]
          \/ a \in ObjectBytes[y.shape] /\ x.bytes[a] = Moved

-----------------------------------------------------------------------------
(* How a call changes the values from v to w.                               *)

(* p is constructed from q or assigned it.                                  *)
CopyValue(v, w, p, q) == p \in DOMAIN w /\ w[p] = v[q] /\ OnlyAt({p}, v, w)

MoveValue(v, w, p, q) ==
  /\ p # q /\ {p, q} \subseteq DOMAIN w
  /\ w[p] = v[q] /\ IsLeftover(w[q], v[q])
  /\ OnlyAt({p, q}, v, w)

Exchange(v, w, p, q) ==
  /\ {p, q} \subseteq DOMAIN v /\ {p, q} \subseteq DOMAIN w
  /\ w[p] = v[q] /\ w[q] = v[p]
  /\ OnlyAt({p, q}, v, w)

Drop(v, w, p) == p \notin DOMAIN w /\ OnlyAt({p}, v, w)

-----------------------------------------------------------------------------
ValuesInit == DOMAIN value \subseteq Slot

(* Elements of a vector stay where they are, only a vector erases them.     *)
ValuesNext ==
  \E v \in {value}, w \in {value'} :
    \/ \E p \in Element \cup DOMAIN v, q \in DOMAIN v :
         CopyValue(v, w, p, q) \/ MoveValue(v, w, p, q) \/ Exchange(v, w, p, q)
    \/ \E p \in Element \cap DOMAIN v : Drop(v, w, p)

ValuesSpec == ValuesInit /\ [][ValuesNext]_value
=============================================================================
