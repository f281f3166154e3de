----------------------------- MODULE NallVector -----------------------------
(***************************************************************************)
(* nall::vector, a double-ended queue in one block of memory: room is kept *)
(* on both sides of the elements and counted apart from the block, so that *)
(* each operation must keep the counts true to it.                         *)
(*                                                                         *)
(* insert() is left out, which only the desktop interface calls: it counts *)
(* no room as used, and one before the last element goes behind it.        *)
(* release() and acquire(), which hand over the block, and reallocate(),   *)
(* which leaves new elements uninitialized, are left out too.              *)
(***************************************************************************)
EXTENDS Integers, Sequences

CONSTANTS
  Element,
  Nothing,    \* memory without an object
  Capacities, \* the powers of two
  MaxLength,  \* bound: elements, and the capacity that is reserved
  MaxRoom     \* bound: the room removed elements leave, which a queue never reuses

VARIABLES
  block,      \* the allocated memory
  leftRoom, size, rightRoom,
  list        \* the elements that the calls should have left

vectorVars == <<block, leftRoom, size, rightRoom, list>>

ASSUME VectorAssumption ==
  /\ MaxLength \in Nat /\ MaxRoom \in Nat /\ Capacities \subseteq Nat
  /\ \A n \in 0..MaxLength : \E p \in Capacities : n <= p

\* bit::round
Round(n) == CHOOSE p \in Capacities : n <= p /\ \A q \in Capacities : n <= q => p <= q

\* _pool[n] for n < _size
Elements == [n \in 1..size |-> block[leftRoom + n]]

\* Memory with these elements at the place of _pool, and nothing elsewhere.
Block(capacity, pool, elements) ==
  [n \in 1..capacity |-> IF n \in pool + 1..pool + Len(elements) THEN elements[n - pool]
                         ELSE Nothing]

-----------------------------------------------------------------------------

\* What reserveLeft and reserveRight make of the block and of the room on their side.
ReservedLeft(n) ==
  IF size + leftRoom >= n THEN [capacity |-> Len(block), room |-> leftRoom]
  ELSE [capacity |-> Round(n) + rightRoom, room |-> Round(n) - size]
ReservedRight_NoLeft(n) ==
  IF size + rightRoom >= n THEN [capacity |-> Len(block), room |-> rightRoom]
  ELSE [capacity |-> Round(n), room |-> Round(n) - size]
ReservedRight(n) ==
  IF size + rightRoom >= n THEN [capacity |-> Len(block), room |-> rightRoom]
  ELSE [capacity |-> leftRoom + Round(n), room |-> Round(n) - size]

ReserveRight(n) ==
  /\ rightRoom' = ReservedRight(n).room
  /\ block' = Block(ReservedRight(n).capacity, leftRoom, Elements)
  /\ UNCHANGED <<leftRoom, size, list>>

\* prepend() of values, and the growth of resizeLeft().
PrependValues(values) ==
  LET reserved == ReservedLeft(size + Len(values)) IN
  /\ size + Len(values) <= MaxLength
  /\ leftRoom' = reserved.room - Len(values) /\ size' = size + Len(values)
  /\ block' = Block(reserved.capacity, leftRoom', values \o Elements)
  /\ list' = values \o list /\ UNCHANGED rightRoom

AppendValues(values) ==
  LET reserved == ReservedRight(size + Len(values)) IN
  /\ size + Len(values) <= MaxLength
  /\ rightRoom' = reserved.room - Len(values) /\ size' = size + Len(values)
  /\ block' = Block(reserved.capacity, leftRoom, Elements \o values)
  /\ list' = list \o values /\ UNCHANGED leftRoom

\* The room of removed elements at an end is kept, that of others is lost.
RemoveLeft(n) ==
  /\ n <= size /\ leftRoom + n <= MaxRoom /\ leftRoom' = leftRoom + n /\ size' = size - n
  /\ block' = Block(Len(block), leftRoom', SubSeq(Elements, n + 1, size))
  /\ list' = SubSeq(list, n + 1, Len(list)) /\ UNCHANGED rightRoom

RemoveRight(n) ==
  /\ n <= size /\ rightRoom + n <= MaxRoom /\ rightRoom' = rightRoom + n /\ size' = size - n
  /\ block' = Block(Len(block), leftRoom, SubSeq(Elements, 1, size'))
  /\ list' = SubSeq(list, 1, Len(list) - n) /\ UNCHANGED leftRoom

\* Also take(), and what removeByValue() finds.
RemoveMiddle(offset, n) ==
  /\ offset \in 1..size - 2 /\ offset + n <= size
  /\ size' = size - n
  /\ block' = Block(Len(block), leftRoom,
                    SubSeq(Elements, 1, offset) \o SubSeq(Elements, offset + n + 1, size))
  /\ list' = SubSeq(list, 1, offset) \o SubSeq(list, offset + n + 1, Len(list))
  /\ UNCHANGED <<leftRoom, rightRoom>>

\* operator= with another vector.
AssignVector(values) ==
  /\ block' = values /\ size' = Len(values) /\ leftRoom' = 0 /\ rightRoom' = 0 /\ list' = values

VectorInit == block = <<>> /\ leftRoom = 0 /\ size = 0 /\ rightRoom = 0 /\ list = <<>>

Values == UNION { [1..n -> Element] : n \in 0..2 }

VectorNext ==
  \/ \E n \in 1..MaxLength : ReserveRight(n) \/ RemoveLeft(n) \/ RemoveRight(n)
  \/ \E values \in Values : PrependValues(values) \/ AppendValues(values) \/ AssignVector(values)
  \/ \E offset, n \in 1..MaxLength : RemoveMiddle(offset, n)

VectorSpec == VectorInit /\ [][VectorNext]_vectorVars

-----------------------------------------------------------------------------

\* The elements and the room on both sides, however often they were counted anew, lie
\* in the block, and the elements are those that were put there and not removed.
IsList == leftRoom + size + rightRoom <= Len(block) /\ Elements = list
=============================================================================
