--------------------------- MODULE SharedPointer ---------------------------
(***************************************************************************)
(* nall::shared_pointer and shared_pointer_weak, the handles that hold the *)
(* node tree, the files and the interface together.  A manager counts the  *)
(* strong and the weak handles of an object.  The last strong handle       *)
(* deletes the object, and the last handle of any kind the manager.        *)
(*                                                                         *)
(* Deleting an object destroys the handles that are its members, which may *)
(* delete further objects before the first deletion returns: every member  *)
(* is a step.  An object and its manager share a name, and the name is     *)
(* free again when both are deleted, as their memory is.                   *)
(***************************************************************************)
EXTENDS Integers, FiniteSets

CONSTANTS
  Objects,
  Strong, Weak,   \* the handles: shared_pointer and shared_pointer_weak variables
  Owner,          \* the object a handle is a member of, or Null: a variable of the program
  This,           \* the handle shared_pointer_this::weak of an object, or Null
  Rank,           \* objects own objects of a higher rank only: no cycle of strong handles
  Width,          \* the counts are uint: 2^32
  Null

VARIABLES
  target,         \* handle -> manager
  strong, weak,   \* the counts of a manager
  managers,       \* the ones that are allocated
  pointers,       \* the objects that exist, wholly or in part
  left,           \* object under deletion -> members not destroyed yet
  by,             \* object under deletion -> the handle whose reset() deletes it
  call            \* an assignment, once the old target is let go: what is assigned

counts == <<strong, weak, managers>>
pointerVars == <<target, counts, pointers, left, by, call>>

Handles == Strong \cup Weak

ASSUME HandleAssumption ==
  /\ IsFiniteSet(Handles) /\ Strong \cap Weak = {}
  /\ Null \notin Objects /\ Null \notin Handles
  /\ Owner \in [Handles -> Objects \cup {Null}]
  /\ This \in [Objects -> Weak \cup {Null}]
  /\ \A o \in Objects : This[o] # Null => Owner[This[o]] = o
  /\ Rank \in [Objects -> Nat]
  /\ Width \in Nat /\ Cardinality(Handles) < Width

Members(o) == {h \in Handles : Owner[h] = o}
Up(n) == (n + 1) % Width
Down(n) == (n + Width - 1) % Width

\* The handle is a variable of the program or in an object that is not being deleted.
Exists(h) == Owner[h] # Null => Owner[h] \in pointers /\ by[Owner[h]] = Null
\* operator bool
Holds(h) == target[h] # Null /\ strong[target[h]] # 0
MayOwn(h, o) == Owner[h] # Null /\ o # Null => Rank[Owner[h]] < Rank[o]

Idle == \A o \in Objects : by[o] = Null
\* The deletion of o waits for that of an object that a member of o holds.
Waiting(o) == \E p \in Objects : by[p] # Null /\ Owner[by[p]] = o

-----------------------------------------------------------------------------
(* shared_pointer_weak::reset() and shared_pointer::reset()                *)

ResetWeak_Leak(w) ==
  LET m == target[w] IN
  /\ target' = [target EXCEPT ![w] = Null]
  /\ IF m = Null THEN UNCHANGED counts
     ELSE weak' = [weak EXCEPT ![m] = Down(@)] /\ UNCHANGED <<strong, managers>>
ResetWeak(w) ==
  LET m == target[w] IN
  /\ target' = [target EXCEPT ![w] = Null]
  /\ IF m = Null THEN UNCHANGED counts
     ELSE /\ weak' = [weak EXCEPT ![m] = Down(@)]
          /\ managers' = IF weak'[m] = 0 /\ strong[m] = 0 THEN managers \ {m} ELSE managers
          /\ UNCHANGED strong

StartDelete(h, m) ==
  /\ by' = [by EXCEPT ![m] = h]
  /\ UNCHANGED <<target, counts>>

\* reset(), as far as it gets by itself.  Members are Null from here on or in left.
Reset(h) ==
  LET m == target[h] IN
  IF ~Holds(h) THEN target' = [target EXCEPT ![h] = Null] /\ UNCHANGED <<counts, by>>
  ELSE IF strong[m] = 1 THEN StartDelete(h, m)
  ELSE /\ target' = [target EXCEPT ![h] = Null]
       /\ strong' = [strong EXCEPT ![m] = Down(@)]
       /\ UNCHANGED <<weak, managers, by>>

\* A member of an object under deletion is destroyed.
DestroyMember ==
  \E o \in Objects : \E h \in left[o] :
    /\ by[o] # Null /\ ~Waiting(o)
    /\ IF h \in Weak THEN ResetWeak(h) /\ UNCHANGED by ELSE Reset(h)
    /\ left' = [p \in Objects |-> IF p = o THEN left[p] \ {h}
                                  ELSE IF by'[p] # by[p] THEN Members(p) ELSE left[p]]
    /\ UNCHANGED <<pointers, call>>

\* manager->pointer = nullptr, and the manager goes with its last handle.
FinishDelete ==
  \E o \in Objects :
    /\ by[o] # Null /\ left[o] = {} /\ ~Waiting(o)
    /\ pointers' = pointers \ {o}
    /\ strong' = [strong EXCEPT ![o] = Down(@)]
    /\ managers' = IF strong'[o] = 0 /\ weak[o] = 0 THEN managers \ {o} ELSE managers
    /\ target' = [target EXCEPT ![by[o]] = Null]
    /\ by' = [by EXCEPT ![o] = Null]
    /\ UNCHANGED <<weak, left, call>>

-----------------------------------------------------------------------------
(* The operators of the handles.                                           *)

\* ~shared_pointer, reset(), and the reset() that every assignment begins with.
Release(h, then) ==
  /\ Idle /\ call = Null /\ Exists(h)
  /\ Reset(h)
  /\ left' = [p \in Objects |-> IF by'[p] # by[p] THEN Members(p) ELSE left[p]]
  /\ call' = then
  /\ UNCHANGED pointers

\* An assignment: the source is a variable, so that letting go of the old target
\* does not destroy it.
Assigns(h, from) == h # from /\ Owner[from] = Null /\ MayOwn(h, target[from])

\* operator=(const shared_pointer&) and operator=(const shared_pointer_weak&)
Copy(h, from) == Assigns(h, from) /\ Release(h, [to |-> h, from |-> from, op |-> "copy"])

\* operator=(shared_pointer&&)
Move(h, from) == Assigns(h, from) /\ Release(h, [to |-> h, from |-> from, op |-> "move"])

\* The second half of an assignment.
Assign_NotCounted ==
  /\ call # Null /\ Idle
  /\ call' = Null
  /\ LET m == target[call.from] IN
     IF call.op = "move"
     THEN target' = [target EXCEPT ![call.to] = m, ![call.from] = Null]
     ELSE target' = [target EXCEPT ![call.to] = IF Holds(call.from) THEN m ELSE @]
  /\ UNCHANGED <<counts, pointers, left, by>>
Assign ==
  /\ call # Null /\ Idle
  /\ call' = Null
  /\ LET m == target[call.from] IN
     IF call.op = "move"
     THEN /\ target' = [target EXCEPT ![call.to] = m, ![call.from] = Null]
          /\ UNCHANGED counts
     ELSE IF ~Holds(call.from) THEN UNCHANGED <<target, counts>>
     ELSE /\ target' = [target EXCEPT ![call.to] = m]
          /\ strong' = [strong EXCEPT ![m] = Up(@)]
          /\ UNCHANGED <<weak, managers>>
  /\ UNCHANGED <<pointers, left, by>>

\* shared_pointer{new T} into an empty handle; the object may keep a weak handle of itself.
Create(h, o) ==
  /\ Idle /\ call = Null /\ Exists(h) /\ target[h] = Null /\ MayOwn(h, o)
  /\ o \notin managers /\ o \notin pointers
  /\ managers' = managers \cup {o} /\ pointers' = pointers \cup {o}
  /\ strong' = [strong EXCEPT ![o] = 1]
  /\ weak' = [weak EXCEPT ![o] = IF This[o] = Null THEN 0 ELSE 1]
  /\ target' = [g \in Handles |-> IF g = h \/ g = This[o] THEN o ELSE target[g]]
  /\ UNCHANGED <<left, by, call>>

\* shared_pointer_weak::operator=(const shared_pointer&)
Weaken(w, from) ==
  /\ Idle /\ call = Null /\ Exists(w) /\ Exists(from) /\ target[w] = Null
  /\ target[from] # Null
  /\ target' = [target EXCEPT ![w] = target[from]]
  /\ weak' = [weak EXCEPT ![target[from]] = Up(@)]
  /\ UNCHANGED <<strong, managers, pointers, left, by, call>>

\* ~shared_pointer_weak, and the reset() that an assignment begins with.
Forget(w) ==
  /\ Idle /\ call = Null /\ Exists(w) /\ w \notin {This[o] : o \in Objects}
  /\ ResetWeak(w)
  /\ UNCHANGED <<pointers, left, by, call>>

\* A weak handle passed or returned by value: shared_pointer_weak declares no copy
\* constructor, and the one the compiler makes copies the field manager.
CopyWeak(w, from) ==
  /\ Idle /\ call = Null /\ Exists(w) /\ Exists(from) /\ target[w] = Null /\ w # from
  /\ target' = [target EXCEPT ![w] = target[from]]
  /\ UNCHANGED <<counts, pointers, left, by, call>>

-----------------------------------------------------------------------------

PointerInit ==
  /\ target = [h \in Handles |-> Null]
  /\ strong = [o \in Objects |-> 0] /\ weak = [o \in Objects |-> 0]
  /\ managers = {} /\ pointers = {}
  /\ left = [o \in Objects |-> {}] /\ by = [o \in Objects |-> Null]
  /\ call = Null

PointerNext ==
  \/ DestroyMember \/ FinishDelete \/ Assign
  \/ \E h \in Strong :
       \/ Release(h, Null)
       \/ \E o \in Objects : Create(h, o)
       \/ \E from \in Handles : Copy(h, from)
       \/ \E from \in Strong : Move(h, from)
  \/ \E w \in Weak : Forget(w) \/ \E from \in Strong : Weaken(w, from)

PointerNextWithCopies == PointerNext \/ \E w, from \in Weak : CopyWeak(w, from)

PointerSpec == PointerInit /\ [][PointerNext]_pointerVars
PointerSpecWithCopies == PointerInit /\ [][PointerNextWithCopies]_pointerVars

-----------------------------------------------------------------------------

PointerTypeOK ==
  /\ target \in [Handles -> Objects \cup {Null}]
  /\ strong \in [Objects -> 0..Width-1] /\ weak \in [Objects -> 0..Width-1]
  /\ managers \subseteq Objects /\ pointers \subseteq Objects
  /\ left \in [Objects -> SUBSET Handles] /\ by \in [Objects -> Strong \cup {Null}]

StrongOf(o) == {h \in Strong : target[h] = o}
WeakOf(o) == {w \in Weak : target[w] = o}

\* A manager counts exactly the handles that refer to it, also while objects are
\* being deleted within the deletion of others.
Counted == \A o \in managers : /\ strong[o] = Cardinality(StrongOf(o))
                               /\ weak[o] = Cardinality(WeakOf(o))

\* reset: "pointer may contain weak references; if strong==0 it may destroy manager":
\* a handle never refers to a manager that was deleted.
ManagerOutlivesHandles == \A h \in Handles : target[h] # Null => target[h] \in managers

\* An object exists as long as there is a strong handle of it, and its members
\* go before it does; a manager without handles is gone.
ObjectsAreOwned ==
  /\ \A o \in Objects : o \in pointers <=> StrongOf(o) # {}
  /\ \A h \in Handles : target[h] # Null /\ Owner[h] # Null => Owner[h] \in pointers
  /\ \A o \in managers : StrongOf(o) \cup WeakOf(o) # {}
=============================================================================
