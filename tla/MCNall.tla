------------------------------- MODULE MCNall -------------------------------
(* The classes of nall that keep state, side by side: a behaviour is one of *)
(* a buffered file, of shared pointers, of a set or of a vector.            *)
EXTENDS FileBuffer, SharedPointer, NallSet, NallVector

CONSTANTS
  system, port,             \* a node that owns another
  global, local,            \* strong handles of the program
  children,                 \* the one in the system
  parentThis, childThis,    \* shared_pointer_this::weak
  backLink,                 \* a port's weak handle of its system
  copy                      \* a weak handle of the program

NodeOwner == [h \in {global, local, children, parentThis, childThis, backLink, copy} |->
  CASE h \in {children, parentThis}  -> system
    [] h \in {childThis, backLink}   -> port
    [] OTHER                         -> Null]
NodeThis == [o \in {system, port} |-> IF o = system THEN parentThis ELSE childThis]
NodeRank == [o \in {system, port} |-> IF o = system THEN 0 ELSE 1]

VARIABLE class

nallVars == <<vars, pointerVars, setVars, vectorVars, class>>

NallInit == /\ class \in {"file_buffer", "shared_pointer", "set", "vector"}
            /\ Init /\ PointerInit /\ SetInit /\ VectorInit

NallNext ==
  \/ class = "file_buffer" /\ Next /\ UNCHANGED <<pointerVars, setVars, vectorVars, class>>
  \/ class = "shared_pointer" /\ PointerNext /\ UNCHANGED <<vars, setVars, vectorVars, class>>
  \/ class = "set" /\ SetNext /\ UNCHANGED <<vars, pointerVars, vectorVars, class>>
  \/ class = "vector" /\ VectorNext /\ UNCHANGED <<vars, pointerVars, setVars, class>>

NallSpec == NallInit /\ [][NallNext]_nallVars

\* Handles alone, with weak ones that are copied.
CopiesSpec == NallInit /\ class = "shared_pointer"
              /\ [][PointerNextWithCopies /\ UNCHANGED <<vars, setVars, vectorVars, class>>]_nallVars
=============================================================================
