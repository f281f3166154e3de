------------------------------ MODULE ByteFile ------------------------------
(***************************************************************************)
(* What a buffered file promises: a sequence of bytes with a position.     *)
(* What is stored in the file may lag behind what was written, byte by     *)
(* byte, but not after a flush or a close.                                 *)
(***************************************************************************)
EXTENDS Integers, Sequences

CONSTANTS
  Byte, Zero,  \* the values of a byte; the one that padding consists of
  MaxSize      \* bound: the largest offset a caller seeks or writes to

VARIABLES
  stored,      \* the bytes in the file
  content,     \* the bytes a reader of the handle gets
  position,
  mode,        \* how the file is open
  result       \* what the last read returned

vars == <<stored, content, position, mode, result>>

Modes == {"read", "write", "modify", "append"}

\* Some bytes of new have reached the file.
WrittenBack(new) ==
  /\ Len(stored') >= Len(stored)
  /\ \A i \in 1..Len(stored') : \/ i <= Len(new) /\ stored'[i] = new[i]
                                \/ i <= Len(stored) /\ stored'[i] = stored[i]

Open(m) ==
  /\ mode = "closed" /\ mode' = m
  /\ content' = IF m \in {"read", "modify"} THEN stored ELSE <<>>
  /\ stored' = content'
  /\ position' = 0
  /\ UNCHANGED result

Close ==
  /\ mode # "closed" /\ mode' = "closed"
  /\ stored' = content
  /\ UNCHANGED <<content, position, result>>

Flush ==
  /\ mode # "closed"
  /\ stored' = content
  /\ UNCHANGED <<content, position, mode, result>>

Read ==
  /\ mode # "closed"
  /\ IF mode = "write" \/ position >= Len(content)
     THEN result' = Zero /\ UNCHANGED <<stored, position>>
     ELSE /\ result' = content[position + 1]
          /\ position' = position + 1
          /\ WrittenBack(content)
  /\ UNCHANGED <<content, mode>>

\* Overwrites a byte, or appends one at the end.
Write(b) ==
  /\ mode \notin {"closed", "read"}
  /\ content' = IF position < Len(content) THEN [content EXCEPT ![position + 1] = b]
                ELSE Append(content, b)
  /\ position' = position + 1
  /\ WrittenBack(content')
  /\ UNCHANGED <<mode, result>>

\* Past the end, a reader stops at the end and a writer pads the file.
Seek(o) ==
  /\ mode # "closed"
  /\ IF mode = "read" /\ o > Len(content)
     THEN position' = Len(content) /\ UNCHANGED content
     ELSE /\ position' = o
          /\ content' = IF o <= Len(content) THEN content
                        ELSE [i \in 1..o |-> IF i <= Len(content) THEN content[i] ELSE Zero]
  /\ WrittenBack(content)
  /\ UNCHANGED <<mode, result>>

\* The file catches up in the middle of a long seek.
WriteBack ==
  /\ mode # "closed"
  /\ WrittenBack(content)
  /\ UNCHANGED <<content, position, mode, result>>

Init ==
  /\ stored = <<>> /\ content = <<>>
  /\ position = 0 /\ mode = "closed" /\ result = Zero

Next ==
  \/ \E m \in Modes : Open(m)
  \/ Close \/ Flush \/ Read \/ WriteBack
  \/ \E b \in Byte : Write(b)
  \/ \E o \in 0..MaxSize : Seek(o)

Spec == Init /\ [][Next]_vars
=============================================================================
