----------------------------- MODULE FileBuffer -----------------------------
(***************************************************************************)
(* nall::file_buffer: a file read and written one byte at a time through a *)
(* window of 4096 bytes.  The window is read from the file when a byte     *)
(* outside it is asked for, and written back when it is left; the size of  *)
(* the file is known to the handle before it is in the file.               *)
(*                                                                         *)
(* One action is one call; a seek past the end of a file being written is  *)
(* a call that writes one byte after another.                              *)
(***************************************************************************)
EXTENDS Integers, Sequences

CONSTANTS
  Byte, Zero,  \* the values of a byte; the one written by padding
  W,           \* buffer.size(): 4096
  IntHalf,     \* bufferOffset is an int: from 2^31 on an offset gets negative
  MaxSize,     \* bound: the largest offset a caller seeks or writes to
  None

VARIABLES
  disk,          \* what fread and fwrite see
  fileHandle,    \* fileHandle # nullptr
  fileMode, fileOffset, fileSize,
  buffer, bufferOffset, bufferDirty,
  goal,          \* a seek() that is padding the file: where it goes
  result         \* what the last read() returned

bufferVars == <<buffer, bufferOffset, bufferDirty>>
vars == <<disk, fileHandle, fileMode, fileOffset, fileSize, bufferVars, goal, result>>

ASSUME SizeAssumption ==
  /\ Zero \in Byte /\ None \notin Nat
  /\ W \in Nat \ {0} /\ IntHalf \in Nat /\ IntHalf % W = 0 /\ MaxSize \in Nat

Modes == {"read", "write", "modify", "append"}
Window == 0..W-1

\* bufferOffset = offset & ~(buffer.size() - 1), into a signed variable.
WindowOf(o) == LET base == o - (o % W) IN IF base < IntHalf THEN base ELSE base - 2 * IntHalf

-----------------------------------------------------------------------------
(* bufferFlush() and bufferSynchronize()                                   *)

MustFlush == fileMode # "read" /\ bufferOffset >= 0 /\ bufferDirty

\* How much of the window at base is in the file.
LengthOf(base) == IF base + W <= fileSize THEN W ELSE fileSize % W

\* fwrite of the window; the file grows to hold it.
Flushed ==
  IF ~MustFlush THEN disk ELSE
    LET end == bufferOffset + LengthOf(bufferOffset)
    IN [i \in 1..(IF end > Len(disk) THEN end ELSE Len(disk)) |->
          IF bufferOffset < i /\ i <= end THEN buffer[i - 1 - bufferOffset]
          ELSE IF i <= Len(disk) THEN disk[i] ELSE Zero]

\* fread into the window; what the file does not have stays as it was.
Loaded(base) ==
  [k \in Window |-> IF k < LengthOf(base) /\ base + k < Len(Flushed)
                    THEN Flushed[base + k + 1] ELSE buffer[k]]

BufferFlush ==
  /\ disk' = Flushed
  /\ bufferOffset' = IF MustFlush THEN -1 ELSE bufferOffset
  /\ bufferDirty' = (bufferDirty /\ ~MustFlush)
  /\ UNCHANGED buffer

\* The comparison is one of 64-bit numbers: a negative bufferOffset never matches.
Hit == bufferOffset = fileOffset - (fileOffset % W)

\* What the window may hold once it is at fileOffset.  An fseek to a negative
\* offset fails, and what is read then depends on where the FILE was.
Windows ==
  IF Hit THEN {buffer}
  ELSE IF WindowOf(fileOffset) >= 0 THEN {Loaded(WindowOf(fileOffset))}
  ELSE [Window -> Byte]

BufferSynchronize ==
  IF Hit THEN UNCHANGED <<disk, bufferOffset>>
  ELSE /\ disk' = Flushed
       /\ bufferOffset' = WindowOf(fileOffset)

-----------------------------------------------------------------------------
(* The calls.                                                              *)

Ready == fileHandle /\ goal = None

\* fopen with "rb", "rb+" or "wb+"; a file that is not there leaves the handle null.
Open(m) ==
  /\ ~fileHandle /\ fileHandle' = TRUE
  /\ fileMode' = m
  /\ disk' = IF m \in {"read", "modify"} THEN disk ELSE <<>>
  /\ bufferOffset' = -1
  /\ fileOffset' = 0 /\ fileSize' = Len(disk')
  /\ UNCHANGED <<buffer, bufferDirty, goal, result>>

Close ==
  /\ Ready
  /\ BufferFlush
  /\ fileHandle' = FALSE
  /\ UNCHANGED <<fileMode, fileOffset, fileSize, goal, result>>

Flush ==
  /\ Ready
  /\ BufferFlush
  /\ UNCHANGED <<fileHandle, fileMode, fileOffset, fileSize, goal, result>>

Read ==
  /\ Ready
  /\ IF fileMode = "write" \/ fileOffset >= fileSize
     THEN result' = Zero /\ UNCHANGED <<disk, bufferVars, fileOffset>>
     ELSE /\ BufferSynchronize
          /\ buffer' \in Windows
          /\ bufferDirty' = (bufferDirty /\ (Hit \/ ~MustFlush))
          /\ result' = buffer'[fileOffset % W]
          /\ fileOffset' = fileOffset + 1
  /\ UNCHANGED <<fileHandle, fileMode, fileSize, goal>>

\* write(data), by the caller or by seek().
Put_SizeKept(data) ==
  /\ BufferSynchronize
  /\ \E window \in Windows : buffer' = [window EXCEPT ![fileOffset % W] = data]
  /\ bufferDirty' = TRUE
  /\ fileOffset' = fileOffset + 1
  /\ fileSize' = fileSize
Put(data) ==
  /\ BufferSynchronize
  /\ \E window \in Windows : buffer' = [window EXCEPT ![fileOffset % W] = data]
  /\ bufferDirty' = TRUE
  /\ fileOffset' = fileOffset + 1
  /\ fileSize' = IF fileOffset + 1 > fileSize THEN fileOffset + 1 ELSE fileSize

Write(data) ==
  /\ Ready
  /\ fileMode # "read" /\ fileOffset < MaxSize
  /\ Put(data)
  /\ UNCHANGED <<fileHandle, fileMode, goal, result>>

\* A relative offset is added up; a negative one is the start of the file.
Target(offset) == IF offset < 0 THEN 0 ELSE offset

Seek(offset) ==
  /\ Ready
  /\ BufferFlush
  /\ LET o == Target(offset) IN
       IF o <= fileSize THEN fileOffset' = o /\ UNCHANGED goal
       ELSE fileOffset' = fileSize /\ goal' = IF fileMode = "read" THEN None ELSE o
  /\ UNCHANGED <<fileHandle, fileMode, fileSize, result>>

\* while(fileSize < seekOffset) write(0)
Pad ==
  /\ goal # None
  /\ IF fileSize < goal
     THEN Put(Zero) /\ UNCHANGED goal
     ELSE goal' = None /\ fileOffset' = goal /\ UNCHANGED <<disk, bufferVars, fileSize>>
  /\ UNCHANGED <<fileHandle, fileMode, result>>

-----------------------------------------------------------------------------

Init ==
  /\ disk = <<>>
  /\ fileHandle = FALSE /\ fileMode = "read" /\ fileOffset = 0 /\ fileSize = 0
  /\ buffer = [k \in Window |-> Zero] /\ bufferOffset = -1 /\ bufferDirty = FALSE
  /\ goal = None /\ result = Zero

Next ==
  \/ \E m \in Modes : Open(m)
  \/ Close \/ Flush \/ Read \/ Pad
  \/ \E b \in Byte : Write(b)
  \/ \E offset \in -1..MaxSize : Seek(offset)

Spec == Init /\ [][Next]_vars

-----------------------------------------------------------------------------

TypeOK ==
  /\ disk \in Seq(Byte)
  /\ fileHandle \in BOOLEAN /\ fileMode \in Modes
  /\ fileOffset \in Nat /\ fileSize \in Nat
  /\ buffer \in [Window -> Byte] /\ bufferOffset \in Int /\ bufferDirty \in BOOLEAN
  /\ goal \in Nat \cup {None} /\ result \in Byte

\* A window that was not written to holds what the file holds.
CleanWindow ==
  fileHandle /\ bufferOffset >= 0 /\ ~bufferDirty =>
    \A k \in Window : bufferOffset + k < fileSize => /\ bufferOffset + k < Len(disk)
                                                     /\ buffer[k] = disk[bufferOffset + k + 1]

\* The file is as long as the handle says, but for what the window still holds.
OnlyWindowMissing ==
  fileHandle => \/ Len(disk) = fileSize
                \/ /\ bufferDirty /\ Len(disk) < fileSize
                   /\ bufferOffset <= Len(disk) /\ fileSize <= bufferOffset + W

\* The bytes that a reader of the handle gets.
Bytes ==
  [i \in 1..fileSize |-> IF bufferDirty /\ bufferOffset < i /\ i <= bufferOffset + W
                         THEN buffer[i - 1 - bufferOffset] ELSE disk[i]]

\* The same with the ones that a seek() under way will add.
Contents ==
  IF goal = None THEN Bytes
  ELSE [i \in 1..goal |-> IF i <= fileSize THEN Bytes[i] ELSE Zero]

File == INSTANCE ByteFile WITH
  stored   <- disk,
  content  <- Contents,
  position <- IF goal = None THEN fileOffset ELSE goal,
  mode     <- IF fileHandle THEN fileMode ELSE "closed"

\* Through the window a file reads as if every byte went to the disk at once, and
\* a flush or a close leaves nothing behind.
IsByteFile == File!Spec
=============================================================================
