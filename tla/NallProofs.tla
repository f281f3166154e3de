----------------------------- MODULE NallProofs -----------------------------
(***************************************************************************)
(* Proofs about the classes of nall.  A file_buffer is, through its        *)
(* window, a ByteFile, for windows, bytes and files of any size that an    *)
(* int can address.  The counts of shared pointers are those of the        *)
(* handles, whatever objects own each other.  A vector is the list its     *)
(* calls made, whatever its elements and its capacity.                     *)
(***************************************************************************)
EXTENDS FileBuffer, SharedPointer, NallVector,
        FiniteSetTheorems, SequenceTheorems, WellFoundedInduction, TLAPS

-----------------------------------------------------------------------------
(* Buffered files.                                                         *)

\* An offset fits into bufferOffset, an int.
FilesFit == MaxSize < IntHalf

-----------------------------------------------------------------------------
(* The inductive invariant.                                                *)

Sizes ==
  /\ fileOffset <= fileSize /\ fileSize <= MaxSize
  /\ goal # None => /\ fileHandle /\ fileMode # "read"
                    /\ fileOffset = fileSize /\ fileSize <= goal /\ goal <= MaxSize

\* The window is nowhere, or starts at a multiple of its size within the file.
Aligned == bufferOffset = -1 \/ (bufferOffset \in Nat /\ bufferOffset % W = 0
                                 /\ bufferOffset <= fileSize)

\* Only what is open for writing is written, and the file reaches to the window.
Dirty == bufferDirty => /\ fileHandle /\ fileMode # "read"
                        /\ bufferOffset \in Nat /\ bufferOffset <= Len(disk)

Missing == \/ Len(disk) = fileSize
           \/ bufferDirty /\ Len(disk) < fileSize /\ fileSize <= bufferOffset + W

Clean == bufferOffset # -1 /\ ~bufferDirty /\ fileHandle =>
           \A k \in Window : bufferOffset + k < fileSize => buffer[k] = disk[bufferOffset + k + 1]

Shape == Sizes /\ Aligned /\ Dirty /\ Missing
Inv == TypeOK /\ Shape /\ Clean

-----------------------------------------------------------------------------
(* Where a window starts.                                                  *)

Base(o) == o - (o % W)

LEMMA Remainder ==
  ASSUME NEW w \in Nat \ {0}, NEW b \in Nat, b % w = 0, NEW s \in Nat, b <= s, s < b + w
  PROVE  s % w = s - b
BY SMTT(30)

LEMMA RemainderFromBase ==
  ASSUME NEW w \in Nat \ {0}, NEW s \in Nat, NEW o \in Nat,
         o - (o % w) <= s, s < o - (o % w) + w
  PROVE  s % w = s - (o - (o % w))
BY SMTT(30)

LEMMA RemainderOfZero ==
  ASSUME NEW w \in Nat \ {0}
  PROVE  0 % w = 0
BY SMTT(30)

\* An offset is at its distance from the window that holds it.
LEMMA InWindow ==
  ASSUME NEW b \in Nat, b % W = 0, NEW s \in Nat, b <= s, s < b + W
  PROVE  s % W = s - b
<1>1. W \in Nat \ {0}
  BY SizeAssumption
<1> QED BY <1>1, Remainder

LEMMA RemainderSmall ==
  ASSUME NEW o \in Nat
  PROVE  o % W \in Window /\ o % W <= o
<1>1. o % W \in Nat /\ o % W < W
  BY SizeAssumption
<1>2. CASE o < W
  <2>1. 0 % W = 0
    BY SizeAssumption, RemainderOfZero
  <2>2. 0 \in Nat /\ 0 <= o /\ o < 0 + W
    BY <1>2, SizeAssumption
  <2>3. o % W = o - 0
    BY <2>1, <2>2, InWindow
  <2> QED BY <1>1, <2>3, SizeAssumption DEF Window
<1>3. CASE o >= W
  BY <1>1, <1>3, SizeAssumption DEF Window
<1> QED BY <1>2, <1>3, SizeAssumption

LEMMA BaseOf ==
  ASSUME NEW o \in Nat
  PROVE  /\ Base(o) \in Nat /\ Base(o) % W = 0
         /\ Base(o) <= o /\ o < Base(o) + W
<1>1. o % W \in 0..W-1 /\ o % W <= o
  BY RemainderSmall DEF Window
<1>2. Base(o) \in Nat /\ Base(o) <= o /\ o < Base(o) + W
  BY <1>1, SizeAssumption DEF Base
<1>3. Base(o) % W = Base(o) - (o - (o % W))
  <2>1. W \in Nat \ {0}
    BY SizeAssumption
  <2> QED BY <2>1, <1>2, RemainderFromBase DEF Base
<1> QED BY <1>1, <1>2, <1>3 DEF Base

\* Two windows that share an offset are one.
LEMMA OneWindow ==
  ASSUME NEW b \in Nat, b % W = 0, NEW o \in Nat, b <= o, o < b + W
  PROVE  b = Base(o)
BY InWindow DEF Base

\* An offset within its window.
LEMMA Within ==
  ASSUME TypeOK
  PROVE  /\ fileOffset \in Nat /\ fileSize \in Nat /\ W \in Nat \ {0}
         /\ Base(fileOffset) \in Nat /\ Base(fileOffset) % W = 0
         /\ Base(fileOffset) <= fileOffset /\ fileOffset < Base(fileOffset) + W
         /\ fileOffset % W \in Window /\ Base(fileOffset) + (fileOffset % W) = fileOffset
<1>1. fileOffset \in Nat /\ fileSize \in Nat /\ W \in Nat \ {0}
  BY SizeAssumption DEF TypeOK
<1>2. fileOffset % W \in Window /\ fileOffset % W \in Nat
  BY <1>1, RemainderSmall DEF Window
<1>3. Base(fileOffset) + (fileOffset % W) = fileOffset
  BY <1>1, <1>2 DEF Base
<1> QED BY <1>1, <1>2, <1>3, BaseOf

-----------------------------------------------------------------------------
(* Sequences given as functions.                                           *)

LEMMA AsSequence ==
  ASSUME NEW n \in Nat, NEW S, NEW f \in [1..n -> S]
  PROVE  f \in Seq(S) /\ Len(f) = n /\ DOMAIN f = 1..n
<1>1. f \in Seq(S)
  BY SeqDef
<1> QED BY <1>1, LenProperties, SMT

LEMMA SameSequence ==
  ASSUME NEW S, NEW s \in Seq(S), NEW t \in Seq(S), Len(s) = Len(t),
         \A i \in 1..Len(s) : s[i] = t[i]
  PROVE  s = t
BY SeqEqual

-----------------------------------------------------------------------------
(* What the window and the file hold together.                             *)

\* Only the last window is not a whole one.
LEMMA WindowLength ==
  ASSUME TypeOK, NEW b \in Nat, b % W = 0, b <= fileSize
  PROVE  LengthOf(b) = IF b + W <= fileSize THEN W ELSE fileSize - b
<1>1. fileSize \in Nat
  BY DEF TypeOK
<1>2. CASE b + W <= fileSize
  BY <1>2 DEF LengthOf
<1>3. CASE fileSize < b + W
  <2>1. fileSize % W = fileSize - b
    BY <1>1, <1>3, InWindow
  <2> QED BY <2>1, <1>1, <1>3, SizeAssumption DEF LengthOf
<1> QED BY <1>1, <1>2, <1>3, SizeAssumption

LEMMA BytesType ==
  ASSUME TypeOK, Shape
  PROVE  Bytes \in Seq(Byte) /\ Len(Bytes) = fileSize
<1>1. ASSUME NEW i \in 1..fileSize
      PROVE  (IF bufferDirty /\ bufferOffset < i /\ i <= bufferOffset + W
              THEN buffer[i - 1 - bufferOffset] ELSE disk[i]) \in Byte
  <2>1. CASE bufferDirty /\ bufferOffset < i /\ i <= bufferOffset + W
    <3>1. i - 1 - bufferOffset \in Window
      BY <2>1, SizeAssumption DEF TypeOK, Window
    <3> QED BY <2>1, <3>1 DEF TypeOK
  <2>2. CASE ~(bufferDirty /\ bufferOffset < i /\ i <= bufferOffset + W)
    <3>1. i \in 1..Len(disk)
      BY <2>2, SizeAssumption DEF TypeOK, Shape, Missing, Dirty
    <3> QED BY <2>2, <3>1, ElementOfSeq DEF TypeOK
  <2> QED BY <2>1, <2>2
<1>2. fileSize \in Nat
  BY DEF TypeOK
<1>3. Bytes \in [1..fileSize -> Byte]
  BY <1>1 DEF Bytes
<1> QED BY <1>2, <1>3, AsSequence

\* Writing the window back leaves the file with what a reader sees.
LEMMA FlushedIsBytes ==
  ASSUME TypeOK, Shape, fileHandle
  PROVE  Flushed = Bytes
<1> fileSize \in Nat /\ disk \in Seq(Byte) /\ Len(disk) \in Nat /\ W \in Nat \ {0}
  BY SizeAssumption, LenProperties DEF TypeOK
<1>1. CASE bufferDirty
  <2>1. MustFlush /\ bufferOffset \in Nat /\ bufferOffset <= Len(disk) /\ bufferOffset <= fileSize
        /\ bufferOffset % W = 0
    BY <1>1 DEF Shape, Dirty, Aligned, MustFlush
  <2> DEFINE end == bufferOffset + LengthOf(bufferOffset)
  <2>2. end = IF bufferOffset + W <= fileSize THEN bufferOffset + W ELSE fileSize
    BY <2>1, WindowLength
  <2>3. (IF end > Len(disk) THEN end ELSE Len(disk)) = fileSize
    BY <2>1, <2>2 DEF Shape, Missing
  <2>4. ASSUME NEW i \in 1..fileSize
        PROVE  (IF bufferOffset < i /\ i <= end THEN buffer[i - 1 - bufferOffset]
                ELSE IF i <= Len(disk) THEN disk[i] ELSE Zero)
               = IF bufferOffset < i /\ i <= bufferOffset + W
                 THEN buffer[i - 1 - bufferOffset] ELSE disk[i]
    BY <2>1, <2>2 DEF Shape, Missing
  <2> QED BY <1>1, <2>1, <2>3, <2>4, Zenon DEF Flushed, Bytes
<1>2. CASE ~bufferDirty
  <2>1. Flushed = disk /\ Len(disk) = fileSize
    BY <1>2 DEF Flushed, MustFlush, Shape, Missing
  <2>2. \A i \in 1..fileSize : Bytes[i] = disk[i]
    BY <1>2 DEF Bytes
  <2> QED BY <2>1, <2>2, BytesType, SameSequence
<1> QED BY <1>1, <1>2 DEF TypeOK

\* Whatever window it takes, the handle reads and writes among the right bytes.
LEMMA RightWindow ==
  ASSUME TypeOK, Shape, Clean, FilesFit, fileHandle, NEW window \in Windows
  PROVE  /\ WindowOf(fileOffset) = Base(fileOffset)
         /\ window \in [Window -> Byte]
         /\ \A k \in Window : Base(fileOffset) + k < fileSize
                             => window[k] = Bytes[Base(fileOffset) + k + 1]
<1> DEFINE base == Base(fileOffset)
<1> fileSize \in Nat /\ fileOffset \in Nat /\ W \in Nat \ {0} /\ base \in Nat
    /\ base % W = 0 /\ base <= fileOffset /\ fileOffset <= fileSize
  BY SizeAssumption, BaseOf DEF TypeOK, Shape, Sizes
<1>1. WindowOf(fileOffset) = base
  BY SizeAssumption DEF WindowOf, Base, FilesFit, Shape, Sizes
<1>2. CASE Hit
  <2>1. window = buffer /\ bufferOffset = base
    BY <1>2 DEF Windows, Hit, Base
  <2>2. ASSUME NEW k \in Window, base + k < fileSize
        PROVE  buffer[k] = Bytes[base + k + 1]
    <3>1. base + k + 1 \in 1..fileSize /\ k \in Nat /\ k < W
      BY <2>2 DEF Window
    <3>2. CASE bufferDirty
      BY <2>1, <3>1, <3>2 DEF Bytes
    <3>3. CASE ~bufferDirty
      BY <2>1, <2>2, <3>1, <3>3 DEF Bytes, Clean
    <3> QED BY <3>2, <3>3
  <2> QED BY <1>1, <2>1, <2>2 DEF TypeOK
<1>3. CASE ~Hit
  <2>1. window = Loaded(base)
    BY <1>1, <1>3 DEF Windows
  <2>2. Flushed = Bytes /\ Bytes \in Seq(Byte) /\ Len(Flushed) = fileSize
    BY FlushedIsBytes, BytesType
  <2>3. LengthOf(base) = IF base + W <= fileSize THEN W ELSE fileSize - base
    BY WindowLength
  <2>4. ASSUME NEW k \in Window
        PROVE  window[k] = IF base + k < fileSize THEN Bytes[base + k + 1] ELSE buffer[k]
    <3>1. (k < LengthOf(base) /\ base + k < fileSize) <=> base + k < fileSize
      BY <2>3 DEF Window
    <3> QED BY <2>1, <2>2, <3>1 DEF Loaded
  <2>5. \A k \in Window : base + k < fileSize => Bytes[base + k + 1] \in Byte
    BY <2>2, ElementOfSeq DEF Window
  <2>6. \A k \in Window : window[k] \in Byte
    BY <2>4, <2>5 DEF TypeOK
  <2>7. window = [k \in Window |-> window[k]]
    BY <2>1 DEF Loaded
  <2>8. window \in [Window -> Byte]
    BY <2>6, <2>7, Zenon
  <2> QED BY <1>1, <2>4, <2>8
<1> QED BY <1>2, <1>3

-----------------------------------------------------------------------------
(* What a call does to the bytes.                                          *)

\* After a flush the file has everything and the window is clean.
LEMMA FlushEffect ==
  ASSUME Inv, fileHandle, BufferFlush, UNCHANGED <<fileSize, fileMode>>
  PROVE  /\ disk' = Bytes /\ Bytes' = Bytes
         /\ ~bufferDirty' /\ bufferOffset' \in {-1, bufferOffset}
         /\ bufferOffset' = -1 \/ Clean
         /\ \A k \in Window : bufferOffset' # -1 /\ bufferOffset + k < fileSize
                             => buffer'[k] = disk'[bufferOffset + k + 1]
<1>1. disk' = Bytes /\ Bytes \in Seq(Byte) /\ Len(disk') = fileSize
  BY FlushedIsBytes, BytesType DEF Inv, BufferFlush
<1>2. bufferDirty => MustFlush
  BY DEF Inv, Shape, Dirty, MustFlush, TypeOK
<1>3. ~bufferDirty' /\ bufferOffset' \in {-1, bufferOffset} /\ buffer' = buffer
  BY <1>2 DEF BufferFlush
<1>4. Bytes' = disk'
  <2>1. Bytes' = [i \in 1..fileSize |-> disk'[i]]
    BY <1>3 DEF Bytes
  <2> QED BY <1>1, <2>1, SameSequence, AsSequence, BytesType
<1>5. ASSUME NEW k \in Window, bufferOffset' # -1, bufferOffset + k < fileSize
      PROVE  buffer'[k] = disk'[bufferOffset + k + 1]
  <2>1. ~MustFlush /\ ~bufferDirty /\ disk' = disk /\ bufferOffset # -1
    BY <1>2, <1>5 DEF BufferFlush, Flushed
  <2> QED BY <1>3, <1>5, <2>1 DEF Inv, Clean
<1> QED BY <1>1, <1>3, <1>4, <1>5 DEF Inv

\* b written at offset o
Overwritten(bytes, o, b) ==
  IF o < Len(bytes) THEN [bytes EXCEPT ![o + 1] = b] ELSE Append(bytes, b)

\* What reached the file is bytes of new.
Reached(new) ==
  /\ Len(disk') >= Len(disk)
  /\ \A i \in 1..Len(disk') : \/ i <= Len(new) /\ disk'[i] = new[i]
                              \/ i <= Len(disk) /\ disk'[i] = disk[i]

\* Where the window and the file are once the window is at the offset.
LEMMA SynchronizeEffect ==
  ASSUME Inv, FilesFit, fileHandle, BufferSynchronize
  PROVE  /\ bufferOffset' = Base(fileOffset)
         /\ Hit => disk' = disk /\ bufferOffset = Base(fileOffset)
         /\ ~Hit => disk' = Bytes
         /\ disk' \in Seq(Byte) /\ Len(disk') \in Nat
<1>1. WindowOf(fileOffset) = Base(fileOffset)
  <2>1. Windows # {}
    <3>1. Zero \in Byte
      BY SizeAssumption
    <3>2. [k \in Window |-> Zero] \in [Window -> Byte]
      BY <3>1
    <3> QED BY <3>2 DEF Windows
  <2> QED BY <2>1, RightWindow DEF Inv
<1>2. CASE Hit
  BY <1>2, LenProperties DEF BufferSynchronize, Hit, Base, Inv, TypeOK
<1>3. CASE ~Hit
  BY <1>1, <1>3, FlushedIsBytes, BytesType, LenProperties DEF BufferSynchronize, Inv
<1> QED BY <1>2, <1>3

\* A read brings the window to the offset and changes no byte.
LEMMA ReadEffect ==
  ASSUME Inv, FilesFit, Read, ~(fileMode = "write" \/ fileOffset >= fileSize)
  PROVE  /\ result' = Bytes[fileOffset + 1] /\ Bytes' = Bytes
         /\ disk' = disk \/ disk' = Bytes
         /\ Inv'
<1> DEFINE base == Base(fileOffset)
<1>1. /\ fileHandle /\ goal = None /\ BufferSynchronize /\ buffer' \in Windows
      /\ bufferDirty' = (bufferDirty /\ (Hit \/ ~MustFlush))
      /\ result' = buffer'[fileOffset % W]
      /\ fileOffset' = fileOffset + 1 /\ fileOffset < fileSize
      /\ UNCHANGED <<fileHandle, fileMode, fileSize, goal>>
  BY DEF Read, Ready, Inv, TypeOK
<1>2. fileSize \in Nat /\ fileOffset \in Nat /\ W \in Nat \ {0} /\ base \in Nat /\ base % W = 0
      /\ base <= fileOffset /\ fileOffset % W \in Window /\ base + (fileOffset % W) = fileOffset
  BY Within DEF Inv
<1>3. /\ buffer' \in [Window -> Byte]
      /\ \A k \in Window : base + k < fileSize => buffer'[k] = Bytes[base + k + 1]
  BY <1>1, RightWindow DEF Inv
<1>4. Bytes \in Seq(Byte) /\ Len(Bytes) = fileSize
  BY BytesType DEF Inv
<1>5. result' = Bytes[fileOffset + 1] /\ result' \in Byte
  BY <1>1, <1>2, <1>3
<1>6. /\ bufferOffset' = base /\ disk' \in Seq(Byte)
      /\ Hit => disk' = disk /\ bufferOffset = base
      /\ ~Hit => disk' = Bytes
  BY <1>1, SynchronizeEffect
<1>7. CASE Hit
  <2>1. UNCHANGED <<disk, bufferOffset, buffer>> /\ bufferDirty' = bufferDirty
    BY <1>1, <1>6, <1>7 DEF Windows, Inv, TypeOK
  <2>2. Bytes' = Bytes
    BY <1>1, <2>1 DEF Bytes
  <2>3. Aligned' /\ Dirty' /\ Missing' /\ Clean'
    <3>1. Aligned /\ Dirty /\ Missing /\ Clean
      BY DEF Inv, Shape
    <3>2. Aligned' /\ Missing' /\ Clean'
      BY <1>1, <2>1, <3>1 DEF Aligned, Missing, Clean
    <3>3. Dirty'
      BY <1>1, <2>1, <3>1 DEF Dirty
    <3> QED BY <3>2, <3>3
  <2>4. Sizes'
    BY <1>1, <1>2 DEF Inv, Shape, Sizes
  <2>5. TypeOK'
    BY <1>1, <1>2, <1>5, <2>1 DEF Inv, TypeOK
  <2> QED BY <1>5, <1>6, <1>7, <2>2, <2>3, <2>4, <2>5 DEF Inv, Shape
<1>8. CASE ~Hit
  <2>1. ~bufferDirty'
    <3>1. bufferDirty => MustFlush
      BY DEF Inv, Shape, Dirty, MustFlush
    <3> QED BY <1>1, <1>8, <3>1, Zenon
  <2>2. disk' = Bytes /\ Len(disk') = fileSize
    BY <1>4, <1>6, <1>8
  <2>3. Bytes' = Bytes
    <3>1. Bytes' = [i \in 1..fileSize |-> disk'[i]]
      BY <1>1, <2>1 DEF Bytes
    <3> QED BY <1>2, <1>4, <2>2, <3>1, SameSequence, AsSequence
  <2>4. Aligned' /\ Dirty' /\ Missing'
    BY <1>1, <1>2, <1>6, <2>1, <2>2 DEF Aligned, Dirty, Missing
  <2>5. Clean'
    BY <1>1, <1>3, <1>6, <2>2 DEF Clean, Window
  <2>6. Sizes'
    BY <1>1, <1>2 DEF Inv, Shape, Sizes
  <2>7. bufferDirty' \in BOOLEAN
    BY <1>1
  <2>8. TypeOK'
    BY <1>1, <1>2, <1>3, <1>5, <1>6, <2>7 DEF Inv, TypeOK
  <2> QED BY <1>5, <1>6, <1>8, <2>3, <2>4, <2>5, <2>6, <2>8 DEF Inv, Shape
<1> QED BY <1>7, <1>8

\* A write changes the byte at the offset or adds one.
LEMMA PutEffect ==
  ASSUME Inv, FilesFit, fileHandle, fileMode # "read", fileOffset < MaxSize,
         NEW b \in Byte, Put(b), UNCHANGED <<fileHandle, fileMode>>
  PROVE  /\ Bytes' = Overwritten(Bytes, fileOffset, b)
         /\ Reached(Bytes')
         /\ fileOffset' = fileOffset + 1 /\ fileOffset' <= fileSize' /\ fileSize' <= MaxSize
         /\ disk' \in Seq(Byte) /\ buffer' \in [Window -> Byte] /\ bufferDirty'
         /\ fileSize' \in Nat /\ bufferOffset' \in Nat
         /\ fileSize' = IF fileOffset + 1 > fileSize THEN fileOffset + 1 ELSE fileSize
         /\ Aligned' /\ Dirty' /\ Missing' /\ Clean'
<1> DEFINE base == Base(fileOffset)
<1>1. PICK window \in Windows : buffer' = [window EXCEPT ![fileOffset % W] = b]
  BY DEF Put
<1>2. /\ BufferSynchronize /\ bufferDirty' = TRUE /\ fileOffset' = fileOffset + 1
      /\ fileSize' = IF fileOffset + 1 > fileSize THEN fileOffset + 1 ELSE fileSize
  BY DEF Put
<1>3. /\ fileSize \in Nat /\ fileOffset \in Nat /\ W \in Nat \ {0} /\ MaxSize \in Nat
      /\ base \in Nat /\ base % W = 0 /\ base <= fileOffset /\ fileOffset < base + W
      /\ fileOffset <= fileSize /\ fileSize <= MaxSize
      /\ fileOffset % W \in Window /\ base + (fileOffset % W) = fileOffset
  BY SizeAssumption, Within DEF Inv, Shape, Sizes
<1>4. /\ window \in [Window -> Byte]
      /\ \A k \in Window : base + k < fileSize => window[k] = Bytes[base + k + 1]
  BY RightWindow DEF Inv
<1>5. Bytes \in Seq(Byte) /\ Len(Bytes) = fileSize
  BY BytesType DEF Inv
<1>6. /\ bufferOffset' = base /\ disk' \in Seq(Byte) /\ Len(disk') \in Nat
      /\ Hit => disk' = disk /\ bufferOffset = base
      /\ ~Hit => disk' = Bytes
  BY <1>2, SynchronizeEffect
<1>7. disk \in Seq(Byte) /\ Len(disk) \in Nat
  BY LenProperties DEF Inv, TypeOK
<1>8. buffer' \in [Window -> Byte]
  BY <1>1, <1>4
<1>9. base <= Len(disk') /\ (Len(disk') = fileSize \/ (Len(disk') < fileSize /\ fileSize <= base + W))
  BY <1>3, <1>5, <1>6, <1>7 DEF Inv, Shape, Aligned, Dirty, Missing
\* Outside the new window the bytes are in the file.
<1>10. ASSUME NEW i \in 1..fileSize, ~(base < i /\ i <= base + W)
       PROVE  disk'[i] = Bytes[i]
  BY <1>6, <1>10 DEF Bytes
<1>11. ASSUME NEW i \in 1..fileSize'
       PROVE  Bytes'[i] = IF i = fileOffset + 1 THEN b ELSE Bytes[i]
  <2>1. Bytes'[i] = IF base < i /\ i <= base + W THEN buffer'[i - 1 - base] ELSE disk'[i]
    BY <1>2, <1>6 DEF Bytes
  <2>2. CASE base < i /\ i <= base + W
    <3>1. i - 1 - base \in Window /\ (i - 1 - base = fileOffset % W <=> i = fileOffset + 1)
      BY <1>2, <1>3, <2>2 DEF Window
    <3>2. buffer'[i - 1 - base] = IF i = fileOffset + 1 THEN b ELSE window[i - 1 - base]
      BY <1>1, <1>4, <3>1
    <3>3. i # fileOffset + 1 => window[i - 1 - base] = Bytes[i]
      BY <1>2, <1>3, <1>4, <2>2, <3>1
    <3> QED BY <2>1, <2>2, <3>2, <3>3
  <2>3. CASE ~(base < i /\ i <= base + W)
    <3>1. i # fileOffset + 1 /\ i \in 1..fileSize
      BY <1>2, <1>3, <2>3
    <3> QED BY <1>10, <2>1, <2>3, <3>1
  <2> QED BY <2>2, <2>3
<1>12. Aligned' /\ Dirty' /\ Missing' /\ Clean'
  BY <1>2, <1>3, <1>6, <1>9 DEF Aligned, Dirty, Missing, Clean
<1>13. Bytes' = Overwritten(Bytes, fileOffset, b)
  <2> DEFINE new == Overwritten(Bytes, fileOffset, b)
  <2>1. new \in Seq(Byte) /\ Len(new) = fileSize'
    BY <1>2, <1>3, <1>5 DEF Overwritten
  <2>2. \A i \in 1..fileSize' : new[i] = IF i = fileOffset + 1 THEN b ELSE Bytes[i]
    BY <1>2, <1>3, <1>5 DEF Overwritten
  <2>3. fileSize' \in Nat
    BY <1>2, <1>3
  <2>4. Bytes' \in [1..fileSize' -> Byte]
    <3>1. Bytes' = [i \in 1..fileSize' |-> Bytes'[i]]
      BY DEF Bytes
    <3>2. \A i \in 1..fileSize' : Bytes'[i] \in Byte
      BY <1>11, <2>1, <2>2, ElementOfSeq
    <3> QED BY <3>1, <3>2, Zenon
  <2>5. Bytes' \in Seq(Byte) /\ Len(Bytes') = fileSize'
    BY <2>3, <2>4, AsSequence
  <2> QED BY <1>11, <2>1, <2>2, <2>5, SameSequence
<1>14. Reached(Bytes')
  <2>1. Bytes' \in Seq(Byte) /\ Len(Bytes') = fileSize'
    BY <1>2, <1>3, <1>5, <1>13 DEF Overwritten
  <2>2. CASE Hit
    BY <1>6, <1>7, <2>2 DEF Reached
  <2>3. CASE ~Hit
    <3>1. disk' = Bytes /\ Len(disk) <= fileSize
      BY <1>3, <1>6, <2>3, SizeAssumption DEF Inv, Shape, Missing
    \* The byte that is overwritten was not in the old window.
    <3>2. ASSUME fileOffset < fileSize
          PROVE  fileOffset + 1 <= Len(disk) /\ Bytes[fileOffset + 1] = disk[fileOffset + 1]
      <4>1. ~(bufferDirty /\ bufferOffset < fileOffset + 1 /\ fileOffset + 1 <= bufferOffset + W)
        <5>1. bufferDirty => bufferOffset \in Nat /\ bufferOffset % W = 0 /\ bufferOffset # base
          BY <2>3 DEF Inv, Shape, Aligned, Dirty, Hit, Base
        <5> QED BY <1>3, <5>1, OneWindow
      <4>2. Bytes[fileOffset + 1] = disk[fileOffset + 1]
        BY <1>3, <3>2, <4>1 DEF Bytes
      <4>3. fileOffset + 1 <= Len(disk)
        BY <1>3, <1>7, <3>2, <4>1 DEF Inv, Shape, Dirty, Missing
      <4> QED BY <4>2, <4>3
    <3>3. ASSUME NEW i \in 1..Len(disk')
          PROVE  \/ i <= Len(Bytes') /\ disk'[i] = Bytes'[i]
                 \/ i <= Len(disk) /\ disk'[i] = disk[i]
      <4>1. i \in 1..fileSize /\ i \in 1..fileSize' /\ fileSize' \in Nat
        BY <1>2, <1>3, <1>5, <3>1
      <4>2. CASE i = fileOffset + 1
        BY <1>3, <3>1, <3>2, <4>1, <4>2
      <4>3. CASE i # fileOffset + 1
        BY <1>11, <2>1, <3>1, <4>1, <4>3
      <4> QED BY <4>2, <4>3
    <3> QED BY <1>5, <3>1, <3>3 DEF Reached
  <2> QED BY <2>2, <2>3
<1> QED BY <1>2, <1>3, <1>6, <1>8, <1>12, <1>13, <1>14

-----------------------------------------------------------------------------
(* Each call keeps the invariant and is a step of ByteFile.                *)

\* The position and the mode that ByteFile sees.
Position == IF goal = None THEN fileOffset ELSE goal
Mode == IF fileHandle THEN fileMode ELSE "closed"

LEMMA ReachedIsWrittenBack ==
  ASSUME NEW new, Reached(new)
  PROVE  File!WrittenBack(new)
BY DEF Reached, File!WrittenBack

\* All of the bytes may have reached the file, or none.
LEMMA AllOrNothing ==
  ASSUME Inv, disk' = disk \/ disk' = Bytes, fileHandle
  PROVE  Reached(Bytes)
<1>1. Len(disk) \in Nat /\ fileSize \in Nat /\ Len(disk) <= fileSize
  BY LenProperties, SizeAssumption DEF Inv, TypeOK, Shape, Missing
<1>2. Bytes \in Seq(Byte) /\ Len(Bytes) = fileSize
  BY BytesType DEF Inv
<1> QED BY <1>1, <1>2 DEF Reached

LEMMA OpenStep ==
  ASSUME Inv, NEW m \in Modes, Open(m)
  PROVE  Inv' /\ File!Open(m)
<1>1. /\ ~fileHandle /\ goal = None /\ ~bufferDirty
      /\ Len(disk) = fileSize /\ fileSize <= MaxSize /\ disk \in Seq(Byte)
  BY DEF Inv, Shape, Sizes, Dirty, Missing, Open, TypeOK
<1>2. /\ fileHandle' = TRUE /\ fileMode' = m /\ bufferOffset' = -1
      /\ fileOffset' = 0 /\ fileSize' = Len(disk')
      /\ UNCHANGED <<buffer, bufferDirty, goal, result>>
      /\ disk' = IF m \in {"read", "modify"} THEN disk ELSE <<>>
  BY DEF Open
<1>3. disk' \in Seq(Byte) /\ Len(disk') \in Nat /\ Len(disk') <= MaxSize
  BY <1>1, <1>2, SizeAssumption, EmptySeq, LenProperties
<1>4. TypeOK'
  <2>1. bufferDirty' \in BOOLEAN /\ fileHandle' \in BOOLEAN
    BY <1>2 DEF Inv, TypeOK
  <2> QED BY <1>2, <1>3, <2>1 DEF Inv, TypeOK
<1>5. Sizes' /\ Aligned' /\ Dirty' /\ Missing' /\ Clean'
  BY <1>1, <1>2, <1>3 DEF Sizes, Aligned, Dirty, Missing, Clean
<1>6. Contents' = disk'
  <2>1. Contents' = [i \in 1..Len(disk') |-> disk'[i]]
    BY <1>1, <1>2 DEF Contents, Bytes
  <2>2. \A i \in 1..Len(disk') : disk'[i] \in Byte
    BY <1>3, ElementOfSeq
  <2>3. Contents' \in Seq(Byte) /\ Len(Contents') = Len(disk')
    BY <1>3, <2>1, <2>2, AsSequence
  <2> QED BY <1>3, <2>1, <2>3, SameSequence
<1>7. File!Open(m)
  BY <1>1, <1>2, <1>6 DEF File!Open
<1> QED BY <1>4, <1>5, <1>7 DEF Inv, Shape

\* Flushing as a part of another call.
LEMMA FlushKeeps ==
  ASSUME Inv, fileHandle, BufferFlush, UNCHANGED <<fileSize, fileMode>>
  PROVE  /\ Aligned' /\ Dirty' /\ Missing' /\ Clean'
         /\ disk' = Bytes /\ Bytes' = Bytes /\ disk' \in Seq(Byte)
         /\ UNCHANGED buffer /\ bufferOffset' \in Int /\ bufferDirty' \in BOOLEAN
<1>1. Bytes \in Seq(Byte) /\ Len(Bytes) = fileSize
  BY BytesType DEF Inv
<1>2. /\ disk' = Bytes /\ Bytes' = Bytes
      /\ ~bufferDirty' /\ bufferOffset' \in {-1, bufferOffset}
      /\ \A k \in Window : bufferOffset' # -1 /\ bufferOffset + k < fileSize
                          => buffer'[k] = disk'[bufferOffset + k + 1]
  BY FlushEffect
<1>3. bufferDirty' \in BOOLEAN /\ buffer' = buffer
  BY DEF BufferFlush
<1>4. Aligned'
  BY <1>2 DEF Aligned, Inv, Shape
<1>5. Dirty' /\ Missing'
  BY <1>1, <1>2 DEF Dirty, Missing
<1>6. Clean'
  BY <1>2 DEF Clean, Window
<1> QED BY <1>1, <1>2, <1>3, <1>4, <1>5, <1>6 DEF Inv, TypeOK

LEMMA CloseStep ==
  ASSUME Inv, Close
  PROVE  Inv' /\ File!Close
<1>1. /\ fileHandle /\ goal = None /\ BufferFlush /\ ~fileHandle'
      /\ UNCHANGED <<fileMode, fileOffset, fileSize, goal, result>>
  BY DEF Close, Ready
<1>2. /\ Aligned' /\ Missing' /\ Clean' /\ ~bufferDirty'
      /\ disk' = Bytes /\ Bytes' = Bytes /\ disk' \in Seq(Byte)
      /\ UNCHANGED buffer /\ bufferOffset' \in Int /\ bufferDirty' \in BOOLEAN
  BY <1>1, FlushKeeps, FlushEffect
<1>3. Sizes' /\ Dirty'
  BY <1>1, <1>2 DEF Inv, Shape, Sizes, Dirty
<1>4. fileHandle' \in BOOLEAN
  BY DEF Close
<1>5. TypeOK'
  BY <1>1, <1>2, <1>4 DEF Inv, TypeOK
<1>6. File!Close
  <2>1. Contents = Bytes /\ Contents' = Bytes'
    BY <1>1 DEF Contents
  <2>2. fileMode # "closed"
    BY DEF Inv, TypeOK, Modes
  <2> QED BY <1>1, <1>2, <2>1, <2>2 DEF File!Close
<1> QED BY <1>2, <1>3, <1>5, <1>6 DEF Inv, Shape

LEMMA FlushStep ==
  ASSUME Inv, Flush
  PROVE  Inv' /\ File!Flush
<1>1. /\ fileHandle /\ goal = None /\ BufferFlush
      /\ UNCHANGED <<fileHandle, fileMode, fileOffset, fileSize, goal, result>>
  BY DEF Flush, Ready
<1>2. /\ Aligned' /\ Dirty' /\ Missing' /\ Clean'
      /\ disk' = Bytes /\ Bytes' = Bytes /\ disk' \in Seq(Byte)
      /\ UNCHANGED buffer /\ bufferOffset' \in Int /\ bufferDirty' \in BOOLEAN
  BY <1>1, FlushKeeps
<1>3. Sizes'
  BY <1>1 DEF Inv, Shape, Sizes
<1>4. fileHandle' \in BOOLEAN
  BY <1>1 DEF Inv, TypeOK
<1>5. TypeOK'
  BY <1>1, <1>2, <1>4 DEF Inv, TypeOK
<1>6. File!Flush
  <2>1. Contents = Bytes /\ Contents' = Bytes'
    BY <1>1 DEF Contents
  <2>2. fileMode # "closed"
    BY DEF Inv, TypeOK, Modes
  <2> QED BY <1>1, <1>2, <2>1, <2>2 DEF File!Flush
<1> QED BY <1>2, <1>3, <1>5, <1>6 DEF Inv, Shape

LEMMA ReadStep ==
  ASSUME Inv, FilesFit, Read
  PROVE  Inv' /\ File!Read
<1>1. /\ fileHandle /\ goal = None /\ UNCHANGED <<fileHandle, fileMode, fileSize, goal>>
      /\ Contents = Bytes /\ Contents' = Bytes'
  BY DEF Read, Ready, Contents
<1>2. fileMode # "closed" /\ Bytes \in Seq(Byte) /\ Len(Bytes) = fileSize /\ fileSize \in Nat
      /\ fileOffset \in Nat
  BY BytesType DEF Inv, TypeOK, Modes
<1>3. CASE fileMode = "write" \/ fileOffset >= fileSize
  <2>1. result' = Zero /\ UNCHANGED <<disk, buffer, bufferOffset, bufferDirty, fileOffset>>
    BY <1>3 DEF Read, bufferVars
  <2>2. Bytes' = Bytes
    BY <1>1, <2>1 DEF Bytes
  <2>3. TypeOK'
    <3>1. fileHandle' \in BOOLEAN /\ bufferDirty' \in BOOLEAN
      BY <1>1, <2>1 DEF Inv, TypeOK
    <3> QED BY <1>1, <2>1, <3>1, SizeAssumption DEF Inv, TypeOK
  <2>4. Sizes' /\ Aligned' /\ Missing'
    BY <1>1, <2>1 DEF Inv, Shape, Sizes, Aligned, Missing
  <2>5. Dirty' /\ Clean'
    BY <1>1, <2>1 DEF Inv, Shape, Dirty, Clean
  <2>6. File!Read
    BY <1>1, <1>2, <1>3, <2>1, <2>2 DEF File!Read
  <2> QED BY <2>3, <2>4, <2>5, <2>6 DEF Inv, Shape
<1>4. CASE ~(fileMode = "write" \/ fileOffset >= fileSize)
  <2>1. /\ result' = Bytes[fileOffset + 1] /\ Bytes' = Bytes
        /\ disk' = disk \/ disk' = Bytes
        /\ Inv'
    BY <1>4, ReadEffect
  <2>2. fileOffset' = fileOffset + 1
    BY <1>4 DEF Read
  <2>3. File!WrittenBack(Bytes)
    BY <1>1, <2>1, AllOrNothing, ReachedIsWrittenBack
  <2>4. File!Read
    BY <1>1, <1>2, <1>4, <2>1, <2>2, <2>3 DEF File!Read
  <2> QED BY <2>1, <2>4
<1> QED BY <1>3, <1>4

LEMMA WriteStep ==
  ASSUME Inv, FilesFit, NEW b \in Byte, Write(b)
  PROVE  Inv' /\ File!Write(b)
<1>1. /\ fileHandle /\ goal = None /\ fileMode # "read" /\ fileOffset < MaxSize /\ Put(b)
      /\ UNCHANGED <<fileHandle, fileMode, goal, result>>
      /\ Contents = Bytes /\ Contents' = Bytes'
  BY DEF Write, Ready, Contents
<1>2. /\ Bytes' = Overwritten(Bytes, fileOffset, b)
      /\ Reached(Bytes')
      /\ fileOffset' = fileOffset + 1 /\ fileOffset' <= fileSize' /\ fileSize' <= MaxSize
      /\ disk' \in Seq(Byte) /\ buffer' \in [Window -> Byte] /\ bufferDirty'
      /\ fileSize' \in Nat /\ bufferOffset' \in Nat
      /\ Aligned' /\ Dirty' /\ Missing' /\ Clean'
  BY <1>1, PutEffect
<1>3. bufferDirty' \in BOOLEAN /\ fileHandle' \in BOOLEAN
  BY <1>1 DEF Put, Inv, TypeOK
<1>4. TypeOK'
  BY <1>1, <1>2, <1>3 DEF Inv, TypeOK
<1>5. Sizes'
  BY <1>1, <1>2 DEF Sizes
<1>6. fileMode # "closed"
  BY DEF Inv, TypeOK, Modes
<1>7. File!WrittenBack(Bytes')
  BY <1>2, ReachedIsWrittenBack
<1>8. File!Write(b)
  BY <1>1, <1>2, <1>6, <1>7 DEF File!Write, Overwritten
<1> QED BY <1>2, <1>4, <1>5, <1>8 DEF Inv, Shape

LEMMA SeekStep ==
  ASSUME Inv, NEW offset \in -1..MaxSize, Seek(offset)
  PROVE  Inv' /\ Target(offset) \in 0..MaxSize /\ File!Seek(Target(offset))
<1> DEFINE o == Target(offset)
<1>1. /\ fileHandle /\ goal = None /\ BufferFlush
      /\ UNCHANGED <<fileHandle, fileMode, fileSize, result>>
      /\ fileOffset' = IF o <= fileSize THEN o ELSE fileSize
      /\ goal' = IF o <= fileSize \/ fileMode = "read" THEN None ELSE o
  BY DEF Seek, Ready
<1>2. /\ Aligned' /\ Dirty' /\ Missing' /\ Clean'
      /\ disk' = Bytes /\ Bytes' = Bytes /\ disk' \in Seq(Byte)
      /\ UNCHANGED buffer /\ bufferOffset' \in Int /\ bufferDirty' \in BOOLEAN
  BY <1>1, FlushKeeps
<1>3. o \in Nat /\ o <= MaxSize /\ fileSize \in Nat /\ MaxSize \in Nat /\ fileSize <= MaxSize
      /\ None \notin Nat
  BY SizeAssumption DEF Inv, TypeOK, Shape, Sizes, Target
<1> HIDE DEF o
<1>4. Sizes'
  BY <1>1, <1>3 DEF Sizes
<1>5. fileHandle' \in BOOLEAN
  BY <1>1 DEF Inv, TypeOK
<1>6. goal' \in Nat \cup {None} /\ fileOffset' \in Nat
  BY <1>1, <1>3
<1>7. TypeOK'
  BY <1>1, <1>2, <1>5, <1>6 DEF Inv, TypeOK
<1>8. File!Seek(o)
  <2>1. Contents = Bytes /\ Bytes \in Seq(Byte) /\ Len(Bytes) = fileSize
    BY <1>1, BytesType DEF Contents, Inv
  <2>2. fileMode # "closed"
    BY DEF Inv, TypeOK, Modes
  <2>3. File!WrittenBack(Bytes)
    BY <1>1, <1>2, AllOrNothing, ReachedIsWrittenBack
  <2>4. CASE o <= fileSize
    BY <1>1, <1>2, <1>3, <2>1, <2>2, <2>3, <2>4 DEF File!Seek, Contents
  <2>5. CASE o > fileSize /\ fileMode = "read"
    BY <1>1, <1>2, <1>3, <2>1, <2>2, <2>3, <2>5 DEF File!Seek, Contents
  <2>6. CASE o > fileSize /\ fileMode # "read"
    <3>1. goal' = o /\ goal' # None
      BY <1>1, <1>3, <2>6
    <3>2. Contents' = [i \in 1..o |-> IF i <= Len(Contents) THEN Contents[i] ELSE Zero]
      BY <1>1, <1>2, <2>1, <3>1 DEF Contents
    <3> QED BY <1>1, <1>2, <1>3, <2>1, <2>2, <2>3, <2>6, <3>1, <3>2 DEF File!Seek
  <2> QED BY <1>3, <2>4, <2>5, <2>6
<1>9. o \in 0..MaxSize
  BY <1>3
<1> QED BY <1>2, <1>4, <1>7, <1>8, <1>9 DEF Inv, Shape, o

\* A byte of padding changes nothing for the abstract file, which has it already.
LEMMA PadStep ==
  ASSUME Inv, FilesFit, Pad
  PROVE  Inv' /\ File!WriteBack
<1>1. /\ goal # None /\ fileHandle /\ fileMode # "read" /\ fileOffset = fileSize
      /\ fileSize <= goal /\ goal <= MaxSize /\ goal \in Nat /\ fileSize \in Nat
      /\ UNCHANGED <<fileHandle, fileMode, result>> /\ MaxSize \in Nat /\ None \notin Nat
  BY SizeAssumption DEF Pad, Inv, TypeOK, Shape, Sizes
<1>2. Bytes \in Seq(Byte) /\ Len(Bytes) = fileSize /\ fileMode # "closed"
  BY BytesType DEF Inv, TypeOK, Modes
<1>3. fileHandle' \in BOOLEAN
  BY <1>1 DEF Inv, TypeOK
<1>4. CASE fileSize < goal
  <2>1. Put(Zero) /\ goal' = goal /\ Zero \in Byte /\ fileOffset < MaxSize
    BY <1>1, <1>4, SizeAssumption DEF Pad
  <2>2. /\ Bytes' = Overwritten(Bytes, fileOffset, Zero)
        /\ Reached(Bytes')
        /\ fileOffset' = fileOffset + 1 /\ fileSize' = fileOffset + 1
        /\ disk' \in Seq(Byte) /\ buffer' \in [Window -> Byte]
        /\ fileSize' \in Nat /\ bufferOffset' \in Nat
        /\ Aligned' /\ Dirty' /\ Missing' /\ Clean'
    BY <1>1, <2>1, PutEffect
  <2>3. bufferDirty' \in BOOLEAN
    BY <2>1 DEF Put
  <2>4. TypeOK'
    BY <1>1, <1>3, <2>1, <2>2, <2>3 DEF Inv, TypeOK
  <2>5. Sizes'
    BY <1>1, <1>4, <2>1, <2>2 DEF Sizes
  <2>6. Bytes' = Append(Bytes, Zero)
    BY <1>1, <1>2, <2>2 DEF Overwritten
  <2>7. /\ Contents = [i \in 1..goal |-> IF i <= fileSize THEN Bytes[i] ELSE Zero]
        /\ Contents' = [i \in 1..goal |-> IF i <= fileSize' THEN Bytes'[i] ELSE Zero]
    BY <1>1, <2>1 DEF Contents
  <2>8. ASSUME NEW i \in 1..goal
        PROVE  (IF i <= fileSize' THEN Bytes'[i] ELSE Zero) = IF i <= fileSize THEN Bytes[i] ELSE Zero
    BY <1>1, <1>2, <2>2, <2>6
  <2>9. Contents' = Contents
    BY <2>7, <2>8, Zenon
  <2>10. \A i \in 1..Len(Bytes') : Bytes'[i] = Contents[i] /\ i <= Len(Contents)
    <3>1. Len(Bytes') = fileSize + 1 /\ fileSize + 1 <= goal /\ Len(Contents) = goal
      <4>1. \A i \in 1..goal : Contents[i] \in Byte
        BY <1>1, <1>2, <2>1, <2>7, ElementOfSeq
      <4>2. Contents \in [1..goal -> Byte]
        BY <2>7, <4>1, Zenon
      <4> QED BY <1>1, <1>2, <1>4, <2>6, <4>2, AsSequence
    <3>2. \A i \in 1..goal : i <= fileSize' => Contents[i] = Bytes'[i]
      BY <2>7, <2>9
    <3> QED BY <1>1, <1>4, <2>2, <3>1, <3>2
  <2>11. Reached(Contents)
    <3>1. Bytes' \in Seq(Byte) /\ Len(Bytes') \in Nat
      BY <1>2, <2>1, <2>6
    <3>2. Len(disk') \in Nat
      BY <2>2, LenProperties
    <3>3. ASSUME NEW i \in 1..Len(disk')
          PROVE  \/ i <= Len(Contents) /\ disk'[i] = Contents[i]
                 \/ i <= Len(disk) /\ disk'[i] = disk[i]
      BY <2>2, <2>10, <3>1, <3>2 DEF Reached
    <3> QED BY <2>2, <3>3 DEF Reached
  <2>12. File!WriteBack
    <3>1. File!WrittenBack(Contents)
      BY <2>11, ReachedIsWrittenBack
    <3> QED BY <1>1, <1>2, <2>1, <2>9, <3>1 DEF File!WriteBack
  <2> QED BY <2>2, <2>4, <2>5, <2>12 DEF Inv, Shape
<1>5. CASE ~(fileSize < goal)
  <2>1. /\ goal' = None /\ fileOffset' = goal /\ goal = fileSize
        /\ UNCHANGED <<disk, buffer, bufferOffset, bufferDirty, fileSize>>
    BY <1>1, <1>5 DEF Pad, bufferVars
  <2>2. Bytes' = Bytes
    BY <2>1 DEF Bytes
  <2>3. TypeOK'
    <3>1. bufferDirty' \in BOOLEAN
      BY <2>1 DEF Inv, TypeOK
    <3> QED BY <1>1, <1>3, <2>1, <3>1 DEF Inv, TypeOK
  <2>4. Sizes' /\ Aligned' /\ Missing'
    BY <1>1, <2>1 DEF Inv, Shape, Sizes, Aligned, Missing
  <2>5. Dirty' /\ Clean'
    BY <1>1, <2>1 DEF Inv, Shape, Dirty, Clean
  <2>6. Contents = Bytes /\ Contents' = Bytes
    <3>1. Contents = [i \in 1..fileSize |-> IF i <= fileSize THEN Bytes[i] ELSE Zero]
      BY <1>1, <2>1 DEF Contents
    <3>2. \A i \in 1..fileSize : (IF i <= fileSize THEN Bytes[i] ELSE Zero) = Bytes[i]
      BY <1>1
    <3>3. Contents \in Seq(Byte) /\ Len(Contents) = fileSize
      BY <1>1, <1>2, <3>1, <3>2, ElementOfSeq, AsSequence
    <3>4. Contents = Bytes
      BY <1>2, <3>1, <3>2, <3>3, SameSequence
    <3>5. Contents' = Bytes'
      BY <2>1 DEF Contents
    <3> QED BY <2>2, <3>4, <3>5
  <2>7. File!WriteBack
    <3>1. File!WrittenBack(Bytes)
      BY <1>1, <2>1, AllOrNothing, ReachedIsWrittenBack
    <3> QED BY <1>1, <1>2, <2>1, <2>6, <3>1 DEF File!WriteBack
  <2> QED BY <2>3, <2>4, <2>5, <2>7 DEF Inv, Shape
<1> QED BY <1>4, <1>5

LEMMA InitOK ==
  ASSUME Init
  PROVE  Inv /\ File!Init
<1>1. disk = <<>> /\ Len(disk) = 0 /\ disk \in Seq(Byte)
  BY EmptySeq DEF Init
<1>2. buffer \in [Window -> Byte]
  BY SizeAssumption DEF Init
<1>3. fileHandle \in BOOLEAN /\ bufferDirty \in BOOLEAN
  BY DEF Init
<1>4. TypeOK
  BY <1>1, <1>2, <1>3, SizeAssumption DEF Init, TypeOK, Modes
<1>5. Shape
  BY <1>1, SizeAssumption DEF Init, Shape, Sizes, Aligned, Dirty, Missing
<1>6. Clean
  BY DEF Init, Clean
<1>7. Contents = <<>>
  <2>1. Contents = [i \in 1..0 |-> IF bufferDirty /\ bufferOffset < i /\ i <= bufferOffset + W
                                  THEN buffer[i - 1 - bufferOffset] ELSE disk[i]]
    BY DEF Init, Contents, Bytes
  <2>2. Contents \in Seq(Byte) /\ Len(Contents) = 0
    BY <2>1, AsSequence
  <2> QED BY <1>1, <2>2, SameSequence
<1> QED BY <1>1, <1>4, <1>5, <1>6, <1>7 DEF Init, File!Init, Inv

LEMMA NextOK ==
  ASSUME Inv, FilesFit, [Next]_vars
  PROVE  Inv' /\ [File!Next]_(File!vars)
<1>1. ASSUME NEW m \in Modes, Open(m) PROVE Inv' /\ File!Next
  BY <1>1, OpenStep DEF File!Next, Modes, File!Modes
<1>2. ASSUME Close PROVE Inv' /\ File!Next
  BY <1>2, CloseStep DEF File!Next
<1>3. ASSUME Flush PROVE Inv' /\ File!Next
  BY <1>3, FlushStep DEF File!Next
<1>4. ASSUME Read PROVE Inv' /\ File!Next
  BY <1>4, ReadStep DEF File!Next
<1>5. ASSUME NEW b \in Byte, Write(b) PROVE Inv' /\ File!Next
  BY <1>5, WriteStep DEF File!Next
<1>6. ASSUME NEW offset \in -1..MaxSize, Seek(offset) PROVE Inv' /\ File!Next
  BY <1>6, SeekStep DEF File!Next
<1>7. ASSUME Pad PROVE Inv' /\ File!Next
  BY <1>7, PadStep DEF File!Next
<1>8. ASSUME UNCHANGED vars PROVE Inv' /\ UNCHANGED File!vars
  <2>1. UNCHANGED <<disk, fileHandle, fileMode, fileOffset, fileSize, buffer, bufferOffset,
                    bufferDirty, goal, result>>
    BY <1>8 DEF vars, bufferVars
  <2>2. TypeOK'
    BY <2>1 DEF Inv, TypeOK
  <2>3. Sizes' /\ Aligned' /\ Missing'
    BY <2>1 DEF Inv, Shape, Sizes, Aligned, Missing
  <2>4. Dirty' /\ Clean'
    BY <2>1 DEF Inv, Shape, Dirty, Clean
  <2>5. UNCHANGED File!vars
    BY <2>1 DEF File!vars, Contents, Bytes
  <2> QED BY <2>2, <2>3, <2>4, <2>5 DEF Inv, Shape
<1> QED BY <1>1, <1>2, <1>3, <1>4, <1>5, <1>6, <1>7, <1>8 DEF Next

-----------------------------------------------------------------------------

THEOREM Invariant ==
  ASSUME FilesFit
  PROVE  Spec => []Inv
<1>1. Init => Inv
  BY InitOK
<1>2. Inv /\ [Next]_vars => Inv'
  BY NextOK
<1> QED BY <1>1, <1>2, PTL DEF Spec

\* The handle's fields keep their types.
THEOREM TypeCorrect ==
  ASSUME FilesFit
  PROVE  Spec => []TypeOK
<1>1. Inv => TypeOK
  BY DEF Inv
<1> QED BY <1>1, Invariant, PTL

\* bufferSynchronize: a window that was not written to is what the file holds.
THEOREM WindowIsClean ==
  ASSUME FilesFit
  PROVE  Spec => []CleanWindow
<1>1. Inv => CleanWindow
  BY SizeAssumption DEF Inv, TypeOK, Shape, Clean, Missing, CleanWindow, Window
<1> QED BY <1>1, Invariant, PTL

\* fileSize runs ahead of the file by what is in the window, and by no more.
THEOREM SizeIsAccountedFor ==
  ASSUME FilesFit
  PROVE  Spec => []OnlyWindowMissing
<1>1. Inv => OnlyWindowMissing
  BY DEF Inv, TypeOK, Shape, Missing, Dirty, OnlyWindowMissing
<1> QED BY <1>1, Invariant, PTL

\* read(), write(), seek(), flush() and close() through the window do to the bytes
\* what they would do to a file without one.
THEOREM Refinement ==
  ASSUME FilesFit
  PROVE  Spec => IsByteFile
<1>1. Init => File!Init
  BY InitOK
<1>2. Inv /\ [Next]_vars => [File!Next]_(File!vars)
  BY NextOK
<1> QED BY <1>1, <1>2, Invariant, PTL DEF Spec, IsByteFile, File!Spec

-----------------------------------------------------------------------------
(* Shared pointers.                                                        *)

\* A call that waits for the old target's deletion to assign its source.
Calls == [to : Strong, from : Handles, op : {"copy"}]
           \cup [to : Strong, from : Strong, op : {"move"}]

\* Objects own objects of higher ranks.
RanksRise == \A h \in Strong : MayOwn(h, target[h])

\* An object under deletion is held by one handle, the one that deletes it; the members
\* that are gone hold nothing, or delete what they held.
Deletions ==
  \A o \in Objects : by[o] # Null =>
    /\ target[by[o]] = o /\ strong[o] = 1
    /\ left[o] \subseteq Members(o)
    /\ \A h \in Members(o) \ left[o] : target[h] = Null \/ \E p \in Objects : by[p] = h

HandlesInv ==
  PointerTypeOK /\ Counted /\ ManagerOutlivesHandles /\ ObjectsAreOwned /\ RanksRise /\ Deletions

\* What an assignment relies on when it goes on after the deletion of the old target:
\* nothing was assigned to it, its source is as it was, and what it is a member of exists.
CallGoesOn ==
  call # Null =>
    /\ call \in Calls
    /\ call.from # call.to /\ Owner[call.from] = Null /\ MayOwn(call.to, target[call.from])
    /\ target[call.to] = Null \/ \E o \in Objects : by[o] = call.to
    /\ \A o \in Objects : by[o] # call.from
    /\ Owner[call.to] # Null =>
         /\ Owner[call.to] \in pointers
         /\ \A o \in Objects : by[o] # Null => Rank[Owner[call.to]] < Rank[o]

PointerInv == HandlesInv /\ CallGoesOn

-----------------------------------------------------------------------------
(* Counting handles.                                                       *)

LEMMA UpDown ==
  ASSUME NEW n \in 0..Width-1
  PROVE  /\ n + 1 < Width => Up(n) = n + 1
         /\ n > 0 => Down(n) = n - 1
<1>1. Width \in Nat /\ Width > 0
  BY HandleAssumption
<1>2. ASSUME n + 1 < Width PROVE (n + 1) % Width = n + 1
  BY <1>1, <1>2
<1>3. ASSUME n > 0 PROVE (n + Width - 1) % Width = n - 1
  BY <1>1, <1>3
<1> QED BY <1>2, <1>3 DEF Up, Down

LEMMA HandleSets ==
  ASSUME NEW S \in SUBSET Handles
  PROVE  /\ IsFiniteSet(S) /\ Cardinality(S) \in 0..Width-1
         /\ Cardinality(S) = 0 <=> S = {}
<1>1. /\ IsFiniteSet(S) /\ Cardinality(S) <= Cardinality(Handles)
      /\ Cardinality(S) \in Nat /\ Cardinality(Handles) \in Nat
  BY HandleAssumption, FS_Subset, FS_CardinalityType
<1>2. Cardinality(S) = 0 <=> S = {}
  BY <1>1, FS_EmptySet
<1> QED BY <1>1, <1>2, HandleAssumption

LEMMA OneMore ==
  ASSUME NEW S \in SUBSET Handles, NEW h \in Handles \ S
  PROVE  Cardinality(S \cup {h}) = Cardinality(S) + 1 /\ Cardinality(S) + 1 < Width
<1>1. Cardinality(S \cup {h}) = Cardinality(S) + 1
  BY HandleSets, FS_AddElement
<1>2. S \cup {h} \in SUBSET Handles
  OBVIOUS
<1>3. Cardinality(S \cup {h}) \in 0..Width-1
  BY <1>2, HandleSets
<1> QED BY <1>1, <1>3, HandleAssumption

LEMMA OneLess ==
  ASSUME NEW S \in SUBSET Handles, NEW h \in S
  PROVE  Cardinality(S \ {h}) = Cardinality(S) - 1 /\ Cardinality(S) > 0
<1>1. Cardinality(S \ {h}) = Cardinality(S) - 1
  BY HandleSets, FS_RemoveElement
<1> QED BY <1>1, HandleSets

LEMMA OnlyOne ==
  ASSUME NEW S \in SUBSET Handles, Cardinality(S) = 1, NEW g \in S, NEW h \in S
  PROVE  g = h
<1>1. Cardinality(S \ {h}) = 0
  BY OneLess
<1>2. S \ {h} \in SUBSET Handles
  OBVIOUS
<1>3. S \ {h} = {}
  BY <1>1, <1>2, HandleSets
<1> QED BY <1>3

LEMMA OfAreHandles ==
  ASSUME NEW o
  PROVE  StrongOf(o) \in SUBSET Handles /\ WeakOf(o) \in SUBSET Handles
BY DEF StrongOf, WeakOf, Handles

\* What a handle refers to, and its counts.
LEMMA TargetProps ==
  ASSUME HandlesInv, NEW h \in Handles, target[h] # Null
  PROVE  /\ target[h] \in Objects /\ target[h] \in managers
         /\ strong[target[h]] = Cardinality(StrongOf(target[h]))
         /\ weak[target[h]] = Cardinality(WeakOf(target[h]))
         /\ h \in Strong => /\ target[h] \in pointers /\ strong[target[h]] > 0 /\ Holds(h)
                            /\ h \in StrongOf(target[h])
         /\ h \in Weak => weak[target[h]] > 0 /\ h \in WeakOf(target[h])
<1> DEFINE m == target[h]
<1>1. /\ m \in Objects /\ m \in managers
      /\ strong[m] = Cardinality(StrongOf(m)) /\ weak[m] = Cardinality(WeakOf(m))
  BY DEF HandlesInv, PointerTypeOK, Counted, ManagerOutlivesHandles
<1>2. ASSUME h \in Strong PROVE m \in pointers /\ strong[m] > 0 /\ Holds(h) /\ h \in StrongOf(m)
  <2>1. h \in StrongOf(m)
    BY <1>2 DEF StrongOf
  <2>2. m \in pointers
    BY <1>1, <2>1 DEF HandlesInv, ObjectsAreOwned
  <2>3. Cardinality(StrongOf(m)) > 0
    BY <2>1, OneLess, OfAreHandles
  <2> QED BY <1>1, <2>1, <2>2, <2>3 DEF Holds
<1>3. ASSUME h \in Weak PROVE weak[m] > 0 /\ h \in WeakOf(m)
  <2>1. h \in WeakOf(m)
    BY <1>3 DEF WeakOf
  <2>2. Cardinality(WeakOf(m)) > 0
    BY <2>1, OneLess, OfAreHandles
  <2> QED BY <1>1, <2>1, <2>2
<1> QED BY <1>1, <1>2, <1>3

\* The object under deletion has no other strong handle.
LEMMA DeletedByOne ==
  ASSUME HandlesInv, NEW o \in Objects, by[o] # Null
  PROVE  /\ by[o] \in Strong /\ target[by[o]] = o /\ o \in pointers /\ o \in managers
         /\ StrongOf(o) = {by[o]}
<1>1. by[o] \in Strong /\ target[by[o]] = o /\ strong[o] = 1 /\ o # Null
  BY HandleAssumption DEF HandlesInv, PointerTypeOK, Deletions
<1>2. o \in pointers /\ o \in managers /\ strong[o] = Cardinality(StrongOf(o))
      /\ by[o] \in StrongOf(o)
  BY <1>1, TargetProps DEF Handles
<1>3. \A g \in StrongOf(o) : g = by[o]
  BY <1>1, <1>2, OnlyOne, OfAreHandles
<1> QED BY <1>1, <1>2, <1>3

-----------------------------------------------------------------------------
(* Letting go.                                                             *)

\* A handle that lets go of its target takes its count along, and the manager if it
\* was the last.
LEMMA LetGo ==
  ASSUME HandlesInv, NEW h \in Handles, NEW m \in Objects, target[h] = m,
         target' = [target EXCEPT ![h] = Null],
         strong' = IF h \in Strong THEN [strong EXCEPT ![m] = Down(@)] ELSE strong,
         weak' = IF h \in Weak THEN [weak EXCEPT ![m] = Down(@)] ELSE weak,
         managers' = IF strong'[m] = 0 /\ weak'[m] = 0 THEN managers \ {m} ELSE managers
  PROVE  /\ target' \in [Handles -> Objects \cup {Null}] /\ managers' \subseteq Objects
         /\ strong' \in [Objects -> 0..Width-1] /\ weak' \in [Objects -> 0..Width-1]
         /\ Counted' /\ ManagerOutlivesHandles'
         /\ \A o \in managers' : StrongOf(o)' \cup WeakOf(o)' # {}
         /\ \A o \in Objects : StrongOf(o)' = StrongOf(o) \ {h} /\ WeakOf(o)' = WeakOf(o) \ {h}
         /\ \A o \in Objects \ {m} : strong'[o] = strong[o]
<1>1. /\ target \in [Handles -> Objects \cup {Null}] /\ managers \subseteq Objects
      /\ strong \in [Objects -> 0..Width-1] /\ weak \in [Objects -> 0..Width-1]
      /\ m # Null /\ Strong \cap Weak = {}
  BY HandleAssumption DEF HandlesInv, PointerTypeOK
<1>2. /\ m \in managers /\ strong[m] = Cardinality(StrongOf(m)) /\ weak[m] = Cardinality(WeakOf(m))
      /\ h \in Strong => strong[m] > 0 /\ h \in StrongOf(m)
      /\ h \in Weak => weak[m] > 0 /\ h \in WeakOf(m)
  BY <1>1, TargetProps
<1>3. target' \in [Handles -> Objects \cup {Null}] /\ managers' \subseteq Objects
  BY <1>1
<1>4. \A o \in Objects : StrongOf(o)' = StrongOf(o) \ {h} /\ WeakOf(o)' = WeakOf(o) \ {h}
  BY <1>1, HandleAssumption DEF StrongOf, WeakOf, Handles
<1>5. \A o \in Objects \ {m} : StrongOf(o)' = StrongOf(o) /\ WeakOf(o)' = WeakOf(o)
  BY <1>1, <1>4 DEF StrongOf, WeakOf
<1>6. /\ strong' \in [Objects -> 0..Width-1] /\ strong'[m] = Cardinality(StrongOf(m)')
      /\ \A o \in Objects \ {m} : strong'[o] = strong[o]
  <2>1. CASE h \in Strong
    <3>3. strong[m] \in 0..Width-1 /\ strong[m] > 0
      BY <1>1, <1>2, <2>1
    <3>4. Down(strong[m]) = strong[m] - 1
      BY <3>3, UpDown
    <3>1. strong' = [strong EXCEPT ![m] = strong[m] - 1] /\ strong[m] - 1 \in 0..Width-1
      BY <2>1, <3>3, <3>4, HandleAssumption
    <3>2. Cardinality(StrongOf(m)') = strong[m] - 1
      BY <1>2, <1>4, <2>1, OneLess, OfAreHandles
    <3> QED BY <1>1, <3>1, <3>2
  <2>2. CASE h \notin Strong
    <3>1. StrongOf(m)' = StrongOf(m)
      BY <1>4, <2>2 DEF StrongOf
    <3> QED BY <1>1, <1>2, <2>2, <3>1
  <2> QED BY <2>1, <2>2
<1>7. /\ weak' \in [Objects -> 0..Width-1] /\ weak'[m] = Cardinality(WeakOf(m)')
      /\ \A o \in Objects \ {m} : weak'[o] = weak[o]
  <2>1. CASE h \in Weak
    <3>3. weak[m] \in 0..Width-1 /\ weak[m] > 0
      BY <1>1, <1>2, <2>1
    <3>4. Down(weak[m]) = weak[m] - 1
      BY <3>3, UpDown
    <3>1. weak' = [weak EXCEPT ![m] = weak[m] - 1] /\ weak[m] - 1 \in 0..Width-1
      BY <2>1, <3>3, <3>4, HandleAssumption
    <3>2. Cardinality(WeakOf(m)') = weak[m] - 1
      BY <1>2, <1>4, <2>1, OneLess, OfAreHandles
    <3> QED BY <1>1, <3>1, <3>2
  <2>2. CASE h \notin Weak
    <3>1. WeakOf(m)' = WeakOf(m)
      BY <1>4, <2>2 DEF WeakOf
    <3> QED BY <1>1, <1>2, <2>2, <3>1
  <2> QED BY <2>1, <2>2
<1>8. Counted'
  BY <1>1, <1>5, <1>6, <1>7 DEF HandlesInv, Counted
<1>9. strong'[m] = 0 /\ weak'[m] = 0 <=> StrongOf(m)' = {} /\ WeakOf(m)' = {}
  <2>1. StrongOf(m)' \in SUBSET Handles /\ WeakOf(m)' \in SUBSET Handles
    BY <1>4, OfAreHandles
  <2> QED BY <1>6, <1>7, <2>1, HandleSets
<1>10. \A o \in managers' : StrongOf(o)' \cup WeakOf(o)' # {}
  BY <1>1, <1>5, <1>9 DEF HandlesInv, ObjectsAreOwned
<1>11. ManagerOutlivesHandles'
  <2> SUFFICES ASSUME NEW g \in Handles, target'[g] # Null PROVE target'[g] \in managers'
    BY DEF ManagerOutlivesHandles
  <2>1. g # h /\ target'[g] = target[g] /\ target[g] \in managers
    BY <1>1 DEF HandlesInv, ManagerOutlivesHandles
  <2>2. CASE target[g] # m
    BY <2>1, <2>2
  <2>3. CASE target[g] = m
    <3>1. g \in StrongOf(m)' \/ g \in WeakOf(m)'
      BY <2>1, <2>3 DEF StrongOf, WeakOf, Handles
    <3>2. managers' = managers
      BY <1>9, <3>1
    <3> QED BY <2>1, <3>2
  <2> QED BY <2>2, <2>3
<1> QED BY <1>3, <1>4, <1>6, <1>7, <1>8, <1>10, <1>11

\* h is destroyed as a member of o; with Null for o, it is not.
Without(o, h) == [p \in Objects |-> IF p = o THEN left[p] \ {h} ELSE left[p]]

\* The same, when this may begin another deletion.
Destroyed(o, h) ==
  [p \in Objects |-> IF p = o THEN left[p] \ {h}
                     ELSE IF by'[p] # by[p] THEN Members(p) ELSE left[p]]

\* What changes in the deletions under way when a handle lets go of its target, of which
\* another strong handle stays, or which it held weakly.
LEMMA LetGoKeeps ==
  ASSUME HandlesInv, NEW h \in Handles, NEW m \in Objects, target[h] = m,
         target' = [target EXCEPT ![h] = Null],
         strong' = IF h \in Strong THEN [strong EXCEPT ![m] = Down(@)] ELSE strong,
         weak' = IF h \in Weak THEN [weak EXCEPT ![m] = Down(@)] ELSE weak,
         managers' = IF strong'[m] = 0 /\ weak'[m] = 0 THEN managers \ {m} ELSE managers,
         h \in Strong => strong[m] # 1,
         NEW o, o # Null => Owner[h] = o,
         left' = Without(o, h),
         by' = by, pointers' = pointers
  PROVE  HandlesInv'
<1>1. /\ target \in [Handles -> Objects \cup {Null}] /\ strong \in [Objects -> 0..Width-1]
      /\ left \in [Objects -> SUBSET Handles] /\ by \in [Objects -> Strong \cup {Null}]
      /\ pointers \subseteq Objects /\ Strong \cap Weak = {} /\ m # Null
  BY HandleAssumption DEF HandlesInv, PointerTypeOK
<1>2. /\ target' \in [Handles -> Objects \cup {Null}] /\ managers' \subseteq Objects
      /\ strong' \in [Objects -> 0..Width-1] /\ weak' \in [Objects -> 0..Width-1]
      /\ Counted' /\ ManagerOutlivesHandles'
      /\ \A p \in managers' : StrongOf(p)' \cup WeakOf(p)' # {}
      /\ \A p \in Objects : StrongOf(p)' = StrongOf(p) \ {h} /\ WeakOf(p)' = WeakOf(p) \ {h}
      /\ \A p \in Objects \ {m} : strong'[p] = strong[p]
  BY LetGo
<1>3. left' \in [Objects -> SUBSET Handles]
  BY <1>1 DEF Without
<1>4. PointerTypeOK'
  BY <1>1, <1>2, <1>3 DEF PointerTypeOK
<1>5. \A p \in Objects : p \in pointers <=> StrongOf(p)' # {}
  <2> SUFFICES ASSUME NEW p \in Objects PROVE p \in pointers <=> StrongOf(p)' # {}
    OBVIOUS
  <2>1. p \in pointers <=> StrongOf(p) # {}
    BY DEF HandlesInv, ObjectsAreOwned
  <2>2. CASE h \in StrongOf(p)
    <3>1. h \in Strong /\ p = m /\ strong[m] # 1
      BY <2>2 DEF StrongOf
    <3>2. strong[m] = Cardinality(StrongOf(m)) /\ StrongOf(p) # {h}
      BY <1>1, <3>1, TargetProps, FS_Singleton
    <3> QED BY <1>2, <2>1, <2>2, <3>2
  <2>3. CASE h \notin StrongOf(p)
    BY <1>2, <2>1, <2>3
  <2> QED BY <2>2, <2>3
<1>6. ObjectsAreOwned'
  <2>1. \A g \in Handles : target'[g] # Null => target'[g] = target[g]
    BY <1>1
  <2>2. \A g \in Handles : target'[g] # Null /\ Owner[g] # Null => Owner[g] \in pointers'
    BY <2>1 DEF HandlesInv, ObjectsAreOwned
  <2> QED BY <1>2, <1>5, <2>2 DEF ObjectsAreOwned
<1>7. RanksRise'
  BY <1>1 DEF HandlesInv, RanksRise, MayOwn, Handles
<1>8. Deletions'
  <2> SUFFICES ASSUME NEW p \in Objects, by[p] # Null
               PROVE  /\ target'[by[p]] = p /\ strong'[p] = 1
                      /\ left'[p] \subseteq Members(p)
                      /\ \A g \in Members(p) \ left'[p] :
                            target'[g] = Null \/ \E q \in Objects : by[q] = g
    BY DEF Deletions
  <2>1. /\ by[p] \in Strong /\ target[by[p]] = p /\ strong[p] = 1 /\ left[p] \subseteq Members(p)
        /\ \A g \in Members(p) \ left[p] : target[g] = Null \/ \E q \in Objects : by[q] = g
    BY <1>1 DEF HandlesInv, Deletions
  <2>2. by[p] # h /\ (h \in Strong => p # m)
    BY <1>1, <2>1
  <2>3. target'[by[p]] = p
    BY <1>1, <2>1, <2>2 DEF Handles
  <2>4. strong'[p] = 1
    BY <1>2, <2>1, <2>2
  <2>5. \A g \in Handles : target[g] = Null => target'[g] = Null
    BY <1>1
  <2>6. target'[h] = Null
    BY <1>1
  <2>7. \A g \in Members(p) : g \in Handles
    BY DEF Members
  <2>8. left'[p] \subseteq left[p] /\ \A g \in left[p] \ left'[p] : g = h
    BY DEF Without
  <2> QED BY <2>1, <2>3, <2>4, <2>5, <2>6, <2>7, <2>8
<1> QED BY <1>2, <1>4, <1>6, <1>7, <1>8 DEF HandlesInv

\* A handle without a target.
LEMMA NothingToLetGo ==
  ASSUME HandlesInv, NEW h \in Handles, target[h] = Null,
         target' = [target EXCEPT ![h] = Null], UNCHANGED <<counts, by, pointers>>,
         NEW o, o # Null => Owner[h] = o,
         left' = Without(o, h)
  PROVE  HandlesInv'
<1>1. target' = target /\ UNCHANGED <<strong, weak, managers>>
  BY DEF HandlesInv, PointerTypeOK, counts
<1>2. left' \in [Objects -> SUBSET Handles]
  BY DEF HandlesInv, PointerTypeOK, Without
<1>3. Deletions'
  <2> SUFFICES ASSUME NEW p \in Objects, by[p] # Null
               PROVE  /\ target[by[p]] = p /\ strong[p] = 1
                      /\ left'[p] \subseteq Members(p)
                      /\ \A g \in Members(p) \ left'[p] :
                            target[g] = Null \/ \E q \in Objects : by[q] = g
    BY <1>1 DEF Deletions
  <2>1. left'[p] \subseteq left[p] /\ \A g \in left[p] \ left'[p] : g = h
    BY DEF Without
  <2> QED BY <2>1 DEF HandlesInv, Deletions
<1>4. PointerTypeOK'
  BY <1>1, <1>2 DEF HandlesInv, PointerTypeOK
<1>5. Counted' /\ ManagerOutlivesHandles' /\ ObjectsAreOwned' /\ RanksRise'
  BY <1>1 DEF HandlesInv, Counted, ManagerOutlivesHandles, ObjectsAreOwned, StrongOf, WeakOf,
     RanksRise, MayOwn
<1> QED BY <1>3, <1>4, <1>5 DEF HandlesInv

\* The last strong handle begins the deletion of its target, with all members in place.
LEMMA StartDeleteKeeps ==
  ASSUME HandlesInv, NEW h \in Strong, NEW m \in Objects, target[h] = m, strong[m] = 1,
         by[m] = Null, StartDelete(h, m), pointers' = pointers,
         NEW o, o # Null => Owner[h] = o /\ o # m,
         left' = Destroyed(o, h)
  PROVE  HandlesInv'
<1>1. /\ left \in [Objects -> SUBSET Handles] /\ by \in [Objects -> Strong \cup {Null}]
      /\ h # Null
  BY HandleAssumption DEF HandlesInv, PointerTypeOK, Handles
<1>2. by' = [by EXCEPT ![m] = h] /\ UNCHANGED <<target, strong, weak, managers>>
  BY DEF StartDelete, counts
<1>3. by' \in [Objects -> Strong \cup {Null}] /\ left' \in [Objects -> SUBSET Handles]
  BY <1>1, <1>2 DEF Members, Destroyed
<1>4. Deletions'
  <2> SUFFICES ASSUME NEW p \in Objects, by'[p] # Null
               PROVE  /\ target[by'[p]] = p /\ strong[p] = 1
                      /\ left'[p] \subseteq Members(p)
                      /\ \A g \in Members(p) \ left'[p] :
                            target[g] = Null \/ \E q \in Objects : by'[q] = g
    BY <1>2 DEF Deletions
  <2>1. by'[m] = h /\ by'[m] # by[m]
    BY <1>1, <1>2
  <2>2. CASE p = m
    <3>1. p # o
      BY <2>2, HandleAssumption
    <3>2. left'[p] = Members(p)
      BY <2>1, <2>2, <3>1 DEF Destroyed
    <3> QED BY <1>2, <2>1, <2>2, <3>2
  <2>3. CASE p # m
    <3>1. by'[p] = by[p]
      BY <1>1, <1>2, <2>3
    <3>2. /\ target[by[p]] = p /\ strong[p] = 1 /\ left[p] \subseteq Members(p)
          /\ \A g \in Members(p) \ left[p] : target[g] = Null \/ \E q \in Objects : by[q] = g
      BY <3>1 DEF HandlesInv, Deletions
    <3>3. left'[p] \subseteq left[p] /\ \A g \in left[p] \ left'[p] : g = h
      BY <3>1 DEF Destroyed
    <3>4. \A g \in Handles : (\E q \in Objects : by[q] = g) => \E q \in Objects : by'[q] = g
      <4> SUFFICES ASSUME NEW g \in Handles, NEW q \in Objects, by[q] = g
                   PROVE  \E r \in Objects : by'[r] = g
        OBVIOUS
      <4>1. q # m
        BY HandleAssumption
      <4> QED BY <1>1, <1>2, <4>1
    <3>5. \A g \in Members(p) : g \in Handles
      BY DEF Members
    <3> QED BY <2>1, <3>1, <3>2, <3>3, <3>4, <3>5
  <2> QED BY <2>2, <2>3
<1>5. PointerTypeOK'
  BY <1>2, <1>3 DEF HandlesInv, PointerTypeOK
<1>6. Counted' /\ ManagerOutlivesHandles' /\ ObjectsAreOwned' /\ RanksRise'
  BY <1>2 DEF HandlesInv, Counted, ManagerOutlivesHandles, ObjectsAreOwned, StrongOf, WeakOf,
     RanksRise, MayOwn
<1> QED BY <1>4, <1>5, <1>6 DEF HandlesInv

LEMMA ResetWeakKeeps ==
  ASSUME HandlesInv, NEW w \in Weak, ResetWeak(w),
         NEW o, o # Null => Owner[w] = o, UNCHANGED <<by, pointers>>,
         left' = Without(o, w)
  PROVE  HandlesInv' /\ target' = [target EXCEPT ![w] = Null]
<1>1. w \in Handles /\ w \notin Strong /\ target' = [target EXCEPT ![w] = Null]
  BY HandleAssumption DEF Handles, ResetWeak
<1>2. CASE target[w] = Null
  BY <1>1, <1>2, NothingToLetGo DEF ResetWeak
<1>3. CASE target[w] # Null
  <2> DEFINE m == target[w]
  <2>1. m \in Objects /\ weak' = [weak EXCEPT ![m] = Down(@)] /\ strong' = strong
        /\ managers' = IF strong'[m] = 0 /\ weak'[m] = 0 THEN managers \ {m} ELSE managers
    BY <1>1, <1>3, TargetProps DEF ResetWeak
  <2> HIDE DEF m
  <2>2. target[w] = m
    BY DEF m
  <2> QED BY <1>1, <2>1, <2>2, LetGoKeeps
<1> QED BY <1>1, <1>2, <1>3

\* reset() lets go, or leaves it to the end of the deletion that it begins.
LEMMA ResetKeeps ==
  ASSUME HandlesInv, NEW h \in Strong, Reset(h), pointers' = pointers,
         target[h] # Null => by[target[h]] = Null,
         NEW o, o # Null => Owner[h] = o /\ o # target[h],
         left' = Destroyed(o, h)
  PROVE  /\ HandlesInv'
         /\ \/ by' = by /\ target' = [target EXCEPT ![h] = Null]
            \/ /\ target' = target /\ target[h] \in Objects
               /\ by' = [by EXCEPT ![target[h]] = h]
<1> DEFINE m == target[h]
<1>1. h \in Handles /\ h \notin Weak
  BY HandleAssumption DEF Handles
<1>2. CASE target[h] = Null
  <2>1. target' = [target EXCEPT ![h] = Null] /\ UNCHANGED <<counts, by>>
    BY <1>2 DEF Reset, Holds
  <2>2. left' = Without(o, h)
    BY <2>1 DEF Without, Destroyed
  <2>3. HandlesInv'
    BY <1>1, <1>2, <2>1, <2>2, NothingToLetGo
  <2> QED BY <2>1, <2>3
<1>3. CASE m # Null /\ strong[m] = 1
  <2>1. m \in Objects /\ StartDelete(h, m)
    BY <1>1, <1>3, TargetProps DEF Reset
  <2>2. target' = target /\ by' = [by EXCEPT ![m] = h]
    BY <2>1 DEF StartDelete
  <2> QED BY <1>3, <2>1, <2>2, StartDeleteKeeps
<1>4. CASE m # Null /\ strong[m] # 1
  <2>1. m \in Objects /\ strong[m] > 0 /\ strong[m] = Cardinality(StrongOf(m)) /\ Holds(h)
    BY <1>1, <1>4, TargetProps
  <2>2. /\ target' = [target EXCEPT ![h] = Null] /\ strong' = [strong EXCEPT ![m] = Down(@)]
        /\ UNCHANGED <<weak, managers, by>>
    BY <1>4, <2>1 DEF Reset
  <2>3. strong'[m] # 0
    <3>1. strong[m] \in 0..Width-1 /\ strong[m] \in Nat /\ strong' = [strong EXCEPT ![m] = Down(strong[m])]
          /\ strong \in [Objects -> 0..Width-1]
      BY <2>1, <2>2, HandleAssumption DEF HandlesInv, PointerTypeOK
    <3>2. Down(strong[m]) = strong[m] - 1
      BY <2>1, <3>1, UpDown
    <3> QED BY <1>4, <2>1, <3>1, <3>2
  <2>4. left' = Without(o, h)
    BY <2>2 DEF Without, Destroyed
  <2> HIDE DEF m
  <2>5. target[h] = m
    BY DEF m
  <2>6. /\ strong' = IF h \in Strong THEN [strong EXCEPT ![m] = Down(@)] ELSE strong
        /\ weak' = IF h \in Weak THEN [weak EXCEPT ![m] = Down(@)] ELSE weak
        /\ managers' = IF strong'[m] = 0 /\ weak'[m] = 0 THEN managers \ {m} ELSE managers
        /\ h \in Strong => strong[m] # 1
        /\ o # Null => Owner[h] = o
    BY <1>1, <1>4, <2>2, <2>3
  <2>7. HandlesInv'
    BY <1>1, <2>1, <2>2, <2>4, <2>5, <2>6, LetGoKeeps
  <2> QED BY <2>2, <2>7
<1> QED BY <1>2, <1>3, <1>4

LEMMA DestroyMemberKeeps ==
  ASSUME PointerInv, DestroyMember
  PROVE  PointerInv'
<1>0. PICK o \in Objects :
        \E h \in left[o] :
          /\ by[o] # Null /\ ~Waiting(o)
          /\ IF h \in Weak THEN ResetWeak(h) /\ UNCHANGED by ELSE Reset(h)
          /\ left' = Destroyed(o, h)
          /\ UNCHANGED <<pointers, call>>
  BY DEF DestroyMember, Destroyed
<1>1. PICK h \in left[o] :
        /\ by[o] # Null /\ ~Waiting(o)
        /\ IF h \in Weak THEN ResetWeak(h) /\ UNCHANGED by ELSE Reset(h)
        /\ left' = Destroyed(o, h)
        /\ UNCHANGED <<pointers, call>>
  BY <1>0
<1>2. /\ h \in Handles /\ Owner[h] = o /\ o # Null
      /\ by \in [Objects -> Strong \cup {Null}] /\ target \in [Handles -> Objects \cup {Null}]
  BY <1>1, HandleAssumption DEF PointerInv, HandlesInv, PointerTypeOK, Deletions, Members
<1>3. /\ HandlesInv'
      /\ \/ by' = by /\ target' = [target EXCEPT ![h] = Null]
         \/ /\ target' = target /\ target[h] \in Objects
            /\ by' = [by EXCEPT ![target[h]] = h] /\ h \in Strong /\ by[target[h]] = Null
  <2>1. CASE h \in Weak
    <3>1. ResetWeak(h) /\ by' = by /\ pointers' = pointers
      BY <1>1, <2>1
    <3>2. left' = Without(o, h)
      BY <1>1, <3>1 DEF Destroyed, Without
    <3> QED BY <1>2, <2>1, <3>1, <3>2, ResetWeakKeeps DEF PointerInv
  <2>2. CASE h \notin Weak
    <3>1. h \in Strong /\ Reset(h) /\ pointers' = pointers
      BY <1>1, <1>2, <2>2 DEF Handles
    <3>2. ASSUME target[h] # Null PROVE target[h] \in Objects /\ by[target[h]] = Null
      <4>1. target[h] \in Objects
        BY <1>2, <3>2
      <4>2. SUFFICES ASSUME by[target[h]] # Null PROVE FALSE
        BY <4>1
      <4>3. StrongOf(target[h]) = {by[target[h]]}
        BY <4>1, <4>2, DeletedByOne DEF PointerInv
      <4>4. by[target[h]] = h
        BY <3>1, <4>3 DEF StrongOf
      <4> QED BY <1>1, <1>2, <4>1, <4>4, HandleAssumption DEF Waiting
    <3>3. o # target[h]
      BY <1>2, <3>1, HandleAssumption DEF PointerInv, HandlesInv, RanksRise, MayOwn
    <3>4. /\ HandlesInv'
          /\ \/ by' = by /\ target' = [target EXCEPT ![h] = Null]
             \/ /\ target' = target /\ target[h] \in Objects
                /\ by' = [by EXCEPT ![target[h]] = h]
      BY <1>1, <1>2, <3>1, <3>2, <3>3, ResetKeeps DEF PointerInv
    <3> QED BY <3>1, <3>2, <3>4, HandleAssumption
  <2> QED BY <2>1, <2>2
<1>4. CallGoesOn'
  <2> SUFFICES ASSUME call # Null PROVE CallGoesOn'
    BY <1>1 DEF CallGoesOn
  <2>1. /\ call \in Calls
        /\ call.from # call.to /\ Owner[call.from] = Null /\ MayOwn(call.to, target[call.from])
        /\ target[call.to] = Null \/ \E p \in Objects : by[p] = call.to
        /\ \A p \in Objects : by[p] # call.from
        /\ Owner[call.to] # Null =>
             /\ Owner[call.to] \in pointers
             /\ \A p \in Objects : by[p] # Null => Rank[Owner[call.to]] < Rank[p]
    BY DEF PointerInv, CallGoesOn
  <2>2. call' = call /\ pointers' = pointers /\ h # call.from
        /\ call.to \in Handles /\ call.from \in Handles
    BY <1>1, <1>2, <2>1 DEF Calls, Handles
  <2>3. MayOwn(call.to, target'[call.from])
    BY <1>2, <1>3, <2>1, <2>2
  <2>4. target'[call.to] = Null \/ \E p \in Objects : by'[p] = call.to
    <3>1. ASSUME NEW p \in Objects, by[p] = call.to PROVE by'[p] = call.to
      BY <1>2, <1>3, <2>2, <3>1, HandleAssumption
    <3> QED BY <1>2, <1>3, <2>1, <2>2, <3>1
  <2>5. \A p \in Objects : by'[p] # call.from
    BY <1>2, <1>3, <2>1, <2>2
  <2>6. ASSUME Owner[call.to] # Null, NEW p \in Objects, by'[p] # Null
        PROVE  Rank[Owner[call.to]] < Rank[p]
    <3>1. CASE by[p] # Null
      BY <2>1, <2>6, <3>1
    <3>2. CASE by[p] = Null
      <4>1. p = target[h] /\ h \in Strong
        BY <1>2, <1>3, <2>6, <3>2
      <4>2. Rank[o] < Rank[p]
        BY <1>2, <4>1, HandleAssumption DEF PointerInv, HandlesInv, RanksRise, MayOwn
      <4>3. Rank[Owner[call.to]] < Rank[o]
        BY <1>1, <2>1, <2>6
      <4>4. Owner[call.to] \in Objects
        BY <2>2, <2>6, HandleAssumption
      <4>5. Rank[p] \in Nat /\ Rank[o] \in Nat /\ Rank[Owner[call.to]] \in Nat
        BY <4>4, HandleAssumption
      <4> QED BY <4>2, <4>3, <4>5
    <3> QED BY <3>1, <3>2
  <2>7. MayOwn(call.to, target[call.from])' /\ call'.from = call.from /\ call'.to = call.to
        /\ (Calls)' = Calls
    BY <2>2, <2>3 DEF MayOwn, Calls
  <2> QED BY <2>1, <2>2, <2>3, <2>4, <2>5, <2>6, <2>7 DEF CallGoesOn
<1> QED BY <1>3, <1>4 DEF PointerInv

\* When an object is gone its members have let go before, and the manager stays only for
\* weak handles.
LEMMA FinishDeleteKeeps ==
  ASSUME PointerInv, FinishDelete
  PROVE  PointerInv'
<1>1. PICK o \in Objects :
        /\ by[o] # Null /\ left[o] = {} /\ ~Waiting(o)
        /\ pointers' = pointers \ {o}
        /\ strong' = [strong EXCEPT ![o] = Down(@)]
        /\ managers' = IF strong'[o] = 0 /\ weak[o] = 0 THEN managers \ {o} ELSE managers
        /\ target' = [target EXCEPT ![by[o]] = Null]
        /\ by' = [by EXCEPT ![o] = Null]
        /\ UNCHANGED <<weak, left, call>>
  BY DEF FinishDelete
<1> DEFINE h == by[o]
<1>2. /\ h \in Strong /\ h \in Handles /\ h \notin Weak /\ target[h] = o
      /\ StrongOf(o) = {h} /\ o # Null /\ o \in pointers
  BY <1>1, DeletedByOne, HandleAssumption DEF PointerInv, Handles
<1>3. /\ by \in [Objects -> Strong \cup {Null}] /\ target \in [Handles -> Objects \cup {Null}]
      /\ left \in [Objects -> SUBSET Handles] /\ pointers \subseteq Objects
  BY DEF PointerInv, HandlesInv, PointerTypeOK
<1>4. /\ target' = [target EXCEPT ![h] = Null] /\ by' = [by EXCEPT ![o] = Null]
      /\ by[o] = h
  BY <1>1
<1> HIDE DEF h
<1>5. /\ target' \in [Handles -> Objects \cup {Null}] /\ managers' \subseteq Objects
      /\ strong' \in [Objects -> 0..Width-1] /\ weak' \in [Objects -> 0..Width-1]
      /\ Counted' /\ ManagerOutlivesHandles'
      /\ \A p \in managers' : StrongOf(p)' \cup WeakOf(p)' # {}
      /\ \A p \in Objects : StrongOf(p)' = StrongOf(p) \ {h} /\ WeakOf(p)' = WeakOf(p) \ {h}
      /\ \A p \in Objects \ {o} : strong'[p] = strong[p]
  <2>1. /\ strong' = IF h \in Strong THEN [strong EXCEPT ![o] = Down(@)] ELSE strong
        /\ weak' = IF h \in Weak THEN [weak EXCEPT ![o] = Down(@)] ELSE weak
        /\ managers' = IF strong'[o] = 0 /\ weak'[o] = 0 THEN managers \ {o} ELSE managers
    BY <1>1, <1>2
  <2> QED BY <1>2, <1>4, <2>1, LetGo DEF PointerInv
<1>6. PointerTypeOK'
  BY <1>1, <1>3, <1>4, <1>5 DEF PointerTypeOK
<1>7. \A g \in Handles : target'[g] # Null => target'[g] = target[g] /\ g # h
  BY <1>3, <1>4
<1>8. ObjectsAreOwned'
  <2>1. \A p \in Objects : p \in pointers' <=> StrongOf(p)' # {}
    <3> SUFFICES ASSUME NEW p \in Objects PROVE p \in pointers' <=> StrongOf(p)' # {}
      OBVIOUS
    <3>1. p \in pointers <=> StrongOf(p) # {}
      BY DEF PointerInv, HandlesInv, ObjectsAreOwned
    <3>2. p # o => h \notin StrongOf(p)
      BY <1>2 DEF StrongOf
    <3> QED BY <1>1, <1>2, <1>5, <3>1, <3>2
  <2>2. ASSUME NEW g \in Handles, target'[g] # Null, Owner[g] # Null PROVE Owner[g] \in pointers'
    <3>1. target[g] # Null /\ g # h
      BY <1>7, <2>2
    <3>2. Owner[g] \in pointers
      BY <2>2, <3>1 DEF PointerInv, HandlesInv, ObjectsAreOwned
    <3>3. Owner[g] # o
      <4>1. SUFFICES ASSUME Owner[g] = o PROVE FALSE
        OBVIOUS
      <4>2. g \in Members(o) \ left[o]
        BY <1>1, <4>1 DEF Members
      <4>3. PICK q \in Objects : by[q] = g
        BY <1>1, <3>1, <4>2 DEF PointerInv, HandlesInv, Deletions
      <4> QED BY <1>1, <4>1, <4>3, HandleAssumption DEF Waiting
    <3> QED BY <1>1, <3>2, <3>3
  <2> QED BY <1>5, <2>1, <2>2 DEF ObjectsAreOwned
<1>9. RanksRise'
  <2> SUFFICES ASSUME NEW g \in Strong PROVE MayOwn(g, target'[g])
    BY DEF RanksRise, MayOwn
  <2>1. g \in Handles /\ MayOwn(g, target[g])
    BY DEF PointerInv, HandlesInv, RanksRise, Handles
  <2> QED BY <1>7, <2>1 DEF MayOwn
<1>10. Deletions'
  <2> SUFFICES ASSUME NEW p \in Objects, by'[p] # Null
               PROVE  /\ target'[by'[p]] = p /\ strong'[p] = 1
                      /\ left'[p] \subseteq Members(p)
                      /\ \A g \in Members(p) \ left'[p] :
                            target'[g] = Null \/ \E q \in Objects : by'[q] = g
    BY DEF Deletions
  <2>1. p # o /\ by'[p] = by[p]
    BY <1>3, <1>4
  <2>2. /\ target[by[p]] = p /\ strong[p] = 1 /\ left[p] \subseteq Members(p)
        /\ \A g \in Members(p) \ left[p] : target[g] = Null \/ \E q \in Objects : by[q] = g
    BY <2>1 DEF PointerInv, HandlesInv, Deletions
  <2>3. by[p] \in Handles /\ by[p] # h
    BY <1>2, <1>3, <2>1, <2>2 DEF Handles
  <2>4. target'[by[p]] = p /\ strong'[p] = 1 /\ left'[p] = left[p]
    BY <1>1, <1>3, <1>4, <1>5, <2>1, <2>2, <2>3
  <2>5. ASSUME NEW g \in Members(p) \ left[p]
        PROVE  target'[g] = Null \/ \E q \in Objects : by'[q] = g
    <3>1. g \in Handles
      BY DEF Members
    <3>2. CASE target[g] = Null
      BY <1>3, <1>4, <3>1, <3>2
    <3>3. CASE g = h
      BY <1>3, <1>4, <3>1, <3>3
    <3>4. CASE target[g] # Null /\ g # h
      <4>1. PICK q \in Objects : by[q] = g
        BY <2>2, <3>4
      <4>2. q # o
        BY <1>4, <3>4, <4>1
      <4> QED BY <1>3, <1>4, <4>1, <4>2
    <3> QED BY <3>2, <3>3, <3>4
  <2> QED BY <2>1, <2>2, <2>4, <2>5
<1>11. CallGoesOn'
  <2> SUFFICES ASSUME call # Null PROVE CallGoesOn'
    BY <1>1 DEF CallGoesOn
  <2>1. /\ call \in Calls
        /\ call.from # call.to /\ Owner[call.from] = Null /\ MayOwn(call.to, target[call.from])
        /\ target[call.to] = Null \/ \E p \in Objects : by[p] = call.to
        /\ \A p \in Objects : by[p] # call.from
        /\ Owner[call.to] # Null =>
             /\ Owner[call.to] \in pointers
             /\ \A p \in Objects : by[p] # Null => Rank[Owner[call.to]] < Rank[p]
    BY DEF PointerInv, CallGoesOn
  <2>2. call' = call /\ h # call.from /\ call.to \in Handles /\ call.from \in Handles
    BY <1>1, <1>4, <2>1 DEF Calls, Handles
  <2>3. target'[call.from] = target[call.from] /\ call.from # Null
    BY <1>3, <1>4, <2>2, HandleAssumption
  <2>4. target'[call.to] = Null \/ \E p \in Objects : by'[p] = call.to
    <3>1. CASE target[call.to] = Null \/ call.to = h
      BY <1>3, <1>4, <2>2, <3>1
    <3>2. CASE target[call.to] # Null /\ call.to # h
      <4>1. PICK p \in Objects : by[p] = call.to
        BY <2>1, <3>2
      <4>2. p # o
        BY <1>4, <3>2, <4>1
      <4> QED BY <1>3, <1>4, <4>1, <4>2
    <3> QED BY <3>1, <3>2
  <2>5. \A p \in Objects : by'[p] # call.from
    BY <1>3, <1>4, <2>1, <2>3
  <2>6. ASSUME Owner[call.to] # Null
        PROVE  /\ Owner[call.to] \in pointers'
               /\ \A p \in Objects : by'[p] # Null => Rank[Owner[call.to]] < Rank[p]
    <3>1. Owner[call.to] \in pointers /\ \A p \in Objects : by[p] # Null => Rank[Owner[call.to]] < Rank[p]
      BY <2>1, <2>6
    <3>2. Rank[Owner[call.to]] < Rank[o] /\ Rank[o] \in Nat
      BY <1>1, <3>1, HandleAssumption
    <3>3. Owner[call.to] # o
      BY <3>2
    <3> QED BY <1>1, <1>3, <1>4, <3>1, <3>3
  <2>7. MayOwn(call.to, target[call.from])' /\ call'.from = call.from /\ call'.to = call.to
        /\ (Calls)' = Calls
    BY <2>1, <2>2, <2>3 DEF MayOwn, Calls
  <2> QED BY <2>1, <2>2, <2>4, <2>5, <2>6, <2>7 DEF CallGoesOn
<1> QED BY <1>5, <1>6, <1>8, <1>9, <1>10, <1>11 DEF PointerInv, HandlesInv

-----------------------------------------------------------------------------
(* The operators of the handles.                                           *)

\* An assignment's first half, or all there is to a reset().
LEMMA ReleaseKeeps ==
  ASSUME PointerInv, NEW h \in Strong, NEW then, Release(h, then),
         then # Null => /\ then \in Calls /\ then.to = h /\ then.from # h
                        /\ Owner[then.from] = Null /\ MayOwn(h, target[then.from])
  PROVE  PointerInv'
<1>1. /\ Idle /\ Exists(h) /\ Reset(h) /\ call' = then /\ pointers' = pointers
      /\ left' = [p \in Objects |-> IF by'[p] # by[p] THEN Members(p) ELSE left[p]]
  BY DEF Release
<1>2. /\ by \in [Objects -> Strong \cup {Null}] /\ target \in [Handles -> Objects \cup {Null}]
      /\ h \in Handles
  BY DEF PointerInv, HandlesInv, PointerTypeOK, Handles
<1>3. left' = Destroyed(Null, h)
  BY <1>1, HandleAssumption DEF Destroyed
<1>4. /\ HandlesInv'
      /\ \/ by' = by /\ target' = [target EXCEPT ![h] = Null]
         \/ /\ target' = target /\ target[h] \in Objects
            /\ by' = [by EXCEPT ![target[h]] = h]
  <2>1. target[h] # Null => by[target[h]] = Null
    BY <1>1, <1>2 DEF Idle
  <2>2. Null # Null => Owner[h] = Null /\ Null # target[h]
    OBVIOUS
  <2> QED BY <1>1, <1>3, <2>1, <2>2, ResetKeeps DEF PointerInv
<1>5. CallGoesOn'
  <2> SUFFICES ASSUME then # Null PROVE CallGoesOn'
    BY <1>1 DEF CallGoesOn
  <2>1. /\ then \in Calls /\ then.to = h /\ then.from # h /\ then.from \in Handles
        /\ Owner[then.from] = Null /\ MayOwn(h, target[then.from])
    BY DEF Calls, Handles
  <2>2. target'[then.from] = target[then.from] /\ then.from # Null
    BY <1>2, <1>4, <2>1, HandleAssumption
  <2>3. \A o \in Objects : by'[o] # Null => o = target[h] /\ by'[o] = h
    BY <1>1, <1>2, <1>4 DEF Idle
  <2>4. target'[h] = Null \/ \E o \in Objects : by'[o] = h
    BY <1>2, <1>4
  <2>5. \A o \in Objects : by'[o] # then.from
    BY <2>1, <2>2, <2>3
  <2>6. ASSUME Owner[h] # Null
        PROVE  /\ Owner[h] \in pointers
               /\ \A o \in Objects : by'[o] # Null => Rank[Owner[h]] < Rank[o]
    BY <1>1, <2>3, <2>6, HandleAssumption DEF Exists, PointerInv, HandlesInv, RanksRise, MayOwn
  <2>7. MayOwn(h, target'[then.from]) /\ (Calls)' = Calls
    BY <2>1, <2>2 DEF Calls
  <2>8. MayOwn(then.to, target[then.from])' = MayOwn(h, target'[then.from])
    BY <2>1 DEF MayOwn
  <2> QED BY <1>1, <2>1, <2>4, <2>5, <2>6, <2>7 DEF CallGoesOn, MayOwn
<1> QED BY <1>4, <1>5 DEF PointerInv

LEMMA CopyOrMoveKeeps ==
  ASSUME PointerInv, NEW h \in Strong, NEW from \in Handles,
         Copy(h, from) \/ (from \in Strong /\ Move(h, from))
  PROVE  PointerInv'
<1>1. Assigns(h, from)
  BY DEF Copy, Move
<1>2. CASE Copy(h, from)
  <2> DEFINE then == [to |-> h, from |-> from, op |-> "copy"]
  <2>1. then \in Calls /\ then.to = h /\ then.from = from
    BY DEF Calls
  <2>2. Release(h, then)
    BY <1>2 DEF Copy
  <2> HIDE DEF then
  <2> QED BY <1>1, <2>1, <2>2, ReleaseKeeps DEF Assigns
<1>3. CASE from \in Strong /\ Move(h, from)
  <2> DEFINE then == [to |-> h, from |-> from, op |-> "move"]
  <2>1. then \in Calls /\ then.to = h /\ then.from = from
    BY <1>3 DEF Calls
  <2>2. Release(h, then)
    BY <1>3 DEF Move
  <2> HIDE DEF then
  <2> QED BY <1>1, <2>1, <2>2, ReleaseKeeps DEF Assigns
<1> QED BY <1>2, <1>3

LEMMA ForgetKeeps ==
  ASSUME PointerInv, NEW w \in Weak, Forget(w)
  PROVE  PointerInv'
<1>1. /\ call = Null /\ call' = Null /\ ResetWeak(w) /\ UNCHANGED <<by, pointers>> /\ left' = left
  BY DEF Forget
<1>2. left' = Without(Null, w)
  BY <1>1, HandleAssumption DEF Without, PointerInv, HandlesInv, PointerTypeOK
<1>3. HandlesInv'
  BY <1>1, <1>2, ResetWeakKeeps DEF PointerInv
<1> QED BY <1>1, <1>3 DEF PointerInv, CallGoesOn

\* An empty handle that takes on a target makes the count one higher.
LEMMA TakeOn ==
  ASSUME HandlesInv, Idle, NEW h \in Handles, target[h] = Null,
         NEW m \in Objects, m \in managers,
         h \in Strong => m \in pointers /\ MayOwn(h, m),
         Owner[h] # Null => Owner[h] \in pointers,
         target' = [target EXCEPT ![h] = m],
         strong' = IF h \in Strong THEN [strong EXCEPT ![m] = Up(@)] ELSE strong,
         weak' = IF h \in Weak THEN [weak EXCEPT ![m] = Up(@)] ELSE weak,
         UNCHANGED <<managers, pointers, left, by>>
  PROVE  HandlesInv'
<1>1. /\ target \in [Handles -> Objects \cup {Null}] /\ managers \subseteq Objects
      /\ strong \in [Objects -> 0..Width-1] /\ weak \in [Objects -> 0..Width-1]
      /\ m # Null /\ Strong \cap Weak = {}
      /\ strong[m] = Cardinality(StrongOf(m)) /\ weak[m] = Cardinality(WeakOf(m))
  BY HandleAssumption DEF HandlesInv, PointerTypeOK, Counted
<1>2. \A o \in Objects \ {m} : StrongOf(o)' = StrongOf(o) /\ WeakOf(o)' = WeakOf(o)
  BY <1>1, HandleAssumption DEF StrongOf, WeakOf, Handles
<1>3. /\ strong' \in [Objects -> 0..Width-1] /\ strong'[m] = Cardinality(StrongOf(m)')
      /\ \A o \in Objects \ {m} : strong'[o] = strong[o]
  <2>1. CASE h \in Strong
    <3>1. h \in Handles \ StrongOf(m) /\ StrongOf(m)' = StrongOf(m) \cup {h}
      BY <1>1, <2>1 DEF StrongOf, Handles
    <3>2. Cardinality(StrongOf(m)') = strong[m] + 1 /\ strong[m] + 1 < Width
      BY <1>1, <3>1, OneMore, OfAreHandles
    <3>3. strong[m] \in 0..Width-1
      BY <1>1
    <3>4. Up(strong[m]) = strong[m] + 1 /\ strong[m] + 1 \in 0..Width-1
      BY <3>2, <3>3, UpDown, HandleAssumption
    <3>5. strong' = [strong EXCEPT ![m] = strong[m] + 1]
      BY <2>1, <3>4
    <3> QED BY <1>1, <3>2, <3>4, <3>5
  <2>2. CASE h \notin Strong
    <3>1. StrongOf(m)' = StrongOf(m)
      BY <1>1, <2>2 DEF StrongOf, Handles
    <3> QED BY <1>1, <2>2, <3>1
  <2> QED BY <2>1, <2>2
<1>4. /\ weak' \in [Objects -> 0..Width-1] /\ weak'[m] = Cardinality(WeakOf(m)')
      /\ \A o \in Objects \ {m} : weak'[o] = weak[o]
  <2>1. CASE h \in Weak
    <3>1. h \in Handles \ WeakOf(m) /\ WeakOf(m)' = WeakOf(m) \cup {h}
      BY <1>1, <2>1 DEF WeakOf, Handles
    <3>2. Cardinality(WeakOf(m)') = weak[m] + 1 /\ weak[m] + 1 < Width
      BY <1>1, <3>1, OneMore, OfAreHandles
    <3>3. weak[m] \in 0..Width-1
      BY <1>1
    <3>4. Up(weak[m]) = weak[m] + 1 /\ weak[m] + 1 \in 0..Width-1
      BY <3>2, <3>3, UpDown, HandleAssumption
    <3>5. weak' = [weak EXCEPT ![m] = weak[m] + 1]
      BY <2>1, <3>4
    <3> QED BY <1>1, <3>2, <3>4, <3>5
  <2>2. CASE h \notin Weak
    <3>1. WeakOf(m)' = WeakOf(m)
      BY <1>1, <2>2 DEF WeakOf, Handles
    <3> QED BY <1>1, <2>2, <3>1
  <2> QED BY <2>1, <2>2
<1>5. target' \in [Handles -> Objects \cup {Null}]
  BY <1>1
<1>6. PointerTypeOK'
  BY <1>3, <1>4, <1>5 DEF HandlesInv, PointerTypeOK
<1>7. Counted'
  BY <1>1, <1>2, <1>3, <1>4 DEF HandlesInv, Counted
<1>8. ManagerOutlivesHandles'
  BY <1>1 DEF HandlesInv, ManagerOutlivesHandles
<1>9. StrongOf(m) \subseteq StrongOf(m)' /\ WeakOf(m) \subseteq WeakOf(m)'
  BY <1>1 DEF StrongOf, WeakOf, Handles
<1>10. ObjectsAreOwned'
  <2>1. \A o \in Objects : o \in pointers <=> StrongOf(o)' # {}
    <3>1. m \in pointers <=> StrongOf(m)' # {}
      <4>1. CASE h \in Strong
        <5>1. h \in StrongOf(m)'
          BY <1>1, <4>1 DEF StrongOf, Handles
        <5> QED BY <4>1, <5>1
      <4>2. CASE h \notin Strong
        <5>1. StrongOf(m)' = StrongOf(m)
          BY <1>1, <4>2 DEF StrongOf, Handles
        <5> QED BY <5>1 DEF HandlesInv, ObjectsAreOwned
      <4> QED BY <4>1, <4>2
    <3> QED BY <1>2, <3>1 DEF HandlesInv, ObjectsAreOwned
  <2>2. \A g \in Handles : target'[g] # Null /\ Owner[g] # Null => Owner[g] \in pointers
    BY <1>1 DEF HandlesInv, ObjectsAreOwned
  <2>3. \A o \in managers : StrongOf(o)' \cup WeakOf(o)' # {}
    BY <1>1, <1>2, <1>9 DEF HandlesInv, ObjectsAreOwned
  <2> QED BY <2>1, <2>2, <2>3 DEF ObjectsAreOwned
<1>11. RanksRise'
  <2> SUFFICES ASSUME NEW g \in Strong PROVE MayOwn(g, target'[g])
    BY DEF RanksRise, MayOwn
  <2>1. MayOwn(g, target[g]) /\ g \in Handles
    BY DEF HandlesInv, RanksRise, Handles
  <2> QED BY <1>1, <2>1
<1>12. Deletions'
  BY DEF Idle, Deletions
<1> QED BY <1>6, <1>7, <1>8, <1>10, <1>11, <1>12 DEF HandlesInv

\* A move leaves every object with as many handles as it had.
LEMMA MoveOver ==
  ASSUME HandlesInv, Idle, NEW h \in Strong, NEW from \in Strong, h # from,
         target[h] = Null, target[from] # Null, MayOwn(h, target[from]),
         Owner[h] # Null => Owner[h] \in pointers,
         target' = [target EXCEPT ![h] = target[from], ![from] = Null],
         UNCHANGED <<strong, weak, managers, pointers, left, by>>
  PROVE  HandlesInv'
<1>a. /\ target \in [Handles -> Objects \cup {Null}] /\ h \in Handles /\ from \in Handles
      /\ target[from] \in Objects /\ target[from] \in managers /\ target[from] \in pointers
  BY TargetProps DEF HandlesInv, PointerTypeOK, Handles
<1>b. PICK m \in Objects : m = target[from]
  BY <1>a
<1>0. target' = [target EXCEPT ![h] = m, ![from] = Null] /\ target[from] = m /\ MayOwn(h, m)
  BY <1>b
<1>1. /\ target \in [Handles -> Objects \cup {Null}] /\ h \in Handles /\ from \in Handles
      /\ m # Null /\ m \in managers /\ m \in pointers /\ Strong \cap Weak = {}
  BY <1>a, <1>b, HandleAssumption
<1>2. /\ target'[h] = m /\ target'[from] = Null
      /\ \A g \in Handles \ {h, from} : target'[g] = target[g]
      /\ target' \in [Handles -> Objects \cup {Null}]
  BY <1>0, <1>1
<1>3. \A o \in Objects : WeakOf(o)' = WeakOf(o)
  BY <1>1, <1>2 DEF WeakOf, Handles
<1>4. \A o \in Objects \ {m} : StrongOf(o)' = StrongOf(o)
  BY <1>0, <1>1, <1>2, HandleAssumption DEF StrongOf, Handles
<1>5. StrongOf(m)' = (StrongOf(m) \ {from}) \cup {h} /\ from \in StrongOf(m) /\ h \notin StrongOf(m)
  BY <1>0, <1>1, <1>2 DEF StrongOf, Handles
<1>6. Cardinality(StrongOf(m)') = Cardinality(StrongOf(m))
  <2> DEFINE S == StrongOf(m) \ {from}
  <2>1. Cardinality(S) = Cardinality(StrongOf(m)) - 1 /\ Cardinality(StrongOf(m)) \in 0..Width-1
    BY <1>5, OneLess, OfAreHandles, HandleSets
  <2>2. S \in SUBSET Handles /\ h \in Handles \ S /\ StrongOf(m)' = S \cup {h}
    BY <1>1, <1>5, OfAreHandles
  <2> HIDE DEF S
  <2>3. Cardinality(S \cup {h}) = Cardinality(S) + 1
    BY <2>2, OneMore
  <2> QED BY <2>1, <2>2, <2>3
<1>7. PointerTypeOK'
  BY <1>2 DEF HandlesInv, PointerTypeOK
<1>8. Counted'
  BY <1>1, <1>3, <1>4, <1>6 DEF HandlesInv, Counted, PointerTypeOK
<1>9. ManagerOutlivesHandles'
  BY <1>1, <1>2 DEF HandlesInv, ManagerOutlivesHandles
<1>10. ObjectsAreOwned'
  <2>1. \A o \in Objects : o \in pointers <=> StrongOf(o)' # {}
    BY <1>1, <1>4, <1>5 DEF HandlesInv, ObjectsAreOwned
  <2>2. \A g \in Handles : target'[g] # Null /\ Owner[g] # Null => Owner[g] \in pointers
    BY <1>2 DEF HandlesInv, ObjectsAreOwned
  <2>3. \A o \in managers : StrongOf(o)' \cup WeakOf(o)' # {}
    BY <1>3, <1>4, <1>5 DEF HandlesInv, ObjectsAreOwned, PointerTypeOK
  <2> QED BY <2>1, <2>2, <2>3 DEF ObjectsAreOwned
<1>11. RanksRise'
  <2> SUFFICES ASSUME NEW g \in Strong PROVE MayOwn(g, target'[g])
    BY DEF RanksRise, MayOwn
  <2>1. MayOwn(g, target[g]) /\ g \in Handles
    BY DEF HandlesInv, RanksRise, Handles
  <2>2. MayOwn(from, Null)
    BY DEF MayOwn
  <2> QED BY <1>0, <1>2, <2>1, <2>2
<1>12. Deletions'
  BY DEF Idle, Deletions
<1> QED BY <1>7, <1>8, <1>9, <1>10, <1>11, <1>12 DEF HandlesInv

\* An assignment's second half.
LEMMA AssignKeeps ==
  ASSUME PointerInv, Assign
  PROVE  PointerInv'
<1> DEFINE m == target[call.from]
           h == call.to
<1>1. /\ call # Null /\ Idle /\ call' = Null /\ UNCHANGED <<pointers, left, by>>
      /\ IF call.op = "move"
         THEN target' = [target EXCEPT ![h] = m, ![call.from] = Null] /\ UNCHANGED counts
         ELSE IF ~Holds(call.from) THEN UNCHANGED <<target, counts>>
         ELSE /\ target' = [target EXCEPT ![h] = m]
              /\ strong' = [strong EXCEPT ![m] = Up(@)]
              /\ UNCHANGED <<weak, managers>>
  BY DEF Assign
<1>2. /\ h \in Strong /\ h \in Handles /\ h \notin Weak /\ call.from \in Handles /\ call.from # h
      /\ call.op = "move" => call.from \in Strong
      /\ MayOwn(h, m) /\ target[h] = Null
      /\ Owner[h] # Null => Owner[h] \in pointers
  <2>1. h # Null
    BY <1>1, HandleAssumption DEF PointerInv, CallGoesOn, Calls, Handles
  <2>2. target[h] = Null
    BY <1>1, <2>1 DEF PointerInv, CallGoesOn, Idle
  <2> QED BY <1>1, <2>2, HandleAssumption DEF PointerInv, CallGoesOn, Calls, Handles
<1>3. HandlesInv'
  <2>1. CASE call.op = "move" /\ m = Null
    <3>1. target' = target
      BY <1>1, <1>2, <2>1 DEF PointerInv, HandlesInv, PointerTypeOK
    <3>2. left' = Without(Null, h)
      BY <1>1, HandleAssumption DEF Without, PointerInv, HandlesInv, PointerTypeOK
    <3>3. target' = [target EXCEPT ![h] = Null] /\ UNCHANGED <<counts, by, pointers>>
      BY <1>1, <1>2, <2>1, <3>1 DEF PointerInv, HandlesInv, PointerTypeOK
    <3>4. Null # Null => Owner[h] = Null
      OBVIOUS
    <3> HIDE DEF h, m
    <3> QED BY <1>2, <3>2, <3>3, <3>4, NothingToLetGo DEF PointerInv
  <2>2. CASE call.op = "move" /\ m # Null
    <3> DEFINE f == call.from
    <3>1. /\ f \in Strong /\ h # f /\ target[f] # Null /\ MayOwn(h, target[f])
          /\ target' = [target EXCEPT ![h] = target[f], ![f] = Null]
          /\ UNCHANGED <<strong, weak, managers, pointers, left, by>>
      BY <1>1, <1>2, <2>2 DEF counts
    <3> HIDE DEF h, m, f
    <3> QED BY <1>1, <1>2, <3>1, MoveOver DEF PointerInv
  <2>3. CASE call.op # "move" /\ ~Holds(call.from)
    <3>1. target' = [target EXCEPT ![h] = Null] /\ UNCHANGED <<counts, by, pointers>>
      BY <1>1, <1>2, <2>3 DEF PointerInv, HandlesInv, PointerTypeOK
    <3>2. left' = Without(Null, h)
      BY <1>1, HandleAssumption DEF Without, PointerInv, HandlesInv, PointerTypeOK
    <3>3. Null # Null => Owner[h] = Null
      OBVIOUS
    <3> HIDE DEF h, m
    <3> QED BY <1>2, <3>1, <3>2, <3>3, NothingToLetGo DEF PointerInv
  <2>4. CASE call.op # "move" /\ Holds(call.from)
    <3>1. m # Null /\ strong[m] # 0
      BY <2>4 DEF Holds
    <3>2. m \in Objects /\ m \in managers /\ strong[m] = Cardinality(StrongOf(m))
      BY <1>2, <3>1, TargetProps DEF PointerInv
    <3>3. m \in pointers
      <4>1. StrongOf(m) # {}
        BY <3>1, <3>2, FS_EmptySet
      <4> QED BY <3>2, <4>1 DEF PointerInv, HandlesInv, ObjectsAreOwned
    <3>4. /\ target' = [target EXCEPT ![h] = m]
          /\ strong' = IF h \in Strong THEN [strong EXCEPT ![m] = Up(@)] ELSE strong
          /\ weak' = IF h \in Weak THEN [weak EXCEPT ![m] = Up(@)] ELSE weak
          /\ UNCHANGED <<managers, pointers, left, by>>
      BY <1>1, <1>2, <2>4
    <3> HIDE DEF h, m
    <3> QED BY <1>1, <1>2, <3>2, <3>3, <3>4, TakeOn DEF PointerInv
  <2> QED BY <2>1, <2>2, <2>3, <2>4
<1> QED BY <1>1, <1>3 DEF PointerInv, CallGoesOn

LEMMA WeakenKeeps ==
  ASSUME PointerInv, NEW w \in Weak, NEW from \in Strong, Weaken(w, from)
  PROVE  PointerInv'
<1> DEFINE m == target[from]
<1>1. /\ Idle /\ call = Null /\ call' = Null /\ Exists(w) /\ target[w] = Null /\ m # Null
      /\ target' = [target EXCEPT ![w] = m] /\ weak' = [weak EXCEPT ![m] = Up(@)]
      /\ UNCHANGED <<strong, managers, pointers, left, by>>
  BY DEF Weaken
<1>2. /\ w \in Handles /\ w \notin Strong /\ m \in Objects /\ m \in managers
      /\ Owner[w] # Null => Owner[w] \in pointers
  BY <1>1, TargetProps, HandleAssumption DEF PointerInv, Handles, Exists
<1> HIDE DEF m
<1>3. HandlesInv'
  BY <1>1, <1>2, TakeOn DEF PointerInv
<1> QED BY <1>1, <1>3 DEF PointerInv, CallGoesOn

\* A new object: no handle refers to its manager yet, and no member is one.
LEMMA CreateKeeps ==
  ASSUME PointerInv, NEW h \in Strong, NEW o \in Objects, Create(h, o)
  PROVE  PointerInv'
<1>1. /\ Idle /\ call = Null /\ Exists(h) /\ target[h] = Null /\ MayOwn(h, o)
      /\ o \notin managers /\ o \notin pointers
      /\ managers' = managers \cup {o} /\ pointers' = pointers \cup {o}
      /\ strong' = [strong EXCEPT ![o] = 1]
      /\ weak' = [weak EXCEPT ![o] = IF This[o] = Null THEN 0 ELSE 1]
      /\ target' = [g \in Handles |-> IF g = h \/ g = This[o] THEN o ELSE target[g]]
      /\ UNCHANGED <<left, by, call>>
  BY DEF Create
<1>2. /\ target \in [Handles -> Objects \cup {Null}] /\ managers \subseteq Objects
      /\ strong \in [Objects -> 0..Width-1] /\ weak \in [Objects -> 0..Width-1]
      /\ pointers \subseteq Objects /\ o # Null /\ Strong \cap Weak = {} /\ h \in Handles
      /\ h # Null /\ This[o] # h
      /\ This[o] # Null => This[o] \in Weak /\ This[o] \in Handles
  BY HandleAssumption DEF PointerInv, HandlesInv, PointerTypeOK, Handles
<1>3. 1 \in 0..Width-1 /\ 0 \in 0..Width-1
  <2>1. {h} \in SUBSET Handles /\ Cardinality({h}) = 1
    BY <1>2, FS_Singleton
  <2>2. Cardinality({h}) \in 0..Width-1
    BY <2>1, HandleSets
  <2> QED BY <2>1, <2>2, HandleAssumption
<1>4. /\ This[o] # Null => target[This[o]] = Null
      /\ \A g \in Handles : target[g] # o
  BY <1>1, <1>2, HandleAssumption
     DEF PointerInv, HandlesInv, ObjectsAreOwned, ManagerOutlivesHandles
<1>5. /\ \A g \in Handles : target'[g] = IF g = h \/ g = This[o] THEN o ELSE target[g]
      /\ target' \in [Handles -> Objects \cup {Null}]
  BY <1>1, <1>2
<1>6. \A p \in Objects \ {o} : StrongOf(p)' = StrongOf(p) /\ WeakOf(p)' = WeakOf(p)
  BY <1>1, <1>2, <1>4, <1>5, HandleAssumption DEF StrongOf, WeakOf, Handles
<1>7. StrongOf(o)' = {h}
  <2>1. \A g \in Strong : g \in Handles /\ g # This[o]
    BY <1>2, HandleAssumption DEF Handles
  <2>2. \A g \in Strong : target'[g] = o <=> g = h
    BY <1>4, <1>5, <2>1
  <2> QED BY <1>2, <2>2 DEF StrongOf
<1>8. WeakOf(o)' = IF This[o] = Null THEN {} ELSE {This[o]}
  BY <1>2, <1>4, <1>5, HandleAssumption DEF WeakOf, Handles
<1>9. /\ strong' \in [Objects -> 0..Width-1] /\ strong'[o] = 1
      /\ weak' \in [Objects -> 0..Width-1] /\ weak'[o] = IF This[o] = Null THEN 0 ELSE 1
      /\ \A p \in Objects \ {o} : strong'[p] = strong[p] /\ weak'[p] = weak[p]
  BY <1>1, <1>2, <1>3
<1>10. Cardinality(StrongOf(o)') = strong'[o] /\ Cardinality(WeakOf(o)') = weak'[o]
  BY <1>7, <1>8, <1>9, FS_Singleton, FS_EmptySet
<1>11. PointerTypeOK'
  BY <1>1, <1>2, <1>5, <1>9 DEF PointerInv, HandlesInv, PointerTypeOK
<1>12. Counted'
  BY <1>1, <1>2, <1>6, <1>9, <1>10 DEF PointerInv, HandlesInv, Counted
<1>13. ManagerOutlivesHandles'
  BY <1>1, <1>5 DEF PointerInv, HandlesInv, ManagerOutlivesHandles
<1>14. ObjectsAreOwned'
  <2>1. \A p \in Objects : p \in pointers' <=> StrongOf(p)' # {}
    BY <1>1, <1>6, <1>7 DEF PointerInv, HandlesInv, ObjectsAreOwned
  <2>2. ASSUME NEW g \in Handles, target'[g] # Null, Owner[g] # Null PROVE Owner[g] \in pointers'
    <3>1. CASE g = h
      BY <1>1, <2>2, <3>1 DEF Exists
    <3>2. CASE g = This[o] /\ g # h
      <4>1. Owner[g] = o
        BY <1>2, <2>2, <3>2, HandleAssumption
      <4> QED BY <1>1, <4>1
    <3>3. CASE g # This[o] /\ g # h
      BY <1>1, <1>5, <2>2, <3>3 DEF PointerInv, HandlesInv, ObjectsAreOwned
    <3> QED BY <3>1, <3>2, <3>3
  <2>3. \A p \in managers' : StrongOf(p)' \cup WeakOf(p)' # {}
    BY <1>1, <1>2, <1>6, <1>7 DEF PointerInv, HandlesInv, ObjectsAreOwned
  <2> QED BY <2>1, <2>2, <2>3 DEF ObjectsAreOwned
<1>15. RanksRise'
  <2> SUFFICES ASSUME NEW g \in Strong PROVE MayOwn(g, target'[g])
    BY DEF RanksRise, MayOwn
  <2>1. MayOwn(g, target[g]) /\ g \in Handles /\ (This[o] # Null => g # This[o])
    BY <1>2 DEF PointerInv, HandlesInv, RanksRise, Handles
  <2>2. g = This[o] => This[o] # Null
    BY <2>1, HandleAssumption
  <2> QED BY <1>1, <1>5, <2>1, <2>2
<1>16. Deletions' /\ CallGoesOn'
  BY <1>1 DEF Idle, Deletions, CallGoesOn
<1> QED BY <1>11, <1>12, <1>13, <1>14, <1>15, <1>16 DEF PointerInv, HandlesInv

-----------------------------------------------------------------------------

LEMMA InitPointers ==
  ASSUME PointerInit
  PROVE  PointerInv
<1>1. Width > 0 /\ Width \in Nat
  BY HandleAssumption, HandleSets
<1>2. \A o \in Objects : StrongOf(o) = {} /\ WeakOf(o) = {}
  BY HandleAssumption DEF PointerInit, StrongOf, WeakOf, Handles
<1>3. PointerTypeOK
  BY <1>1 DEF PointerInit, PointerTypeOK
<1>4. Counted /\ ManagerOutlivesHandles /\ ObjectsAreOwned /\ RanksRise /\ Deletions /\ CallGoesOn
  BY <1>2 DEF PointerInit, Counted, ManagerOutlivesHandles, ObjectsAreOwned, RanksRise,
              MayOwn, Deletions, CallGoesOn, Handles
<1> QED BY <1>3, <1>4 DEF PointerInv, HandlesInv

LEMMA PointerStep ==
  ASSUME PointerInv, [PointerNext]_pointerVars
  PROVE  PointerInv'
<1>1. CASE DestroyMember
  BY <1>1, DestroyMemberKeeps
<1>2. CASE FinishDelete
  BY <1>2, FinishDeleteKeeps
<1>3. CASE Assign
  BY <1>3, AssignKeeps
<1>4. ASSUME NEW h \in Strong, Release(h, Null) PROVE PointerInv'
  <2>1. Null # Null => FALSE
    OBVIOUS
  <2> QED BY <1>4, ReleaseKeeps
<1>5. ASSUME NEW h \in Strong, NEW o \in Objects, Create(h, o) PROVE PointerInv'
  BY <1>5, CreateKeeps
<1>6. ASSUME NEW h \in Strong, NEW from \in Handles, Copy(h, from) PROVE PointerInv'
  <2>1. Copy(h, from) \/ (from \in Strong /\ Move(h, from))
    BY <1>6
  <2> QED BY <2>1, CopyOrMoveKeeps
<1>7. ASSUME NEW h \in Strong, NEW from \in Strong, Move(h, from) PROVE PointerInv'
  <2>1. from \in Handles /\ (Copy(h, from) \/ (from \in Strong /\ Move(h, from)))
    BY <1>7 DEF Handles
  <2> QED BY <2>1, CopyOrMoveKeeps
<1>8. ASSUME NEW w \in Weak, Forget(w) PROVE PointerInv'
  BY <1>8, ForgetKeeps
<1>9. ASSUME NEW w \in Weak, NEW from \in Strong, Weaken(w, from) PROVE PointerInv'
  BY <1>9, WeakenKeeps
<1>10. CASE UNCHANGED pointerVars
  BY <1>10 DEF pointerVars, counts, PointerInv, HandlesInv, PointerTypeOK, Counted,
     ManagerOutlivesHandles, ObjectsAreOwned, RanksRise, MayOwn, Deletions, CallGoesOn,
     StrongOf, WeakOf, Members, Calls
<1> QED BY <1>1, <1>2, <1>3, <1>4, <1>5, <1>6, <1>7, <1>8, <1>9, <1>10 DEF PointerNext

THEOREM PointersCorrect == PointerSpec => []PointerInv
<1>1. PointerInit => PointerInv
  BY InitPointers
<1>2. PointerInv /\ [PointerNext]_pointerVars => PointerInv'
  BY PointerStep
<1> QED BY <1>1, <1>2, PTL DEF PointerSpec

\* Counted, whatever the objects own of each other: the counts of a manager are the numbers
\* of its handles at every moment of every deletion.
THEOREM AlwaysCounted == PointerSpec => []Counted
BY PointersCorrect, PTL DEF PointerInv, HandlesInv

\* ManagerOutlivesHandles: no handle refers to a manager that was freed.
THEOREM ManagersOutlive == PointerSpec => []ManagerOutlivesHandles
BY PointersCorrect, PTL DEF PointerInv, HandlesInv

\* ObjectsAreOwned: objects and managers live exactly as long as their handles.
THEOREM ObjectsAreAlwaysOwned == PointerSpec => []ObjectsAreOwned
BY PointersCorrect, PTL DEF PointerInv, HandlesInv

-----------------------------------------------------------------------------
(* Vectors.                                                                *)

\* The counts are true to the block.
VectorInv ==
  /\ leftRoom \in Nat /\ size \in Nat /\ rightRoom \in Nat
  /\ block \in Seq(Element \cup {Nothing}) /\ list \in Seq(Element)
  /\ IsList

LEMMA RoundUp ==
  ASSUME NEW n \in 0..MaxLength
  PROVE  Round(n) \in Nat /\ Round(n) >= n
<1> DEFINE Enough == {p \in Capacities : n <= p}
<1>1. Enough # {} /\ Enough \subseteq Nat
  BY VectorAssumption
<1>2. PICK p \in Enough : \A q \in Enough : ~(q < p)
  <2>1. IsWellFoundedOn(OpToRel(<, Nat), Nat)
    BY NatLessThanWellFounded
  <2>2. PICK p \in Enough : \A q \in Enough : <<q, p>> \notin OpToRel(<, Nat)
    BY <1>1, <2>1, WFMin
  <2> QED BY <1>1, <2>2 DEF OpToRel
<1>3. p \in Capacities /\ n <= p /\ \A q \in Capacities : n <= q => p <= q
  BY <1>1, <1>2
<1>4. Round(n) \in Capacities /\ n <= Round(n)
  BY <1>3 DEF Round
<1> QED BY <1>4, VectorAssumption

\* What is put into a block is what is read at the place it was put.
LEMMA BlockHolds ==
  ASSUME NEW capacity \in Nat, NEW pool \in Nat, NEW elements \in Seq(Element),
         pool + Len(elements) <= capacity
  PROVE  /\ Block(capacity, pool, elements) \in Seq(Element \cup {Nothing})
         /\ Len(Block(capacity, pool, elements)) = capacity
         /\ [n \in 1..Len(elements) |-> Block(capacity, pool, elements)[pool + n]] = elements
<1> DEFINE b == Block(capacity, pool, elements)
<1>1. Len(elements) \in Nat /\ DOMAIN elements = 1..Len(elements)
      /\ \A n \in 1..Len(elements) : elements[n] \in Element
  OBVIOUS
<1>2. \A n \in 1..capacity : b[n] = IF n \in pool + 1..pool + Len(elements) THEN elements[n - pool]
                                    ELSE Nothing
  BY DEF Block
<1>3. b \in [1..capacity -> Element \cup {Nothing}]
  <2>1. \A n \in 1..capacity : b[n] \in Element \cup {Nothing}
    <3> SUFFICES ASSUME NEW n \in 1..capacity PROVE b[n] \in Element \cup {Nothing}
      OBVIOUS
    <3>1. CASE n \in pool + 1..pool + Len(elements)
      <4>1. n - pool \in 1..Len(elements)
        BY <1>1, <3>1
      <4> HIDE DEF b
      <4> QED BY <1>1, <1>2, <3>1, <4>1
    <3>2. CASE n \notin pool + 1..pool + Len(elements)
      BY <1>2, <3>2
    <3> QED BY <3>1, <3>2
  <2>2. b = [n \in 1..capacity |-> b[n]]
    BY DEF Block
  <2> HIDE DEF b
  <2> QED BY <2>1, <2>2
<1>4. b \in Seq(Element \cup {Nothing}) /\ Len(b) = capacity
  <2> HIDE DEF b
  <2> QED BY <1>3, SeqDef, LenProperties
<1>5. [n \in 1..Len(elements) |-> b[pool + n]] = elements
  <2>1. ASSUME NEW n \in 1..Len(elements) PROVE b[pool + n] = elements[n]
    <3>1. pool + n \in 1..capacity /\ pool + n \in pool + 1..pool + Len(elements)
          /\ (pool + n) - pool = n
      BY <1>1
    <3> HIDE DEF b
    <3> QED BY <1>2, <3>1
  <2>2. elements = [n \in 1..Len(elements) |-> elements[n]]
    BY <1>1
  <2> HIDE DEF b
  <2> QED BY <2>1, <2>2
<1> QED BY <1>4, <1>5

\* A step that puts the elements of the list where the counts say.
LEMMA PutBack ==
  ASSUME NEW capacity \in Nat, leftRoom' \in Nat, rightRoom' \in Nat,
         NEW elements \in Seq(Element), list' = elements, size' = Len(elements),
         leftRoom' + size' + rightRoom' <= capacity,
         block' = Block(capacity, leftRoom', elements)
  PROVE  VectorInv'
<1>1. Len(elements) \in Nat /\ leftRoom' + Len(elements) <= capacity
  OBVIOUS
<1>2. /\ block' \in Seq(Element \cup {Nothing}) /\ Len(block') = capacity
      /\ [n \in 1..Len(elements) |-> block'[leftRoom' + n]] = elements
  BY <1>1, BlockHolds
<1> QED BY <1>1, <1>2 DEF VectorInv, IsList, Elements

LEMMA ListProps ==
  ASSUME VectorInv
  PROVE  /\ Elements = list /\ Len(list) = size /\ Len(block) \in Nat
         /\ leftRoom + size + rightRoom <= Len(block)
<1>1. Elements = list /\ size \in Nat
  BY DEF VectorInv, IsList
<1>2. DOMAIN list = 1..size
  BY <1>1 DEF Elements
<1>3. DOMAIN list = 1..Len(list) /\ Len(list) \in Nat
  BY DEF VectorInv
<1>4. Len(list) = size
  BY <1>1, <1>2, <1>3
<1> QED BY <1>1, <1>4 DEF VectorInv, IsList

LEMMA ReserveKeeps ==
  ASSUME VectorInv, NEW n \in 1..MaxLength, ReserveRight(n)
  PROVE  VectorInv'
<1>1. /\ rightRoom' = ReservedRight(n).room
      /\ block' = Block(ReservedRight(n).capacity, leftRoom, list)
      /\ UNCHANGED <<leftRoom, size, list>>
  BY ListProps DEF ReserveRight
<1>2. /\ leftRoom \in Nat /\ size \in Nat /\ rightRoom \in Nat /\ list \in Seq(Element)
      /\ n \in Nat /\ Len(list) = size /\ Len(block) \in Nat
      /\ leftRoom + size + rightRoom <= Len(block) /\ Round(n) \in Nat /\ Round(n) >= n
  BY ListProps, RoundUp, VectorAssumption DEF VectorInv
<1>3. /\ ReservedRight(n).capacity \in Nat /\ ReservedRight(n).room \in Nat
      /\ leftRoom + size + ReservedRight(n).room <= ReservedRight(n).capacity
  BY <1>2 DEF ReservedRight
<1> QED BY <1>1, <1>2, <1>3, PutBack

LEMMA PrependKeeps ==
  ASSUME VectorInv, NEW values \in Seq(Element), PrependValues(values)
  PROVE  VectorInv'
<1> DEFINE reserved == ReservedLeft(size + Len(values))
<1>1. /\ size + Len(values) <= MaxLength
      /\ leftRoom' = reserved.room - Len(values) /\ size' = size + Len(values)
      /\ block' = Block(reserved.capacity, leftRoom', values \o list)
      /\ list' = values \o list /\ rightRoom' = rightRoom
  BY ListProps DEF PrependValues
<1>2. /\ leftRoom \in Nat /\ size \in Nat /\ rightRoom \in Nat /\ Len(values) \in Nat
      /\ size + Len(values) \in 0..MaxLength /\ Len(block) \in Nat
      /\ leftRoom + size + rightRoom <= Len(block)
  BY <1>1, ListProps, VectorAssumption DEF VectorInv
<1>3. values \o list \in Seq(Element) /\ Len(values \o list) = size + Len(values)
  <2>1. list \in Seq(Element) /\ Len(list) = size /\ size \in Nat
    BY ListProps DEF VectorInv
  <2> QED BY <2>1
<1>4. Round(size + Len(values)) \in Nat /\ Round(size + Len(values)) >= size + Len(values)
  BY <1>2, RoundUp
<1>5. /\ reserved.capacity \in Nat /\ reserved.room - Len(values) \in Nat
      /\ reserved.room - Len(values) + (size + Len(values)) + rightRoom <= reserved.capacity
  BY <1>2, <1>4 DEF ReservedLeft
<1> HIDE DEF reserved
<1> QED BY <1>1, <1>2, <1>3, <1>5, PutBack

LEMMA AppendKeeps ==
  ASSUME VectorInv, NEW values \in Seq(Element), AppendValues(values)
  PROVE  VectorInv'
<1> DEFINE reserved == ReservedRight(size + Len(values))
<1>1. /\ size + Len(values) <= MaxLength
      /\ rightRoom' = reserved.room - Len(values) /\ size' = size + Len(values)
      /\ block' = Block(reserved.capacity, leftRoom, list \o values)
      /\ list' = list \o values /\ leftRoom' = leftRoom
  BY ListProps DEF AppendValues
<1>2. /\ leftRoom \in Nat /\ size \in Nat /\ rightRoom \in Nat /\ Len(values) \in Nat
      /\ size + Len(values) \in 0..MaxLength /\ Len(block) \in Nat
      /\ leftRoom + size + rightRoom <= Len(block)
  BY <1>1, ListProps, VectorAssumption DEF VectorInv
<1>3. list \o values \in Seq(Element) /\ Len(list \o values) = size + Len(values)
  <2>1. list \in Seq(Element) /\ Len(list) = size /\ size \in Nat
    BY ListProps DEF VectorInv
  <2> QED BY <2>1
<1>4. Round(size + Len(values)) \in Nat /\ Round(size + Len(values)) >= size + Len(values)
  BY <1>2, RoundUp
<1>5. /\ reserved.capacity \in Nat /\ reserved.room - Len(values) \in Nat
      /\ leftRoom + (size + Len(values)) + (reserved.room - Len(values)) <= reserved.capacity
  BY <1>2, <1>4 DEF ReservedRight
<1> HIDE DEF reserved
<1> QED BY <1>1, <1>2, <1>3, <1>5, PutBack

LEMMA RemoveKeeps ==
  ASSUME VectorInv, NEW n \in 1..MaxLength, RemoveLeft(n) \/ RemoveRight(n)
  PROVE  VectorInv'
<1>1. /\ leftRoom \in Nat /\ size \in Nat /\ rightRoom \in Nat /\ n \in Nat
      /\ Len(block) \in Nat /\ leftRoom + size + rightRoom <= Len(block)
      /\ list \in Seq(Element) /\ Len(list) = size /\ Elements = list
  BY ListProps, VectorAssumption DEF VectorInv
<1>2. CASE RemoveLeft(n)
  <2>1. /\ n <= size /\ leftRoom' = leftRoom + n /\ size' = size - n /\ rightRoom' = rightRoom
        /\ block' = Block(Len(block), leftRoom', SubSeq(list, n + 1, size))
        /\ list' = SubSeq(list, n + 1, size)
    BY <1>1, <1>2 DEF RemoveLeft
  <2>2. /\ SubSeq(list, n + 1, size) \in Seq(Element)
        /\ Len(SubSeq(list, n + 1, size)) = size - n
    BY <1>1, <2>1, SubSeqProperties
  <2>3. leftRoom' \in Nat /\ rightRoom' \in Nat /\ leftRoom' + size' + rightRoom' <= Len(block)
    BY <1>1, <2>1
  <2> QED BY <1>1, <2>1, <2>2, <2>3, PutBack
<1>3. CASE RemoveRight(n)
  <2>1. /\ n <= size /\ rightRoom' = rightRoom + n /\ size' = size - n /\ leftRoom' = leftRoom
        /\ block' = Block(Len(block), leftRoom', SubSeq(list, 1, size - n))
        /\ list' = SubSeq(list, 1, size - n)
    BY <1>1, <1>3 DEF RemoveRight
  <2>2. /\ SubSeq(list, 1, size - n) \in Seq(Element)
        /\ Len(SubSeq(list, 1, size - n)) = size - n
    BY <1>1, <2>1, SubSeqProperties
  <2>3. leftRoom' \in Nat /\ rightRoom' \in Nat /\ leftRoom' + size' + rightRoom' <= Len(block)
    BY <1>1, <2>1
  <2> QED BY <1>1, <2>1, <2>2, <2>3, PutBack
<1> QED BY <1>2, <1>3

LEMMA RemoveMiddleKeeps ==
  ASSUME VectorInv, NEW offset \in 1..MaxLength, NEW n \in 1..MaxLength, RemoveMiddle(offset, n)
  PROVE  VectorInv'
<1>1. /\ leftRoom \in Nat /\ size \in Nat /\ rightRoom \in Nat /\ n \in Nat /\ n >= 1
      /\ Len(block) \in Nat /\ leftRoom + size + rightRoom <= Len(block)
      /\ list \in Seq(Element) /\ Len(list) = size /\ Elements = list
      /\ offset \in 1..size - 2 /\ offset + n <= size
  BY ListProps, VectorAssumption DEF VectorInv, RemoveMiddle
<1> DEFINE before == SubSeq(list, 1, offset)
           after  == SubSeq(list, offset + n + 1, size)
<1>2. /\ size' = size - n /\ leftRoom' = leftRoom /\ rightRoom' = rightRoom
      /\ block' = Block(Len(block), leftRoom', before \o after)
      /\ list' = before \o after
  BY <1>1 DEF RemoveMiddle
<1>3. before \in Seq(Element) /\ Len(before) = offset
  BY <1>1, SubSeqProperties
<1>4. after \in Seq(Element) /\ Len(after) = size - offset - n
  BY <1>1, SubSeqProperties
<1> HIDE DEF before, after
<1>5. before \o after \in Seq(Element) /\ Len(before \o after) = size - n
  BY <1>1, <1>3, <1>4, ConcatProperties
<1>6. leftRoom' \in Nat /\ rightRoom' \in Nat /\ leftRoom' + size' + rightRoom' <= Len(block)
  BY <1>1, <1>2
<1> QED BY <1>1, <1>2, <1>5, <1>6, PutBack

LEMMA AssignVectorKeeps ==
  ASSUME NEW values \in Seq(Element), AssignVector(values)
  PROVE  VectorInv'
<1>1. /\ block' = values /\ size' = Len(values) /\ leftRoom' = 0 /\ rightRoom' = 0
      /\ list' = values
  BY DEF AssignVector
<1>2. Len(values) \in Nat /\ values = [n \in 1..Len(values) |-> values[n]]
      /\ values \in Seq(Element \cup {Nothing})
  OBVIOUS
<1>3. [n \in 1..Len(values) |-> values[0 + n]] = values
  BY <1>2
<1> QED BY <1>1, <1>2, <1>3 DEF VectorInv, IsList, Elements

LEMMA VectorStep ==
  ASSUME VectorInv, [VectorNext]_vectorVars
  PROVE  VectorInv'
<1>1. ASSUME NEW values \in Values PROVE values \in Seq(Element)
  <2>1. PICK n \in 0..2 : values \in [1..n -> Element]
    BY DEF Values
  <2> QED BY <2>1, SeqDef
<1>2. CASE VectorNext
  <2>1. ASSUME NEW n \in 1..MaxLength, ReserveRight(n) \/ RemoveLeft(n) \/ RemoveRight(n)
        PROVE  VectorInv'
    BY <2>1, ReserveKeeps, RemoveKeeps
  <2>2. ASSUME NEW values \in Values,
               PrependValues(values) \/ AppendValues(values) \/ AssignVector(values)
        PROVE  VectorInv'
    BY <1>1, <2>2, PrependKeeps, AppendKeeps, AssignVectorKeeps
  <2>3. ASSUME NEW offset \in 1..MaxLength, NEW n \in 1..MaxLength, RemoveMiddle(offset, n)
        PROVE  VectorInv'
    BY <2>3, RemoveMiddleKeeps
  <2> QED BY <1>2, <2>1, <2>2, <2>3 DEF VectorNext
<1>3. CASE UNCHANGED vectorVars
  BY <1>3 DEF vectorVars, VectorInv, IsList, Elements
<1> QED BY <1>2, <1>3

\* IsList for blocks of any capacity.
THEOREM VectorIsAlwaysAList == VectorSpec => []IsList
<1>1. VectorInit => VectorInv
  BY DEF VectorInit, VectorInv, IsList, Elements
<1>2. VectorInv /\ [VectorNext]_vectorVars => VectorInv'
  BY VectorStep
<1>3. VectorInv => IsList
  BY DEF VectorInv
<1> QED BY <1>1, <1>2, <1>3, PTL DEF VectorSpec
=============================================================================
