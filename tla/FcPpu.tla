------------------------------- MODULE FcPpu -------------------------------
(***************************************************************************)
(* The Famicom's picture unit under the synchronous scheduler (fc/ppu).    *)
(* PPU::main() may not run a whole scanline, as others have to be caught   *)
(* up within it; it draws a visible line in three calls, and which part is *)
(* next is a function-static counter of renderScanline().  The position    *)
(* itself, io.ly and io.lx, is in the object, is reset by power() and is   *)
(* saved and loaded with a state; the counter is not.                      *)
(*                                                                         *)
(* One action is one call of PPU::main(), one access of the CPU that       *)
(* touches the vertical blank interrupt, or one call of the host.          *)
(***************************************************************************)
EXTENDS Integers

CONSTANTS
  VisibleLines,  \* 240
  VLines,        \* PPU::vlines(): 262, on PAL 312
  None,          \* no saved state
  MaxDot         \* bound: states are saved while io.lx is at most this

VARIABLES
  host,          \* what System is doing: "idle", "run", or the two parts of a save
  counter,       \* the static counter of renderScanline()
  lx, ly, field, \* PPU::io
  nmiHold, nmiFlag, nmiEnable, rendering,
  skip, isSkipping, hasRendered,
  nmiLine, nmiPending,  \* CPU::io
  saved,         \* the contents of a serialized state
  moved,         \* io was replaced, by power() or by loading, since the last line drawn
  rows,          \* whose pixels the visible lines of PPU::buffer hold
  firstRow       \* history: the first line of the picture to be shown of which no part
                 \* can have been lost to a reset, a load or a change of frame skipping

positionVars == <<counter, lx, ly, field, skip, hasRendered, moved>>
nmiVars == <<nmiHold, nmiFlag, nmiLine, nmiPending>>
controlVars == <<nmiEnable, rendering, isSkipping>>
pictureVars == <<rows, firstRow>>
vars == <<host, positionVars, nmiVars, controlVars, saved, pictureVars>>

ASSUME LinesAssumption ==
  /\ VisibleLines \in Nat \ {0} /\ VLines \in Nat /\ VLines >= VisibleLines + 4
  /\ MaxDot \in Nat

NmiLine == VisibleLines + 1   \* line 241
PreRender == VLines - 1
Blank == ly >= VisibleLines /\ ly <= VLines - 2

States == [lx : 0..MaxDot, ly : 0..VLines-1, field : BOOLEAN, nmiHold : BOOLEAN,
           nmiFlag : BOOLEAN, nmiEnable : BOOLEAN, rendering : BOOLEAN,
           nmiLine : BOOLEAN, nmiPending : BOOLEAN]

\* A line of the buffer was drawn in its place, from its first pixel to its last,
\* by this picture or by the picture before it; or it holds anything else.
Line == 0..VisibleLines-1
Drawing == {"this", "last", "other"}

-----------------------------------------------------------------------------
(* Dots and lines.                                                         *)

\* CPU::nmiLine: edge-sensitive.
SetNmiLine(level) ==
  /\ nmiPending' = (nmiPending \/ (~nmiLine /\ level))
  /\ nmiLine' = level

Passes(dot, clocks) == lx <= dot /\ dot < lx + clocks

\* PPU::step: the vertical blank begins and ends at dot 0 of two lines, and the
\* CPU is told at dot 2.
StepFlags(clocks) ==
  LET begin == ly = NmiLine /\ Passes(0, clocks)
      end   == ly = PreRender /\ Passes(0, clocks)
      flag  == begin \/ (nmiFlag /\ ~end)
  IN /\ nmiFlag' = flag
     /\ nmiHold' = (begin \/ (nmiHold /\ ~end))
     /\ IF ly \in {NmiLine, PreRender} /\ Passes(2, clocks)
        THEN SetNmiLine(nmiEnable /\ flag)
        ELSE UNCHANGED <<nmiLine, nmiPending>>

\* step() within a line.
Step(clocks) ==
  /\ StepFlags(clocks)
  /\ lx' = lx + clocks
  /\ UNCHANGED <<ly, field, skip, hasRendered, moved>>

\* With frame skipping, one picture of two is not drawn.
Skipped == isSkipping /\ skip

\* After frame() the next picture is drawn over this one or, if the next is skipped,
\* this one is shown at its end.
RowAfter(y) == IF y < VisibleLines THEN y + 1 ELSE VisibleLines
NextPicture ==
  /\ rows' = [y \in Line |-> IF rows[y] = "this" THEN "last" ELSE "other"]
  /\ firstRow' = IF isSkipping /\ ~skip THEN firstRow ELSE 0

FinishLine_DotKept(clocks) ==
  /\ StepFlags(clocks)
  /\ lx' = lx + clocks
  /\ IF ly = PreRender
     THEN /\ ly' = 0
          /\ field' = ~field
          /\ skip' = ~skip
          /\ hasRendered' = TRUE
          /\ NextPicture
     ELSE /\ ly' = ly + 1
          /\ UNCHANGED <<field, skip, hasRendered, pictureVars>>
\* step() to the end of the line, scanline() and, after the last line, frame().
FinishLine(clocks) ==
  /\ StepFlags(clocks)
  /\ lx' = 0
  /\ IF ly = PreRender
     THEN /\ ly' = 0
          /\ field' = ~field
          /\ skip' = ~skip
          /\ hasRendered' = TRUE
          /\ NextPicture
     ELSE /\ ly' = ly + 1
          /\ UNCHANGED <<field, skip, hasRendered, pictureVars>>

-----------------------------------------------------------------------------
(* PPU::main()                                                             *)

\* Lines 240 to vlines() - 2: step(341), scanline().
BlankLine ==
  /\ Blank
  /\ FinishLine(341)
  /\ UNCHANGED <<counter, moved>>

\* The counter goes from 0 to 1 in a call that does nothing.
FirstCall ==
  /\ ~Blank /\ counter = 0
  /\ counter' = 1
  /\ UNCHANGED <<lx, ly, field, skip, hasRendered, moved, nmiVars, pictureVars>>

\* renderPixel() after each of 256 steps writes column io.lx - 1 of line io.ly, which
\* lies in a later line of the buffer if the dot is not that of the line's first part.
Drawn(y) ==
  LET first == ly * 256 + lx IN
  IF y = ly /\ lx = 0 THEN "this"
  ELSE IF first < (y + 1) * 256 /\ y * 256 < first + 256 THEN "other"
  ELSE rows[y]

RenderScanline1 ==
  /\ ~Blank /\ counter = 1
  /\ counter' = 2
  /\ rows' = IF Skipped THEN rows ELSE [y \in Line |-> Drawn(y)]
  /\ Step(257)
  /\ UNCHANGED firstRow

RenderScanline2 ==
  /\ ~Blank /\ counter = 2
  /\ counter' = 3
  /\ Step(64)
  /\ UNCHANGED pictureVars

LastDots == IF ~Skipped /\ rendering /\ field /\ ly = PreRender THEN 19 ELSE 20

AfterScanline3_NoReset == counter + 1
AfterScanline3 == 0
RenderScanline3 ==
  /\ ~Blank /\ counter = 3
  /\ counter' = AfterScanline3
  /\ moved' = FALSE
  /\ FinishLine(LastDots)

RenderScanline ==
  \/ BlankLine
  \/ FirstCall
  \/ RenderScanline1
  \/ RenderScanline2
  \/ RenderScanline3

\* Run by the CPU's synchronize(), or once by scheduler.enter(Synchronize).
Main ==
  /\ host \in {"run", "save"}
  /\ RenderScanline
  /\ host' = host
  /\ UNCHANGED <<controlVars, saved>>

MainOfSave ==
  /\ host = "save"
  /\ RenderScanline
  /\ host' = "serialize"
  /\ UNCHANGED <<controlVars, saved>>

-----------------------------------------------------------------------------
(* The CPU.                                                                *)

CpuActs == host \in {"run", "save"} /\ UNCHANGED <<host, positionVars, saved, pictureVars>>

\* $2002: the flag is read, and taken back.
ReadStatus ==
  /\ CpuActs
  /\ nmiHold' = FALSE /\ nmiFlag' = FALSE
  /\ SetNmiLine(FALSE)
  /\ UNCHANGED controlVars

\* $2000
WriteControl ==
  /\ CpuActs
  /\ \E enable \in BOOLEAN : /\ nmiEnable' = enable
                             /\ SetNmiLine(enable /\ nmiHold /\ nmiFlag)
  /\ UNCHANGED <<nmiHold, nmiFlag, rendering, isSkipping>>

\* $2001
WriteMask ==
  /\ CpuActs
  /\ rendering' \in BOOLEAN
  /\ UNCHANGED <<nmiVars, nmiEnable, isSkipping>>

\* CPU::nmi
TakeNmi ==
  /\ CpuActs
  /\ nmiPending /\ nmiPending' = FALSE
  /\ UNCHANGED <<nmiHold, nmiFlag, nmiLine, controlVars>>

\* CPU::main() finds a finished picture: System::run() ends with the Frame
\* event; in a save the event is dropped.
Frame ==
  /\ host \in {"run", "save"}
  /\ hasRendered /\ hasRendered' = FALSE
  /\ host' = IF host = "run" THEN "idle" ELSE host
  /\ UNCHANGED <<counter, lx, ly, field, skip, moved, nmiVars, controlVars, saved, pictureVars>>

-----------------------------------------------------------------------------
(* The host.                                                               *)

Run ==
  /\ host = "idle" /\ host' = "run"
  /\ UNCHANGED <<positionVars, nmiVars, controlVars, saved, pictureVars>>

\* Interface::configure, "ppu/skipframe": an odd picture is drawn from here on, or
\* no further.
SkipFrames ==
  /\ host = "idle"
  /\ isSkipping' \in BOOLEAN
  /\ firstRow' = IF isSkipping' = isSkipping \/ ~skip THEN firstRow
                 ELSE IF isSkipping' THEN VisibleLines ELSE RowAfter(ly)
  /\ UNCHANGED <<host, positionVars, nmiVars, nmiEnable, rendering, saved, rows>>

\* The buffer is cleared, or loaded with the state, while the line that is being
\* drawn may go on anywhere.
ReplacePicture ==
  /\ moved' = TRUE
  /\ rows' = [y \in Line |-> "other"]
  /\ firstRow' = IF Skipped THEN VisibleLines ELSE RowAfter(ly')

PowerIO ==
  /\ lx' = 0 /\ ly' = 0 /\ field' = FALSE
  /\ nmiHold' = FALSE /\ nmiFlag' = FALSE /\ nmiEnable' = FALSE /\ rendering' = FALSE
  /\ nmiLine' = FALSE /\ nmiPending' = FALSE

\* A reset, a power cycle or another game: io = {}; the counter stays.
Power ==
  /\ host = "idle"
  /\ PowerIO
  /\ ReplacePicture
  /\ UNCHANGED <<host, counter, skip, isSkipping, hasRendered, saved>>

StartSave ==
  /\ host = "idle" /\ host' = "save"
  /\ UNCHANGED <<positionVars, nmiVars, controlVars, saved, pictureVars>>

Serialize ==
  /\ host = "serialize" /\ host' = "idle"
  /\ saved' = IF lx > MaxDot THEN saved ELSE
              [lx |-> lx, ly |-> ly, field |-> field, nmiHold |-> nmiHold,
               nmiFlag |-> nmiFlag, nmiEnable |-> nmiEnable, rendering |-> rendering,
               nmiLine |-> nmiLine, nmiPending |-> nmiPending]
  /\ UNCHANGED <<positionVars, nmiVars, controlVars, pictureVars>>

\* System::unserialize powers the system on and loads io over it.
Unserialize_NoCpu ==
  /\ host = "idle" /\ saved # None
  /\ lx' = saved.lx /\ ly' = saved.ly /\ field' = saved.field
  /\ nmiHold' = saved.nmiHold /\ nmiFlag' = saved.nmiFlag
  /\ nmiEnable' = saved.nmiEnable /\ rendering' = saved.rendering
  /\ nmiLine' = FALSE /\ nmiPending' = FALSE
  /\ ReplacePicture
  /\ UNCHANGED <<host, counter, skip, isSkipping, hasRendered, saved>>
Unserialize ==
  /\ host = "idle" /\ saved # None
  /\ lx' = saved.lx /\ ly' = saved.ly /\ field' = saved.field
  /\ nmiHold' = saved.nmiHold /\ nmiFlag' = saved.nmiFlag
  /\ nmiEnable' = saved.nmiEnable /\ rendering' = saved.rendering
  /\ nmiLine' = saved.nmiLine /\ nmiPending' = saved.nmiPending
  /\ ReplacePicture
  /\ UNCHANGED <<host, counter, skip, isSkipping, hasRendered, saved>>

-----------------------------------------------------------------------------

Init ==
  /\ host = "idle"
  /\ counter = 0
  /\ lx = 0 /\ ly = 0 /\ field = FALSE
  /\ nmiHold = FALSE /\ nmiFlag = FALSE /\ nmiEnable = FALSE /\ rendering = FALSE
  /\ nmiLine = FALSE /\ nmiPending = FALSE
  /\ skip = FALSE /\ isSkipping = FALSE /\ hasRendered = FALSE
  /\ saved = None /\ moved = FALSE
  /\ rows = [y \in Line |-> "other"] /\ firstRow = 0

Cpu == ReadStatus \/ WriteControl \/ WriteMask \/ TakeNmi \/ Frame
Host == Run \/ SkipFrames \/ Power \/ StartSave \/ Serialize

Next == Main \/ MainOfSave \/ Cpu \/ Host \/ Unserialize
Spec == Init /\ [][Next]_vars

-----------------------------------------------------------------------------

NumbersOK ==
  /\ host \in {"idle", "run", "save", "serialize"}
  /\ counter \in 0..3
  /\ lx \in Nat /\ ly \in 0..VLines-1
  /\ rows \in [Line -> Drawing] /\ firstRow \in 0..VisibleLines

FlagsOK ==
  /\ field \in BOOLEAN /\ skip \in BOOLEAN /\ isSkipping \in BOOLEAN
  /\ nmiHold \in BOOLEAN /\ nmiFlag \in BOOLEAN /\ nmiEnable \in BOOLEAN
  /\ nmiLine \in BOOLEAN /\ nmiPending \in BOOLEAN
  /\ rendering \in BOOLEAN /\ hasRendered \in BOOLEAN /\ moved \in BOOLEAN

TypeOK == NumbersOK /\ FlagsOK /\ saved \in States \cup {None}

\* The static counter and io.lx agree about which part of the line is next.  A
\* power cycle or a load breaks this, though no longer than until the end of the
\* next line that is drawn (in the vertical blank the counter stands still).
PhaseFollowsDot ==
  ~moved => <<counter, lx>> \in {<<0, 0>>, <<1, 0>>, <<2, 257>>, <<3, 321>>}

\* What the CPU sees on its interrupt line is what the picture unit's registers
\* say, and that it says so in the vertical blank only: through every order of
\* register accesses, saves, resets and loads.
NmiLineFollowsFlag ==
  /\ nmiLine = (nmiEnable /\ nmiFlag) /\ nmiHold = nmiFlag
  /\ nmiFlag => \/ ly > NmiLine /\ ly < PreRender
                \/ ly = PreRender /\ lx = 0

\* frame() shows the buffer, unless the next picture is the one that was not skipped.
Refreshes == ~isSkipping \/ skip

\* The picture that is shown is one picture, the one just drawn or, with frame
\* skipping, the one before it, with each line in its place.  Only the line during
\* which a reset or a load came (or frame skipping was switched), and those above it,
\* may be missing: what a line out of step draws into the lines below it is drawn over
\* before it is shown.
PictureIsWhole ==
  ly >= VisibleLines /\ Refreshes =>
    \A y \in Line : y >= firstRow => rows[y] = IF isSkipping THEN "last" ELSE "this"
=============================================================================
