---------------------------- MODULE FcPpuProofs ----------------------------
(* Proofs about the Famicom's picture unit, for any number of lines.       *)
EXTENDS FcPpu, TLAPS

-----------------------------------------------------------------------------
(* Types, and the interrupt line.                                          *)

\* NmiLineFollowsFlag is inductive once it is known of the saved state as well.
SavedOK ==
  saved # None =>
    /\ saved.nmiLine = (saved.nmiEnable /\ saved.nmiFlag)
    /\ saved.nmiHold = saved.nmiFlag
    /\ saved.nmiFlag => \/ saved.ly > NmiLine /\ saved.ly < PreRender
                        \/ saved.ly = PreRender /\ saved.lx = 0
NmiInv == TypeOK /\ NmiLineFollowsFlag /\ SavedOK

LEMMA Lines ==
  /\ VLines \in Nat /\ VisibleLines \in Nat /\ VLines >= VisibleLines + 4
  /\ PreRender \in Nat /\ NmiLine \in Nat /\ NmiLine < PreRender /\ VLines = PreRender + 1
BY LinesAssumption DEF PreRender, NmiLine

\* A call of main() that steps at least 3 clocks passes both dots of the line, or
\* neither, as far as the flag is concerned.
LEMMA StepFlagsKeepLine ==
  ASSUME TypeOK, NmiLineFollowsFlag, NEW clocks \in Nat, clocks >= 3, StepFlags(clocks),
         nmiEnable' = nmiEnable
  PROVE  /\ nmiFlag' \in BOOLEAN /\ nmiHold' \in BOOLEAN
         /\ nmiLine' \in BOOLEAN /\ nmiPending' \in BOOLEAN
         /\ nmiLine' = (nmiEnable /\ nmiFlag') /\ nmiHold' = nmiFlag'
         /\ nmiFlag' => ly \in NmiLine .. PreRender - 1 \/ (nmiFlag /\ ly # PreRender)
<1> DEFINE begin == ly = NmiLine /\ Passes(0, clocks)
           end == ly = PreRender /\ Passes(0, clocks)
<1>a. FlagsOK /\ lx \in Nat
  BY DEF TypeOK, NumbersOK
<1>1. /\ nmiFlag' = (begin \/ (nmiFlag /\ ~end))
      /\ nmiHold' = (begin \/ (nmiHold /\ ~end))
      /\ IF ly \in {NmiLine, PreRender} /\ Passes(2, clocks)
         THEN SetNmiLine(nmiEnable /\ nmiFlag')
         ELSE UNCHANGED <<nmiLine, nmiPending>>
  BY DEF StepFlags
<1>2. nmiFlag' \in BOOLEAN /\ nmiHold' \in BOOLEAN /\ nmiHold' = nmiFlag'
  BY <1>1, <1>a DEF FlagsOK, NmiLineFollowsFlag
<1>3. nmiLine' \in BOOLEAN /\ nmiPending' \in BOOLEAN
  BY <1>1, <1>2, <1>a DEF FlagsOK, SetNmiLine
<1>4. begin => Passes(2, clocks)
  BY <1>a DEF Passes
<1>5. end => Passes(2, clocks)
  BY <1>a DEF Passes
<1>7. nmiLine' = (nmiEnable /\ nmiFlag')
  <2>1. CASE ly \in {NmiLine, PreRender} /\ Passes(2, clocks)
    BY <2>1, <1>1 DEF SetNmiLine
  <2>2. CASE ~(ly \in {NmiLine, PreRender} /\ Passes(2, clocks))
    <3>1. ~begin /\ ~end
      BY <2>2, <1>4, <1>5
    <3>2. nmiFlag' = nmiFlag
      BY <3>1, <1>1, <1>a DEF FlagsOK
    <3> QED  BY <3>2, <2>2, <1>1 DEF NmiLineFollowsFlag
  <2> QED  BY <2>1, <2>2
<1>8. ASSUME nmiFlag' PROVE ly \in NmiLine .. PreRender - 1 \/ (nmiFlag /\ ly # PreRender)
  <2>1. CASE begin
    BY <2>1, Lines
  <2>2. CASE ~begin
    <3>1. nmiFlag /\ ~end
      BY <2>2, <1>8, <1>1
    <3>2. ly = PreRender => end
      BY <3>1, Lines DEF NmiLineFollowsFlag, Passes
    <3> QED  BY <3>1, <3>2
  <2> QED  BY <2>1, <2>2
<1> QED  BY <1>2, <1>3, <1>7, <1>8

\* A call of main() that ends the line.
LEMMA FinishLineKeepsNmi ==
  ASSUME NmiInv, UNCHANGED <<controlVars, saved>>, NEW clocks \in Nat, clocks >= 3,
         FinishLine(clocks), host' \in {"idle", "run", "save", "serialize"},
         counter' \in 0..3, moved' \in BOOLEAN
  PROVE  NmiInv'
<1>1. NumbersOK /\ FlagsOK /\ NmiLineFollowsFlag /\ SavedOK
  BY DEF NmiInv, TypeOK
<1>2. UNCHANGED <<nmiEnable, rendering, isSkipping, saved>>
  BY DEF controlVars
<1>3. /\ nmiFlag' \in BOOLEAN /\ nmiHold' \in BOOLEAN
      /\ nmiLine' \in BOOLEAN /\ nmiPending' \in BOOLEAN
      /\ nmiLine' = (nmiEnable /\ nmiFlag') /\ nmiHold' = nmiFlag'
      /\ nmiFlag' => ly \in NmiLine .. PreRender - 1 \/ (nmiFlag /\ ly # PreRender)
  BY <1>2, StepFlagsKeepLine DEF FinishLine, NmiInv
<1>4. /\ lx' = 0
      /\ ly' = IF ly = PreRender THEN 0 ELSE ly + 1
  BY DEF FinishLine
<1>5. field' \in BOOLEAN /\ skip' \in BOOLEAN /\ hasRendered' \in BOOLEAN
  BY <1>1 DEF FinishLine, FlagsOK
<1>6. NumbersOK'
  <2>1. rows' \in [Line -> Drawing] /\ firstRow' \in 0..VisibleLines
    BY <1>1, Lines DEF FinishLine, NextPicture, pictureVars, NumbersOK, Drawing
  <2> QED  BY <1>1, <1>4, <2>1, Lines DEF NumbersOK
<1>7. FlagsOK'
  BY <1>1, <1>2, <1>3, <1>5 DEF FlagsOK
<1>8. nmiFlag' => (ly' > NmiLine /\ ly' < PreRender) \/ (ly' = PreRender /\ lx' = 0)
  BY <1>1, <1>3, <1>4, Lines DEF NmiLineFollowsFlag, NumbersOK
<1>9. NmiLineFollowsFlag'
  BY <1>2, <1>3, <1>8 DEF NmiLineFollowsFlag, PreRender, NmiLine
<1> QED  BY <1>1, <1>2, <1>6, <1>7, <1>9 DEF NmiInv, TypeOK, SavedOK, PreRender, NmiLine

\* A call of main() within a line, which is not one of the vertical blank.
LEMMA StepKeepsNmi ==
  ASSUME NmiInv, UNCHANGED <<controlVars, saved>>, NEW clocks \in Nat, clocks >= 3, ~Blank,
         Step(clocks), host' \in {"idle", "run", "save", "serialize"},
         counter' \in 0..3, rows' \in [Line -> Drawing], firstRow' = firstRow
  PROVE  NmiInv'
<1>1. NumbersOK /\ FlagsOK /\ NmiLineFollowsFlag /\ SavedOK
  BY DEF NmiInv, TypeOK
<1>2. UNCHANGED <<nmiEnable, rendering, isSkipping, saved>>
  BY DEF controlVars
<1>3. /\ nmiFlag' \in BOOLEAN /\ nmiHold' \in BOOLEAN
      /\ nmiLine' \in BOOLEAN /\ nmiPending' \in BOOLEAN
      /\ nmiLine' = (nmiEnable /\ nmiFlag') /\ nmiHold' = nmiFlag'
      /\ nmiFlag' => ly \in NmiLine .. PreRender - 1 \/ (nmiFlag /\ ly # PreRender)
  BY <1>2, StepFlagsKeepLine DEF Step, NmiInv
<1>4. lx' = lx + clocks /\ UNCHANGED <<ly, field, skip, hasRendered, moved>>
  BY DEF Step
<1>5. NumbersOK'
  BY <1>1, <1>4, Lines DEF NumbersOK
<1>6. FlagsOK'
  BY <1>1, <1>2, <1>3, <1>4 DEF FlagsOK
<1>7. ~nmiFlag'
  BY <1>1, <1>3, LinesAssumption DEF Blank, NmiLineFollowsFlag, NumbersOK, PreRender, NmiLine
<1>8. NmiLineFollowsFlag'
  BY <1>2, <1>3, <1>7 DEF NmiLineFollowsFlag
<1> QED  BY <1>1, <1>2, <1>5, <1>6, <1>8 DEF NmiInv, TypeOK, SavedOK, PreRender, NmiLine

LEMMA MainKeepsNmi ==
  ASSUME NmiInv, RenderScanline, UNCHANGED <<controlVars, saved>>,
         host' \in {"idle", "run", "save", "serialize"}
  PROVE  NmiInv'
<1>1. NumbersOK /\ FlagsOK /\ NmiLineFollowsFlag /\ SavedOK
  BY DEF NmiInv, TypeOK
<1>2. CASE BlankLine
  <2>1. counter' \in 0..3 /\ FinishLine(341)
    BY <1>1, <1>2 DEF BlankLine, NumbersOK
  <2>2. moved' \in BOOLEAN
    BY <1>1, <1>2 DEF BlankLine, FlagsOK
  <2> QED  BY <2>1, <2>2, FinishLineKeepsNmi
<1>3. CASE FirstCall
  <2>1. UNCHANGED <<lx, ly, field, skip, hasRendered, moved, nmiHold, nmiFlag, nmiLine,
                    nmiPending, nmiEnable, rendering, isSkipping, saved, rows, firstRow>>
    BY <1>3 DEF FirstCall, nmiVars, controlVars, pictureVars
  <2>2. NumbersOK'
    BY <1>1, <1>3, <2>1 DEF FirstCall, NumbersOK
  <2>3. FlagsOK'
    BY <1>1, <2>1 DEF FlagsOK
  <2> QED  BY <1>1, <2>1, <2>2, <2>3 DEF NmiInv, TypeOK, NmiLineFollowsFlag, SavedOK,
                                         PreRender, NmiLine
<1>4. CASE RenderScanline1
  <2>1. rows' \in [Line -> Drawing]
    BY <1>1, <1>4 DEF RenderScanline1, NumbersOK, Drawn, Drawing
  <2>2. counter' \in 0..3 /\ Step(257) /\ ~Blank /\ firstRow' = firstRow
    BY <1>4 DEF RenderScanline1
  <2> QED  BY <2>1, <2>2, StepKeepsNmi
<1>5. CASE RenderScanline2
  <2>1. counter' \in 0..3 /\ Step(64) /\ ~Blank
    BY <1>5 DEF RenderScanline2
  <2>2. rows' \in [Line -> Drawing] /\ firstRow' = firstRow
    BY <1>1, <1>5 DEF RenderScanline2, pictureVars, NumbersOK
  <2> QED  BY <2>1, <2>2, StepKeepsNmi
<1>6. CASE RenderScanline3
  <2>1. LastDots \in Nat /\ LastDots >= 3
    BY DEF LastDots
  <2>2. FinishLine(LastDots)
    BY <1>6 DEF RenderScanline3
  <2>3. counter' \in 0..3
    BY <1>6 DEF RenderScanline3, AfterScanline3
  <2>4. moved' \in BOOLEAN
    BY <1>6 DEF RenderScanline3
  <2> QED  BY <2>1, <2>2, <2>3, <2>4, FinishLineKeepsNmi
<1> QED  BY <1>2, <1>3, <1>4, <1>5, <1>6 DEF RenderScanline

LEMMA CpuKeepsNmi ==
  ASSUME NmiInv, Cpu
  PROVE  NmiInv'
<1>1. NumbersOK /\ FlagsOK /\ NmiLineFollowsFlag /\ SavedOK /\ saved \in States \cup {None}
  BY DEF NmiInv, TypeOK
<1>2. NumbersOK'
  <2>1. /\ UNCHANGED <<counter, lx, ly, rows, firstRow>>
        /\ host' \in {"idle", "run", "save", "serialize"}
    BY <1>1 DEF Cpu, ReadStatus, WriteControl, WriteMask, TakeNmi, Frame, CpuActs,
                positionVars, pictureVars, NumbersOK
  <2> QED  BY <1>1, <2>1 DEF NumbersOK
<1>3. UNCHANGED <<lx, ly, saved>>
  BY DEF Cpu, ReadStatus, WriteControl, WriteMask, TakeNmi, Frame, CpuActs, positionVars
<1> SUFFICES FlagsOK' /\ NmiLineFollowsFlag'
  BY <1>1, <1>2, <1>3 DEF NmiInv, TypeOK, SavedOK, PreRender, NmiLine
<1>4. CASE ReadStatus
  BY <1>4, <1>1 DEF ReadStatus, SetNmiLine, FlagsOK, NmiLineFollowsFlag, CpuActs,
                    positionVars, controlVars
<1>5. CASE WriteControl
  <2>1. PICK enable \in BOOLEAN :
          nmiEnable' = enable /\ SetNmiLine(enable /\ nmiHold /\ nmiFlag)
    BY <1>5 DEF WriteControl
  <2>2. UNCHANGED <<lx, ly, field, skip, hasRendered, moved, nmiHold, nmiFlag, rendering,
                    isSkipping>>
    BY <1>5 DEF WriteControl, CpuActs, positionVars
  <2>3. nmiEnable' \in BOOLEAN /\ nmiLine' \in BOOLEAN /\ nmiPending' \in BOOLEAN
    BY <2>1, <1>1 DEF SetNmiLine, FlagsOK
  <2>4. nmiLine' = (nmiEnable' /\ nmiFlag)
    BY <2>1, <1>1 DEF SetNmiLine, FlagsOK, NmiLineFollowsFlag
  <2>5. FlagsOK'
    BY <2>2, <2>3, <1>1 DEF FlagsOK
  <2> QED  BY <2>2, <2>4, <2>5, <1>1 DEF NmiLineFollowsFlag, PreRender, NmiLine
<1>6. CASE WriteMask
  BY <1>6, <1>1 DEF WriteMask, FlagsOK, NmiLineFollowsFlag, PreRender, NmiLine, CpuActs,
                    positionVars, nmiVars
<1>7. CASE TakeNmi
  BY <1>7, <1>1 DEF TakeNmi, FlagsOK, NmiLineFollowsFlag, PreRender, NmiLine, CpuActs,
                    positionVars, controlVars
<1>8. CASE Frame
  BY <1>8, <1>1 DEF Frame, FlagsOK, NmiLineFollowsFlag, PreRender, NmiLine, nmiVars, controlVars
<1> QED  BY <1>4, <1>5, <1>6, <1>7, <1>8 DEF Cpu

LEMMA HostKeepsNmi ==
  ASSUME NmiInv, Host \/ Unserialize
  PROVE  NmiInv'
<1>1. NumbersOK /\ FlagsOK /\ NmiLineFollowsFlag /\ SavedOK /\ saved \in States \cup {None}
  BY DEF NmiInv, TypeOK
<1>2. CASE Run \/ StartSave \/ SkipFrames
  <2>1. UNCHANGED <<counter, lx, ly, field, skip, hasRendered, moved, nmiHold, nmiFlag,
                    nmiLine, nmiPending, nmiEnable, rendering, saved, rows>>
    BY <1>2 DEF Run, StartSave, SkipFrames, positionVars, pictureVars, nmiVars, controlVars
  <2>2. isSkipping' \in BOOLEAN
    BY <1>1, <1>2 DEF Run, StartSave, SkipFrames, controlVars, FlagsOK
  <2>3. host' \in {"idle", "run", "save", "serialize"}
    BY <1>1, <1>2 DEF Run, StartSave, SkipFrames
  <2>4. NumbersOK'
    <3>1. firstRow' \in 0..VisibleLines
      BY <1>1, <1>2, Lines DEF Run, StartSave, SkipFrames, RowAfter, pictureVars, NumbersOK
    <3> QED  BY <2>1, <2>3, <3>1, <1>1 DEF NumbersOK
  <2>5. FlagsOK'
    BY <2>1, <2>2, <1>1 DEF FlagsOK
  <2> QED  BY <2>1, <2>4, <2>5, <1>1 DEF NmiInv, TypeOK, NmiLineFollowsFlag, SavedOK,
                                         PreRender, NmiLine
<1>3. CASE Power
  <2>1. NumbersOK'
    BY <1>1, <1>3, Lines DEF Power, PowerIO, ReplacePicture, RowAfter, Drawing, NumbersOK
  <2>2. FlagsOK'
    BY <1>1, <1>3 DEF Power, PowerIO, ReplacePicture, FlagsOK
  <2>3. NmiLineFollowsFlag' /\ saved' = saved
    BY <1>3 DEF Power, PowerIO, NmiLineFollowsFlag
  <2> QED  BY <2>1, <2>2, <2>3, <1>1 DEF NmiInv, TypeOK, SavedOK, PreRender, NmiLine
<1>4. CASE Serialize
  <2>1. /\ UNCHANGED <<counter, lx, ly, field, skip, hasRendered, moved, nmiHold, nmiFlag,
                       nmiLine, nmiPending, nmiEnable, rendering, isSkipping, rows,
                       firstRow>>
        /\ host' = "idle"
    BY <1>4 DEF Serialize, positionVars, pictureVars, nmiVars, controlVars
  <2>2. NumbersOK'
    BY <2>1, <1>1 DEF NumbersOK
  <2>3. FlagsOK' /\ NmiLineFollowsFlag'
    BY <2>1, <1>1 DEF FlagsOK, NmiLineFollowsFlag, PreRender, NmiLine
  <2>4. CASE lx > MaxDot
    <3>1. saved' = saved
      BY <1>4, <2>4 DEF Serialize
    <3> QED  BY <2>2, <2>3, <3>1, <1>1 DEF NmiInv, TypeOK, SavedOK, PreRender, NmiLine
  <2>5. CASE ~(lx > MaxDot)
    <3>1. saved' = [lx |-> lx, ly |-> ly, field |-> field, nmiHold |-> nmiHold,
                    nmiFlag |-> nmiFlag, nmiEnable |-> nmiEnable, rendering |-> rendering,
                    nmiLine |-> nmiLine, nmiPending |-> nmiPending]
      BY <1>4, <2>5 DEF Serialize
    <3>2. lx \in 0..MaxDot /\ ly \in 0..VLines-1
      BY <2>5, <1>1, LinesAssumption DEF NumbersOK
    <3>3. saved' \in States
      BY <3>1, <3>2, <1>1 DEF States, FlagsOK
    <3>4. /\ saved'.nmiLine = nmiLine /\ saved'.nmiEnable = nmiEnable
          /\ saved'.nmiFlag = nmiFlag /\ saved'.nmiHold = nmiHold
          /\ saved'.lx = lx /\ saved'.ly = ly
      BY <3>1
    <3>5. SavedOK'
      BY <3>4, <1>1 DEF SavedOK, NmiLineFollowsFlag, PreRender, NmiLine
    <3> QED  BY <2>2, <2>3, <3>3, <3>5 DEF NmiInv, TypeOK
  <2> QED  BY <2>4, <2>5
<1>5. CASE Unserialize
  <2>1. saved \in States /\ saved # None /\ saved' = saved
    BY <1>5, <1>1 DEF Unserialize
  <2>2. saved.lx \in 0..MaxDot /\ saved.ly \in 0..VLines-1
    BY <2>1 DEF States
  <2>3. /\ saved.field \in BOOLEAN /\ saved.nmiHold \in BOOLEAN /\ saved.nmiFlag \in BOOLEAN
        /\ saved.nmiEnable \in BOOLEAN /\ saved.rendering \in BOOLEAN
        /\ saved.nmiLine \in BOOLEAN /\ saved.nmiPending \in BOOLEAN
    BY <2>1 DEF States
  <2>4. NumbersOK'
    <3>1. lx' \in Nat /\ ly' \in 0..VLines-1 /\ UNCHANGED <<host, counter>>
      BY <1>5, <2>2, LinesAssumption DEF Unserialize
    <3>2. rows' \in [Line -> Drawing] /\ firstRow' \in 0..VisibleLines
      BY <1>5, <3>1, Lines DEF Unserialize, ReplacePicture, RowAfter, Drawing
    <3> QED  BY <1>1, <3>1, <3>2 DEF NumbersOK
  <2>5. FlagsOK'
    BY <1>5, <1>1, <2>3 DEF Unserialize, ReplacePicture, FlagsOK
  <2>6. NmiLineFollowsFlag'
    BY <1>5, <1>1, <2>1 DEF Unserialize, SavedOK, NmiLineFollowsFlag, PreRender, NmiLine
  <2> QED  BY <2>1, <2>4, <2>5, <2>6, <1>1 DEF NmiInv, TypeOK, SavedOK, PreRender, NmiLine
<1> QED  BY <1>2, <1>3, <1>4, <1>5 DEF Host

LEMMA NextKeepsNmi == NmiInv /\ [Next]_vars => NmiInv'
<1> SUFFICES ASSUME NmiInv, [Next]_vars PROVE NmiInv'
  OBVIOUS
<1>1. CASE Main \/ MainOfSave
  BY <1>1, MainKeepsNmi DEF Main, MainOfSave
<1>2. CASE Cpu
  BY <1>2, CpuKeepsNmi
<1>3. CASE Host \/ Unserialize
  BY <1>3, HostKeepsNmi
<1>4. CASE UNCHANGED vars
  BY <1>4 DEF vars, positionVars, pictureVars, nmiVars, controlVars, NmiInv, TypeOK, NumbersOK, FlagsOK,
              NmiLineFollowsFlag, SavedOK, PreRender, NmiLine
<1> QED  BY <1>1, <1>2, <1>3, <1>4 DEF Next

LEMMA InitNmi == Init => NmiInv
<1> SUFFICES ASSUME Init PROVE NmiInv
  OBVIOUS
<1>1. NumbersOK
  BY LinesAssumption DEF Init, NumbersOK, Drawing
<1>2. FlagsOK /\ NmiLineFollowsFlag
  BY DEF Init, FlagsOK, NmiLineFollowsFlag
<1> QED  BY <1>1, <1>2 DEF Init, NmiInv, TypeOK, SavedOK

\* Every register of the picture unit keeps its range, whatever is saved and loaded.
THEOREM TypeCorrect == Spec => []TypeOK
<1>1. NmiInv => TypeOK
  BY DEF NmiInv
<1> QED  BY <1>1, InitNmi, NextKeepsNmi, PTL DEF Spec

\* The CPU's interrupt line always agrees with the picture unit's flag, whose set
\* and reset fall into different calls of main().
THEOREM InterruptLine == Spec => []NmiLineFollowsFlag
<1>1. NmiInv => NmiLineFollowsFlag
  BY DEF NmiInv
<1> QED  BY <1>1, InitNmi, NextKeepsNmi, PTL DEF Spec

-----------------------------------------------------------------------------
(* The static counter.                                                     *)

\* In the vertical blank the counter stands still, where RenderScanline3 left it.
PhaseInv == PhaseFollowsDot /\ (~moved /\ Blank => counter = 0)

LEMMA NextKeepsPhase == PhaseInv /\ [Next]_vars => PhaseInv'
<1> SUFFICES ASSUME PhaseInv, [Next]_vars PROVE PhaseInv'
  OBVIOUS
<1> USE DEF PhaseInv, PhaseFollowsDot
<1>1. CASE Main \/ MainOfSave
  <2>1. RenderScanline
    BY <1>1 DEF Main, MainOfSave
  <2>2. CASE BlankLine
    BY <2>2 DEF BlankLine, FinishLine
  <2>3. CASE FirstCall
    BY <2>3 DEF FirstCall, Blank
  <2>4. CASE RenderScanline1
    BY <2>4 DEF RenderScanline1, Step, Blank
  <2>5. CASE RenderScanline2
    BY <2>5 DEF RenderScanline2, Step, Blank
  <2>6. CASE RenderScanline3
    BY <2>6 DEF RenderScanline3, AfterScanline3, FinishLine
  <2> QED  BY <2>1, <2>2, <2>3, <2>4, <2>5, <2>6 DEF RenderScanline
<1>2. CASE Cpu
  <2>1. UNCHANGED <<counter, lx, ly, moved>>
    BY <1>2 DEF Cpu, ReadStatus, WriteControl, WriteMask, TakeNmi, Frame, CpuActs, positionVars
  <2> QED  BY <2>1 DEF Blank
<1>3. CASE Host \/ Unserialize
  BY <1>3 DEF Host, Run, SkipFrames, Power, StartSave, Serialize, Unserialize,
              ReplacePicture, positionVars, Blank
<1>4. CASE UNCHANGED vars
  BY <1>4 DEF vars, positionVars, Blank
<1> QED  BY <1>1, <1>2, <1>3, <1>4 DEF Next

\* A load or a power cycle cannot put the static counter out of step for longer
\* than the next line that is drawn, for any number of lines and saves.
THEOREM PhaseRecovers == Spec => []PhaseFollowsDot
<1>1. Init => PhaseInv
  BY LinesAssumption DEF Init, PhaseInv, PhaseFollowsDot, Blank
<1>2. PhaseInv => PhaseFollowsDot
  BY DEF PhaseInv
<1> QED  BY <1>1, <1>2, NextKeepsPhase, PTL DEF Spec

-----------------------------------------------------------------------------
(* The picture that is shown.                                              *)

\* The rows of which the picture that is being drawn has written every pixel, below
\* those that a reset or a load may have cost it; a skipped picture leaves the rows of
\* the one before it alone.  While the counter may be out of step nothing is promised
\* of the line it is in, and all that is drawn lies in that line or below it.
DrawnTo == IF counter >= 2 THEN ly + 1 ELSE ly
RowsInv ==
  /\ moved => firstRow > ly \/ firstRow = VisibleLines
  /\ ~Skipped => \A y \in Line : firstRow <= y /\ y < DrawnTo => rows[y] = "this"
  /\ Skipped => \A y \in Line : firstRow <= y => rows[y] = "last"

LEMMA MainKeepsRows ==
  ASSUME NumbersOK, FlagsOK, PhaseInv, RowsInv, RenderScanline, UNCHANGED controlVars
  PROVE  RowsInv'
<1>1. isSkipping' = isSkipping
  BY DEF controlVars
<1>2. /\ ly \in Nat /\ lx \in Nat /\ counter \in 0..3 /\ firstRow \in 0..VisibleLines
      /\ \A y \in Line : y \in Nat /\ y < VisibleLines
  BY Lines DEF NumbersOK, Line
<1>3. CASE BlankLine
  <2>1. ly >= VisibleLines /\ ly # PreRender
    BY <1>3, <1>2, Lines DEF BlankLine, Blank, PreRender
  <2>2. UNCHANGED <<counter, moved, skip, rows, firstRow>> /\ ly' = ly + 1
    BY <1>3, <2>1 DEF BlankLine, FinishLine, pictureVars
  <2>3. moved' => firstRow' > ly' \/ firstRow' = VisibleLines
    BY <2>1, <2>2, <1>2, Lines DEF RowsInv
  <2> QED  BY <1>1, <1>2, <2>1, <2>2, <2>3, Lines DEF RowsInv, Skipped, DrawnTo
<1>4. CASE FirstCall
  <2>1. UNCHANGED <<ly, moved, skip, rows, firstRow>> /\ counter = 0 /\ counter' = 1
    BY <1>4 DEF FirstCall, pictureVars
  <2> QED  BY <1>1, <2>1 DEF RowsInv, Skipped, DrawnTo
<1>5. CASE RenderScanline1
  <2>1. /\ UNCHANGED <<ly, moved, skip, firstRow>> /\ counter = 1 /\ counter' = 2
        /\ rows' = IF Skipped THEN rows ELSE [y \in Line |-> Drawn(y)]
    BY <1>5 DEF RenderScanline1, Step
  <2>2. CASE Skipped
    BY <1>1, <2>1, <2>2 DEF RowsInv, Skipped
  <2>3. CASE ~Skipped
    <3>1. ASSUME NEW y \in Line, firstRow <= y, y < ly + 1
          PROVE  rows'[y] = "this"
      <4>1. ~moved /\ lx = 0
        BY <3>1, <2>1, <1>2, Lines DEF RowsInv, PhaseInv, PhaseFollowsDot
      <4>2. rows'[y] = Drawn(y)
        BY <2>1, <2>3
      <4>3. CASE y = ly
        BY <4>1, <4>2, <4>3 DEF Drawn
      <4>4. CASE y < ly
        <5>1. ~(ly * 256 + lx < (y + 1) * 256)
          BY <4>1, <4>4, <1>2
        <5>2. rows[y] = "this"
          BY <3>1, <4>4, <2>1, <2>3 DEF RowsInv, DrawnTo
        <5> QED  BY <4>2, <4>4, <5>1, <5>2, <1>2 DEF Drawn
      <4> QED  BY <3>1, <4>3, <4>4, <1>2
    <3> QED  BY <1>1, <2>1, <2>3, <3>1 DEF RowsInv, Skipped, DrawnTo
  <2> QED  BY <2>2, <2>3
<1>6. CASE RenderScanline2
  <2>1. UNCHANGED <<ly, moved, skip, rows, firstRow>> /\ counter = 2 /\ counter' = 3
    BY <1>6 DEF RenderScanline2, Step, pictureVars
  <2> QED  BY <1>1, <2>1 DEF RowsInv, Skipped, DrawnTo
<1>7. CASE RenderScanline3
  <2>1. FinishLine(LastDots) /\ moved' = FALSE /\ counter = 3 /\ counter' = 0
    BY <1>7 DEF RenderScanline3, AfterScanline3
  <2>2. CASE ly # PreRender
    <3>1. UNCHANGED <<skip, rows, firstRow>> /\ ly' = ly + 1
      BY <2>1, <2>2 DEF FinishLine, pictureVars
    <3> QED  BY <1>1, <2>1, <3>1 DEF RowsInv, Skipped, DrawnTo
  <2>3. CASE ly = PreRender
    <3>1. /\ skip' = ~skip /\ ly' = 0
          /\ rows' = [y \in Line |-> IF rows[y] = "this" THEN "last" ELSE "other"]
          /\ firstRow' = IF isSkipping /\ ~skip THEN firstRow ELSE 0
      BY <2>1, <2>3 DEF FinishLine, NextPicture
    <3>2. DrawnTo' = 0
      BY <2>1, <3>1 DEF DrawnTo
    <3>3. ASSUME Skipped', NEW y \in Line, firstRow' <= y
          PROVE  rows'[y] = "last"
      <4>1. isSkipping /\ ~skip
        BY <1>1, <3>1, <3>3 DEF Skipped
      <4>2. y < DrawnTo
        BY <2>3, <1>2, Lines DEF DrawnTo
      <4>3. rows[y] = "this"
        BY <3>1, <3>3, <4>1, <4>2 DEF RowsInv, Skipped
      <4> QED  BY <3>1, <4>3
    <3> QED  BY <1>2, <2>1, <3>2, <3>3 DEF RowsInv
  <2> QED  BY <2>2, <2>3
<1> QED  BY <1>3, <1>4, <1>5, <1>6, <1>7 DEF RenderScanline

LEMMA HostKeepsRows ==
  ASSUME NumbersOK, FlagsOK, RowsInv, Host \/ Unserialize,
         NEW line \in Nat, ly' = line
  PROVE  RowsInv'
<1>1. /\ ly \in Nat /\ counter \in 0..3 /\ firstRow \in 0..VisibleLines
      /\ \A y \in Line : y \in Nat /\ y < VisibleLines
  BY Lines DEF NumbersOK, Line
<1>2. DrawnTo <= ly + 1 /\ DrawnTo \in Nat
  BY <1>1 DEF DrawnTo
<1>2a. DrawnTo' <= line + 1 /\ DrawnTo' \in Nat
  <2>1. DrawnTo' = IF counter' >= 2 THEN line + 1 ELSE line
    BY DEF DrawnTo
  <2> QED  BY <2>1
<1>3. CASE Run \/ StartSave \/ Serialize
  <2>1. UNCHANGED <<counter, ly, moved, skip, isSkipping, rows, firstRow>>
    BY <1>3 DEF Run, StartSave, Serialize, positionVars, controlVars, pictureVars
  <2> QED  BY <2>1 DEF RowsInv, Skipped, DrawnTo
<1>4. CASE SkipFrames
  <2>1. UNCHANGED <<counter, ly, moved, skip, rows>>
    BY <1>4 DEF SkipFrames, positionVars
  <2>2. /\ isSkipping' \in BOOLEAN /\ isSkipping \in BOOLEAN /\ skip \in BOOLEAN
        /\ firstRow' = IF isSkipping' = isSkipping \/ ~skip THEN firstRow
                       ELSE IF isSkipping' THEN VisibleLines ELSE RowAfter(ly)
    BY <1>4 DEF SkipFrames, FlagsOK
  <2>3. CASE isSkipping' = isSkipping \/ ~skip
    <3>1. Skipped' = Skipped
      BY <2>1, <2>2, <2>3 DEF Skipped
    <3> QED  BY <2>1, <2>2, <2>3, <3>1 DEF RowsInv, DrawnTo
  <2>4. CASE ~(isSkipping' = isSkipping \/ ~skip) /\ isSkipping'
    <3>1. firstRow' = VisibleLines
      BY <2>2, <2>4
    <3> QED  BY <1>1, <3>1, Lines DEF RowsInv
  <2>5. CASE ~(isSkipping' = isSkipping \/ ~skip) /\ ~isSkipping'
    <3>1. firstRow' = RowAfter(ly) /\ ~Skipped'
      BY <2>2, <2>5 DEF Skipped
    <3> QED  BY <1>1, <1>2, <1>2a, <2>1, <3>1, Lines DEF RowsInv, RowAfter
  <2> QED  BY <2>3, <2>4, <2>5
<1>5. CASE Power \/ Unserialize
  <2>1. UNCHANGED <<skip, isSkipping>> /\ ReplacePicture
    BY <1>5 DEF Power, Unserialize
  <2>2. Skipped' = Skipped
    BY <2>1 DEF Skipped
  <2>3. CASE Skipped
    BY <1>1, <2>1, <2>3, Lines DEF ReplacePicture, RowsInv
  <2>4. CASE ~Skipped
    <3>1. firstRow' = RowAfter(line) /\ ~Skipped'
      BY <2>1, <2>2, <2>4 DEF ReplacePicture
    <3>2. \A y \in Line : ~(firstRow' <= y /\ y < DrawnTo')
      BY <1>1, <1>2a, <3>1, Lines DEF RowAfter
    <3>3. firstRow' > line \/ firstRow' = VisibleLines
      BY <3>1, Lines DEF RowAfter
    <3> QED  BY <3>1, <3>2, <3>3 DEF RowsInv
  <2> QED  BY <2>3, <2>4
<1> QED  BY <1>3, <1>4, <1>5 DEF Host

\* Whatever resets, loads, saves and changes of frame skipping do to the picture that
\* is being drawn, with any number of lines, the picture that is shown is whole below
\* the line in which the last of them came.
THEOREM PicturesAreWhole == Spec => []PictureIsWhole
<1> DEFINE Inv == NmiInv /\ PhaseInv /\ RowsInv
<1>1. Init => Inv
  <2> SUFFICES ASSUME Init PROVE Inv
    OBVIOUS
  <2>1. PhaseInv
    BY LinesAssumption DEF Init, PhaseInv, PhaseFollowsDot, Blank
  <2>2. RowsInv
    BY Lines DEF Init, RowsInv, Skipped, DrawnTo, Line
  <2> QED  BY <2>1, <2>2, InitNmi
<1>2. Inv /\ [Next]_vars => Inv'
  <2> SUFFICES ASSUME Inv, [Next]_vars PROVE Inv'
    OBVIOUS
  <2>1. NmiInv' /\ PhaseInv'
    BY NextKeepsNmi, NextKeepsPhase
  <2>2. NumbersOK /\ FlagsOK
    BY DEF NmiInv, TypeOK
  <2>2a. PICK line \in Nat : ly' = line
    BY <2>1, Lines DEF NmiInv, TypeOK, NumbersOK
  <2>3. RowsInv'
    <3>1. CASE Main \/ MainOfSave
      BY <2>2, <3>1, MainKeepsRows DEF Main, MainOfSave
    <3>2. CASE Cpu
      <4>1. UNCHANGED <<counter, ly, moved, skip, isSkipping, rows, firstRow>>
        BY <3>2 DEF Cpu, ReadStatus, WriteControl, WriteMask, TakeNmi, Frame, CpuActs,
                    positionVars, pictureVars, controlVars
      <4> QED  BY <4>1 DEF RowsInv, Skipped, DrawnTo
    <3>3. CASE Host \/ Unserialize
      BY <2>2, <2>2a, <3>3, HostKeepsRows
    <3>4. CASE UNCHANGED vars
      BY <3>4 DEF vars, positionVars, pictureVars, controlVars, RowsInv, Skipped, DrawnTo
    <3> QED  BY <3>1, <3>2, <3>3, <3>4 DEF Next
  <2> QED  BY <2>1, <2>3
<1>3. Inv => PictureIsWhole
  <2> SUFFICES ASSUME Inv, ly >= VisibleLines, Refreshes, NEW y \in Line, y >= firstRow
               PROVE  rows[y] = IF isSkipping THEN "last" ELSE "this"
    BY DEF PictureIsWhole
  <2>1. y < DrawnTo /\ firstRow <= y
    BY Lines DEF NmiInv, TypeOK, NumbersOK, Line, DrawnTo
  <2>2. Skipped = isSkipping
    BY DEF Refreshes, Skipped, NmiInv, TypeOK, FlagsOK
  <2> QED  BY <2>1, <2>2 DEF RowsInv
<1> QED  BY <1>1, <1>2, <1>3, PTL DEF Spec

=============================================================================
