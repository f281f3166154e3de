----------------------------- MODULE SfcProofs -----------------------------
(***************************************************************************)
(* What is proved about the Super Famicom's CPU.                           *)
(*                                                                         *)
(* Interrupts, for lines and fields of any length, bus cycles of any       *)
(* length, any values of the timer registers: no interrupt that was        *)
(* noticed is forgotten, an IRQ is noticed only while its line is up, and, *)
(* while lockstep is enabled, an NMI only once for each cause.             *)
(*                                                                         *)
(* DMA, for any number of channels, sizes and lengths of transfers: its    *)
(* units are moved at clocks divisible by 8; and, for lines that HDMA fits *)
(* into, as it does into those of the Super Famicom, HDMA is run for every *)
(* line and after its setup.                                               *)
(***************************************************************************)
EXTENDS SfcInterrupts, SfcDma, SequenceTheorems, TLAPS


\* While lockstep has been enabled: a line that is held has its cause counted; when an
\* NMI was asked for within the four clocks, by a write, the poll that will ask for it again comes before the
\* next lastCycle().
CauseInv ==
  steady => /\ lockstep
            /\ nmi.transition \/ nmi.hold => caused >= 1
            /\ nmi.hold /\ nmi.transition /\ caused = 1 =>
                 irqLock \/ ticks >= 2 \/ (ticks = 1 /\ h % 2 = 0) \/ access = "read"

-----------------------------------------------------------------------------
LEMMA LinesOfNmi ==
  ASSUME NEW n \in InterruptLines, NEW e \in Enables, NEW vv, NEW hh
  PROVE  NmiPoll(n, e, vv, hh) \in InterruptLines
<1> DEFINE blank == VBefore(vv, hh, 1) >= VDisp
           flip  == n.valid # blank
<1>1. blank \in BOOLEAN
  BY DEF VBefore
<1>2. (flip /\ blank) \in BOOLEAN /\ (n.transition \/ NmiHeld(n, e)) \in BOOLEAN
  OBVIOUS
<1> HIDE DEF blank
<1>3. n.line \in BOOLEAN
  BY DEF InterruptLines
<1>4. (IF flip THEN blank ELSE n.line) \in BOOLEAN
  BY <1>1, <1>3
<1> QED BY <1>1, <1>2, <1>4 DEF NmiPoll, InterruptLines, blank

LEMMA LinesOfIrq ==
  ASSUME NEW i \in InterruptLines, NEW e \in Enables, NEW ht, NEW vt, NEW vv, NEW hh
  PROVE  IrqPoll(i, e, ht, vt, vv, hh) \in InterruptLines
BY DEF IrqPoll, IrqMatches, IrqEnable, InterruptLines, Enables

-----------------------------------------------------------------------------
(* The type invariant.                                                     *)

LEMMA Bounds == MaxOwed \in Nat /\ Group \in Nat \ {0} /\ 0 \in 0..FieldLines-1 /\ 0 \in 0..LineTicks-1
                /\ Lockstep \subseteq BOOLEAN
BY InterruptAssumption

LEMMA NoLinesType == NoLines \in InterruptLines
BY DEF NoLines, InterruptLines

LEMMA TypeInit == IrqInit => IrqTypeOK
<1> SUFFICES ASSUME IrqInit PROVE IrqTypeOK
  OBVIOUS
<1>1. enable \in Enables
  BY DEF IrqInit, Enables
<1>2. owed \in 0..MaxOwed /\ cycle \in -1..Group-1
  BY Bounds DEF IrqInit
<1>3. TimeTypeOK
  <2>1. steady \in BOOLEAN
    BY Bounds DEF IrqInit
  <2> QED BY <1>2, <2>1, Bounds DEF IrqInit, TimeTypeOK
<1>4. /\ nmi \in InterruptLines /\ irq \in InterruptLines
      /\ htime \in HTimes \cup {NoHTime} /\ vtime \in VTimes \cup {NoVTime}
  BY NoLinesType DEF IrqInit
<1>5. /\ irqLock \in BOOLEAN /\ nmiPending \in BOOLEAN /\ irqPending \in BOOLEAN
      /\ resetPending \in BOOLEAN /\ interruptPending \in BOOLEAN
      /\ wai \in BOOLEAN /\ masked \in BOOLEAN /\ external \in BOOLEAN /\ caused = 0
  BY DEF IrqInit
<1>6. LineTypeOK
  BY <1>1, <1>4, <1>5 DEF LineTypeOK
<1> QED BY <1>3, <1>6 DEF IrqTypeOK

LEMMA TickKeepsType == IrqTypeOK /\ Tick => IrqTypeOK'
<1> SUFFICES ASSUME IrqTypeOK, Tick PROVE IrqTypeOK'
  OBVIOUS
<1>1. ticks' \in Nat /\ h' \in 0..LineTicks-1 /\ v' \in 0..FieldLines-1
  BY InterruptAssumption DEF Tick, IrqTypeOK, TimeTypeOK, LineTypeOK, NextH, NextV
<1>2. nmi' \in InterruptLines /\ irq' \in InterruptLines /\ caused' \in 0..2
  <2>1. CASE NextH % 2 = 1
    <3>1. nmi' = NmiPoll(nmi, enable, NextV, NextH)
          /\ irq' = IrqPoll(irq, enable, htime, vtime, NextV, NextH)
      BY <2>1 DEF Tick
    <3>2. nmi' \in InterruptLines /\ irq' \in InterruptLines
      BY <3>1, LinesOfNmi, LinesOfIrq DEF IrqTypeOK, TimeTypeOK, LineTypeOK
    <3>3. nmi'.hold \in BOOLEAN /\ nmi'.transition \in BOOLEAN
      BY <3>2 DEF InterruptLines
    <3>4. caused' = CASE nmi'.hold /\ nmi'.transition -> 2
                      [] nmi'.hold /\ ~nmi'.transition -> 1
                      [] ~nmi'.hold /\ caused = 2 -> 1
                      [] OTHER -> caused
      BY <2>1 DEF Tick
    <3>5. caused' \in 0..2
      BY <3>3, <3>4 DEF IrqTypeOK, TimeTypeOK, LineTypeOK
    <3> QED BY <3>2, <3>5
  <2>2. CASE NextH % 2 # 1
    BY <2>2 DEF Tick, IrqTypeOK, TimeTypeOK, LineTypeOK
  <2> QED BY <2>1, <2>2
<1> QED BY <1>1, <1>2 DEF Tick, IrqTypeOK, TimeTypeOK, LineTypeOK, placeVars, registerVars, pendingVars,
                           cpuVars, lockstepVars

LEMMA StepKeepsType ==
  ASSUME IrqTypeOK, NEW n \in Nat, StepCpu(n)
  PROVE  ticks' \in Nat /\ owed' \in 0..MaxOwed /\ irqLock' \in BOOLEAN
<1>1. CASE lockstep /\ irqLock' = FALSE /\ ticks' = n /\ UNCHANGED owed
  BY <1>1 DEF IrqTypeOK, TimeTypeOK, LineTypeOK
<1>2. CASE /\ owed' = IF owed + n > MaxOwed THEN MaxOwed ELSE owed + n
           /\ UNCHANGED <<irqLock, ticks>>
  <2>1. owed' \in 0..MaxOwed
    BY <1>2, Bounds DEF IrqTypeOK, TimeTypeOK, LineTypeOK
  <2> QED BY <1>2, <2>1 DEF IrqTypeOK, TimeTypeOK, LineTypeOK
<1> QED BY <1>1, <1>2 DEF StepCpu

LEMMA CyclesKeepType == IrqTypeOK /\ (PlainCycle \/ RegisterCycle \/ WaitCycle) => IrqTypeOK'
<1>1. ASSUME IrqTypeOK, PlainCycle PROVE IrqTypeOK'
  <2>1. PICK n \in CycleTicks : StepCpu(n)
    BY <1>1 DEF PlainCycle
  <2>2. ticks' \in Nat /\ owed' \in 0..MaxOwed /\ irqLock' \in BOOLEAN
    BY <1>1, <2>1, StepKeepsType, InterruptAssumption
  <2>3. stage' \in {"first", "fetched", "cycles", "last", "done"}
    BY <1>1 DEF PlainCycle, NextStage, IrqTypeOK, TimeTypeOK, LineTypeOK
  <2>4. masked' \in BOOLEAN
    BY <1>1 DEF PlainCycle, IrqTypeOK, TimeTypeOK, LineTypeOK
  <2> QED BY <1>1, <2>2, <2>3, <2>4 DEF PlainCycle, IrqTypeOK, TimeTypeOK, LineTypeOK, registerVars, pendingVars
<1>2. ASSUME IrqTypeOK, RegisterCycle PROVE IrqTypeOK'
  <2>1. ticks' \in Nat /\ owed' \in 0..MaxOwed /\ irqLock' \in BOOLEAN
    BY <1>2, StepKeepsType DEF RegisterCycle
  <2>2. stage' \in {"first", "fetched", "cycles", "last", "done"}
    BY <1>2 DEF RegisterCycle, NextStage, IrqTypeOK, TimeTypeOK, LineTypeOK
  <2> QED BY <1>2, <2>1, <2>2 DEF RegisterCycle, IrqTypeOK, TimeTypeOK, LineTypeOK, registerVars, pendingVars, cpuVars
<1>3. ASSUME IrqTypeOK, WaitCycle PROVE IrqTypeOK'
  <2>1. ticks' \in Nat /\ owed' \in 0..MaxOwed /\ irqLock' \in BOOLEAN
    BY <1>3, StepKeepsType DEF WaitCycle
  <2> QED BY <1>3, <2>1 DEF WaitCycle, IrqTypeOK, TimeTypeOK, LineTypeOK, registerVars, pendingVars, cpuVars
<1> QED BY <1>1, <1>2, <1>3

LEMMA AccessesKeepType == IrqTypeOK /\ (Read \/ Write) => IrqTypeOK'
<1>1. ASSUME IrqTypeOK, Read PROVE IrqTypeOK'
  <2>1. ticks' \in Nat /\ owed' \in 0..MaxOwed /\ irqLock' \in BOOLEAN
    BY <1>1, StepKeepsType DEF Read
  <2>2. nmi' \in InterruptLines /\ irq' \in InterruptLines
    BY <1>1 DEF Read, IrqTypeOK, TimeTypeOK, LineTypeOK, Acknowledged, InterruptLines
  <2> QED BY <1>1, <2>1, <2>2 DEF Read, IrqTypeOK, TimeTypeOK, LineTypeOK, registerVars, pendingVars, cpuVars
<1>2. ASSUME IrqTypeOK, Write, WriteNmitimen PROVE IrqTypeOK'
  <2>1. PICK e \in Enables :
          /\ enable' = e /\ irq' = IrqAfterEnable(irq, e)
          /\ nmi' = [nmi EXCEPT !.transition = @ \/ (e.nmi /\ ~enable.nmi /\ nmi.line)]
          /\ caused' \in {1, caused}
    BY <1>2 DEF WriteNmitimen
  <2>2. irq' \in InterruptLines
    BY <1>2, <2>1 DEF IrqTypeOK, TimeTypeOK, LineTypeOK, IrqAfterEnable, InterruptLines
  <2>3. nmi' \in InterruptLines
    BY <1>2, <2>1 DEF IrqTypeOK, TimeTypeOK, LineTypeOK, InterruptLines
  <2>4. caused' \in 0..2
    BY <1>2, <2>1 DEF IrqTypeOK, TimeTypeOK, LineTypeOK
  <2> QED BY <1>2, <2>1, <2>2, <2>3, <2>4
          DEF Write, WriteNmitimen, Locked, IrqTypeOK, TimeTypeOK, LineTypeOK, timeVars, pendingVars, cpuVars, lockstepVars
<1>3. ASSUME IrqTypeOK, Write, WriteTimes PROVE IrqTypeOK'
  <2>1. htime' \in HTimes \cup {NoHTime} /\ vtime' \in VTimes \cup {NoVTime}
    BY <1>3 DEF WriteTimes, IrqTypeOK, TimeTypeOK, LineTypeOK
  <2>2. irq' \in InterruptLines
    BY <1>3, LinesOfIrq DEF WriteTimes, IrqTypeOK, TimeTypeOK, LineTypeOK
  <2> QED BY <1>3, <2>1, <2>2
          DEF Write, WriteTimes, IrqTypeOK, TimeTypeOK, LineTypeOK, timeVars, pendingVars, cpuVars, lockstepVars
<1> QED BY <1>1, <1>2, <1>3 DEF Write

LEMMA LastCycleKeepsType == IrqTypeOK /\ LastCycle => IrqTypeOK'
<1> SUFFICES ASSUME IrqTypeOK, LastCycle PROVE IrqTypeOK'
  OBVIOUS
<1>1. stage' = "last"
  BY DEF LastCycle
<1>2. CASE irqLock
  BY <1>1, <1>2 DEF LastCycle, IrqTypeOK, TimeTypeOK, LineTypeOK, timeVars, registerVars, pendingVars, lockstepVars
<1>3. CASE ~irqLock
  <2>1. nmi' \in InterruptLines /\ irq' \in InterruptLines
    BY <1>3 DEF LastCycle, IrqTypeOK, TimeTypeOK, LineTypeOK, InterruptLines
  <2>2. caused' \in 0..2
    BY <1>3 DEF LastCycle, IrqTypeOK, TimeTypeOK, LineTypeOK
  <2>3. nmi.transition \in BOOLEAN /\ irq.transition \in BOOLEAN
    BY DEF IrqTypeOK, TimeTypeOK, LineTypeOK, InterruptLines
  <2>4. wai' \in BOOLEAN /\ nmiPending' \in BOOLEAN /\ irqPending' \in BOOLEAN
        /\ interruptPending' \in BOOLEAN
    BY <1>3, <2>3 DEF LastCycle, IrqTypeOK, TimeTypeOK, LineTypeOK
  <2> QED BY <1>1, <1>3, <2>1, <2>2, <2>4
          DEF LastCycle, IrqTypeOK, TimeTypeOK, LineTypeOK, timeVars, registerVars, lockstepVars
<1> QED BY <1>2, <1>3

LEMMA MainKeepsType ==
  IrqTypeOK /\ (EnterMain \/ BeginInstruction \/ EnterNmi \/ EnterIrq \/ EnterReset \/ NonePending) => IrqTypeOK'
<1>1. ASSUME IrqTypeOK, EnterMain PROVE IrqTypeOK'
  <2>1. cycle' \in -1..Group-1
    BY <1>1, Bounds DEF EnterMain, IrqTypeOK, TimeTypeOK, LineTypeOK, Flush
  <2>2. ticks' \in Nat /\ owed' \in 0..MaxOwed /\ irqLock' \in BOOLEAN
    <3>1. CASE Flush
      <4>1. ticks' = owed /\ owed' = 0 /\ irqLock' \in BOOLEAN
        BY <1>1, <3>1 DEF EnterMain
      <4> QED BY <1>1, <4>1, Bounds DEF IrqTypeOK, TimeTypeOK
    <3>2. CASE ~Flush
      BY <1>1, <3>2 DEF EnterMain, IrqTypeOK, TimeTypeOK, LineTypeOK, NoStep
    <3> QED BY <3>1, <3>2
  <2> QED BY <1>1, <2>1, <2>2 DEF EnterMain, IrqTypeOK, TimeTypeOK, LineTypeOK, registerVars, pendingVars, cpuVars
<1>2. ASSUME IrqTypeOK, BeginInstruction PROVE IrqTypeOK'
  BY <1>2 DEF BeginInstruction, IrqTypeOK, TimeTypeOK, LineTypeOK, NoStep, registerVars, pendingVars, cpuVars
<1>3. ASSUME IrqTypeOK, EnterNmi PROVE IrqTypeOK'
  BY <1>3 DEF EnterNmi, Interrupt, IrqTypeOK, TimeTypeOK, LineTypeOK, NoStep, registerVars
<1>4. ASSUME IrqTypeOK, EnterIrq PROVE IrqTypeOK'
  BY <1>4 DEF EnterIrq, Interrupt, IrqTypeOK, TimeTypeOK, LineTypeOK, NoStep, registerVars
<1>5. ASSUME IrqTypeOK, EnterReset PROVE IrqTypeOK'
  <2>1. ticks' \in Nat /\ owed' \in 0..MaxOwed /\ irqLock' \in BOOLEAN
    BY <1>5, StepKeepsType, InterruptAssumption DEF EnterReset
  <2> QED BY <1>5, <2>1 DEF EnterReset, Interrupt, IrqTypeOK, TimeTypeOK, LineTypeOK, registerVars
<1>6. ASSUME IrqTypeOK, NonePending PROVE IrqTypeOK'
  <2>1. TimeTypeOK'
    BY <1>6 DEF NonePending, IrqTypeOK, TimeTypeOK, timeVars, lockstepVars
  <2>2. LineTypeOK'
    BY <1>6 DEF NonePending, IrqTypeOK, LineTypeOK, registerVars, cpuVars
  <2> QED BY <2>1, <2>2 DEF IrqTypeOK
<1> QED BY <1>1, <1>2, <1>3, <1>4, <1>5, <1>6

LEMMA OthersKeepType ==
  IrqTypeOK /\ (EndInstruction \/ BeginWait \/ ExternalIrq \/ Configure \/ PowerCpu) => IrqTypeOK'
<1>1. ASSUME IrqTypeOK, EndInstruction PROVE IrqTypeOK'
  BY <1>1 DEF EndInstruction, IrqTypeOK, TimeTypeOK, LineTypeOK, timeVars, registerVars, pendingVars, cpuVars, lockstepVars
<1>2. ASSUME IrqTypeOK, BeginWait PROVE IrqTypeOK'
  BY <1>2 DEF BeginWait, IrqTypeOK, TimeTypeOK, LineTypeOK, timeVars, registerVars, pendingVars, lockstepVars
<1>3. ASSUME IrqTypeOK, ExternalIrq PROVE IrqTypeOK'
  BY <1>3 DEF ExternalIrq, IrqTypeOK, TimeTypeOK, LineTypeOK, placeVars, timeVars, registerVars, pendingVars, cpuVars,
              lockstepVars
<1>4. ASSUME IrqTypeOK, Configure PROVE IrqTypeOK'
  <2>1. lockstep' \in Lockstep /\ steady' \in BOOLEAN
    BY <1>4 DEF Configure
  <2>2. TimeTypeOK'
    BY <1>4, <2>1 DEF Configure, IrqTypeOK, TimeTypeOK, placeVars, timeVars
  <2>3. LineTypeOK'
    BY <1>4 DEF Configure, IrqTypeOK, LineTypeOK, registerVars, pendingVars, cpuVars
  <2> QED BY <2>2, <2>3 DEF IrqTypeOK
<1>5. ASSUME IrqTypeOK, PowerCpu PROVE IrqTypeOK'
  <2>1. enable' \in Enables
    BY <1>5 DEF PowerCpu, PowerOnCpu, Enables
  <2>2. TimeTypeOK'
    <3>1. steady' \in BOOLEAN
      BY <1>5, Bounds DEF PowerCpu, IrqTypeOK, TimeTypeOK
    <3> QED BY <1>5, <3>1, Bounds DEF PowerCpu, PowerOnCpu, IrqTypeOK, TimeTypeOK, placeVars
  <2>3. /\ nmi' \in InterruptLines /\ irq' \in InterruptLines
        /\ htime' \in HTimes \cup {NoHTime} /\ vtime' \in VTimes \cup {NoVTime}
    BY <1>5, NoLinesType DEF PowerCpu, PowerOnCpu
  <2>4. /\ irqLock' \in BOOLEAN /\ nmiPending' \in BOOLEAN /\ irqPending' \in BOOLEAN
        /\ resetPending' \in BOOLEAN /\ interruptPending' \in BOOLEAN
        /\ wai' \in BOOLEAN /\ masked' \in BOOLEAN /\ external' \in BOOLEAN /\ caused' = 0
    BY <1>5 DEF PowerCpu, PowerOnCpu
  <2>5. LineTypeOK'
    BY <2>1, <2>3, <2>4 DEF LineTypeOK
  <2> QED BY <2>2, <2>5 DEF IrqTypeOK
<1> QED BY <1>1, <1>2, <1>3, <1>4, <1>5

LEMMA TypeNext == IrqTypeOK /\ [IrqNext]_irqVars => IrqTypeOK'
<1>1. ASSUME IrqTypeOK, UNCHANGED irqVars PROVE IrqTypeOK'
  BY <1>1 DEF irqVars, IrqTypeOK, TimeTypeOK, LineTypeOK, placeVars, timeVars, registerVars, pendingVars, cpuVars, lockstepVars
<1> QED BY <1>1, TickKeepsType, CyclesKeepType, AccessesKeepType, LastCycleKeepsType,
           MainKeepsType, OthersKeepType DEF IrqNext, RunCpu

\* The program's state stays in its type, whatever the lengths and bounds.
THEOREM TypeCorrect == IrqSpec => []IrqTypeOK
<1> QED BY TypeInit, TypeNext, PTL DEF IrqSpec

-----------------------------------------------------------------------------
(* What is pending, and the IRQ.                                           *)

LEMMA DispatchNext == PendingIsDispatched /\ [IrqNext]_irqVars => PendingIsDispatched'
<1> SUFFICES ASSUME PendingIsDispatched, [IrqNext]_irqVars PROVE PendingIsDispatched'
  OBVIOUS
<1> USE DEF PendingIsDispatched
<1>1. ASSUME UNCHANGED pendingVars PROVE PendingIsDispatched'
  BY <1>1 DEF pendingVars
<1>2. CASE Tick \/ PlainCycle \/ RegisterCycle \/ Read \/ Write \/ EndInstruction
           \/ BeginWait \/ WaitCycle \/ EnterMain \/ BeginInstruction \/ ExternalIrq \/ Configure
           \/ UNCHANGED irqVars
  <2>1. UNCHANGED pendingVars
    BY <1>2 DEF Tick, PlainCycle, RegisterCycle, Read, Write, EndInstruction, BeginWait,
                WaitCycle, EnterMain, BeginInstruction, ExternalIrq, Configure, irqVars
  <2> QED BY <2>1, <1>1
<1>3. CASE LastCycle
  <2>1. CASE irqLock
    BY <1>1, <1>3, <2>1 DEF LastCycle
  <2>2. CASE ~irqLock
    BY <1>3, <2>2 DEF LastCycle
  <2> QED BY <2>1, <2>2
<1>4. CASE EnterNmi \/ EnterIrq \/ EnterReset
  BY <1>4 DEF EnterNmi, EnterIrq, EnterReset, Interrupt
<1>5. CASE NonePending
  BY <1>5 DEF NonePending, AllTaken
<1>6. CASE PowerCpu
  BY <1>6 DEF PowerCpu, PowerOnCpu
<1> QED BY <1>2, <1>3, <1>4, <1>5, <1>6 DEF IrqNext, RunCpu

\* Whatever the other chips and the page do in between, main() tests a flag that
\* is set as long as any interrupt that lastCycle() noticed is to be taken.
THEOREM PendingIsAlwaysDispatched == IrqSpec => []PendingIsDispatched
<1>1. IrqInit => PendingIsDispatched
  BY DEF IrqInit, PendingIsDispatched
<1> QED BY <1>1, DispatchNext, PTL DEF IrqSpec

LEMMA IrqLineNext == IrqTypeOK /\ IrqHasLine /\ [IrqNext]_irqVars => IrqHasLine'
<1> SUFFICES ASSUME IrqTypeOK, IrqHasLine, [IrqNext]_irqVars PROVE IrqHasLine'
  OBVIOUS
<1>0. irq \in InterruptLines
  BY DEF IrqTypeOK, LineTypeOK
<1>1. ASSUME UNCHANGED irq PROVE IrqHasLine'
  BY <1>1 DEF IrqHasLine
<1>2. ASSUME NEW e, NEW ht, NEW vt, NEW vv, NEW hh, irq' = IrqPoll(irq, e, ht, vt, vv, hh)
      PROVE  IrqHasLine'
  BY <1>0, <1>2 DEF IrqHasLine, IrqPoll, InterruptLines
<1>3. CASE PlainCycle \/ RegisterCycle \/ EndInstruction \/ BeginWait \/ WaitCycle \/ EnterMain
           \/ BeginInstruction \/ EnterNmi \/ EnterIrq \/ EnterReset \/ NonePending \/ ExternalIrq
           \/ Configure \/ UNCHANGED irqVars
  <2>1. UNCHANGED irq
    BY <1>3 DEF PlainCycle, RegisterCycle, EndInstruction, BeginWait, WaitCycle, EnterMain,
                BeginInstruction, EnterNmi, EnterIrq, EnterReset, Interrupt, NonePending,
                ExternalIrq, Configure, irqVars
  <2> QED BY <2>1, <1>1
<1>4. CASE Tick
  BY <1>1, <1>2, <1>4 DEF Tick
<1>5. CASE Read
  BY <1>0, <1>5 DEF Read, Acknowledged, IrqHasLine, InterruptLines
<1>6. CASE Write
  <2>1. CASE WriteNmitimen
    BY <1>0, <2>1 DEF WriteNmitimen, IrqAfterEnable, IrqHasLine, InterruptLines
  <2>2. CASE WriteTimes
    BY <1>2, <2>2 DEF WriteTimes
  <2> QED BY <1>6, <2>1, <2>2 DEF Write
<1>7. CASE LastCycle
  <2>1. irq' = irq \/ irq' = [irq EXCEPT !.transition = FALSE]
    BY <1>7 DEF LastCycle
  <2> QED BY <1>0, <2>1 DEF IrqHasLine, InterruptLines
<1>8. CASE PowerCpu
  BY <1>8 DEF PowerCpu, PowerOnCpu, NoLines, IrqHasLine
<1> QED BY <1>3, <1>4, <1>5, <1>6, <1>7, <1>8 DEF IrqNext, RunCpu

\* For any timer values and any moment of an access, an IRQ that the next
\* lastCycle() will notice belongs to a line that is up.
THEOREM IrqAlwaysHasLine == IrqSpec => []IrqHasLine
<1>1. IrqInit => IrqHasLine
  BY DEF IrqInit, NoLines, IrqHasLine
<1> QED BY <1>1, TypeCorrect, IrqLineNext, PTL DEF IrqSpec

-----------------------------------------------------------------------------
(* The NMI, while lockstep is enabled.                                     *)

LEMMA CauseTick ==
  ASSUME IrqTypeOK, CauseInv, Tick
  PROVE  CauseInv'
<1>0. nmi \in InterruptLines /\ enable \in Enables /\ caused \in 0..2 /\ ticks \in Nat
      /\ h \in 0..LineTicks-1
  BY DEF IrqTypeOK, TimeTypeOK, LineTypeOK
<1>1. ticks > 0 /\ ticks' = ticks - 1 /\ h' = NextH
      /\ UNCHANGED <<irqLock, access, steady, lockstep>>
  BY DEF Tick, placeVars, lockstepVars
<1> SUFFICES ASSUME steady PROVE CauseInv'
  BY <1>1 DEF CauseInv
<1>2. CASE NextH % 2 = 1
  <2> DEFINE n == NmiPoll(nmi, enable, NextV, NextH)
  <2>1. /\ nmi' = n
        /\ caused' = CASE n.hold /\ n.transition -> 2
                       [] n.hold /\ ~n.transition -> 1
                       [] ~n.hold /\ caused = 2 -> 1
                       [] OTHER -> caused
    BY <1>2 DEF Tick
  <2>2. n \in InterruptLines
    BY <1>0, LinesOfNmi
  <2>3. n.hold \in BOOLEAN /\ n.transition \in BOOLEAN
    BY <2>2 DEF InterruptLines
  <2>4. n.transition => nmi.transition \/ nmi.hold
    BY DEF NmiPoll, NmiHeld
  <2> HIDE DEF n
  <2>5. CASE n.hold
    BY <1>0, <1>1, <2>1, <2>3, <2>5 DEF CauseInv
  <2>6. CASE ~n.hold
    <3>1. caused' = IF caused = 2 THEN 1 ELSE caused
      BY <2>1, <2>6
    <3>2. nmi'.transition => caused >= 1
      BY <2>1, <2>4 DEF CauseInv
    <3> QED BY <1>0, <1>1, <2>1, <2>6, <3>1, <3>2 DEF CauseInv
  <2> QED BY <2>3, <2>5, <2>6
<1>3. CASE NextH % 2 # 1
  <2>1. UNCHANGED <<nmi, caused>>
    BY <1>3 DEF Tick
  <2>2. ~(ticks = 1 /\ h % 2 = 0) /\ h' % 2 = 0
    <3>1. LineTicks \in Nat /\ LineTicks > 5 /\ LineTicks % 2 = 0
      BY InterruptAssumption
    <3>2. h' \in Nat /\ h' % 2 = 0 /\ h % 2 # 0
      BY <1>0, <1>1, <1>3, <3>1 DEF NextH
    <3> QED BY <3>2
  <2>3. ticks >= 2 => ticks' >= 2 \/ ticks' = 1
    BY <1>0, <1>1
  <2> QED BY <1>1, <2>1, <2>2, <2>3 DEF CauseInv
<1> QED BY <1>2, <1>3

\* A call of step() makes time for a poll, or the one after it will.
LEMMA CauseSteps ==
  ASSUME IrqTypeOK, CauseInv, NEW n \in Nat, StepCpu(n),
         nmi'.hold = nmi.hold, nmi'.transition = nmi.transition,
         UNCHANGED <<caused, steady, lockstep>>,
         n >= 2 \/ (n = 1 /\ access' = "read")
  PROVE  CauseInv'
<1>1. steady /\ lockstep => ticks' = n
  BY DEF StepCpu
<1> QED BY <1>1 DEF CauseInv

LEMMA CauseCycles ==
  ASSUME IrqTypeOK, CauseInv,
         PlainCycle \/ RegisterCycle \/ WaitCycle \/ Read \/ EnterReset
  PROVE  CauseInv'
<1>1. CASE PlainCycle
  <2>1. PICK n \in CycleTicks : StepCpu(n)
    BY <1>1 DEF PlainCycle
  <2>2. n \in Nat /\ n >= 2
    BY InterruptAssumption
  <2> QED BY <1>1, <2>1, <2>2, CauseSteps DEF PlainCycle
<1>2. CASE RegisterCycle
  <2>1. CASE access' = "read" /\ StepCpu(1)
    BY <1>2, <2>1, CauseSteps DEF RegisterCycle
  <2>2. CASE StepCpu(3)
    BY <1>2, <2>2, CauseSteps DEF RegisterCycle
  <2> QED BY <1>2, <2>1, <2>2 DEF RegisterCycle
<1>3. CASE WaitCycle
  BY <1>3, CauseSteps DEF WaitCycle
<1>4. CASE Read
  <2>1. nmi'.hold = nmi.hold /\ nmi'.transition = nmi.transition
    BY <1>4 DEF Read, IrqTypeOK, LineTypeOK, InterruptLines
  <2> QED BY <1>4, <2>1, CauseSteps DEF Read
<1>5. CASE EnterReset
  <2>1. ResetTicks \in Nat /\ ResetTicks >= 2
    BY InterruptAssumption
  <2> QED BY <1>5, <2>1, CauseSteps DEF EnterReset, Interrupt
<1> QED BY <1>1, <1>2, <1>3, <1>4, <1>5

LEMMA CauseWrite ==
  ASSUME IrqTypeOK, CauseInv, Write
  PROVE  CauseInv'
<1>0. nmi \in InterruptLines /\ caused \in 0..2 /\ UNCHANGED <<steady, lockstep>>
  BY DEF IrqTypeOK, LineTypeOK, Write, lockstepVars
<1> SUFFICES ASSUME steady PROVE CauseInv'
  BY <1>0 DEF CauseInv
<1>1. CASE WriteNmitimen
  <2>1. PICK e \in Enables :
          /\ nmi' = [nmi EXCEPT !.transition = @ \/ (e.nmi /\ ~enable.nmi /\ nmi.line)]
          /\ caused' = IF (e.nmi /\ ~enable.nmi /\ nmi.line) /\ caused = 0 THEN 1 ELSE caused
          /\ irqLock' = TRUE
    BY <1>1 DEF WriteNmitimen, Locked
  <2>2. nmi'.hold = nmi.hold
        /\ (nmi'.transition => nmi.transition \/ (e.nmi /\ ~enable.nmi /\ nmi.line))
    BY <1>0, <2>1 DEF InterruptLines
  <2>3. nmi'.transition \/ nmi'.hold => caused' >= 1
    BY <1>0, <2>1, <2>2 DEF CauseInv
  <2> QED BY <1>0, <2>1, <2>3 DEF CauseInv
<1>2. CASE WriteTimes
  <2>1. ticks = 0 /\ access = "write" /\ UNCHANGED <<nmi, irqLock, caused, ticks>>
    BY <1>2 DEF Write, WriteTimes, timeVars
  <2> QED BY <1>0, <2>1 DEF CauseInv
<1> QED BY <1>1, <1>2 DEF Write

\* At a lastCycle() that is not locked, an NMI that is noticed while the line is
\* still held has a second cause to leave behind.
LEMMA CauseLast ==
  ASSUME IrqTypeOK, CauseInv, LastCycle
  PROVE  CauseInv'
<1>0. nmi \in InterruptLines /\ caused \in 0..2
  BY DEF IrqTypeOK, LineTypeOK
<1>1. ticks = 0 /\ access = "none"
      /\ UNCHANGED <<ticks, h, irqLock, access, steady, lockstep>>
  BY DEF LastCycle, Idle, timeVars, lockstepVars
<1> SUFFICES ASSUME steady PROVE CauseInv'
  BY <1>1 DEF CauseInv
<1>2. CASE irqLock
  <2>1. UNCHANGED <<nmi, caused>>
    BY <1>2 DEF LastCycle
  <2> QED BY <1>1, <2>1 DEF CauseInv
<1>3. CASE ~irqLock
  <2>1. nmi' = [nmi EXCEPT !.transition = FALSE]
        /\ caused' = IF nmi.transition /\ caused > 0 THEN caused - 1 ELSE caused
    BY <1>3 DEF LastCycle
  <2>2. nmi'.hold = nmi.hold /\ ~nmi'.transition
    BY <1>0, <2>1 DEF InterruptLines
  <2>3. ~(nmi.hold /\ nmi.transition /\ caused = 1)
    BY <1>1, <1>3 DEF CauseInv
  <2>4. nmi.hold => caused' >= 1
    BY <1>0, <2>1, <2>3 DEF CauseInv
  <2> QED BY <1>1, <2>2, <2>4 DEF CauseInv
<1> QED BY <1>2, <1>3

LEMMA CauseNext ==
  ASSUME IrqTypeOK, CauseInv, [IrqNext]_irqVars
  PROVE  CauseInv'
<1>1. ASSUME UNCHANGED <<nmi, caused, irqLock, ticks, h, access, steady, lockstep>>
      PROVE  CauseInv'
  BY <1>1 DEF CauseInv
<1>2. CASE EndInstruction \/ BeginWait \/ BeginInstruction \/ EnterNmi \/ EnterIrq
           \/ NonePending \/ ExternalIrq \/ UNCHANGED irqVars
  <2>1. UNCHANGED <<nmi, caused, irqLock, ticks, h, access, steady, lockstep>>
    BY <1>2 DEF EndInstruction, BeginWait, BeginInstruction, EnterNmi, EnterIrq, Interrupt,
                NonePending, ExternalIrq, NoStep, irqVars, timeVars, placeVars, lockstepVars
  <2> QED BY <2>1, <1>1
<1>3. CASE EnterMain
  <2>1. UNCHANGED <<nmi, caused, h, access, steady, lockstep>>
    BY <1>3 DEF EnterMain
  <2>2. lockstep => UNCHANGED <<irqLock, ticks>>
    BY <1>3 DEF EnterMain, Flush, NoStep
  <2> QED BY <2>1, <2>2 DEF CauseInv
<1>4. CASE Configure
  BY <1>4 DEF Configure, CauseInv
<1>5. CASE PowerCpu
  BY <1>5 DEF PowerCpu, PowerOnCpu, NoLines, CauseInv
<1> QED BY <1>2, <1>3, <1>4, <1>5, CauseTick, CauseCycles, CauseWrite, CauseLast
       DEF IrqNext, RunCpu

\* As long as lockstep has been enabled since power(), one vertical blank or one
\* write of $4200 gives one NMI, however the writes fall upon the four clocks in
\* which the line is held.
THEOREM NmiAlwaysHasCause == IrqSpec => []NmiHasCause
<1>1. IrqInit => CauseInv
  BY DEF IrqInit, NoLines, CauseInv
<1>2. IrqTypeOK /\ CauseInv /\ [IrqNext]_irqVars => CauseInv'
  BY CauseNext
<1>3. IrqTypeOK /\ CauseInv => NmiHasCause
  BY DEF IrqTypeOK, LineTypeOK, CauseInv, NmiHasCause
<1> QED BY <1>1, <1>2, <1>3, TypeCorrect, PTL DEF IrqSpec

-----------------------------------------------------------------------------
(* DMA: the invariants.  DmaInv is about what calls what and what is moved, *)
(* and TimeInv about how long ago HDMA was called.                          *)

ChannelState == [dma : BOOLEAN, hdma : BOOLEAN, completed : BOOLEAN, doTransfer : BOOLEAN,
                 size : Nat, count : 0..2*CountTop-1]

Moments == [h : 0..LineClocks-1, v : 0..Scanlines-1, phase : 0..7, counterDma : 0..23,
            setupPosition : 12..19, setupTriggered : BOOLEAN, hdmaTriggered : BOOLEAN,
            hdmaPending : BOOLEAN, hdmaMode : {"setup", "run"},
            ch : [Channel -> ChannelState], setupDue : SUBSET Channel, runsDue : 0..2]

InHdma == {"hdma", "setup", "transfer", "advance", "hdmaEnd"}
InDma  == {"dmaRun", "channel", "unit", "unitDone", "dmaEnd"}
InEdge == {"edge", "edgeDma", "edgeEnd"} \cup InHdma

DmaTypeOK ==
  /\ m \in Moments /\ pc \in {"cpu", "cycle"} \cup InEdge \cup InDma
  /\ chan \in Channel /\ hchan \in Channel
  /\ dmaActive \in BOOLEAN /\ dmaPending \in BOOLEAN /\ clockCount \in CycleClocks

\* The edge is in a cycle of the CPU, or in a DMA that is in one.
Outer == returns = <<"cycle">>
Inner == \E p \in {"channels", "unit", "unitDone"} : returns = <<p, "cycle">>
Moving == pc \in InDma \/ Inner

Calls ==
  /\ pc \in {"cpu", "cycle"} => returns = <<>>
  /\ pc \in InDma => Outer
  /\ pc \in InEdge => Outer \/ Inner

\* While a DMA goes on, the game asks for nothing; what is done with is not looked at
\* again; and as long as there is more to move, DMA is active and begins its units at
\* clocks divisible by 8.
Transfers ==
  /\ Moving => ~dmaPending
  /\ ~Moving => (DmaEnable(m.ch) => dmaPending)
  /\ Moving /\ DmaEnable(m.ch) => m.phase = 0 /\ dmaActive
  /\ pc \in {"channel", "unit", "unitDone"} \/ (Inner /\ Head(returns) # "channels")
       => \A c \in Channel : c < chan => ~m.ch[c].dma
  /\ pc = "dmaEnd" => ~DmaEnable(m.ch)
  /\ pc \in InHdma \/ (pc = "edgeDma" /\ DmaEnable(m.ch)) => dmaActive

\* The triggers of CPU::step() tell where in the line and the field it is.
Triggered(t) ==
  /\ t.hdmaTriggered <=> t.v >= VisibleScanlines \/ t.h >= HdmaPosition
  /\ t.setupTriggered <=> t.v > 0 \/ t.h >= t.setupPosition

\* The clocks since the last trigger, and where the triggers lead.
Since(t) == IF t.h >= HdmaPosition THEN t.h - HdmaPosition
            ELSE IF t.v = 0 THEN t.h - 20
            ELSE t.h + LineClocks - HdmaPosition
RunZone(t)   == IF t.h >= HdmaPosition THEN t.v < VisibleScanlines ELSE t.v \in 1..VisibleScanlines
SetupZone(t) == t.v = 0 /\ t.h < HdmaPosition /\ t.setupTriggered

Marked(t) == IF t.hdmaMode = "run" THEN RunZone(t) /\ t.setupDue = {} /\ t.runsDue <= 1
                                   ELSE SetupZone(t) /\ t.runsDue = 0
Calm(t)      == ~t.hdmaPending /\ t.runsDue = 0 /\ t.setupDue = {}
Called(t, k) == t.hdmaPending /\ Marked(t) /\ Since(t) <= k
Early(t, k)  == Calm(t) \/ Called(t, k)

\* How long ago HDMA was called, when it was and has not begun: 40 clocks at most.
Waits ==
  /\ pc = "cpu"     => IF dmaActive THEN Early(m, 32) ELSE Early(m, 20)
  /\ pc = "cycle"   => Early(m, 20) /\ (m.hdmaPending => dmaActive)
  /\ pc = "edge"    => IF dmaActive THEN Early(m, 32) ELSE IF Outer THEN Early(m, 20) ELSE Early(m, 8)
  /\ pc = "edge" /\ Inner /\ Head(returns) # "unitDone" => dmaActive
  /\ pc \in {"edgeDma", "unit"} => Calm(m)
  /\ pc = "edgeEnd" /\ Outer => Early(m, 20)
  /\ pc = "edgeEnd" /\ Inner /\ Head(returns) # "unitDone" => Calm(m)
  /\ (pc = "edgeEnd" /\ Inner) \/ pc \in {"channel", "unitDone", "dmaEnd"}
       => Calm(m) \/ (~DmaEnable(m.ch) /\ Called(m, 8))
  /\ pc = "dmaRun"  => Early(m, 8) /\ dmaActive

\* How long ago it was called, when it has begun.
Hdmas ==
  /\ pc = "hdma"     => ~m.hdmaPending /\ Marked(m) /\ Since(m) <= 40
  /\ pc = "setup"    => Calm(m) /\ SetupZone(m) /\ Since(m) <= 48 + 24 * (hchan - 1)
  /\ pc = "transfer" => Calm(m) /\ RunZone(m) /\ Since(m) <= 48 + 32 * (hchan - 1)
  /\ pc = "advance"  => Calm(m) /\ RunZone(m) /\ Since(m) <= 48 + 32 * Channels + 24 * (hchan - 1)
  /\ pc = "hdmaEnd"  => /\ Calm(m)
                        /\ \/ SetupZone(m) /\ Since(m) <= 48 + 24 * Channels
                           \/ RunZone(m) /\ Since(m) <= 48 + 56 * Channels

DmaInv == DmaTypeOK /\ Calls /\ Transfers
TimeInv == Triggered(m) /\ Waits /\ Hdmas

-----------------------------------------------------------------------------
(* CPU::step().                                                            *)

LEMMA Wrap ==
  ASSUME NEW k \in Nat \ {0}, NEW x \in Nat, x < 2 * k
  PROVE  x % k = IF x >= k THEN x - k ELSE x
BY SMTT(30)

LEMMA Modulo ==
  ASSUME NEW k \in Nat \ {0}, NEW x \in Nat
  PROVE  x % k \in 0..k-1
BY SMTT(30)

LEMMA Ahead ==
  ASSUME NEW t \in Moments, NEW n \in Nat, n < LineClocks
  PROVE  /\ HAfter(t, n) = IF BeginsLine(t, n) THEN t.h + n - LineClocks ELSE t.h + n
         /\ VAfter(t, n) = IF ~BeginsLine(t, n) THEN t.v
                           ELSE IF t.v + 1 = Scanlines THEN 0 ELSE t.v + 1
<1>1. t.h \in 0..LineClocks-1 /\ t.v \in 0..Scanlines-1 /\ LineClocks \in Nat \ {0}
      /\ Scanlines \in Nat \ {0}
  BY DmaAssumption DEF Moments
<1>2. (t.h + n) % LineClocks = IF t.h + n >= LineClocks THEN t.h + n - LineClocks ELSE t.h + n
  <2>1. t.h + n \in Nat /\ t.h + n < 2 * LineClocks
    BY <1>1
  <2> QED BY <1>1, <2>1, Wrap
<1>3. (t.v + 1) % Scanlines = IF t.v + 1 = Scanlines THEN 0 ELSE t.v + 1
  <2>1. t.v + 1 \in Nat /\ t.v + 1 < 2 * Scanlines
    BY <1>1
  <2>2. (t.v + 1) % Scanlines = IF t.v + 1 >= Scanlines THEN t.v + 1 - Scanlines ELSE t.v + 1
    BY <1>1, <2>1, Wrap
  <2> QED BY <1>1, <2>2
<1> QED BY <1>1, <1>2, <1>3 DEF HAfter, VAfter, BeginsLine

LEMMA StepFields ==
  ASSUME NEW t \in Moments, NEW n \in Nat
  PROVE  /\ StepClocks(t, n).h = HAfter(t, n) /\ StepClocks(t, n).v = VAfter(t, n)
         /\ StepClocks(t, n).phase = (t.phase + n) % 8
         /\ StepClocks(t, n).counterDma = t.counterDma
         /\ StepClocks(t, n).setupPosition = SetupFrom(t, n)
         /\ StepClocks(t, n).setupTriggered <=>
              SetsUp(t, n) \/ (t.setupTriggered /\ ~BeginsField(t, n))
         /\ StepClocks(t, n).hdmaTriggered <=>
              Runs(t, n) \/ (t.hdmaTriggered /\ ~BeginsVisible(t, n))
         /\ StepClocks(t, n).ch = ChAfter(t, n)
         /\ StepClocks(t, n).hdmaPending <=> t.hdmaPending \/ CallsRun(t, n) \/ CallsSetup(t, n)
         /\ StepClocks(t, n).hdmaMode = IF CallsRun(t, n) THEN "run"
                                        ELSE IF CallsSetup(t, n) THEN "setup" ELSE t.hdmaMode
         /\ StepClocks(t, n).setupDue = IF SetsUp(t, n) THEN {c \in Channel : t.ch[c].hdma}
                                        ELSE t.setupDue
         /\ StepClocks(t, n).runsDue = IF RunIsDue(t, n) /\ t.runsDue < 2 THEN t.runsDue + 1
                                       ELSE t.runsDue
BY DEF StepClocks, Moments

LEMMA StepChannels ==
  ASSUME NEW t \in Moments, NEW n \in Nat
  PROVE  /\ ChAfter(t, n) \in [Channel -> ChannelState]
         /\ \A c \in Channel : /\ ChAfter(t, n)[c].dma = t.ch[c].dma
                               /\ ChAfter(t, n)[c].hdma = t.ch[c].hdma
         /\ DmaEnable(ChAfter(t, n)) <=> DmaEnable(t.ch)
         /\ HdmaEnable(ChAfter(t, n)) <=> HdmaEnable(t.ch)
<1>1. t.ch \in [Channel -> ChannelState]
  BY DEF Moments
<1>2. ASSUME NEW c \in Channel
      PROVE  /\ ChAfter(t, n)[c] \in ChannelState
             /\ ChAfter(t, n)[c].dma = t.ch[c].dma /\ ChAfter(t, n)[c].hdma = t.ch[c].hdma
  <2>1. t.ch[c] \in ChannelState
    BY <1>1
  <2> QED BY <2>1 DEF ChAfter, ChannelState
<1>3. ChAfter(t, n) \in [Channel -> ChannelState]
  BY <1>2 DEF ChAfter
<1> QED BY <1>2, <1>3 DEF DmaEnable, HdmaEnable

LEMMA StepType ==
  ASSUME NEW t \in Moments, NEW n \in Nat
  PROVE  StepClocks(t, n) \in Moments
<1>1. /\ t.h \in 0..LineClocks-1 /\ t.v \in 0..Scanlines-1 /\ t.phase \in 0..7
      /\ t.setupPosition \in 12..19 /\ t.runsDue \in 0..2 /\ t.setupDue \in SUBSET Channel
      /\ t.hdmaMode \in {"setup", "run"}
      /\ LineClocks \in Nat /\ Scanlines \in Nat /\ 0 < Scanlines
  BY DmaAssumption DEF Moments
<1>2. HAfter(t, n) \in 0..LineClocks-1 /\ VAfter(t, n) \in 0..Scanlines-1
  <2>1. (t.h + n) % LineClocks \in 0..LineClocks-1 /\ (t.v + 1) % Scanlines \in 0..Scanlines-1
    <3>1. /\ t.h + n \in Nat /\ t.v + 1 \in Nat
          /\ LineClocks \in Nat \ {0} /\ Scanlines \in Nat \ {0}
      BY <1>1
    <3> QED BY <3>1, Modulo
  <2> QED BY <1>1, <2>1 DEF HAfter, VAfter
<1>3. (t.phase + n) % 8 \in 0..7
  BY <1>1
<1>4. SetupFrom(t, n) \in 12..19
  <2> DEFINE x == t.phase + LineClocks - t.h
  <2>1. x \in Nat
    BY <1>1
  <2> HIDE DEF x
  <2>2. x % 8 \in 0..7
    BY <2>1
  <2>3. 12 + (x % 8) \in 12..19
    BY <2>2
  <2> QED BY <1>1, <2>3 DEF SetupFrom, SetupPosition, x
<1>5. ChAfter(t, n) \in [Channel -> ChannelState]
  BY StepChannels
<1>6. /\ (IF CallsRun(t, n) THEN "run" ELSE IF CallsSetup(t, n) THEN "setup" ELSE t.hdmaMode)
           \in {"setup", "run"}
      /\ (IF SetsUp(t, n) THEN {c \in Channel : t.ch[c].hdma} ELSE t.setupDue) \in SUBSET Channel
      /\ (IF RunIsDue(t, n) /\ t.runsDue < 2 THEN t.runsDue + 1 ELSE t.runsDue) \in 0..2
  BY <1>1
<1>7. /\ (SetsUp(t, n) \/ (t.setupTriggered /\ ~BeginsField(t, n))) \in BOOLEAN
      /\ (Runs(t, n) \/ (t.hdmaTriggered /\ ~BeginsVisible(t, n))) \in BOOLEAN
      /\ (t.hdmaPending \/ CallsRun(t, n) \/ CallsSetup(t, n)) \in BOOLEAN
  BY Zenon
<1> DEFINE s == StepClocks(t, n)
<1>8. /\ s.h \in 0..LineClocks-1 /\ s.v \in 0..Scanlines-1 /\ s.phase \in 0..7
      /\ s.counterDma \in 0..23 /\ s.setupPosition \in 12..19
      /\ s.hdmaMode \in {"setup", "run"} /\ s.ch \in [Channel -> ChannelState]
      /\ s.setupDue \in SUBSET Channel /\ s.runsDue \in 0..2
  BY <1>2, <1>3, <1>4, <1>5, <1>6, StepFields DEF Moments
<1>9. s.setupTriggered \in BOOLEAN /\ s.hdmaTriggered \in BOOLEAN /\ s.hdmaPending \in BOOLEAN
  BY <1>7 DEF StepClocks, Moments
<1> QED BY <1>8, <1>9 DEF StepClocks, Moments

LEMMA StepTriggers ==
  ASSUME NEW t \in Moments, NEW n \in Nat, HdmaPosition + n <= LineClocks, Triggered(t)
  PROVE  Triggered(StepClocks(t, n))
<1>1. /\ t.h \in 0..LineClocks-1 /\ t.v \in 0..Scanlines-1
      /\ t.setupPosition \in 12..19
      /\ LineClocks \in Nat /\ Scanlines \in Nat /\ HdmaPosition \in Nat /\ 20 < HdmaPosition
      /\ VisibleScanlines \in Nat \ {0} /\ VisibleScanlines < Scanlines /\ n < LineClocks
  BY DmaAssumption DEF Moments
<1>2. /\ HAfter(t, n) = IF BeginsLine(t, n) THEN t.h + n - LineClocks ELSE t.h + n
      /\ VAfter(t, n) = IF ~BeginsLine(t, n) THEN t.v ELSE IF t.v + 1 = Scanlines THEN 0 ELSE t.v + 1
      /\ BeginsLine(t, n) <=> t.h + n >= LineClocks
  BY <1>1, Ahead DEF BeginsLine
<1>3. (Runs(t, n) \/ (t.hdmaTriggered /\ ~BeginsVisible(t, n)))
        <=> VAfter(t, n) >= VisibleScanlines \/ HAfter(t, n) >= HdmaPosition
  BY <1>1, <1>2 DEF Runs, BeginsVisible, Triggered
<1>4. (SetsUp(t, n) \/ (t.setupTriggered /\ ~BeginsField(t, n)))
        <=> VAfter(t, n) > 0 \/ HAfter(t, n) >= SetupFrom(t, n)
  BY <1>1, <1>2 DEF SetsUp, SetupFrom, BeginsField, Triggered
<1> QED BY <1>3, <1>4, StepFields DEF Triggered

\* What the triggers leave as it was.
Unmoved(t, s) == /\ (s.hdmaPending <=> t.hdmaPending) /\ s.hdmaMode = t.hdmaMode
                 /\ s.setupDue = t.setupDue /\ s.runsDue = t.runsDue

LEMMA NothingCalled ==
  ASSUME NEW t \in Moments, NEW n \in Nat, ~CallsRun(t, n), ~SetsUp(t, n), ~RunIsDue(t, n)
  PROVE  Unmoved(t, StepClocks(t, n))
BY StepFields DEF Unmoved, CallsSetup, Moments

\* After the setup of a field has begun, and before its first transfer.
LEMMA StepInSetup ==
  ASSUME NEW t \in Moments, NEW n \in Nat, SetupZone(t), t.h + n < HdmaPosition
  PROVE  LET s == StepClocks(t, n) IN
         Unmoved(t, s) /\ SetupZone(s) /\ Since(s) = Since(t) + n
<1>1. /\ t.h \in 0..LineClocks-1 /\ t.v = 0 /\ t.setupTriggered
      /\ LineClocks \in Nat /\ HdmaPosition \in Nat /\ HdmaPosition < LineClocks
  BY DmaAssumption DEF Moments, SetupZone
<1>2. ~BeginsLine(t, n) /\ HAfter(t, n) = t.h + n /\ VAfter(t, n) = 0
  BY <1>1, Ahead DEF BeginsLine
<1>3. ~SetsUp(t, n) /\ ~Runs(t, n) /\ ~RunIsDue(t, n) /\ ~BeginsField(t, n)
  BY <1>1, <1>2 DEF SetsUp, Runs, RunIsDue, BeginsField
<1>4. Unmoved(t, StepClocks(t, n))
  BY <1>3, NothingCalled DEF CallsRun
<1> DEFINE s == StepClocks(t, n)
<1>5. s.h = t.h + n /\ s.v = 0 /\ s.setupTriggered
  BY <1>1, <1>2, <1>3, StepFields
<1> HIDE DEF s
<1>6. SetupZone(s) /\ Since(s) = Since(t) + n
  BY <1>1, <1>5 DEF SetupZone, Since
<1> QED BY <1>4, <1>6 DEF s

\* After a transfer has begun, and before the next.
LEMMA StepInRun ==
  ASSUME NEW t \in Moments, NEW n \in Nat, Triggered(t), RunZone(t), Since(t) + n < LineClocks
  PROVE  LET s == StepClocks(t, n) IN
         Unmoved(t, s) /\ RunZone(s) /\ Since(s) = Since(t) + n
<1>1. /\ t.h \in 0..LineClocks-1 /\ t.v \in 0..Scanlines-1 /\ t.setupPosition \in 12..19
      /\ LineClocks \in Nat /\ HdmaPosition \in Nat /\ HdmaPosition < LineClocks
      /\ 20 < HdmaPosition /\ Scanlines \in Nat
      /\ VisibleScanlines \in Nat \ {0} /\ VisibleScanlines < Scanlines
  BY DmaAssumption DEF Moments
<1>2. /\ t.h >= HdmaPosition => t.v < VisibleScanlines /\ Since(t) = t.h - HdmaPosition
      /\ t.h < HdmaPosition => /\ t.v \in 1..VisibleScanlines
                               /\ Since(t) = t.h + LineClocks - HdmaPosition
  BY <1>1 DEF RunZone, Since
<1>3. n < LineClocks
  BY <1>1, <1>2
<1>4. /\ HAfter(t, n) = IF BeginsLine(t, n) THEN t.h + n - LineClocks ELSE t.h + n
      /\ VAfter(t, n) = IF ~BeginsLine(t, n) THEN t.v ELSE IF t.v + 1 = Scanlines THEN 0 ELSE t.v + 1
      /\ BeginsLine(t, n) <=> t.h + n >= LineClocks
  BY <1>1, <1>3, Ahead DEF BeginsLine
<1>5. t.setupTriggered /\ (t.h >= HdmaPosition => t.hdmaTriggered)
  BY <1>1, <1>2 DEF Triggered
<1>6. /\ BeginsLine(t, n) => /\ t.h >= HdmaPosition /\ HAfter(t, n) < HdmaPosition
                             /\ VAfter(t, n) \in 1..VisibleScanlines
      /\ ~BeginsLine(t, n) /\ t.h < HdmaPosition => HAfter(t, n) < HdmaPosition
  BY <1>1, <1>2, <1>4
<1>7. ~BeginsField(t, n) /\ ~SetsUp(t, n) /\ ~Runs(t, n) /\ ~RunIsDue(t, n)
  BY <1>1, <1>2, <1>4, <1>5, <1>6 DEF SetsUp, Runs, RunIsDue, BeginsField, BeginsVisible
<1>8. Unmoved(t, StepClocks(t, n))
  BY <1>7, NothingCalled DEF CallsRun
<1> DEFINE s == StepClocks(t, n)
<1>9. s.h = HAfter(t, n) /\ s.v = VAfter(t, n)
  BY StepFields
<1> HIDE DEF s
<1>10. RunZone(s) /\ Since(s) = Since(t) + n
  BY <1>1, <1>2, <1>4, <1>6, <1>9 DEF RunZone, Since
<1> QED BY <1>8, <1>10 DEF s

\* A step that may be the one at a trigger.
LEMMA StepFromCalm ==
  ASSUME NEW t \in Moments, NEW n \in Nat, Triggered(t), Calm(t),
         HdmaPosition + n <= LineClocks, n + 20 < HdmaPosition
  PROVE  Early(StepClocks(t, n), n - 1)
<1>1. /\ t.h \in 0..LineClocks-1 /\ t.v \in 0..Scanlines-1 /\ t.setupPosition \in 12..19
      /\ LineClocks \in Nat /\ HdmaPosition \in Nat /\ Scanlines \in Nat
      /\ VisibleScanlines \in Nat \ {0} /\ VisibleScanlines < Scanlines /\ n < LineClocks
  BY DmaAssumption DEF Moments
<1>2. /\ HAfter(t, n) = IF BeginsLine(t, n) THEN t.h + n - LineClocks ELSE t.h + n
      /\ VAfter(t, n) = IF ~BeginsLine(t, n) THEN t.v ELSE IF t.v + 1 = Scanlines THEN 0 ELSE t.v + 1
      /\ BeginsLine(t, n) <=> t.h + n >= LineClocks
  BY <1>1, Ahead DEF BeginsLine
<1> DEFINE s == StepClocks(t, n)
<1>3. s \in Moments
  BY <1>1, StepType
<1>4. /\ s.h = HAfter(t, n) /\ s.v = VAfter(t, n)
      /\ s.hdmaPending <=> t.hdmaPending \/ CallsRun(t, n) \/ CallsSetup(t, n)
      /\ s.hdmaMode = IF CallsRun(t, n) THEN "run"
                      ELSE IF CallsSetup(t, n) THEN "setup" ELSE t.hdmaMode
      /\ s.setupDue = IF SetsUp(t, n) THEN {c \in Channel : t.ch[c].hdma} ELSE t.setupDue
      /\ s.runsDue = IF RunIsDue(t, n) /\ t.runsDue < 2 THEN t.runsDue + 1 ELSE t.runsDue
      /\ SetsUp(t, n) => s.setupTriggered
  BY StepFields
<1> HIDE DEF s
<1>a. /\ s.hdmaPending <=> CallsRun(t, n) \/ CallsSetup(t, n)
      /\ s.setupDue = IF SetsUp(t, n) THEN {c \in Channel : t.ch[c].hdma} ELSE {}
      /\ s.runsDue = IF RunIsDue(t, n) THEN 1 ELSE 0
  BY <1>4 DEF Calm
\* A transfer is called by the step that is there, and by no other.
<1>5. Runs(t, n) <=> t.v < VisibleScanlines /\ t.h < HdmaPosition /\ t.h + n >= HdmaPosition
  BY <1>1, <1>2 DEF Runs, BeginsVisible, Triggered
<1>6. CallsRun(t, n) <=> RunIsDue(t, n)
  BY <1>5 DEF CallsRun, RunIsDue
<1>7. SetsUp(t, n) => VAfter(t, n) = 0 /\ HAfter(t, n) < n + 20
  BY <1>1, <1>2 DEF SetsUp, SetupFrom, BeginsField, Triggered
<1>8. Runs(t, n) => /\ ~BeginsLine(t, n) /\ HAfter(t, n) = t.h + n /\ VAfter(t, n) = t.v
  BY <1>1, <1>2, <1>5
<1>9. ~(SetsUp(t, n) /\ Runs(t, n))
  BY <1>1, <1>5, <1>7, <1>8
<1>10. ASSUME CallsRun(t, n) PROVE Early(s, n - 1)
  <2>1. s.hdmaPending /\ s.hdmaMode = "run" /\ s.setupDue = {} /\ s.runsDue = 1
    BY <1>4, <1>a, <1>6, <1>9, <1>10 DEF CallsRun
  <2>2. s.h >= HdmaPosition /\ s.v < VisibleScanlines /\ s.h - HdmaPosition <= n - 1
    BY <1>1, <1>4, <1>5, <1>8, <1>10 DEF CallsRun
  <2>3. RunZone(s) /\ Since(s) <= n - 1
    BY <1>1, <1>3, <2>2 DEF RunZone, Since, Moments
  <2> QED BY <2>1, <2>3 DEF Early, Called, Marked
<1>11. ASSUME CallsSetup(t, n) PROVE Early(s, n - 1)
  <2>1. s.hdmaPending /\ s.hdmaMode = "setup" /\ s.runsDue = 0 /\ s.setupTriggered
    BY <1>4, <1>a, <1>6, <1>9, <1>11 DEF CallsSetup, CallsRun
  <2>2. s.v = 0 /\ s.h < HdmaPosition /\ s.h - 20 <= n - 1
    BY <1>1, <1>2, <1>4, <1>7, <1>11 DEF CallsSetup
  <2>3. SetupZone(s) /\ Since(s) <= n - 1
    BY <1>1, <1>3, <2>1, <2>2 DEF SetupZone, Since, Moments
  <2> QED BY <2>1, <2>3 DEF Early, Called, Marked
<1>12. ASSUME ~CallsRun(t, n) /\ ~CallsSetup(t, n) PROVE Early(s, n - 1)
  <2>1. s.setupDue = {}
    <3>1. CASE SetsUp(t, n)
      <4>1. ~HdmaEnable(t.ch)
        BY <1>12, <3>1, StepChannels DEF CallsSetup
      <4> QED BY <1>4, <1>a, <3>1, <4>1 DEF HdmaEnable
    <3> QED BY <1>4, <1>a, <3>1
  <2> QED BY <1>4, <1>a, <1>6, <1>12, <2>1 DEF Early, Calm
<1> QED BY <1>10, <1>11, <1>12 DEF s

LEMMA StepEarly ==
  ASSUME HdmaFits, NEW t \in Moments, NEW n \in Nat, Triggered(t), HdmaPosition + n <= LineClocks,
         NEW k \in Nat, k + n <= 40, Early(t, k)
  PROVE  Early(StepClocks(t, n), k + n)
<1>1. /\ t.h \in 0..LineClocks-1 /\ t.v \in 0..Scanlines-1
      /\ LineClocks \in Nat /\ HdmaPosition \in Nat /\ Channels \in Nat \ {0}
      /\ 60 < HdmaPosition /\ 40 < LineClocks
  BY DmaAssumption DEF Moments, HdmaFits
<1> DEFINE s == StepClocks(t, n)
<1>0. s \in Moments
  BY StepType
<1>2. ASSUME Calm(t) PROVE Early(s, k + n)
  <2>1. Early(s, n - 1)
    BY <1>1, <1>2, StepFromCalm
  <2>2. Since(s) \in Int
    BY <1>0, <1>1 DEF Since, Moments
  <2> HIDE DEF s
  <2> QED BY <2>1, <2>2 DEF Early, Called
<1>3. ASSUME Called(t, k), t.hdmaMode = "run" PROVE Early(s, k + n)
  <2>1. RunZone(t) /\ Since(t) + n < LineClocks /\ Since(t) \in Int
    BY <1>1, <1>3 DEF Called, Marked, Since
  <2>2. Unmoved(t, s) /\ RunZone(s) /\ Since(s) = Since(t) + n
    BY <2>1, StepInRun
  <2> HIDE DEF s
  <2> QED BY <1>3, <2>1, <2>2 DEF Called, Marked, Early, Unmoved
<1>4. ASSUME Called(t, k), t.hdmaMode # "run" PROVE Early(s, k + n)
  <2>1. SetupZone(t) /\ t.h + n < HdmaPosition /\ Since(t) \in Int
    BY <1>1, <1>4 DEF Called, Marked, SetupZone, Since
  <2>2. Unmoved(t, s) /\ SetupZone(s) /\ Since(s) = Since(t) + n
    BY <2>1, StepInSetup
  <2> HIDE DEF s
  <2> QED BY <1>4, <2>1, <2>2 DEF Called, Marked, Early, Unmoved
<1> QED BY <1>2, <1>3, <1>4 DEF Early, s

-----------------------------------------------------------------------------
(* The steps of DMA and HDMA, which also count their clocks.               *)

LEMMA Recounted ==
  ASSUME NEW t \in Moments, NEW x \in 0..23, NEW u, u = [t EXCEPT !.counterDma = x]
  PROVE  /\ u \in Moments /\ u.h = t.h /\ u.phase = t.phase /\ u.ch = t.ch /\ Unmoved(t, u)
         /\ Triggered(u) <=> Triggered(t)
         /\ Since(u) = Since(t) /\ (RunZone(u) <=> RunZone(t)) /\ (SetupZone(u) <=> SetupZone(t))
         /\ \A k \in Nat : Early(u, k) <=> Early(t, k)
<1>1. /\ u \in Moments /\ u.h = t.h /\ u.v = t.v /\ u.phase = t.phase /\ u.ch = t.ch
      /\ u.setupPosition = t.setupPosition /\ u.hdmaMode = t.hdmaMode
      /\ u.setupDue = t.setupDue /\ u.runsDue = t.runsDue
      /\ u.setupTriggered <=> t.setupTriggered
      /\ u.hdmaTriggered <=> t.hdmaTriggered
      /\ u.hdmaPending <=> t.hdmaPending
  BY DEF Moments
<1>2. /\ Triggered(u) <=> Triggered(t)
      /\ Since(u) = Since(t) /\ (RunZone(u) <=> RunZone(t)) /\ (SetupZone(u) <=> SetupZone(t))
  BY <1>1 DEF Triggered, Since, RunZone, SetupZone
<1>3. \A k \in Nat : Early(u, k) <=> Early(t, k)
  BY <1>1, <1>2 DEF Early, Called, Calm, Marked
<1> QED BY <1>1, <1>2, <1>3 DEF Unmoved

\* One of the ways that time passes.
Steps(t, n) == {StepClocks(t, n), DmaStep(t, n)}
                 \cup (IF n = 8 - t.phase THEN {Align(t)} ELSE {})

LEMMA StepsAre ==
  ASSUME NEW t \in Moments, NEW n \in Nat, NEW s \in Steps(t, n)
  PROVE  s = StepClocks(t, n) \/ \E x \in 0..23 : s = StepClocks([t EXCEPT !.counterDma = x], n)
<1>1. t.phase \in 0..7 /\ t.counterDma \in 0..23
  BY DEF Moments
<1>2. (t.counterDma + n) % 24 \in 0..23
  <2>1. t.counterDma + n \in Nat
    BY <1>1
  <2> QED BY <2>1
<1>3. 8 - t.phase \in 0..23
  BY <1>1
<1> QED BY <1>2, <1>3 DEF Steps, DmaStep, Align

LEMMA StepsControl ==
  ASSUME NEW t \in Moments, NEW n \in Nat, NEW s \in Steps(t, n)
  PROVE  /\ s \in Moments /\ s.phase = (t.phase + n) % 8
         /\ \A c \in Channel : s.ch[c].dma = t.ch[c].dma /\ s.ch[c].hdma = t.ch[c].hdma
         /\ DmaEnable(s.ch) <=> DmaEnable(t.ch)
<1>0. ASSUME NEW u \in Moments, u.phase = t.phase, u.ch = t.ch, s = StepClocks(u, n)
      PROVE  /\ s \in Moments /\ s.phase = (t.phase + n) % 8
             /\ \A c \in Channel : s.ch[c].dma = t.ch[c].dma /\ s.ch[c].hdma = t.ch[c].hdma
             /\ DmaEnable(s.ch) <=> DmaEnable(t.ch)
  <2>1. s \in Moments
    BY <1>0, StepType
  <2>2. s.phase = (t.phase + n) % 8 /\ s.ch = ChAfter(u, n)
    BY <1>0, StepFields
  <2>3. /\ \A c \in Channel : /\ ChAfter(u, n)[c].dma = u.ch[c].dma
                             /\ ChAfter(u, n)[c].hdma = u.ch[c].hdma
        /\ DmaEnable(ChAfter(u, n)) <=> DmaEnable(u.ch)
    BY StepChannels
  <2> QED BY <1>0, <2>1, <2>2, <2>3
<1>1. CASE s = StepClocks(t, n)
  BY <1>0, <1>1
<1>2. ASSUME NEW x \in 0..23, s = StepClocks([t EXCEPT !.counterDma = x], n)
      PROVE  /\ s \in Moments /\ s.phase = (t.phase + n) % 8
             /\ \A c \in Channel : s.ch[c].dma = t.ch[c].dma /\ s.ch[c].hdma = t.ch[c].hdma
             /\ DmaEnable(s.ch) <=> DmaEnable(t.ch)
  <2>1. PICK u \in Moments : u = [t EXCEPT !.counterDma = x] /\ u.phase = t.phase /\ u.ch = t.ch
    BY Recounted
  <2> QED BY <1>0, <1>2, <2>1
<1> QED BY <1>1, <1>2, StepsAre

LEMMA StepsTime ==
  ASSUME HdmaFits, NEW t \in Moments, NEW n \in Nat, Triggered(t), HdmaPosition + n <= LineClocks,
         NEW s \in Steps(t, n)
  PROVE  /\ Triggered(s)
         /\ \A k \in Nat : Early(t, k) /\ k + n <= 40 => Early(s, k + n)
         /\ SetupZone(t) /\ Since(t) + 20 + n < HdmaPosition =>
              Unmoved(t, s) /\ SetupZone(s) /\ Since(s) = Since(t) + n
         /\ RunZone(t) /\ Since(t) + n < LineClocks =>
              Unmoved(t, s) /\ RunZone(s) /\ Since(s) = Since(t) + n
<1>1. PICK u \in Moments : /\ s = StepClocks(u, n) /\ Unmoved(t, u) /\ u.h = t.h /\ Triggered(u)
                           /\ Since(u) = Since(t) /\ (RunZone(u) <=> RunZone(t))
                           /\ (SetupZone(u) <=> SetupZone(t))
                           /\ \A k \in Nat : Early(u, k) <=> Early(t, k)
  <2>1. CASE s = StepClocks(t, n)
    BY <2>1 DEF Unmoved
  <2>2. ASSUME NEW x \in 0..23, s = StepClocks([t EXCEPT !.counterDma = x], n)
        PROVE  \E u \in Moments : /\ s = StepClocks(u, n) /\ Unmoved(t, u) /\ u.h = t.h /\ Triggered(u)
                                  /\ Since(u) = Since(t) /\ (RunZone(u) <=> RunZone(t))
                                  /\ (SetupZone(u) <=> SetupZone(t))
                                  /\ \A k \in Nat : Early(u, k) <=> Early(t, k)
    <3> DEFINE u == [t EXCEPT !.counterDma = x]
    <3>1. /\ u \in Moments /\ Unmoved(t, u) /\ u.h = t.h /\ Triggered(u)
          /\ Since(u) = Since(t) /\ (RunZone(u) <=> RunZone(t))
          /\ (SetupZone(u) <=> SetupZone(t))
          /\ \A k \in Nat : Early(u, k) <=> Early(t, k)
      BY Recounted
    <3> HIDE DEF u
    <3>2. s = StepClocks(u, n)
      BY <2>2 DEF u
    <3> QED BY <3>1, <3>2
  <2> QED BY <2>1, <2>2, StepsAre
<1>2. Triggered(s)
  BY <1>1, StepTriggers
<1>3. \A k \in Nat : Early(t, k) /\ k + n <= 40 => Early(s, k + n)
  BY <1>1, StepEarly
<1>4. ASSUME SetupZone(t), Since(t) + 20 + n < HdmaPosition
      PROVE  Unmoved(t, s) /\ SetupZone(s) /\ Since(s) = Since(t) + n
  <2>1. u.h + n < HdmaPosition
    BY <1>1, <1>4, DmaAssumption DEF SetupZone, Since, Moments
  <2> QED BY <1>1, <1>4, <2>1, StepInSetup DEF Unmoved
<1>5. ASSUME RunZone(t), Since(t) + n < LineClocks
      PROVE  Unmoved(t, s) /\ RunZone(s) /\ Since(s) = Since(t) + n
  BY <1>1, <1>5, StepInRun DEF Unmoved
<1> QED BY <1>2, <1>3, <1>4, <1>5

-----------------------------------------------------------------------------
(* What else changes m.                                                    *)

SamePlace(t, u) == /\ u.h = t.h /\ u.v = t.v /\ u.phase = t.phase
                   /\ u.setupPosition = t.setupPosition
                   /\ (u.setupTriggered <=> t.setupTriggered)
                   /\ (u.hdmaTriggered <=> t.hdmaTriggered)

LEMMA ChannelsSet ==
  ASSUME NEW t \in Moments, NEW f \in [Channel -> ChannelState], NEW u, u = [t EXCEPT !.ch = f]
  PROVE  u \in Moments /\ u.ch = f /\ SamePlace(t, u) /\ Unmoved(t, u)
BY DEF Moments, SamePlace, Unmoved

LEMMA Unmarked ==
  ASSUME NEW t \in Moments,
         NEW u \in {[t EXCEPT !.hdmaPending = FALSE],
                    [t EXCEPT !.hdmaPending = FALSE, !.runsDue = 0, !.setupDue = {}],
                    [t EXCEPT !.setupDue = {}], [t EXCEPT !.runsDue = 0]}
  PROVE  u \in Moments /\ u.ch = t.ch /\ SamePlace(t, u)
<1>1. CASE u = [t EXCEPT !.hdmaPending = FALSE]
  BY <1>1 DEF Moments, SamePlace
<1>2. CASE u = [t EXCEPT !.hdmaPending = FALSE, !.runsDue = 0, !.setupDue = {}]
  <2>1. {} \in SUBSET Channel /\ 0 \in 0..2 /\ FALSE \in BOOLEAN
    OBVIOUS
  <2>2. u \in Moments
    BY <1>2, <2>1 DEF Moments
  <2>3. u.ch = t.ch /\ SamePlace(t, u)
    BY <1>2 DEF Moments, SamePlace
  <2> QED BY <2>2, <2>3
<1>3. CASE u = [t EXCEPT !.setupDue = {}]
  BY <1>3 DEF Moments, SamePlace
<1>4. CASE u = [t EXCEPT !.runsDue = 0]
  BY <1>4 DEF Moments, SamePlace
<1> QED BY <1>1, <1>2, <1>3, <1>4

\* One channel changes, and keeps whether DMA and HDMA use it or loses its DMA.
LEMMA ChannelSet ==
  ASSUME NEW t \in Moments, NEW c \in Channel, NEW one \in ChannelState,
         NEW u, u = [t EXCEPT !.ch[c] = one]
  PROVE  /\ u \in Moments /\ SamePlace(t, u) /\ Unmoved(t, u)
         /\ u.ch[c] = one /\ \A d \in Channel \ {c} : u.ch[d] = t.ch[d]
<1> DEFINE f == [t.ch EXCEPT ![c] = one]
<1>1. t.ch \in [Channel -> ChannelState]
  BY DEF Moments
<1>2. f \in [Channel -> ChannelState] /\ f[c] = one /\ \A d \in Channel \ {c} : f[d] = t.ch[d]
  BY <1>1
<1>3. u = [t EXCEPT !.ch = f]
  BY DEF Moments
<1> HIDE DEF f
<1>4. u \in Moments /\ u.ch = f /\ SamePlace(t, u) /\ Unmoved(t, u)
  BY <1>2, <1>3, ChannelsSet
<1> QED BY <1>2, <1>4

\* What does not take time: a channel changes, and may lose its DMA.
Kept(t, u) == /\ u \in Moments /\ SamePlace(t, u) /\ Unmoved(t, u)
              /\ \A c \in Channel : u.ch[c].dma => t.ch[c].dma

\* What a step of HDMA may do: time passes in units of 8 clocks, and DMA ends.
Drops(t, u) == /\ u \in Moments /\ u.phase = t.phase
               /\ \A c \in Channel : u.ch[c].dma => t.ch[c].dma

LEMMA DmaSteps ==
  ASSUME NEW t \in Moments, NEW n \in {8, 16, 32}
  PROVE  /\ Drops(t, DmaStep(t, n))
         /\ \A c \in Channel : /\ DmaStep(t, n).ch[c].dma <=> t.ch[c].dma
                               /\ DmaStep(t, n).ch[c].hdma <=> t.ch[c].hdma
<1> DEFINE s == DmaStep(t, n)
<1>1. s \in Steps(t, n) /\ n \in Nat
  BY DEF Steps
<1> HIDE DEF s
<1>2. /\ s \in Moments /\ s.phase = (t.phase + n) % 8
      /\ \A c \in Channel : s.ch[c].dma = t.ch[c].dma /\ s.ch[c].hdma = t.ch[c].hdma
  BY <1>1, StepsControl
<1>3. t.phase \in 0..7
  BY DEF Moments
<1>4. (t.phase + n) % 8 = t.phase
  <2>1. CASE n = 8
    BY <1>3, <2>1
  <2>2. CASE n = 16
    BY <1>3, <2>2
  <2>3. CASE n = 32
    BY <1>3, <2>3
  <2> QED BY <2>1, <2>2, <2>3
<1> QED BY <1>2, <1>4 DEF Drops, s

\* A channel without its DMA.
LEMMA WithoutDma ==
  ASSUME NEW t \in Moments, NEW c \in Channel, NEW one \in ChannelState
  PROVE  one.dma \in {FALSE, t.ch[c].dma} => Kept(t, [t EXCEPT !.ch[c] = one])
<1> DEFINE f == [t.ch EXCEPT ![c] = one]
           u == [t EXCEPT !.ch = f]
<1>1. t.ch \in [Channel -> ChannelState]
  BY DEF Moments
<1>2. f \in [Channel -> ChannelState] /\ f[c] = one /\ \A d \in Channel \ {c} : f[d] = t.ch[d]
  BY <1>1
<1>3. [t EXCEPT !.ch[c] = one] = u
  BY DEF Moments
<1> HIDE DEF f
<1>4. u \in Moments /\ u.ch = f /\ SamePlace(t, u) /\ Unmoved(t, u)
  BY <1>2, ChannelsSet
<1> HIDE DEF u
<1>5. one.dma \in {FALSE, t.ch[c].dma} => Kept(t, u)
  BY <1>2, <1>4 DEF Kept
<1> QED BY <1>3, <1>5

LEMMA ReloadIs ==
  ASSUME NEW t \in Moments, NEW c \in Channel, NEW n \in Counts
  PROVE  \E u : Kept(DmaStep(t, 8), u) /\ Reload(t, c, n) \in {u, DmaStep(u, 8), DmaStep(u, 16)}
<1> DEFINE t1 == DmaStep(t, 8)
           one == [t1.ch[c] EXCEPT !.count = n, !.completed = n = 0, !.doTransfer = n # 0]
           t2 == [t1 EXCEPT !.ch[c] = one]
<1>1. Drops(t, t1)
  BY DmaSteps
<1>2. t1 \in Moments /\ t1.ch[c] \in ChannelState
  BY <1>1 DEF Drops, Moments
<1>3. t2 = [t1 EXCEPT !.ch[c].count = n, !.ch[c].completed = n = 0, !.ch[c].doTransfer = n # 0]
  BY <1>2 DEF Moments
<1>4. Reload(t, c, n) \in {t1, t2, DmaStep(t2, 8), DmaStep(t2, 16)}
  BY <1>3 DEF Reload
<1> HIDE DEF t1
<1>5. one \in ChannelState /\ one.dma = t1.ch[c].dma
  <2>1. n \in 0..2*CountTop-1 /\ (n = 0) \in BOOLEAN /\ (n # 0) \in BOOLEAN
    BY DmaAssumption
  <2> QED BY <1>2, <2>1 DEF ChannelState
<1> HIDE DEF one
<1>6. Kept(t1, t2)
  BY <1>2, <1>5, WithoutDma
<1>7. Kept(t1, t1)
  BY <1>2 DEF Kept, SamePlace, Unmoved
<1> HIDE DEF t2
<1> QED BY <1>4, <1>6, <1>7 DEF t1

LEMMA ReloadDrops ==
  ASSUME NEW t \in Moments, NEW c \in Channel, NEW n \in Counts
  PROVE  Drops(t, Reload(t, c, n))
<1>1. PICK u : Kept(DmaStep(t, 8), u) /\ Reload(t, c, n) \in {u, DmaStep(u, 8), DmaStep(u, 16)}
  BY ReloadIs
<1>2. Drops(t, DmaStep(t, 8))
  BY DmaSteps
<1>3. u \in Moments
  BY <1>1 DEF Kept
<1>4. Drops(u, DmaStep(u, 8)) /\ Drops(u, DmaStep(u, 16))
  BY <1>3, DmaSteps
<1> QED BY <1>1, <1>2, <1>4 DEF Drops, Kept, SamePlace

\* What the steps of HDMA do to a channel, and the time that they take then.
LEMMA ChannelsAre ==
  ASSUME DmaInv
  PROVE  /\ SetupChannel \/ AdvanceChannel => \E u :
              Kept(m, u) /\ (m' = u \/ \E n \in Counts : m' = Reload(u, hchan, n))
         /\ TransferChannel => \E u :
              Kept(m, u) /\ (m' = u \/ m' = DmaStep(u, 8 * Length[hchan]))
         /\ NextUnit \/ EndChannel => Kept(m, m')
<1>0. m \in Moments /\ hchan \in Channel /\ chan \in Channel
  BY DEF DmaInv, DmaTypeOK
<1>a. /\ \A c \in Channel : m.ch[c] \in ChannelState
      /\ Kept(m, m)
  BY <1>0 DEF Moments, Kept, SamePlace, Unmoved
<1>1. ASSUME SetupChannel PROVE \E w : Kept(m, w) /\ (m' = w \/ \E n \in Counts : m' = Reload(w, hchan, n))
  <2> DEFINE one == [m.ch[hchan] EXCEPT !.doTransfer = TRUE]
             two == [m.ch[hchan] EXCEPT !.doTransfer = TRUE, !.dma = FALSE, !.count = 0]
             t == [m EXCEPT !.ch[hchan] = one]
             u == [m EXCEPT !.ch[hchan] = two]
  <2>1. t = [m EXCEPT !.ch[hchan].doTransfer = TRUE]
        /\ u = [t EXCEPT !.ch[hchan].dma = FALSE, !.ch[hchan].count = 0]
    BY <1>0, <1>a DEF Moments, ChannelState
  <2>2. m' = t \/ \E n \in Counts : m' = Reload(u, hchan, n)
    BY <1>1, <2>1 DEF SetupChannel
  <2>3. /\ one \in ChannelState /\ two \in ChannelState
        /\ one.dma = m.ch[hchan].dma /\ two.dma = FALSE
    <3>1. 0 \in 0..2*CountTop-1
      BY DmaAssumption
    <3> QED BY <1>0, <1>a, <3>1 DEF ChannelState
  <2> HIDE DEF one, two
  <2>4. Kept(m, t) /\ Kept(m, u)
    BY <1>0, <2>3, WithoutDma
  <2> HIDE DEF t, u
  <2> QED BY <2>2, <2>4
<1>2. ASSUME TransferChannel PROVE \E w : Kept(m, w) /\ (m' = w \/ m' = DmaStep(w, 8 * Length[hchan]))
  <2> DEFINE one == [m.ch[hchan] EXCEPT !.dma = FALSE]
             t == [m EXCEPT !.ch[hchan] = one]
  <2>1. t = [m EXCEPT !.ch[hchan].dma = FALSE]
    BY <1>0 DEF Moments
  <2>2. m' \in {m, t, DmaStep(t, 8 * Length[hchan])}
    BY <1>2, <2>1 DEF TransferChannel
  <2>3. one \in ChannelState /\ one.dma = FALSE
    BY <1>0, <1>a DEF ChannelState
  <2> HIDE DEF one
  <2>4. Kept(m, t)
    BY <1>0, <2>3, WithoutDma
  <2> HIDE DEF t
  <2> QED BY <1>a, <2>2, <2>4
<1>3. ASSUME AdvanceChannel PROVE \E w : Kept(m, w) /\ (m' = w \/ \E n \in Counts : m' = Reload(w, hchan, n))
  <2> DEFINE count == (m.ch[hchan].count - 1) % (2 * CountTop)
             one == [m.ch[hchan] EXCEPT !.count = count, !.doTransfer = count >= CountTop]
             t == [m EXCEPT !.ch[hchan] = one]
  <2>1. t = [m EXCEPT !.ch[hchan].count = count, !.ch[hchan].doTransfer = count >= CountTop]
    BY <1>0 DEF Moments
  <2>2. m' = m \/ \E n \in Counts : m' = Reload(t, hchan, n)
    BY <1>3, <2>1 DEF AdvanceChannel
  <2>3. count \in 0..2*CountTop-1
    <3> DEFINE x == m.ch[hchan].count
    <3>1. x \in Int /\ 2 * CountTop \in Nat \ {0}
      BY <1>0, <1>a, DmaAssumption DEF ChannelState
    <3> HIDE DEF x
    <3>2. (x - 1) % (2 * CountTop) \in 0..2*CountTop-1
      BY <3>1
    <3> QED BY <3>2 DEF x
  <2> HIDE DEF count
  <2>4. one \in ChannelState /\ one.dma = m.ch[hchan].dma
    <3>1. (count >= CountTop) \in BOOLEAN
      OBVIOUS
    <3> QED BY <1>0, <1>a, <2>3, <3>1 DEF ChannelState
  <2> HIDE DEF one
  <2>5. Kept(m, t)
    BY <1>0, <2>4, WithoutDma
  <2> HIDE DEF t
  <2> QED BY <1>a, <2>2, <2>5
<1>4. ASSUME NextUnit PROVE Kept(m, m')
  <2> DEFINE one == [m.ch[chan] EXCEPT !.size = m.ch[chan].size - 1]
  <2>1. m' = [m EXCEPT !.ch[chan] = one]
    BY <1>0, <1>4 DEF NextUnit, Moments
  <2>2. m.ch[chan].size > 1
    BY <1>4 DEF NextUnit
  <2>3. one \in ChannelState /\ one.dma = m.ch[chan].dma
    BY <1>0, <1>a, <2>2 DEF ChannelState
  <2> HIDE DEF one
  <2> QED BY <1>0, <2>1, <2>3, WithoutDma
<1>5. ASSUME EndChannel PROVE Kept(m, m')
  <2> DEFINE one == [m.ch[chan] EXCEPT !.dma = FALSE, !.size = 0]
  <2>1. m' = [m EXCEPT !.ch[chan] = one]
    BY <1>0, <1>5 DEF EndChannel, Moments
  <2>2. one \in ChannelState /\ one.dma = FALSE
    BY <1>0, <1>a DEF ChannelState
  <2> HIDE DEF one
  <2> QED BY <1>0, <2>1, <2>2, WithoutDma
<1> QED BY <1>1, <1>2, <1>3, <1>4, <1>5

LEMMA HdmaDrops ==
  ASSUME DmaInv
  PROVE  /\ Hdma \/ SetupChannel \/ TransferChannel \/ AdvanceChannel => Drops(m, m')
         /\ NextUnit \/ EndChannel => Drops(m, m')
<1>0. m \in Moments /\ hchan \in Channel
  BY DEF DmaInv, DmaTypeOK
<1>1. ASSUME Hdma PROVE Drops(m, m')
  <2>1. PICK u \in Moments : u.ch = m.ch /\ SamePlace(m, u) /\ m' = DmaStep(u, 8)
    BY <1>0, <1>1, Unmarked DEF Hdma
  <2>2. Drops(u, DmaStep(u, 8))
    BY DmaSteps
  <2> QED BY <2>1, <2>2 DEF Drops, SamePlace
<1>2. ASSUME SetupChannel \/ AdvanceChannel PROVE Drops(m, m')
  <2>1. PICK u : Kept(m, u) /\ (m' = u \/ \E n \in Counts : m' = Reload(u, hchan, n))
    BY <1>2, ChannelsAre
  <2>2. u \in Moments
    BY <2>1 DEF Kept
  <2>3. \A n \in Counts : Drops(u, Reload(u, hchan, n))
    BY <1>0, <2>2, ReloadDrops
  <2> QED BY <2>1, <2>3 DEF Drops, Kept, SamePlace
<1>3. ASSUME TransferChannel PROVE Drops(m, m')
  <2> DEFINE n == 8 * Length[hchan]
  <2>1. PICK u : Kept(m, u) /\ (m' = u \/ m' = DmaStep(u, n))
    BY <1>3, ChannelsAre
  <2>2. u \in Moments
    BY <2>1 DEF Kept
  <2>3. n \in {8, 16, 32}
    BY <1>0, DmaAssumption
  <2> HIDE DEF n
  <2>4. Drops(u, DmaStep(u, n))
    BY <2>2, <2>3, DmaSteps
  <2> QED BY <2>1, <2>4 DEF Drops, Kept, SamePlace
<1>4. ASSUME NextUnit \/ EndChannel PROVE Drops(m, m')
  BY <1>4, ChannelsAre DEF Drops, Kept, SamePlace
<1> QED BY <1>1, <1>2, <1>3, <1>4

LEMMA Aligns ==
  ASSUME NEW t \in Moments
  PROVE  /\ Align(t) \in Moments /\ Align(t).phase = 0
         /\ \A c \in Channel : Align(t).ch[c].dma = t.ch[c].dma
<1> DEFINE n == 8 - t.phase
<1>1. t.phase \in 0..7
  BY DEF Moments
<1>2. Align(t) \in Steps(t, n) /\ n \in Nat /\ (t.phase + n) % 8 = 0
  BY <1>1 DEF Steps
<1> HIDE DEF n
<1> QED BY <1>2, StepsControl

LEMMA AlignsCpu ==
  ASSUME DmaInv
  PROVE  LET n == clockCount - (m.counterDma % clockCount) IN
         /\ n \in 1..clockCount /\ AlignCpu(m) \in Steps(m, n)
         /\ AlignCpu(m) \in Moments
         /\ \A c \in Channel : AlignCpu(m).ch[c].dma = m.ch[c].dma
<1> DEFINE n == clockCount - (m.counterDma % clockCount)
<1>1. m \in Moments /\ clockCount \in Nat \ {0} /\ m.counterDma \in Nat
  BY DmaAssumption DEF DmaInv, DmaTypeOK, Moments
<1>2. m.counterDma % clockCount \in 0..clockCount-1
  BY <1>1, Modulo
<1>3. n \in 1..clockCount /\ n \in Nat
  BY <1>1, <1>2
<1>4. AlignCpu(m) \in Steps(m, n)
  BY DEF AlignCpu, Steps
<1> HIDE DEF n
<1>5. AlignCpu(m) \in Moments /\ \A c \in Channel : AlignCpu(m).ch[c].dma = m.ch[c].dma
  BY <1>1, <1>3, <1>4, StepsControl
<1> QED BY <1>3, <1>4, <1>5 DEF n

\* What the game asks for is recorded in dmaPending.
LEMMA Asked ==
  ASSUME NEW t \in Moments, DmaInv,
         (m' = t /\ UNCHANGED dmaPending) \/ DmaEn(t) \/ HdmaEn(t) \/ WriteCount(t)
  PROVE  /\ m' \in Moments /\ dmaPending' \in BOOLEAN /\ SamePlace(t, m') /\ Unmoved(t, m')
         /\ DmaEnable(m'.ch) => DmaEnable(t.ch) \/ dmaPending'
         /\ dmaPending => dmaPending'
<1>0. t.ch \in [Channel -> ChannelState] /\ dmaPending \in BOOLEAN
  BY DEF DmaInv, DmaTypeOK, Moments
<1>1. CASE m' = t /\ UNCHANGED dmaPending
  BY <1>0, <1>1 DEF SamePlace, Unmoved
<1>2. CASE DmaEn(t)
  <2>0. PICK d \in DmaMasks : \E size \in [d -> Sizes] :
          /\ m' = [t EXCEPT !.ch = [c \in Channel |->
              IF c \in d THEN [t.ch[c] EXCEPT !.dma = TRUE, !.size = size[c]]
                         ELSE [t.ch[c] EXCEPT !.dma = FALSE]]]
          /\ dmaPending' = (dmaPending \/ d # {})
    BY <1>2 DEF DmaEn, Moments
  <2>1. PICK size \in [d -> Sizes] :
          /\ m' = [t EXCEPT !.ch = [c \in Channel |->
              IF c \in d THEN [t.ch[c] EXCEPT !.dma = TRUE, !.size = size[c]]
                         ELSE [t.ch[c] EXCEPT !.dma = FALSE]]]
          /\ dmaPending' = (dmaPending \/ d # {})
    BY <2>0
  <2> DEFINE f == [c \in Channel |->
              IF c \in d THEN [t.ch[c] EXCEPT !.dma = TRUE, !.size = size[c]]
                         ELSE [t.ch[c] EXCEPT !.dma = FALSE]]
  <2>2. ASSUME NEW c \in Channel PROVE f[c] \in ChannelState /\ (f[c].dma => c \in d)
    <3>1. t.ch[c] \in ChannelState
      BY <1>0
    <3>2. CASE c \in d
      <4>1. size[c] \in Nat
        BY <3>2, DmaAssumption
      <4> QED BY <3>1, <3>2, <4>1 DEF ChannelState
    <3>3. CASE c \notin d
      BY <3>1, <3>3 DEF ChannelState
    <3> QED BY <3>2, <3>3
  <2>3. f \in [Channel -> ChannelState] /\ m' = [t EXCEPT !.ch = f]
    BY <2>1, <2>2
  <2> HIDE DEF f
  <2>4. m' \in Moments /\ m'.ch = f /\ SamePlace(t, m') /\ Unmoved(t, m')
    BY <2>3, ChannelsSet
  <2> QED BY <1>0, <2>1, <2>2, <2>4 DEF DmaEnable
<1>3. CASE HdmaEn(t)
  <2>1. PICK d \in HdmaMasks :
          /\ m' = [t EXCEPT !.ch = [c \in Channel |-> [t.ch[c] EXCEPT !.hdma = c \in d]]]
          /\ UNCHANGED dmaPending
    BY <1>3 DEF HdmaEn, Moments
  <2> DEFINE f == [c \in Channel |-> [t.ch[c] EXCEPT !.hdma = c \in d]]
  <2>2. ASSUME NEW c \in Channel PROVE f[c] \in ChannelState /\ f[c].dma = t.ch[c].dma
    <3>1. t.ch[c] \in ChannelState /\ (c \in d) \in BOOLEAN
      BY <1>0
    <3> QED BY <3>1 DEF ChannelState
  <2>3. f \in [Channel -> ChannelState] /\ m' = [t EXCEPT !.ch = f]
    BY <2>1, <2>2
  <2> HIDE DEF f
  <2>4. m' \in Moments /\ m'.ch = f /\ SamePlace(t, m') /\ Unmoved(t, m')
    BY <2>3, ChannelsSet
  <2> QED BY <1>0, <2>1, <2>2, <2>4 DEF DmaEnable
<1>4. CASE WriteCount(t)
  <2>1. PICK e \in Channel, n \in Counts : m' = [t EXCEPT !.ch[e].count = n] /\ UNCHANGED dmaPending
    BY <1>4 DEF WriteCount
  <2> DEFINE one == [t.ch[e] EXCEPT !.count = n]
             f == [t.ch EXCEPT ![e] = one]
  <2>2. one \in ChannelState /\ one.dma = t.ch[e].dma
    <3>1. t.ch[e] \in ChannelState /\ n \in 0..2*CountTop-1
      BY <1>0, DmaAssumption
    <3> QED BY <3>1 DEF ChannelState
  <2>3. m' = [t EXCEPT !.ch = f]
    BY <1>0, <2>1 DEF Moments
  <2> HIDE DEF one
  <2>4. f \in [Channel -> ChannelState] /\ \A c \in Channel : f[c].dma = t.ch[c].dma
    BY <1>0, <2>2
  <2> HIDE DEF f
  <2>5. m' \in Moments /\ m'.ch = f /\ SamePlace(t, m') /\ Unmoved(t, m')
    BY <2>3, <2>4, ChannelsSet
  <2> QED BY <1>0, <2>1, <2>4, <2>5 DEF DmaEnable
<1> QED BY <1>1, <1>2, <1>3, <1>4

-----------------------------------------------------------------------------
(* Every action keeps DmaInv.                                              *)

LEMMA TwoInOrder ==
  ASSUME NEW S, NEW p \in S, NEW q \in S
  PROVE  <<p>> \o <<q>> = <<p, q>>
<1>1. <<p>> \in Seq(S) /\ <<q>> \in Seq(S)
  OBVIOUS
<1>2. Len(<<p>>) = 1 /\ Len(<<q>>) = 1
  OBVIOUS
<1> DEFINE s == <<p>> \o <<q>>
<1>3. s \in Seq(S) /\ Len(s) = 2
      /\ \A i \in 1..2 : s[i] = IF i <= 1 THEN <<p>>[i] ELSE <<q>>[i - 1]
  <2>1. /\ s \in Seq(S) /\ Len(s) = Len(<<p>>) + Len(<<q>>)
        /\ \A i \in 1 .. Len(<<p>>) + Len(<<q>>) :
             s[i] = IF i <= Len(<<p>>) THEN <<p>>[i] ELSE <<q>>[i - Len(<<p>>)]
    BY <1>1, ConcatProperties
  <2> HIDE DEF s
  <2> QED BY <1>2, <2>1
<1> HIDE DEF s
<1>4. s[1] = p /\ s[2] = q
  BY <1>3
<1>5. s = <<s[1], s[2]>>
  BY <1>3
<1> QED BY <1>4, <1>5 DEF s

\* Where DMA calls dmaEdge().
Points == {"channels", "unit", "unitDone"}

LEMMA CallAndReturn ==
  \A p \in Points \cup {"cycle"} :
          /\ <<p>> \o <<>> = <<p>> /\ <<p>> \o <<"cycle">> = <<p, "cycle">>
          /\ <<p>> # <<>> /\ <<p, "cycle">> # <<>> /\ <<p, "cycle">> # <<"cycle">>
          /\ Head(<<p>>) = p /\ Tail(<<p>>) = <<>>
          /\ Head(<<p, "cycle">>) = p /\ Tail(<<p, "cycle">>) = <<"cycle">>
<1>1. ASSUME NEW p \in Points \cup {"cycle"}
      PROVE  /\ Head(<<p>>) = p /\ Tail(<<p>>) = <<>>
             /\ Head(<<p, "cycle">>) = p /\ Tail(<<p, "cycle">>) = <<"cycle">>
  OBVIOUS
<1>2. ASSUME NEW p \in Points \cup {"cycle"} PROVE <<p>> \o <<>> = <<p>>
  OBVIOUS
<1>3. ASSUME NEW p \in Points \cup {"cycle"} PROVE <<p>> \o <<"cycle">> = <<p, "cycle">>
  <2> DEFINE S == {p, "cycle"}
  <2>1. p \in S /\ "cycle" \in S
    OBVIOUS
  <2> HIDE DEF S
  <2> QED BY <2>1, TwoInOrder
<1>4. ASSUME NEW p \in Points \cup {"cycle"}
      PROVE  /\ <<p>> # <<>> /\ <<p, "cycle">> # <<>> /\ <<p, "cycle">> # <<"cycle">>
  OBVIOUS
<1> QED BY <1>1, <1>2, <1>3, <1>4

LEMMA WhereItIs ==
  ASSUME Calls
  PROVE  /\ pc \in {"cpu", "cycle"} => returns = <<>> /\ ~Moving
         /\ pc \in InDma => Outer /\ Moving
         /\ pc \in InEdge /\ Outer => ~Inner /\ ~Moving
         /\ pc \in InEdge /\ ~Outer =>
              Inner /\ Moving /\ \E p \in Points : returns = <<p, "cycle">>
         /\ Outer => ~Inner
<1>1. Outer => ~Inner
  BY CallAndReturn DEF Outer, Inner
<1>2. returns = <<>> => ~Inner
  BY CallAndReturn DEF Inner
<1> QED BY <1>1, <1>2 DEF Calls, Moving, Inner, InEdge, InDma, InHdma, Points

\* A step that neither calls nor returns.
LEMMA WhereItGoes ==
  ASSUME Calls, returns' = returns, {pc, pc'} \subseteq InEdge \/ {pc, pc'} \subseteq InDma
  PROVE  /\ Calls' /\ (Outer' <=> Outer) /\ (Inner' <=> Inner) /\ (Moving' <=> Moving)
         /\ pc' \notin {"cpu", "cycle"} /\ (pc' \in InDma <=> pc \in InDma)
BY DEF Calls, Outer, Inner, Moving, InEdge, InDma, InHdma

LEMMA DmaStart == SfcDmaInit => DmaInv
<1> SUFFICES ASSUME SfcDmaInit PROVE DmaInv
  OBVIOUS
<1>1. /\ 1 \in Channel /\ LineClocks \in Nat \ {0} /\ Scanlines \in Nat \ {0}
      /\ 2 * CountTop - 1 \in 0..2*CountTop-1
  BY DmaAssumption DEF Channel
<1>2. NoChannel \in ChannelState /\ ~NoChannel.dma
  BY <1>1 DEF NoChannel, ChannelState
<1>3. [c \in Channel |-> NoChannel] \in [Channel -> ChannelState]
  BY <1>2
<1>4. /\ m.ch = [c \in Channel |-> NoChannel] /\ m \in Moments
  <2>1. 0 \in 0..LineClocks-1 /\ 0 \in 0..Scanlines-1 /\ 0 \in 0..7 /\ 0 \in 0..23
        /\ SetupPosition(0) \in 12..19 /\ FALSE \in BOOLEAN /\ {} \in SUBSET Channel /\ 0 \in 0..2
    BY <1>1 DEF SetupPosition
  <2> HIDE DEF SetupPosition
  <2> QED BY <1>3, <2>1 DEF SfcDmaInit, Moments
<1>5. ~DmaEnable(m.ch)
  BY <1>2, <1>4 DEF DmaEnable
<1>6. returns = <<>> /\ pc = "cpu" /\ ~Inner /\ ~Moving
  BY CallAndReturn DEF SfcDmaInit, Inner, Moving, InDma
<1>7. DmaTypeOK /\ Calls
  BY <1>1, <1>4, <1>6 DEF DmaTypeOK, Calls, SfcDmaInit, InDma, InEdge, InHdma
<1>8. Transfers
  BY <1>5, <1>6 DEF Transfers, InHdma
<1> QED BY <1>7, <1>8 DEF DmaInv

\* What the channels and the time do, for a step that leaves the game's wishes.
LEMMA TransfersKept ==
  ASSUME DmaInv, Drops(m, m'), dmaActive' = dmaActive, dmaPending' = dmaPending
  PROVE  /\ DmaEnable(m.ch)' => DmaEnable(m.ch)
         /\ \A c \in Channel : ~m.ch[c].dma => ~m'.ch[c].dma
         /\ m' \in Moments /\ m'.phase = m.phase
BY DEF Drops, DmaEnable

LEMMA CycleKeeps ==
  ASSUME DmaInv, Cycle \/ FinishCycle
  PROVE  DmaInv'
<1> USE DEF DmaInv
<1>0. returns = <<>> /\ ~Moving
  BY WhereItIs DEF Cycle, FinishCycle
<1>1. CASE Cycle
  <2>1. Outer' /\ pc' = "edge" /\ ~Moving' /\ ~Inner'
    BY <1>0, <1>1, CallAndReturn DEF Cycle, Call, Outer, Inner, Moving, InDma
  <2>2. UNCHANGED <<m, dmaActive, dmaPending, chan, hchan>> /\ clockCount' \in CycleClocks
    BY <1>1 DEF Cycle, Call
  <2> QED BY <1>0, <2>1, <2>2 DEF DmaTypeOK, Calls, Transfers, InEdge, InDma, InHdma
<1>2. CASE FinishCycle
  <2> DEFINE t == StepClocks(m, clockCount)
  <2>1. t \in Moments /\ (DmaEnable(t.ch) <=> DmaEnable(m.ch))
    <3>1. m \in Moments /\ clockCount \in Nat
      BY DmaAssumption DEF DmaTypeOK
    <3>2. t \in Steps(m, clockCount)
      BY DEF Steps
    <3> QED BY <3>1, <3>2, StepsControl
  <2>2. (m' = t /\ UNCHANGED dmaPending) \/ DmaEn(t) \/ HdmaEn(t) \/ WriteCount(t)
    BY <1>2 DEF FinishCycle
  <2> HIDE DEF t
  <2>3. /\ m' \in Moments /\ dmaPending' \in BOOLEAN
        /\ DmaEnable(m'.ch) => DmaEnable(t.ch) \/ dmaPending'
        /\ dmaPending => dmaPending'
    BY <2>1, <2>2, Asked
  <2>4. /\ pc' = "cpu" /\ returns' = <<>> /\ UNCHANGED <<chan, hchan, dmaActive, clockCount>>
    BY <1>0, <1>2 DEF FinishCycle, GoTo
  <2>5. ~Moving' /\ ~Inner'
    BY <2>4, CallAndReturn DEF Moving, Inner, InDma
  <2> QED BY <1>0, <2>1, <2>3, <2>4, <2>5 DEF DmaTypeOK, Calls, Transfers, InEdge, InDma, InHdma
<1> QED BY <1>1, <1>2

\* A step of HDMA or of a DMA that neither calls nor returns.
LEMMA InnerStep ==
  ASSUME DmaInv, Drops(m, m'), returns' = returns, UNCHANGED <<chan, statusVars>>,
         hchan' \in Channel, pc \in InEdge /\ pc' \in InEdge, pc' # "edgeDma",
         pc \in InHdma
  PROVE  DmaInv'
<1> USE DEF DmaInv
<1>1. /\ Calls' /\ (Inner' <=> Inner) /\ (Moving' <=> Moving)
      /\ pc' \notin {"cpu", "cycle"} /\ pc' \notin InDma
  BY WhereItGoes DEF InEdge, InDma, InHdma
<1>2. /\ dmaActive' = dmaActive /\ dmaPending' = dmaPending /\ clockCount' = clockCount
      /\ chan' = chan
  BY DEF statusVars
<1>3. /\ DmaEnable(m.ch)' => DmaEnable(m.ch)
      /\ \A c \in Channel : ~m.ch[c].dma => ~m'.ch[c].dma
      /\ m' \in Moments /\ m'.phase = m.phase
  BY <1>2, TransfersKept
<1>4. DmaTypeOK'
  BY <1>2, <1>3 DEF DmaTypeOK
<1>5. Transfers'
  BY <1>1, <1>2, <1>3 DEF Transfers, InDma
<1> QED BY <1>1, <1>4, <1>5

LEMMA HdmaKeeps ==
  ASSUME DmaInv, Hdma \/ SetupChannel \/ TransferChannel \/ AdvanceChannel \/ HdmaEnd
  PROVE  DmaInv'
<1>0. Channels \in Nat \ {0} /\ hchan \in Channel
  BY DmaAssumption DEF DmaInv, DmaTypeOK
<1>1. CASE Hdma
  <2>1. Drops(m, m')
    BY <1>1, HdmaDrops
  <2>2. /\ pc = "hdma" /\ pc' \in {"setup", "transfer"} /\ hchan' = 1 /\ 1 \in Channel
        /\ UNCHANGED <<returns, chan, statusVars>>
    BY <1>0, <1>1 DEF Hdma, Channel
  <2> QED BY <2>1, <2>2, InnerStep DEF InEdge, InHdma
<1>2. CASE SetupChannel \/ TransferChannel \/ AdvanceChannel
  <2>1. Drops(m, m')
    BY <1>2, HdmaDrops
  <2>2. /\ pc \in {"setup", "transfer", "advance"}
        /\ pc' \in {"setup", "transfer", "advance", "hdmaEnd"} /\ hchan' \in Channel
        /\ UNCHANGED <<returns, chan, statusVars>>
    BY <1>0, <1>2 DEF SetupChannel, TransferChannel, AdvanceChannel, NextChannel, Channel
  <2> QED BY <2>1, <2>2, InnerStep DEF InEdge, InHdma
<1>3. CASE HdmaEnd
  <2> USE DEF DmaInv
  <2>1. /\ pc = "hdmaEnd" /\ pc' = "edgeDma" /\ UNCHANGED <<returns, chan, hchan, dmaPending, clockCount>>
    BY <1>3 DEF HdmaEnd, GoTo
  <2>2. /\ Calls' /\ (Inner' <=> Inner) /\ (Moving' <=> Moving)
    BY <2>1, WhereItGoes DEF InEdge, InDma, InHdma
  <2>3. CASE DmaEnable(m.ch)
    <3>1. m' = m /\ dmaActive' = dmaActive
      BY <1>3, <2>3 DEF HdmaEnd
    <3> QED BY <2>1, <2>2, <3>1 DEF DmaTypeOK, Transfers, InDma, InEdge, InHdma
  <2>4. CASE ~DmaEnable(m.ch)
    <3>1. m' = AlignCpu(m) /\ dmaActive' = FALSE
      BY <1>3, <2>4 DEF HdmaEnd
    <3>2. m' \in Moments /\ \A c \in Channel : m'.ch[c].dma = m.ch[c].dma
      BY <3>1, AlignsCpu
    <3>3. ~DmaEnable(m'.ch)
      BY <2>4, <3>2 DEF DmaEnable
    <3> QED BY <2>1, <2>2, <3>1, <3>2, <3>3 DEF DmaTypeOK, Transfers, InDma, InEdge, InHdma
  <2> QED BY <2>3, <2>4
<1> QED BY <1>1, <1>2, <1>3

LEMMA EdgeKeeps ==
  ASSUME DmaInv, EdgeInactive \/ EdgeHdma \/ EdgeDma \/ EdgeEnd
  PROVE  DmaInv'
<1> USE DEF DmaInv
<1>0. m \in Moments
  BY DEF DmaTypeOK
<1>1. CASE EdgeInactive
  <2>1. /\ pc = "edge" /\ pc' = "edgeEnd"
        /\ UNCHANGED <<m, returns, chan, hchan, dmaActive, dmaPending, clockCount>>
    BY <1>1 DEF EdgeInactive, GoTo, statusVars
  <2>2. Calls' /\ (Inner' <=> Inner) /\ (Moving' <=> Moving)
    BY <2>1, WhereItGoes DEF InEdge, InDma, InHdma
  <2> QED BY <2>1, <2>2 DEF DmaTypeOK, Transfers, InDma, InEdge, InHdma
<1>2. CASE EdgeHdma
  <2>1. /\ pc = "edge" /\ pc' \in {"hdma", "edgeDma"} /\ dmaActive
        /\ UNCHANGED <<returns, chan, hchan, dmaActive, dmaPending, clockCount>>
    BY <1>2 DEF EdgeHdma, GoTo, statusVars
  <2>2. Calls' /\ (Inner' <=> Inner) /\ (Moving' <=> Moving)
    BY <2>1, WhereItGoes DEF InEdge, InDma, InHdma
  <2>3. PICK t \in Moments : /\ t.ch = m.ch /\ SamePlace(m, t)
                             /\ m' = t \/ (m' = Align(t) /\ ~DmaEnable(m.ch))
    BY <1>0, <1>2, Unmarked DEF EdgeHdma
  <2>4. /\ m' \in Moments /\ \A c \in Channel : m'.ch[c].dma = m.ch[c].dma
        /\ DmaEnable(m.ch) => m'.phase = m.phase
    BY <2>3, Aligns DEF SamePlace
  <2>5. DmaEnable(m'.ch) <=> DmaEnable(m.ch)
    BY <2>4 DEF DmaEnable
  <2> QED BY <2>1, <2>2, <2>4, <2>5 DEF DmaTypeOK, Transfers, InDma, InEdge, InHdma
<1>3. CASE EdgeDma
  <2>1. /\ pc = "edgeDma" /\ dmaPending' = FALSE
        /\ UNCHANGED <<returns, chan, hchan, dmaActive, clockCount>>
    BY <1>3 DEF EdgeDma, GoTo
  <2>2. CASE dmaPending /\ DmaEnable(m.ch)
    <3>1. pc' = "dmaRun" /\ m' = Align(m)
      BY <1>3, <2>2 DEF EdgeDma, GoTo
    <3>2. Outer /\ ~Inner /\ dmaActive
      BY <2>1, <2>2, WhereItIs DEF Transfers, InEdge
    <3>3. Outer' /\ ~Inner'
      BY <2>1, <3>2 DEF Outer, Inner
    <3>4. m' \in Moments /\ m'.phase = 0
      BY <1>0, <3>1, Aligns
    <3> QED BY <2>1, <3>1, <3>2, <3>3, <3>4
         DEF DmaTypeOK, Calls, Transfers, Moving, InDma, InEdge, InHdma
  <2>3. CASE ~(dmaPending /\ DmaEnable(m.ch))
    <3>1. pc' = "edgeEnd" /\ m' = m
      BY <1>3, <2>3 DEF EdgeDma, GoTo
    <3>2. Calls' /\ (Inner' <=> Inner) /\ (Moving' <=> Moving)
      BY <2>1, <3>1, WhereItGoes DEF InEdge, InDma, InHdma
    <3> QED BY <2>1, <2>3, <3>1, <3>2 DEF DmaTypeOK, Transfers, InDma, InEdge, InHdma
  <2> QED BY <2>2, <2>3
<1>4. CASE EdgeEnd
  <2>1. /\ pc = "edgeEnd" /\ dmaActive' = (dmaActive \/ Wanted) /\ returns' = Tail(returns)
        /\ pc' = IF Head(returns) = "channels" THEN "channel" ELSE Head(returns)
        /\ chan' = IF Head(returns) = "channels" THEN 1 ELSE chan
        /\ m' = m /\ hchan' = hchan /\ dmaPending' = dmaPending /\ clockCount' = clockCount
    BY <1>4 DEF EdgeEnd
  <2>2. CASE Outer
    <3>1. pc' = "cycle" /\ returns' = <<>> /\ chan' = chan
      BY <2>1, <2>2, CallAndReturn DEF Outer
    <3>2. ~Moving /\ ~Moving' /\ ~Inner'
      BY <2>1, <2>2, <3>1, WhereItIs, CallAndReturn DEF Moving, Inner, InEdge, InDma
    <3> QED BY <2>1, <3>1, <3>2 DEF DmaTypeOK, Calls, Transfers, InDma, InEdge, InHdma
  <2>3. CASE ~Outer
    <3>1. PICK p \in Points : returns = <<p, "cycle">> /\ Inner /\ Moving
      BY <2>1, <2>3, WhereItIs DEF InEdge
    <3>2. Head(returns) = p /\ returns' = <<"cycle">>
      BY <2>1, <3>1, CallAndReturn
    <3>3. pc' \in {"channel", "unit", "unitDone"}
      BY <2>1, <3>2 DEF Points
    <3>4. Outer' /\ ~Inner' /\ Moving'
      BY <3>2, <3>3, CallAndReturn DEF Outer, Inner, Moving, InDma
    <3>5. 1 \in Channel /\ \A c \in Channel : ~(c < 1)
      BY DmaAssumption DEF Channel
    <3> QED BY <2>1, <3>1, <3>2, <3>3, <3>4, <3>5
         DEF DmaTypeOK, Calls, Transfers, InDma, InEdge, InHdma
  <2> QED BY <2>2, <2>3
<1> QED BY <1>1, <1>2, <1>3, <1>4

\* DMA calls dmaEdge() before its first channel, before its first unit and after every unit.
LEMMA DmaCalls ==
  ASSUME DmaInv, DmaRun \/ BeginChannel \/ Unit
  PROVE  DmaInv'
<1> USE DEF DmaInv
<1>0. m \in Moments
  BY DEF DmaTypeOK
<1>b. PICK p \in Points : /\ m' = DmaStep(m, 8) /\ pc' = "edge" /\ returns' = <<p>> \o returns
                          /\ UNCHANGED <<chan, hchan, dmaActive, dmaPending, clockCount>>
                          /\ pc = IF p = "channels" THEN "dmaRun"
                                  ELSE IF p = "unit" THEN "channel" ELSE "unit"
  BY DEF DmaRun, BeginChannel, Unit, Call, statusVars, Points
<1>1. Moving /\ returns' = <<p, "cycle">>
  <2>1. pc \in InDma
    BY <1>b DEF InDma
  <2>2. Outer /\ Moving
    BY <2>1, WhereItIs
  <2> QED BY <1>b, <2>1, <2>2, CallAndReturn DEF Outer
<1>2. Inner' /\ Moving' /\ ~Outer' /\ Head(returns') = p
  <2>1. Head(returns') = p /\ ~Outer'
    BY <1>1, CallAndReturn DEF Outer
  <2>2. Inner'
    BY <1>1 DEF Inner, Points
  <2> QED BY <2>1, <2>2 DEF Moving
<1>3. Drops(m, m')
  BY <1>0, <1>b, DmaSteps
<1>4. /\ DmaEnable(m.ch)' => DmaEnable(m.ch)
      /\ \A c \in Channel : ~m.ch[c].dma => ~m'.ch[c].dma
      /\ m' \in Moments /\ m'.phase = m.phase
  BY <1>b, <1>3, TransfersKept
<1>5. DmaTypeOK' /\ Calls'
  BY <1>b, <1>2, <1>4 DEF DmaTypeOK, Calls, InDma, InEdge, InHdma
<1>6. Transfers'
  BY <1>b, <1>1, <1>2, <1>4 DEF Transfers, InDma, InHdma, Points
<1> QED BY <1>5, <1>6

LEMMA DmaKeeps ==
  ASSUME DmaInv, SkipChannel \/ NextUnit \/ EndChannel \/ DmaEnd
  PROVE  DmaInv'
<1> USE DEF DmaInv
<1>0. m \in Moments /\ chan \in 1..Channels /\ Channels \in Nat \ {0} /\ Channel = 1..Channels
  BY DmaAssumption DEF DmaTypeOK, Channel
<1>a. pc \in InDma /\ Outer /\ Moving
  BY WhereItIs DEF SkipChannel, NextUnit, EndChannel, DmaEnd, InDma
<1>1. CASE SkipChannel \/ EndChannel
  <2>1. /\ pc \in {"channel", "unitDone"} /\ AfterChannel
        /\ UNCHANGED <<returns, hchan, dmaActive, dmaPending, clockCount>>
    BY <1>1 DEF SkipChannel, EndChannel, AfterChannel, statusVars
  <2>2. Drops(m, m') /\ ~m'.ch[chan].dma
    <3>1. CASE SkipChannel
      BY <1>0, <3>1 DEF SkipChannel, Drops
    <3>2. CASE EndChannel
      <4>1. m'.ch[chan].dma = FALSE
        BY <1>0, <3>2 DEF EndChannel, Moments, ChannelState, Channel
      <4> QED BY <3>2, <4>1, HdmaDrops
    <3> QED BY <1>1, <3>1, <3>2
  <2>3. /\ DmaEnable(m.ch)' => DmaEnable(m.ch)
        /\ \A c \in Channel : ~m.ch[c].dma => ~m'.ch[c].dma
        /\ m' \in Moments /\ m'.phase = m.phase
    BY <2>1, <2>2, TransfersKept
  <2>4. \A c \in Channel : c <= chan => ~m'.ch[c].dma
    BY <1>0, <2>1, <2>2, <2>3 DEF Transfers
  <2>5. \/ pc' = "channel" /\ chan' = chan + 1 /\ chan < Channels
        \/ pc' = "dmaEnd" /\ chan' = 1 /\ chan = Channels
    BY <1>0, <2>1 DEF AfterChannel
  <2>6. chan' \in Channel /\ (pc' = "dmaEnd" => ~DmaEnable(m'.ch))
    BY <1>0, <2>4, <2>5 DEF DmaEnable
  <2>7. pc' = "channel" => \A c \in Channel : c < chan' => ~m'.ch[c].dma
    BY <1>0, <2>4, <2>5
  <2>8. Calls' /\ (Inner' <=> Inner) /\ (Moving' <=> Moving) /\ ~Inner
    BY <1>a, <2>1, <2>5, WhereItGoes, WhereItIs DEF InEdge, InDma, InHdma
  <2>9. DmaTypeOK'
    BY <2>1, <2>3, <2>5, <2>6 DEF DmaTypeOK, InDma
  <2>10. Transfers'
    BY <1>a, <2>1, <2>3, <2>5, <2>6, <2>7, <2>8 DEF Transfers, InDma, InHdma
  <2> QED BY <2>8, <2>9, <2>10
<1>2. CASE NextUnit
  <2>1. /\ pc = "unitDone" /\ pc' = "unit"
        /\ UNCHANGED <<returns, chan, hchan, dmaActive, dmaPending, clockCount>>
    BY <1>2 DEF NextUnit, GoTo, statusVars
  <2>2. Drops(m, m')
    BY <1>2, HdmaDrops
  <2>3. /\ DmaEnable(m.ch)' => DmaEnable(m.ch)
        /\ \A c \in Channel : ~m.ch[c].dma => ~m'.ch[c].dma
        /\ m' \in Moments /\ m'.phase = m.phase
    BY <2>1, <2>2, TransfersKept
  <2>4. Calls' /\ (Inner' <=> Inner) /\ (Moving' <=> Moving)
    BY <2>1, WhereItGoes DEF InEdge, InDma, InHdma
  <2> QED BY <1>a, <2>1, <2>3, <2>4 DEF DmaTypeOK, Transfers, InDma, InHdma
<1>3. CASE DmaEnd
  <2>1. /\ pc = "dmaEnd" /\ pc' = "edgeEnd" /\ m' = AlignCpu(m) /\ dmaActive' = FALSE
        /\ UNCHANGED <<returns, chan, hchan, dmaPending, clockCount>>
    BY <1>3 DEF DmaEnd, GoTo
  <2>2. m' \in Moments /\ \A c \in Channel : m'.ch[c].dma = m.ch[c].dma
    BY <2>1, AlignsCpu
  <2>3. ~DmaEnable(m'.ch)
    BY <2>1, <2>2 DEF DmaEnable, Transfers
  <2>4. Outer' /\ ~Inner' /\ ~Moving'
    BY <1>a, <2>1, CallAndReturn DEF Outer, Inner, Moving, InDma
  <2> QED BY <1>a, <2>1, <2>2, <2>3, <2>4
       DEF DmaTypeOK, Calls, Transfers, InDma, InEdge, InHdma
<1> QED BY <1>1, <1>2, <1>3

\* The CPU moves through its cycles, its edges, HDMA and DMA as the calls of the code
\* lead, and what it moves is aligned.
THEOREM DmaCorrect == SfcDmaSpec => []DmaInv
<1>1. DmaInv /\ [SfcDmaNext]_sfcDmaVars => DmaInv'
  <2> SUFFICES ASSUME DmaInv, [SfcDmaNext]_sfcDmaVars PROVE DmaInv'
    OBVIOUS
  <2>1. CASE UNCHANGED sfcDmaVars
    BY <2>1 DEF sfcDmaVars, statusVars, DmaInv, DmaTypeOK, Calls, Transfers, Outer, Inner, Moving
  <2>2. CASE Cycle \/ FinishCycle
    BY <2>2, CycleKeeps
  <2>3. CASE EdgeInactive \/ EdgeHdma \/ EdgeDma \/ EdgeEnd
    BY <2>3, EdgeKeeps
  <2>4. CASE Hdma \/ SetupChannel \/ TransferChannel \/ AdvanceChannel \/ HdmaEnd
    BY <2>4, HdmaKeeps
  <2>5. CASE DmaRun \/ BeginChannel \/ Unit
    BY <2>5, DmaCalls
  <2>6. CASE SkipChannel \/ NextUnit \/ EndChannel \/ DmaEnd
    BY <2>6, DmaKeeps
  <2> QED BY <2>1, <2>2, <2>3, <2>4, <2>5, <2>6 DEF SfcDmaNext, Edge
<1> QED BY DmaStart, <1>1, PTL DEF SfcDmaSpec

\* Units of a DMA are moved at clocks divisible by 8 (dma.cpp), whatever HDMA or its end
\* came in between, for any number of channels and any cycles.
THEOREM AlwaysAligned == SfcDmaSpec => []UnitsAligned
<1>1. DmaInv => UnitsAligned
  BY DEF DmaInv, DmaTypeOK, Transfers, UnitsAligned, Moving, InDma, DmaEnable
<1> QED BY <1>1, DmaCorrect, PTL

-----------------------------------------------------------------------------
(* Every action keeps TimeInv, when HDMA fits into a line.                 *)

LEMMA SamePlaces ==
  ASSUME NEW t \in Moments, NEW u \in Moments, SamePlace(t, u)
  PROVE  /\ Triggered(u) <=> Triggered(t)
         /\ Since(u) = Since(t) /\ Since(t) \in Int
         /\ (RunZone(u) <=> RunZone(t)) /\ (SetupZone(u) <=> SetupZone(t))
<1>1. Since(t) \in Int
  BY DmaAssumption DEF Since, Moments
<1> QED BY <1>1 DEF SamePlace, Triggered, Since, RunZone, SetupZone

LEMMA SameMarks ==
  ASSUME NEW t \in Moments, NEW u \in Moments, SamePlace(t, u), Unmoved(t, u)
  PROVE  /\ Calm(u) <=> Calm(t)
         /\ \A k \in Int : (Called(u, k) <=> Called(t, k)) /\ (Early(u, k) <=> Early(t, k))
<1>1. /\ Since(u) = Since(t)
      /\ (RunZone(u) <=> RunZone(t)) /\ (SetupZone(u) <=> SetupZone(t))
  BY SamePlaces
<1> QED BY <1>1 DEF Unmoved, Calm, Called, Early, Marked

LEMMA EarlyFor ==
  ASSUME NEW t \in Moments, NEW j \in Int, NEW k \in Int, j <= k, Early(t, j)
  PROVE  Early(t, k)
<1>1. Since(t) \in Int
  BY DmaAssumption DEF Since, Moments
<1> QED BY <1>1 DEF Early, Called

\* u is t some clocks later, or so it seems when the next transfer or its end is not due.
Later(t, u, k) ==
  /\ u \in Moments /\ Triggered(u)
  /\ SetupZone(t) /\ Since(t) + 20 + k < HdmaPosition =>
       Unmoved(t, u) /\ SetupZone(u) /\ Since(u) = Since(t) + k
  /\ RunZone(t) /\ Since(t) + k < LineClocks =>
       Unmoved(t, u) /\ RunZone(u) /\ Since(u) = Since(t) + k

LEMMA StepLater ==
  ASSUME HdmaFits, NEW t \in Moments, NEW n \in Nat, Triggered(t), HdmaPosition + n <= LineClocks,
         NEW s \in Steps(t, n)
  PROVE  Later(t, s, n)
<1>1. s \in Moments
  BY StepsControl
<1> QED BY <1>1, StepsTime DEF Later

LEMMA KeptLater ==
  ASSUME NEW t \in Moments, Triggered(t), NEW u, Kept(t, u)
  PROVE  Later(t, u, 0)
<1>1. u \in Moments /\ SamePlace(t, u) /\ Unmoved(t, u)
  BY DEF Kept
<1>2. /\ Triggered(u) /\ Since(u) = Since(t) /\ Since(t) \in Int
      /\ (RunZone(u) <=> RunZone(t)) /\ (SetupZone(u) <=> SetupZone(t))
  BY <1>1, SamePlaces
<1> QED BY <1>1, <1>2 DEF Later

LEMMA LaterStill ==
  ASSUME NEW t \in Moments, NEW u, NEW w, NEW j \in Nat, NEW k \in Nat,
         Later(t, u, j), Later(u, w, k)
  PROVE  Later(t, w, j + k)
<1>1. Since(t) \in Int /\ LineClocks \in Int /\ HdmaPosition \in Int
  BY DmaAssumption DEF Since, Moments
<1>2. ASSUME SetupZone(t), Since(t) + 20 + (j + k) < HdmaPosition
      PROVE  Unmoved(t, w) /\ SetupZone(w) /\ Since(w) = Since(t) + (j + k)
  <2>1. Unmoved(t, u) /\ SetupZone(u) /\ Since(u) = Since(t) + j
    BY <1>1, <1>2 DEF Later
  <2>2. Unmoved(u, w) /\ SetupZone(w) /\ Since(w) = Since(u) + k
    BY <1>1, <1>2, <2>1 DEF Later
  <2> QED BY <1>1, <2>1, <2>2 DEF Unmoved
<1>3. ASSUME RunZone(t), Since(t) + (j + k) < LineClocks
      PROVE  Unmoved(t, w) /\ RunZone(w) /\ Since(w) = Since(t) + (j + k)
  <2>1. Unmoved(t, u) /\ RunZone(u) /\ Since(u) = Since(t) + j
    BY <1>1, <1>3 DEF Later
  <2>2. Unmoved(u, w) /\ RunZone(w) /\ Since(w) = Since(u) + k
    BY <1>1, <1>3, <2>1 DEF Later
  <2> QED BY <1>1, <2>1, <2>2 DEF Unmoved
<1> QED BY <1>2, <1>3 DEF Later

LEMMA ReloadLater ==
  ASSUME HdmaFits, NEW t \in Moments, NEW c \in Channel, NEW n \in Counts, Triggered(t)
  PROVE  \E k \in 0..24 : Later(t, Reload(t, c, n), k)
<1>1. PICK u : Kept(DmaStep(t, 8), u) /\ Reload(t, c, n) \in {u, DmaStep(u, 8), DmaStep(u, 16)}
  BY ReloadIs
<1>0. HdmaPosition + 8 <= LineClocks /\ HdmaPosition + 16 <= LineClocks
  BY DmaAssumption
<1>2. Later(t, DmaStep(t, 8), 8)
  <2>1. DmaStep(t, 8) \in Steps(t, 8)
    BY DEF Steps
  <2> QED BY <1>0, <2>1, StepLater
<1>3. Later(DmaStep(t, 8), u, 0)
  BY <1>1, <1>2, KeptLater DEF Later
<1>4. Later(t, u, 8)
  <2>1. Later(t, u, 8 + 0)
    BY <1>2, <1>3, LaterStill
  <2> QED BY <2>1
<1>5. u \in Moments /\ Triggered(u)
  BY <1>4 DEF Later
<1>6. DmaStep(u, 8) \in Steps(u, 8) /\ DmaStep(u, 16) \in Steps(u, 16)
  BY DEF Steps
<1>7. Later(u, DmaStep(u, 8), 8) /\ Later(u, DmaStep(u, 16), 16)
  BY <1>0, <1>5, <1>6, StepLater
<1>8. Later(t, DmaStep(u, 8), 8 + 8) /\ Later(t, DmaStep(u, 16), 8 + 16)
  BY <1>4, <1>7, LaterStill
<1>9. Later(t, DmaStep(u, 8), 16) /\ Later(t, DmaStep(u, 16), 24)
  BY <1>8
<1>10. 8 \in 0..24 /\ 16 \in 0..24 /\ 24 \in 0..24
  OBVIOUS
<1> QED BY <1>1, <1>4, <1>9, <1>10

LEMMA ChannelsLater ==
  ASSUME HdmaFits, DmaInv, Triggered(m)
  PROVE  /\ SetupChannel \/ AdvanceChannel => \E k \in 0..24 : Later(m, m', k)
         /\ TransferChannel => \E k \in 0..32 : Later(m, m', k)
<1>0. m \in Moments /\ hchan \in Channel
  BY DEF DmaInv, DmaTypeOK
<1>1. ASSUME SetupChannel \/ AdvanceChannel PROVE \E k \in 0..24 : Later(m, m', k)
  <2>1. PICK u : Kept(m, u) /\ (m' = u \/ \E n \in Counts : m' = Reload(u, hchan, n))
    BY <1>1, ChannelsAre
  <2>2. Later(m, u, 0)
    BY <1>0, <2>1, KeptLater
  <2>3. CASE m' = u
    BY <2>2, <2>3
  <2>4. ASSUME NEW n \in Counts, m' = Reload(u, hchan, n) PROVE \E k \in 0..24 : Later(m, m', k)
    <3>1. u \in Moments /\ Triggered(u)
      BY <2>2 DEF Later
    <3>2. PICK k \in 0..24 : Later(u, m', k)
      BY <1>0, <2>4, <3>1, ReloadLater
    <3>3. Later(m, m', 0 + k)
      BY <1>0, <2>2, <3>2, LaterStill
    <3> QED BY <3>3
  <2> QED BY <2>1, <2>3, <2>4
<1>2. ASSUME TransferChannel PROVE \E k \in 0..32 : Later(m, m', k)
  <2> DEFINE n == 8 * Length[hchan]
  <2>1. PICK u : Kept(m, u) /\ (m' = u \/ m' = DmaStep(u, n))
    BY <1>2, ChannelsAre
  <2>2. Later(m, u, 0)
    BY <1>0, <2>1, KeptLater
  <2>3. n \in 0..32 /\ HdmaPosition + n <= LineClocks
    BY <1>0, DmaAssumption
  <2> HIDE DEF n
  <2>4. u \in Moments /\ Triggered(u) /\ DmaStep(u, n) \in Steps(u, n)
    BY <2>2 DEF Later, Steps
  <2>5. Later(u, DmaStep(u, n), n)
    BY <2>3, <2>4, StepLater
  <2>6. Later(m, DmaStep(u, n), 0 + n)
    BY <1>0, <2>2, <2>3, <2>5, LaterStill
  <2>7. 0 \in 0..32 /\ 0 + n = n
    BY <2>3
  <2> QED BY <2>1, <2>2, <2>3, <2>6, <2>7
<1> QED BY <1>1, <1>2

\* Bounds on the clocks of a step.
LEMMA Clocks ==
  ASSUME HdmaFits, DmaInv
  PROVE  /\ m \in Moments /\ clockCount \in 1..12 /\ hchan \in 1..Channels
         /\ Channels \in Nat \ {0} /\ LineClocks \in Nat /\ HdmaPosition \in Nat
         /\ HdmaPosition + 16 <= LineClocks
         /\ 80 + 24 * Channels < HdmaPosition /\ 60 + 56 * Channels < LineClocks
BY DmaAssumption DEF HdmaFits, DmaInv, DmaTypeOK, Channel

LEMMA HdmaInTime ==
  ASSUME HdmaFits, DmaInv, TimeInv, DmaInv',
         Hdma \/ SetupChannel \/ TransferChannel \/ AdvanceChannel \/ HdmaEnd
  PROVE  TimeInv'
<1>0. /\ m \in Moments /\ clockCount \in 1..12 /\ hchan \in 1..Channels
      /\ Channels \in Nat \ {0} /\ LineClocks \in Nat /\ HdmaPosition \in Nat
      /\ HdmaPosition + 16 <= LineClocks
      /\ 80 + 24 * Channels < HdmaPosition /\ 60 + 56 * Channels < LineClocks
  BY Clocks
<1>a. Triggered(m) /\ m' \in Moments /\ Since(m) \in Int
  BY DmaAssumption DEF TimeInv, DmaInv, DmaTypeOK, Since, Moments
<1>1. CASE Hdma
  <2>1. pc = "hdma" /\ ~m.hdmaPending /\ Marked(m) /\ Since(m) <= 40
    BY <1>1 DEF Hdma, TimeInv, Hdmas
  <2>2. PICK u \in Moments : /\ u = IF m.hdmaMode = "setup" THEN [m EXCEPT !.setupDue = {}]
                                                         ELSE [m EXCEPT !.runsDue = 0]
                            /\ SamePlace(m, u) /\ m' = DmaStep(u, 8)
    BY <1>0, <1>1, Unmarked DEF Hdma
  <2>3. Calm(u)
    BY <1>0, <2>1, <2>2 DEF Calm, Marked, Moments
  <2>4. Later(u, m', 8)
    <3>1. m' \in Steps(u, 8) /\ Triggered(u) /\ HdmaPosition + 8 <= LineClocks
      BY <1>0, <1>a, <2>2, SamePlaces DEF Steps
    <3> QED BY <3>1, StepLater
  <2>5. Since(u) = Since(m) /\ (RunZone(u) <=> RunZone(m)) /\ (SetupZone(u) <=> SetupZone(m))
    BY <1>0, <2>2, SamePlaces
  <2>6. CASE m.hdmaMode = "setup"
    <3>1. SetupZone(u) /\ pc' = "setup" /\ hchan' = 1
      BY <1>1, <2>1, <2>5, <2>6 DEF Marked, Hdma
    <3>2. Unmoved(u, m') /\ SetupZone(m') /\ Since(m') = Since(m) + 8
      BY <1>0, <1>a, <2>1, <2>4, <2>5, <3>1 DEF Later
    <3>3. Calm(m') /\ Since(m') <= 48 /\ Triggered(m')
      BY <1>a, <2>1, <2>3, <2>4, <3>2 DEF Calm, Unmoved, Later
    <3> QED BY <3>1, <3>2, <3>3 DEF TimeInv, Waits, Hdmas
  <2>7. CASE m.hdmaMode # "setup"
    <3>1. RunZone(u) /\ pc' = "transfer" /\ hchan' = 1
      BY <1>0, <1>1, <2>1, <2>5, <2>7 DEF Marked, Hdma, Moments
    <3>2. Unmoved(u, m') /\ RunZone(m') /\ Since(m') = Since(m) + 8
      BY <1>0, <1>a, <2>1, <2>4, <2>5, <3>1 DEF Later
    <3>3. Calm(m') /\ Since(m') <= 48 /\ Triggered(m')
      BY <1>a, <2>1, <2>3, <2>4, <3>2 DEF Calm, Unmoved, Later
    <3> QED BY <3>1, <3>2, <3>3 DEF TimeInv, Waits, Hdmas
  <2> QED BY <2>6, <2>7
<1>2. CASE SetupChannel
  <2>1. /\ pc = "setup" /\ Calm(m) /\ SetupZone(m) /\ Since(m) <= 48 + 24 * (hchan - 1)
        /\ \/ pc' = "setup" /\ hchan' = hchan + 1
           \/ pc' = "hdmaEnd" /\ hchan = Channels
    BY <1>0, <1>2 DEF SetupChannel, NextChannel, TimeInv, Hdmas
  <2>2. PICK k \in 0..24 : Later(m, m', k)
    BY <1>2, <1>a, ChannelsLater
  <2>3. Unmoved(m, m') /\ SetupZone(m') /\ Since(m') = Since(m) + k /\ Triggered(m')
    BY <1>0, <1>a, <2>1, <2>2 DEF Later
  <2>4. Calm(m')
    BY <2>1, <2>3 DEF Calm, Unmoved
  <2>5. /\ pc' = "setup" => Since(m') <= 48 + 24 * (hchan' - 1)
        /\ pc' = "hdmaEnd" => Since(m') <= 48 + 24 * Channels
    BY <1>0, <1>a, <2>1, <2>3
  <2> QED BY <2>1, <2>3, <2>4, <2>5 DEF TimeInv, Waits, Hdmas
<1>3. CASE TransferChannel
  <2>1. /\ pc = "transfer" /\ Calm(m) /\ RunZone(m) /\ Since(m) <= 48 + 32 * (hchan - 1)
        /\ \/ pc' = "transfer" /\ hchan' = hchan + 1
           \/ pc' = "advance" /\ hchan = Channels /\ hchan' = 1
    BY <1>0, <1>3 DEF TransferChannel, NextChannel, TimeInv, Hdmas
  <2>2. PICK k \in 0..32 : Later(m, m', k)
    BY <1>3, <1>a, ChannelsLater
  <2>3. Unmoved(m, m') /\ RunZone(m') /\ Since(m') = Since(m) + k /\ Triggered(m')
    BY <1>0, <1>a, <2>1, <2>2 DEF Later
  <2>4. Calm(m')
    BY <2>1, <2>3 DEF Calm, Unmoved
  <2>5. /\ pc' = "transfer" => Since(m') <= 48 + 32 * (hchan' - 1)
        /\ pc' = "advance" => Since(m') <= 48 + 32 * Channels + 24 * (hchan' - 1)
    BY <1>0, <1>a, <2>1, <2>3
  <2> QED BY <2>1, <2>3, <2>4, <2>5 DEF TimeInv, Waits, Hdmas
<1>4. CASE AdvanceChannel
  <2>1. /\ pc = "advance" /\ Calm(m) /\ RunZone(m)
        /\ Since(m) <= 48 + 32 * Channels + 24 * (hchan - 1)
        /\ \/ pc' = "advance" /\ hchan' = hchan + 1
           \/ pc' = "hdmaEnd" /\ hchan = Channels
    BY <1>0, <1>4 DEF AdvanceChannel, NextChannel, TimeInv, Hdmas
  <2>2. PICK k \in 0..24 : Later(m, m', k)
    BY <1>4, <1>a, ChannelsLater
  <2>3. Unmoved(m, m') /\ RunZone(m') /\ Since(m') = Since(m) + k /\ Triggered(m')
    BY <1>0, <1>a, <2>1, <2>2 DEF Later
  <2>4. Calm(m')
    BY <2>1, <2>3 DEF Calm, Unmoved
  <2>5. /\ pc' = "advance" => Since(m') <= 48 + 32 * Channels + 24 * (hchan' - 1)
        /\ pc' = "hdmaEnd" => Since(m') <= 48 + 56 * Channels
    BY <1>0, <1>a, <2>1, <2>3
  <2> QED BY <2>1, <2>3, <2>4, <2>5 DEF TimeInv, Waits, Hdmas
<1>5. CASE HdmaEnd
  <2>1. /\ pc = "hdmaEnd" /\ pc' = "edgeDma" /\ Calm(m)
        /\ \/ SetupZone(m) /\ Since(m) <= 48 + 24 * Channels
           \/ RunZone(m) /\ Since(m) <= 48 + 56 * Channels
    BY <1>5 DEF HdmaEnd, GoTo, TimeInv, Hdmas
  <2>2. Calm(m') /\ Triggered(m')
    <3>1. CASE m' = m
      BY <1>a, <2>1, <3>1
    <3>2. CASE m' = AlignCpu(m)
      <4>1. PICK n \in 1..clockCount : AlignCpu(m) \in Steps(m, n)
        BY AlignsCpu
      <4>2. Later(m, m', n) /\ n <= 12
        BY <1>0, <1>a, <3>2, <4>1, StepLater
      <4>3. Unmoved(m, m') /\ Triggered(m')
        BY <1>0, <1>a, <2>1, <4>1, <4>2 DEF Later
      <4> QED BY <2>1, <4>3 DEF Calm, Unmoved
    <3> QED BY <1>5, <3>1, <3>2 DEF HdmaEnd
  <2> QED BY <2>1, <2>2 DEF TimeInv, Waits, Hdmas
<1> QED BY <1>1, <1>2, <1>3, <1>4, <1>5

LEMMA CycleInTime ==
  ASSUME HdmaFits, DmaInv, TimeInv, DmaInv', Cycle \/ FinishCycle
  PROVE  TimeInv'
<1>0. /\ m \in Moments /\ clockCount \in 1..12 /\ LineClocks \in Nat /\ HdmaPosition \in Nat
      /\ HdmaPosition + 16 <= LineClocks /\ Triggered(m)
  BY Clocks DEF TimeInv
<1>1. CASE Cycle
  <2>1. /\ pc = "cpu" /\ pc' = "edge" /\ m' = m /\ dmaActive' = dmaActive
        /\ Outer' /\ ~Inner'
    <3>1. returns = <<>>
      BY <1>1 DEF Cycle, DmaInv, Calls
    <3> QED BY <1>1, <3>1, CallAndReturn DEF Cycle, Call, Outer, Inner
  <2> QED BY <1>0, <2>1 DEF TimeInv, Waits, Hdmas, InHdma
<1>2. CASE FinishCycle
  <2> DEFINE t == StepClocks(m, clockCount)
  <2>1. pc = "cycle" /\ pc' = "cpu" /\ dmaActive' = dmaActive
        /\ ((m' = t /\ UNCHANGED dmaPending) \/ DmaEn(t) \/ HdmaEn(t) \/ WriteCount(t))
    BY <1>2 DEF FinishCycle, GoTo
  <2>2. Early(m, 20) /\ (m.hdmaPending => dmaActive)
    BY <2>1 DEF TimeInv, Waits
  <2>3. t \in Steps(m, clockCount)
    BY DEF Steps
  <2> HIDE DEF t
  <2>4. /\ t \in Moments /\ Triggered(t)
        /\ \A k \in Nat : Early(m, k) /\ k + clockCount <= 40 => Early(t, k + clockCount)
    BY <1>0, <2>3, StepsTime, StepsControl
  <2>5. IF dmaActive THEN Early(t, 32) ELSE Early(t, 20)
    <3>1. CASE dmaActive
      <4>1. Early(t, 20 + clockCount)
        BY <1>0, <2>2, <2>4
      <4> QED BY <1>0, <2>4, <3>1, <4>1, EarlyFor
    <3>2. CASE ~dmaActive
      <4>1. Early(m, 0)
        BY <2>2, <3>2 DEF Early, Called
      <4>2. Early(t, 0 + clockCount)
        BY <1>0, <2>4, <4>1
      <4> QED BY <1>0, <2>4, <3>2, <4>2, EarlyFor
    <3> QED BY <3>1, <3>2
  <2>6. m' \in Moments /\ SamePlace(t, m') /\ Unmoved(t, m')
    BY <2>1, <2>4, Asked
  <2>7. Triggered(m') /\ IF dmaActive THEN Early(m', 32) ELSE Early(m', 20)
    BY <2>4, <2>5, <2>6, SamePlaces, SameMarks
  <2> QED BY <2>1, <2>7 DEF TimeInv, Waits, Hdmas, InHdma
<1> QED BY <1>1, <1>2

LEMMA EdgeInTime ==
  ASSUME HdmaFits, DmaInv, TimeInv, DmaInv', EdgeInactive \/ EdgeHdma \/ EdgeDma \/ EdgeEnd
  PROVE  TimeInv'
<1>0. /\ m \in Moments /\ LineClocks \in Nat /\ HdmaPosition \in Nat /\ Channels \in Nat \ {0}
      /\ HdmaPosition + 16 <= LineClocks /\ 80 + 24 * Channels < HdmaPosition
      /\ 60 + 56 * Channels < LineClocks
  BY Clocks
<1>a. Triggered(m) /\ Since(m) \in Int /\ m.phase \in 0..7
  BY DmaAssumption DEF TimeInv, DmaInv, DmaTypeOK, Since, Moments
<1>b. Align(m) \in Steps(m, 8 - m.phase) /\ 8 - m.phase \in 1..8
  BY <1>a DEF Steps
<1>1. CASE EdgeInactive
  <2>1. /\ pc = "edge" /\ pc' = "edgeEnd" /\ ~dmaActive /\ m' = m /\ returns' = returns
    BY <1>1 DEF EdgeInactive, GoTo
  <2>2. (Outer' <=> Outer) /\ (Inner' <=> Inner)
    BY <2>1 DEF Outer, Inner
  <2>3. /\ Outer => Early(m, 20) /\ ~Inner
        /\ ~Outer => Early(m, 8) /\ Inner /\ Head(returns) = "unitDone" /\ Moving
    BY <2>1, WhereItIs DEF TimeInv, Waits, InEdge, DmaInv
  <2>4. ~Outer => ~DmaEnable(m.ch)
    BY <2>1, <2>3 DEF DmaInv, Transfers
  <2> QED BY <1>a, <2>1, <2>2, <2>3, <2>4 DEF TimeInv, Waits, Hdmas, InHdma, Early
<1>2. CASE EdgeHdma
  <2>1. pc = "edge" /\ dmaActive /\ Early(m, 32)
    BY <1>2 DEF EdgeHdma, TimeInv, Waits
  <2>2. CASE m.hdmaPending /\ HdmaEnable(m.ch)
    <3>1. pc' = "hdma" /\ Marked(m) /\ Since(m) <= 32
      BY <1>2, <2>1, <2>2 DEF EdgeHdma, GoTo, Early, Called, Calm
    <3>2. PICK t \in Moments : t = [m EXCEPT !.hdmaPending = FALSE] /\ SamePlace(m, t)
      BY <1>0, Unmarked
    <3>3. /\ Triggered(t) /\ Since(t) = Since(m) /\ t.phase \in 0..7
          /\ (RunZone(t) <=> RunZone(m)) /\ (SetupZone(t) <=> SetupZone(m))
      BY <1>0, <1>a, <3>2, SamePlaces DEF SamePlace
    <3>4. ~t.hdmaPending /\ Marked(t)
      BY <1>0, <3>1, <3>2, <3>3 DEF Marked, Moments
    <3>5. CASE m' = t
      <4> QED BY <1>a, <3>1, <3>3, <3>4, <3>5 DEF TimeInv, Waits, Hdmas
    <3>6. CASE m' = Align(t)
      <4> DEFINE n == 8 - t.phase
      <4>1. n \in 1..8 /\ Align(t) \in Steps(t, n)
        BY <3>3 DEF Steps
      <4> HIDE DEF n
      <4>2. Later(t, m', n)
        BY <1>0, <3>3, <3>6, <4>1, StepLater
      <4>3. Unmoved(t, m') /\ Marked(m') /\ Since(m') <= 40
        <5>1. CASE t.hdmaMode = "run"
          <6>1. Unmoved(t, m') /\ RunZone(m') /\ Since(m') = Since(t) + n
            BY <1>0, <1>a, <3>1, <3>3, <3>4, <4>1, <4>2, <5>1 DEF Later, Marked
          <6> QED BY <1>a, <3>1, <3>3, <3>4, <4>1, <5>1, <6>1 DEF Marked, Unmoved
        <5>2. CASE t.hdmaMode # "run"
          <6>1. Unmoved(t, m') /\ SetupZone(m') /\ Since(m') = Since(t) + n
            BY <1>0, <1>a, <3>1, <3>3, <3>4, <4>1, <4>2, <5>2 DEF Later, Marked
          <6> QED BY <1>a, <3>1, <3>3, <3>4, <4>1, <5>2, <6>1 DEF Marked, Unmoved
        <5> QED BY <5>1, <5>2
      <4>4. ~m'.hdmaPending /\ Triggered(m')
        BY <3>4, <4>2, <4>3 DEF Unmoved, Later
      <4> QED BY <3>1, <4>3, <4>4 DEF TimeInv, Waits, Hdmas
    <3> QED BY <1>2, <2>2, <3>2, <3>5, <3>6 DEF EdgeHdma
  <2>3. CASE ~(m.hdmaPending /\ HdmaEnable(m.ch))
    <3>1. pc' = "edgeDma"
      BY <1>2, <2>3 DEF EdgeHdma, GoTo
    <3>2. m' = IF m.hdmaPending THEN [m EXCEPT !.hdmaPending = FALSE, !.runsDue = 0, !.setupDue = {}]
               ELSE [m EXCEPT !.hdmaPending = FALSE]
      BY <1>0, <1>2, <2>3 DEF EdgeHdma, Moments
    <3>3. m' \in Moments /\ SamePlace(m, m')
      BY <1>0, <3>2, Unmarked
    <3>4. Triggered(m')
      BY <1>0, <1>a, <3>3, SamePlaces
    <3>5. Calm(m')
      <4>1. CASE m.hdmaPending
        BY <1>0, <3>2, <4>1 DEF Calm, Moments
      <4>2. CASE ~m.hdmaPending
        <5>1. m.runsDue = 0 /\ m.setupDue = {}
          BY <2>1, <4>2 DEF Early, Called, Calm
        <5> QED BY <1>0, <3>2, <4>2, <5>1 DEF Calm, Moments
      <4> QED BY <4>1, <4>2
    <3> QED BY <3>1, <3>4, <3>5 DEF TimeInv, Waits, Hdmas
  <2> QED BY <2>2, <2>3
<1>3. CASE EdgeDma
  <2>1. pc = "edgeDma" /\ Calm(m) /\ dmaActive' = dmaActive
    BY <1>3 DEF EdgeDma, TimeInv, Waits
  <2>2. CASE dmaPending /\ DmaEnable(m.ch)
    <3>1. pc' = "dmaRun" /\ m' = Align(m) /\ dmaActive
      BY <1>3, <2>1, <2>2 DEF EdgeDma, GoTo, DmaInv, Transfers
    <3>2. Triggered(m') /\ Early(m', 0 + (8 - m.phase))
      <4>1. Early(m, 0)
        BY <2>1 DEF Early
      <4> QED BY <1>0, <1>a, <1>b, <3>1, <4>1, StepsTime
    <3>3. Early(m', 8)
      <4>1. m' \in Moments
        BY DEF DmaInv, DmaTypeOK
      <4> QED BY <1>b, <3>2, <4>1, EarlyFor
    <3> QED BY <2>1, <3>1, <3>2, <3>3 DEF TimeInv, Waits, Hdmas
  <2>3. CASE ~(dmaPending /\ DmaEnable(m.ch))
    <3>1. pc' = "edgeEnd" /\ m' = m
      BY <1>3, <2>3 DEF EdgeDma, GoTo
    <3> QED BY <1>a, <2>1, <3>1 DEF TimeInv, Waits, Hdmas, Early
  <2> QED BY <2>2, <2>3
<1>4. CASE EdgeEnd
  <2>1. /\ pc = "edgeEnd" /\ dmaActive' = (dmaActive \/ dmaPending \/ m.hdmaPending)
        /\ pc' = IF Head(returns) = "channels" THEN "channel" ELSE Head(returns)
        /\ m' = m
    BY <1>4 DEF EdgeEnd, Wanted
  <2>2. CASE Outer
    <3>1. pc' = "cycle" /\ Early(m, 20)
      BY <2>1, <2>2, CallAndReturn DEF Outer, TimeInv, Waits
    <3> QED BY <1>a, <2>1, <3>1 DEF TimeInv, Waits, Hdmas
  <2>3. CASE ~Outer
    <3>1. PICK p \in Points : returns = <<p, "cycle">> /\ Inner
      BY <2>1, <2>3, WhereItIs DEF InEdge, DmaInv
    <3>2. Head(returns) = p /\ pc' = IF p = "channels" THEN "channel" ELSE p
      BY <2>1, <3>1, CallAndReturn
    <3>3. /\ p # "unitDone" => Calm(m)
          /\ Calm(m) \/ (~DmaEnable(m.ch) /\ Called(m, 8))
      BY <2>1, <3>1, <3>2 DEF TimeInv, Waits
    <3> QED BY <1>a, <2>1, <3>2, <3>3 DEF TimeInv, Waits, Hdmas, Points
  <2> QED BY <2>2, <2>3
<1> QED BY <1>1, <1>2, <1>3, <1>4

LEMMA DmaInTime ==
  ASSUME HdmaFits, DmaInv, TimeInv, DmaInv',
         DmaRun \/ BeginChannel \/ Unit \/ SkipChannel \/ NextUnit \/ EndChannel \/ DmaEnd
  PROVE  TimeInv'
<1>0. /\ m \in Moments /\ m' \in Moments /\ LineClocks \in Nat /\ HdmaPosition \in Nat
      /\ clockCount \in 1..12 /\ chan \in Channel
      /\ HdmaPosition + 16 <= LineClocks /\ Triggered(m) /\ pc \in InDma /\ Moving
  BY Clocks, WhereItIs DEF TimeInv, DmaInv, DmaTypeOK, InDma, DmaRun, BeginChannel, Unit,
    SkipChannel, NextUnit, EndChannel, DmaEnd
<1>1. CASE DmaRun \/ BeginChannel \/ Unit
  <2>1. PICK p \in Points : /\ m' = DmaStep(m, 8) /\ pc' = "edge" /\ returns' = <<p>> \o returns
                            /\ dmaActive' = dmaActive
                            /\ \/ p = "channels" /\ pc = "dmaRun"
                               \/ p = "unit" /\ pc = "channel" /\ m.ch[chan].dma
                               \/ p = "unitDone" /\ pc = "unit"
    BY <1>1 DEF DmaRun, BeginChannel, Unit, Call, statusVars, Points
  <2>2. Head(returns') = p /\ ~Outer'
    <3>1. returns' = <<p, "cycle">>
      BY <1>0, <2>1, WhereItIs, CallAndReturn DEF Outer, DmaInv
    <3> QED BY <3>1, CallAndReturn DEF Outer
  <2>3. DmaStep(m, 8) \in Steps(m, 8)
    BY DEF Steps
  <2>4. /\ Triggered(m')
        /\ \A k \in Nat : Early(m, k) /\ k + 8 <= 40 => Early(m', k + 8)
    BY <1>0, <2>1, <2>3, StepsTime
  <2>5. CASE p = "channels"
    <3>1. Early(m, 8) /\ dmaActive
      BY <2>1, <2>5 DEF TimeInv, Waits
    <3>2. Early(m', 8 + 8)
      BY <2>4, <3>1
    <3>3. Early(m', 32)
      BY <1>0, <3>2, EarlyFor
    <3> QED BY <2>1, <2>4, <3>1, <3>3 DEF TimeInv, Waits, Hdmas, InHdma
  <2>6. CASE p # "channels"
    <3>1. Calm(m) /\ (p = "unit" => dmaActive)
      BY <1>0, <2>1, <2>6 DEF TimeInv, Waits, DmaInv, Transfers, DmaEnable
    <3>2. Early(m', 0 + 8)
      BY <2>4, <3>1 DEF Early
    <3>3. Early(m', 8) /\ Early(m', 32)
      BY <1>0, <3>2, EarlyFor
    <3> QED BY <2>1, <2>2, <2>4, <2>6, <3>1, <3>3 DEF TimeInv, Waits, Hdmas, InHdma, Points
  <2> QED BY <2>5, <2>6
<1>2. CASE SkipChannel \/ NextUnit \/ EndChannel
  <2>1. Kept(m, m')
    <3>1. CASE SkipChannel
      BY <1>0, <3>1 DEF SkipChannel, Kept, SamePlace, Unmoved
    <3>2. CASE NextUnit \/ EndChannel
      BY <3>2, ChannelsAre
    <3> QED BY <1>2, <3>1, <3>2
  <2>2. SamePlace(m, m') /\ Unmoved(m, m') /\ (DmaEnable(m'.ch) => DmaEnable(m.ch))
    BY <2>1 DEF Kept, DmaEnable
  <2>3. /\ Triggered(m') /\ (Calm(m') <=> Calm(m))
        /\ Called(m', 8) <=> Called(m, 8)
    BY <1>0, <2>2, SamePlaces, SameMarks
  <2>4. /\ pc \in {"channel", "unitDone"} /\ pc' \in {"unit", "channel", "dmaEnd"}
        /\ pc' = "unit" => m.ch[chan].dma
    BY <1>2 DEF SkipChannel, NextUnit, EndChannel, AfterChannel, GoTo
  <2>5. /\ Calm(m) \/ (~DmaEnable(m.ch) /\ Called(m, 8))
        /\ pc' = "unit" => Calm(m)
    BY <1>0, <2>4 DEF TimeInv, Waits, DmaEnable
  <2> QED BY <2>2, <2>3, <2>4, <2>5 DEF TimeInv, Waits, Hdmas, InHdma
<1>3. CASE DmaEnd
  <2>1. /\ pc = "dmaEnd" /\ pc' = "edgeEnd" /\ m' = AlignCpu(m) /\ returns' = returns
    BY <1>3 DEF DmaEnd, GoTo
  <2>2. Outer' /\ ~Inner'
    <3>1. Outer
      BY <1>0, WhereItIs DEF DmaInv
    <3> QED BY <2>1, <3>1, CallAndReturn DEF Outer, Inner
  <2>3. PICK n \in 1..clockCount : AlignCpu(m) \in Steps(m, n)
    BY AlignsCpu
  <2>4. Early(m, 8)
    BY <2>1 DEF TimeInv, Waits, Early
  <2>5. Triggered(m') /\ Early(m', 8 + n)
    BY <1>0, <2>1, <2>3, <2>4, StepsTime
  <2>6. Early(m', 20)
    BY <1>0, <2>3, <2>5, EarlyFor
  <2> QED BY <2>1, <2>2, <2>5, <2>6 DEF TimeInv, Waits, Hdmas, InHdma
<1> QED BY <1>1, <1>2, <1>3

LEMMA TimeStart == SfcDmaInit => TimeInv
<1> SUFFICES ASSUME SfcDmaInit PROVE TimeInv
  OBVIOUS
<1>1. /\ m.h = 0 /\ m.v = 0 /\ m.setupPosition = 12 /\ ~m.setupTriggered /\ ~m.hdmaTriggered
      /\ ~m.hdmaPending /\ m.setupDue = {} /\ m.runsDue = 0 /\ pc = "cpu"
  BY DEF SfcDmaInit, SetupPosition
<1>2. Triggered(m)
  BY <1>1, DmaAssumption DEF Triggered
<1> QED BY <1>1, <1>2 DEF TimeInv, Waits, Hdmas, InHdma, Early, Calm

\* With the clocks of the Super Famicom, HDMA is called at its place in the line, or at
\* that of its setup in the field, begins 40 clocks later at most, and ends in time.
THEOREM HdmaCorrect == HdmaFits => (SfcDmaSpec => [](DmaInv /\ TimeInv))
<1> SUFFICES ASSUME HdmaFits PROVE SfcDmaSpec => [](DmaInv /\ TimeInv)
  OBVIOUS
<1>1. TimeInv /\ DmaInv /\ DmaInv' /\ [SfcDmaNext]_sfcDmaVars => TimeInv'
  <2> SUFFICES ASSUME TimeInv, DmaInv, DmaInv', [SfcDmaNext]_sfcDmaVars PROVE TimeInv'
    OBVIOUS
  <2>1. CASE UNCHANGED sfcDmaVars
    BY <2>1 DEF sfcDmaVars, statusVars, TimeInv, Waits, Hdmas, Outer, Inner
  <2>2. CASE Cycle \/ FinishCycle
    BY <2>2, CycleInTime
  <2>3. CASE EdgeInactive \/ EdgeHdma \/ EdgeDma \/ EdgeEnd
    BY <2>3, EdgeInTime
  <2>4. CASE Hdma \/ SetupChannel \/ TransferChannel \/ AdvanceChannel \/ HdmaEnd
    BY <2>4, HdmaInTime
  <2>5. CASE DmaRun \/ BeginChannel \/ Unit \/ SkipChannel \/ NextUnit \/ EndChannel \/ DmaEnd
    BY <2>5, DmaInTime
  <2> QED BY <2>1, <2>2, <2>3, <2>4, <2>5 DEF SfcDmaNext, Edge
<1> QED BY TimeStart, DmaCorrect, <1>1, PTL DEF SfcDmaSpec

\* timing.cpp: HDMA triggers once every visible scanline.  No transfer is due before
\* the one of the line before has begun, also when a DMA holds the bus.
THEOREM AlwaysEveryLine == HdmaFits => (SfcDmaSpec => []EveryLine)
<1> SUFFICES ASSUME HdmaFits PROVE SfcDmaSpec => []EveryLine
  OBVIOUS
<1>1. DmaInv /\ TimeInv => EveryLine
  <2> SUFFICES ASSUME DmaInv, TimeInv PROVE EveryLine
    OBVIOUS
  <2>1. Calm(m) \/ Marked(m)
    <3>1. pc \in {"cpu", "cycle"} \cup InEdge \cup InDma
      BY DEF DmaInv, DmaTypeOK
    <3>2. pc \in InEdge => Outer \/ Inner
      BY DEF DmaInv, Calls
    <3>3. CASE pc \in {"cpu", "cycle", "edge", "dmaRun"}
      BY <3>2, <3>3 DEF TimeInv, Waits, Early, Called, InEdge
    <3>4. CASE pc \in {"edgeDma", "unit", "edgeEnd", "channel", "unitDone", "dmaEnd"}
      BY <3>2, <3>4 DEF TimeInv, Waits, Early, Called, InEdge
    <3>5. CASE pc \in InHdma
      BY <3>5 DEF TimeInv, Hdmas, InHdma
    <3> QED BY <3>1, <3>3, <3>4, <3>5 DEF InEdge, InDma
  <2>2. m.runsDue \in 0..2
    BY DEF DmaInv, DmaTypeOK, Moments
  <2> QED BY <2>1, <2>2 DEF EveryLine, Calm, Marked
<1> QED BY <1>1, HdmaCorrect, PTL

\* When the HDMA of a line begins, the setup of the field is not left to do: hdmaMode is
\* one variable for both, and the setup ends before the first transfer of a field is due.
THEOREM AlwaysSetUpFirst == HdmaFits => (SfcDmaSpec => []SetUpFirst)
<1> SUFFICES ASSUME HdmaFits PROVE SfcDmaSpec => []SetUpFirst
  OBVIOUS
<1>1. TimeInv => SetUpFirst
  BY DEF TimeInv, Hdmas, Marked, SetUpFirst
<1> QED BY <1>1, HdmaCorrect, PTL
=============================================================================
