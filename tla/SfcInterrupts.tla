--------------------------- MODULE SfcInterrupts ---------------------------
(***************************************************************************)
(* Interrupts of the Super Famicom's CPU (sfc/cpu/irq.cpp), with the main  *)
(* loop that takes them and the time that raises them.  CPU::step() counts *)
(* time in ticks of two clocks and looks at the interrupt lines at every   *)
(* other tick; WDC65816 asks for interrupts before the last bus cycle of   *)
(* an instruction, in lastCycle(); main() takes one between two            *)
(* instructions.  The game reads and writes the registers in between.      *)
(*                                                                         *)
(* lockstep.enabled is the switch "cpu/lockstep" of the page: without it   *)
(* step() only adds up clocks, and main() runs them later.                 *)
(*                                                                         *)
(* The lines have one length here, DMA is in SfcDma, and the pauses for    *)
(* refreshing the memory (with "cpu/fastmath" off) and overclocking are    *)
(* left out.                                                               *)
(***************************************************************************)
EXTENDS Integers

CONSTANTS
  LineTicks,    \* ticks of a line: 682
  FieldLines,   \* lines of a field: 262, on PAL 312
  VDisp,        \* PPU::vdisp(), where the vertical blank begins: 225 or 240
  CycleTicks,   \* ticks of a bus cycle: 3, 4 and 6
  ResetTicks,   \* 66
  HTimes, VTimes, \* values of io.htime, in ticks, and of io.vtime
  Lockstep,     \* settings of lockstep.enabled that the page makes
  Group,        \* lockstep.cycle is set to one less: 4
  Coprocessor,  \* whether a cartridge chip drives CPU::irq()
  MaxOwed       \* bound: lockstep.clocks, in ticks, is not counted further

VARIABLES
  place,        \* where CPU::main() is: main, dispatch, instruction, interrupt or wait
  stage,        \* of the bus cycles: first, fetched, cycles, last or done
  access,       \* what the bus cycle ends with: none, read or write
  ticks,        \* ticks that step() still has to run
  v, h,         \* PPUcounter
  nmi, irq,     \* status.nmi... and status.irq...: valid, line, transition, hold
  irqLock,
  enable,       \* io.nmiEnable, io.hirqEnable, io.virqEnable
  htime, vtime,
  nmiPending, irqPending, resetPending, interruptPending,
  wai, masked, external, \* r.wai, r.p.i, r.irq
  lockstep, owed, cycle, \* lockstep.enabled, clocks and cycle
  steady,       \* lockstep has been enabled ever since power()
  caused        \* vertical blanks and enabling writes that still owe an NMI

placeVars == <<place, stage, access>>
timeVars == <<ticks, v, h>>
registerVars == <<enable, htime, vtime>>
pendingVars == <<nmiPending, irqPending, resetPending, interruptPending>>
cpuVars == <<wai, masked>>
lockstepVars == <<lockstep, owed, cycle, steady>>
irqVars == <<placeVars, timeVars, nmi, irq, irqLock, registerVars, pendingVars,
          cpuVars, external, lockstepVars, caused>>

ASSUME InterruptAssumption ==
  /\ LineTicks \in Nat /\ LineTicks > 5 /\ LineTicks % 2 = 0
  /\ FieldLines \in Nat /\ VDisp \in Nat \ {0} /\ VDisp < FieldLines
  /\ CycleTicks \subseteq Nat /\ \A n \in CycleTicks : n >= 3
  /\ ResetTicks \in Nat /\ ResetTicks >= 3
  /\ HTimes \subseteq Nat /\ VTimes \subseteq Nat
  /\ Lockstep \in (SUBSET BOOLEAN) \ {{}} /\ Coprocessor \in BOOLEAN
  /\ Group \in Nat \ {0} /\ MaxOwed \in Nat

InterruptLines == [valid : BOOLEAN, line : BOOLEAN, transition : BOOLEAN, hold : BOOLEAN]
NoLines == [valid |-> FALSE, line |-> FALSE, transition |-> FALSE, hold |-> FALSE]
Enables == [nmi : BOOLEAN, h : BOOLEAN, v : BOOLEAN]

\* (0x1ff + 1 << 2) / 2 and 0x1ff: off the screen.
NoHTime == 1024
NoVTime == 511

IrqEnable(e) == e.h \/ e.v

-----------------------------------------------------------------------------
(* The interrupt lines.                                                    *)

\* PPUcounter::vcounter(n) and hcounter(n), n ticks ago.
HBefore(hh, n) == IF n <= hh THEN hh - n ELSE hh + LineTicks - n
VBefore(vv, hh, n) == IF n <= hh THEN vv ELSE IF vv > 0 THEN vv - 1 ELSE FieldLines - 1

NmiHeld_ActiveLow(n, e) == n.hold /\ ~n.line /\ e.nmi
\* status.nmiHold.lower() && io.nmiEnable
NmiHeld(n, e) == n.hold /\ e.nmi

NmiPoll(n, e, vv, hh) ==
  LET blank == VBefore(vv, hh, 1) >= VDisp
      flip  == n.valid # blank
  IN [valid      |-> blank,
      line       |-> IF flip THEN blank ELSE n.line,
      transition |-> n.transition \/ NmiHeld(n, e),
      hold       |-> flip /\ blank]

IrqMatches(e, ht, vt, vv, hh) ==
  /\ IrqEnable(e)
  /\ e.v => VBefore(vv, hh, 5) = vt
  /\ e.h => HBefore(hh, 5) = ht
  /\ VBefore(vv, hh, 3) # 0 \/ HBefore(hh, 3) # 0

IrqPoll(i, e, ht, vt, vv, hh) ==
  LET match == IrqMatches(e, ht, vt, vv, hh)
      raise == match /\ ~i.valid
  IN [valid      |-> match,
      line       |-> i.line \/ raise,
      transition |-> i.transition \/ (i.line /\ IrqEnable(e)),
      hold       |-> raise]

\* nmitimenUpdate: the lines after writing e to $4200.
IrqAfterEnable(i, e) ==
  IF e.v /\ ~e.h /\ i.line THEN [i EXCEPT !.transition = TRUE]
  ELSE IF ~IrqEnable(e) THEN [i EXCEPT !.line = FALSE, !.transition = FALSE]
  ELSE i

Acknowledged_LineOnly(i) == IF i.hold THEN i ELSE [i EXCEPT !.line = FALSE]
\* timeup: reading $4211 lowers the line, unless it was raised just now.
Acknowledged(i) ==
  IF i.hold THEN i ELSE [i EXCEPT !.line = FALSE, !.transition = FALSE]

-----------------------------------------------------------------------------
(* Time.                                                                   *)

\* PPUcounter::tick().
NextH == IF h + 1 = LineTicks THEN 0 ELSE h + 1
NextV == IF h + 1 < LineTicks THEN v ELSE IF v + 1 = FieldLines THEN 0 ELSE v + 1

\* The loop of step(): one tick, and a look at the lines at every other one.
Tick ==
  LET hh == NextH
      vv == NextV
  IN /\ ticks > 0
     /\ ticks' = ticks - 1
     /\ h' = hh /\ v' = vv
     /\ IF hh % 2 = 1
        THEN /\ nmi' = NmiPoll(nmi, enable, vv, hh)
             /\ irq' = IrqPoll(irq, enable, htime, vtime, vv, hh)
             /\ caused' = CASE nmi'.hold /\ nmi'.transition -> 2
                            [] nmi'.hold /\ ~nmi'.transition -> 1
                            [] ~nmi'.hold /\ caused = 2 -> 1
                            [] OTHER -> caused
        ELSE UNCHANGED <<nmi, irq, caused>>
     /\ UNCHANGED <<placeVars, irqLock, registerVars, pendingVars, cpuVars,
                    external, lockstepVars>>

\* CPU::step(), called for n ticks.
StepCpu(n) ==
  \/ /\ lockstep
     /\ irqLock' = FALSE
     /\ ticks' = n
     /\ UNCHANGED owed
  \/ /\ ~lockstep
     /\ owed' = IF owed + n > MaxOwed THEN MaxOwed ELSE owed + n
     /\ UNCHANGED <<irqLock, ticks>>

NoStep == UNCHANGED <<irqLock, ticks, owed>>

\* A main() that finds cycle decremented below zero, without lockstep.
Flush == ~lockstep /\ cycle = -1

-----------------------------------------------------------------------------
(* Bus cycles.                                                             *)

Idle == ticks = 0 /\ access = "none"

NextStage ==
  CASE stage = "first" -> "fetched"
    [] stage \in {"fetched", "cycles"} -> "cycles"
    [] stage = "last" -> "done"

\* idle(), or a read or write of anything else.  The instruction may set the
\* interrupt flag of the status register in any of them.
PlainCycle ==
  /\ Idle /\ place \in {"instruction", "interrupt"} /\ stage # "done"
  /\ stage' = NextStage
  /\ \E n \in CycleTicks : StepCpu(n)
  /\ \/ UNCHANGED masked
     \/ place = "instruction" /\ masked' = ~masked
  /\ UNCHANGED <<place, access, v, h, nmi, irq, registerVars, pendingVars, wai,
                 external, lockstep, steady, cycle, caused>>

\* read() of a register sees it two ticks before the cycle ends, write() at its end.
RegisterCycle ==
  /\ Idle /\ place = "instruction" /\ stage \in {"cycles", "last"}
  /\ stage' = NextStage
  /\ \/ access' = "read" /\ StepCpu(1)
     \/ access' = "write" /\ StepCpu(3)
  /\ UNCHANGED <<place, v, h, nmi, irq, registerVars, pendingVars, cpuVars,
                 external, lockstep, steady, cycle, caused>>

Read ==
  /\ ticks = 0 /\ access = "read"
  /\ access' = "none"
  /\ \/ /\ nmi' = IF nmi.hold THEN nmi ELSE [nmi EXCEPT !.line = FALSE]  \* rdnmi
        /\ UNCHANGED irq
     \/ /\ irq' = Acknowledged(irq)
        /\ UNCHANGED nmi
  /\ StepCpu(2)
  /\ UNCHANGED <<place, stage, v, h, registerVars, pendingVars, cpuVars,
                 external, lockstep, steady, cycle, caused>>

Locked_Not == irqLock
Locked == TRUE
\* $4200
WriteNmitimen ==
  \E e \in Enables :
    /\ enable' = e
    /\ irq' = IrqAfterEnable(irq, e)
    /\ LET again == e.nmi /\ ~enable.nmi /\ nmi.line
       IN /\ nmi' = [nmi EXCEPT !.transition = @ \/ again]
          /\ caused' = IF again /\ caused = 0 THEN 1 ELSE caused
    /\ irqLock' = Locked
    /\ UNCHANGED <<htime, vtime>>

\* $4207 to $420a: irqPoll() out of turn.
WriteTimes ==
  /\ \/ htime' \in HTimes /\ UNCHANGED vtime
     \/ vtime' \in VTimes /\ UNCHANGED htime
  /\ irq' = IrqPoll(irq, enable, htime', vtime', v, h)
  /\ UNCHANGED <<enable, nmi, irqLock, caused>>

Write ==
  /\ ticks = 0 /\ access = "write"
  /\ access' = "none"
  /\ WriteNmitimen \/ WriteTimes
  /\ UNCHANGED <<place, stage, timeVars, pendingVars, cpuVars, external, lockstepVars>>

\* nmiTest and irqTest.
LastCycle ==
  /\ Idle
  /\ \/ place \in {"instruction", "interrupt"} /\ stage \in {"fetched", "cycles"} /\ stage' = "last"
     \/ place = "wait" /\ stage = "first" /\ wai /\ stage' = "last"
  /\ IF irqLock
     THEN UNCHANGED <<nmi, irq, pendingVars, wai, caused>>
     ELSE LET irqSeen == irq.transition \/ external
              takeIrq == irqSeen /\ ~masked
          IN /\ nmi' = [nmi EXCEPT !.transition = FALSE]
             /\ irq' = [irq EXCEPT !.transition = FALSE]
             /\ wai' = (wai /\ ~nmi.transition /\ ~irqSeen)
             /\ nmiPending' = (nmiPending \/ nmi.transition)
             /\ irqPending' = (irqPending \/ takeIrq)
             /\ interruptPending' = (interruptPending \/ nmi.transition \/ takeIrq)
             /\ caused' = IF nmi.transition /\ caused > 0 THEN caused - 1 ELSE caused
             /\ UNCHANGED resetPending
  /\ UNCHANGED <<place, access, timeVars, irqLock, registerVars, masked, external,
                 lockstepVars>>

EndInstruction ==
  /\ Idle /\ place \in {"instruction", "interrupt"} /\ stage = "done"
  /\ place' = "main" /\ stage' = "first"
  /\ UNCHANGED <<access, timeVars, nmi, irq, irqLock, registerVars, pendingVars,
                 cpuVars, external, lockstepVars, caused>>

-----------------------------------------------------------------------------
(* instructionWait: WAI, after its opcode was read.                        *)

BeginWait ==
  /\ Idle /\ place = "instruction" /\ stage = "fetched"
  /\ place' = "wait" /\ stage' = "first"
  /\ wai' = TRUE
  /\ UNCHANGED <<access, timeVars, nmi, irq, irqLock, registerVars, pendingVars,
                 masked, external, lockstepVars, caused>>

\* idle() of the loop, or the one after it.
WaitCycle ==
  /\ Idle /\ place = "wait"
  /\ \/ stage = "last" /\ stage' = "first" /\ UNCHANGED place
     \/ stage = "first" /\ ~wai /\ place' = "main" /\ UNCHANGED stage
  /\ StepCpu(3)
  /\ UNCHANGED <<access, v, h, nmi, irq, registerVars, pendingVars, cpuVars,
                 external, lockstep, steady, cycle, caused>>

-----------------------------------------------------------------------------
(* CPU::main().                                                            *)

EnterMain ==
  /\ Idle /\ place = "main"
  /\ place' = "dispatch"
  /\ cycle' = IF lockstep THEN cycle ELSE IF Flush THEN Group - 1 ELSE cycle - 1
  /\ IF Flush
     THEN ticks' = owed /\ owed' = 0 /\ irqLock' = FALSE
     ELSE NoStep
  /\ UNCHANGED <<stage, access, v, h, nmi, irq, registerVars, pendingVars,
                 cpuVars, external, lockstep, steady, caused>>

BeginInstruction ==
  /\ Idle /\ place = "dispatch" /\ ~interruptPending
  /\ place' = "instruction"
  /\ NoStep
  /\ UNCHANGED <<stage, access, v, h, nmi, irq, registerVars, pendingVars,
                 cpuVars, external, lockstep, steady, cycle, caused>>

Interrupt ==
  /\ place' = "interrupt"
  /\ masked' = TRUE
  /\ UNCHANGED <<stage, access, v, h, nmi, irq, registerVars, interruptPending,
                 wai, external, lockstep, steady, cycle, caused>>

EnterNmi ==
  /\ Idle /\ place = "dispatch" /\ interruptPending /\ nmiPending
  /\ nmiPending' = FALSE
  /\ NoStep
  /\ Interrupt
  /\ UNCHANGED <<irqPending, resetPending>>

EnterIrq ==
  /\ Idle /\ place = "dispatch" /\ interruptPending /\ ~nmiPending /\ irqPending
  /\ irqPending' = FALSE
  /\ NoStep
  /\ Interrupt
  /\ UNCHANGED <<nmiPending, resetPending>>

EnterReset ==
  /\ Idle /\ place = "dispatch" /\ interruptPending /\ ~nmiPending /\ ~irqPending
  /\ resetPending
  /\ resetPending' = FALSE
  /\ StepCpu(ResetTicks)
  /\ Interrupt
  /\ UNCHANGED <<nmiPending, irqPending>>

AllTaken == ~nmiPending /\ ~irqPending /\ ~resetPending
\* Nothing is left: this main() does nothing else.
NonePending ==
  /\ Idle /\ place = "dispatch" /\ interruptPending /\ AllTaken
  /\ interruptPending' = FALSE
  /\ place' = "main"
  /\ UNCHANGED <<stage, access, timeVars, nmi, irq, irqLock, registerVars,
                 nmiPending, irqPending, resetPending, cpuVars, external,
                 lockstepVars, caused>>

-----------------------------------------------------------------------------
(* The other chips and the page.                                           *)

\* CPU::irq(), called by a chip of the cartridge while it is caught up.
ExternalIrq ==
  /\ Coprocessor /\ ticks = 0
  /\ external' = ~external
  /\ UNCHANGED <<placeVars, timeVars, nmi, irq, irqLock, registerVars,
                 pendingVars, cpuVars, lockstepVars, caused>>

\* configure("cpu/lockstep"), between frames.
Configure ==
  /\ Idle /\ place = "main"
  /\ lockstep' \in Lockstep \ {lockstep}
  /\ steady' = FALSE
  /\ UNCHANGED <<placeVars, timeVars, nmi, irq, irqLock, registerVars,
                 pendingVars, cpuVars, external, owed, cycle, caused>>

\* CPU::power(), which leaves the lockstep clocks as they are.
PowerOnCpu ==
  /\ v' = 0 /\ h' = 0
  /\ nmi' = NoLines /\ irq' = NoLines /\ irqLock' = FALSE
  /\ enable' = [nmi |-> FALSE, h |-> FALSE, v |-> FALSE]
  /\ htime' = NoHTime /\ vtime' = NoVTime
  /\ nmiPending' = FALSE /\ irqPending' = FALSE
  /\ resetPending' = TRUE /\ interruptPending' = TRUE
  /\ wai' = FALSE /\ masked' = TRUE /\ external' = FALSE
  /\ caused' = 0

PowerCpu ==
  /\ Idle /\ place = "main"
  /\ PowerOnCpu
  /\ steady' = lockstep
  /\ UNCHANGED <<placeVars, ticks, lockstep, owed, cycle>>

IrqInit ==
  /\ place = "main" /\ stage = "first" /\ access = "none"
  /\ ticks = 0 /\ v = 0 /\ h = 0
  /\ nmi = NoLines /\ irq = NoLines /\ irqLock = FALSE
  /\ enable = [nmi |-> FALSE, h |-> FALSE, v |-> FALSE]
  /\ htime = NoHTime /\ vtime = NoVTime
  /\ nmiPending = FALSE /\ irqPending = FALSE
  /\ resetPending = TRUE /\ interruptPending = TRUE
  /\ wai = FALSE /\ masked = TRUE /\ external = FALSE
  /\ lockstep \in Lockstep /\ owed = 0 /\ cycle = 0
  /\ steady = lockstep
  /\ caused = 0

RunCpu ==
  \/ Tick
  \/ PlainCycle \/ RegisterCycle \/ Read \/ Write
  \/ LastCycle \/ EndInstruction
  \/ BeginWait \/ WaitCycle
  \/ EnterMain \/ BeginInstruction \/ EnterNmi \/ EnterIrq \/ EnterReset \/ NonePending

IrqNext == RunCpu \/ ExternalIrq \/ Configure \/ PowerCpu

\* The CPU's thread is never blocked: everything in RunCpu is one C++ call stack.
IrqSpec == IrqInit /\ [][IrqNext]_irqVars /\ WF_irqVars(RunCpu)

-----------------------------------------------------------------------------
(* Properties.                                                             *)

TimeTypeOK ==
  /\ place \in {"main", "dispatch", "instruction", "interrupt", "wait"}
  /\ stage \in {"first", "fetched", "cycles", "last", "done"}
  /\ access \in {"none", "read", "write"}
  /\ ticks \in Nat /\ v \in 0..FieldLines-1 /\ h \in 0..LineTicks-1
  /\ lockstep \in Lockstep /\ owed \in 0..MaxOwed /\ cycle \in -1..Group-1
  /\ steady \in BOOLEAN

LineTypeOK ==
  /\ nmi \in InterruptLines /\ irq \in InterruptLines /\ irqLock \in BOOLEAN
  /\ enable \in Enables
  /\ htime \in HTimes \cup {NoHTime} /\ vtime \in VTimes \cup {NoVTime}
  /\ nmiPending \in BOOLEAN /\ irqPending \in BOOLEAN
  /\ resetPending \in BOOLEAN /\ interruptPending \in BOOLEAN
  /\ wai \in BOOLEAN /\ masked \in BOOLEAN /\ external \in BOOLEAN
  /\ caused \in 0..2

IrqTypeOK == TimeTypeOK /\ LineTypeOK

\* No interrupt that lastCycle() noticed is forgotten: interruptPending is the
\* only flag that main() tests before the next instruction, and it is cleared in
\* a main() of its own, after up to three interrupts have been taken.
PendingIsDispatched == nmiPending \/ irqPending \/ resetPending => interruptPending

\* An IRQ is never taken for a line that the game has lowered, by reading $4211
\* or by writing $4200, whatever irqPoll() did in between: the transition does
\* not outlive the line.
IrqHasLine == irq.transition => irq.line

\* While lockstep is enabled, one vertical blank, or one write that enables the
\* NMI in it, gives one NMI.  The line is held for four clocks and the NMI is
\* raised at their end; a write within them raises it too, and only irqLock keeps
\* the next lastCycle() from noticing it before the two have become one.
NmiHasCause == steady /\ nmi.transition => caused > 0

\* A game that waits (WAI) with the NMI enabled goes on, while lockstep is enabled:
\* time passes within the loop, the next vertical blank comes, and lastCycle()
\* clears r.wai.
WaitEnds == place = "wait" /\ enable.nmi /\ lockstep ~> place = "main"
=============================================================================
