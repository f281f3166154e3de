----------------------------- MODULE MegaDrive ------------------------------
(***************************************************************************)
(* How the chips of the Mega Drive wait for each other in the web build:   *)
(* the 68000 (cpu) runs everybody at every bus access, the Z80 (apu) runs  *)
(* the sound chip and holds up the 68000 when it uses its bus, and the two *)
(* share the Z80's bus through a request and a reset line.  The picture    *)
(* chip (vdp) ends the frame; its DMA is in VdpDma.                        *)
(*                                                                         *)
(* The PSG, which is run like the YM2612 and never reset, is left out, and *)
(* so are interrupts.                                                      *)
(***************************************************************************)
EXTENDS Integers

CONSTANTS
  Width,             \* clocks are unsigned: 2^32
  MaxWork,           \* bound: clocks of one bus access or Z80 instruction
  YmWork, Segment,   \* clocks of YM2612::main and of a part of a line
  BusDelay, Steal,   \* 9 and 11 clocks of bus arbitration
  Height, Lines,     \* line at which a picture is finished, lines of a frame
  MaxSaves,          \* bound: saves between two frames
  MaxAccesses,       \* bus accesses of an instruction; of a MOVEM, 36
  MaxResets          \* bound: resets of the Z80

VARIABLES
  host, saves, \* what the System is doing: idle, run or save; saves since a frame
  at, next,    \* where CPU::main is; the thread of the list it is looking at
  accesses,    \* made by the instruction so far
  clock,
  line, part,  \* VDP: vcounter and the static counter
  hasRendered,
  resetLine, busreqLine, busreqLatch,
  resets       \* resets of the Z80 so far

vdpVars == <<line, part, hasRendered>>
arbstate == <<resetLine, busreqLine, busreqLatch, resets>>
vars == <<host, saves, at, next, accesses, clock, vdpVars, arbstate>>

ASSUME MegaDriveAssumption ==
  /\ Width \in Nat \ {0} /\ MaxWork \in Nat \ {0} /\ YmWork \in Nat \ {0}
  /\ Segment \in Nat \ {0} /\ BusDelay \in Nat /\ Steal \in Nat
  /\ Height \in Nat \ {0} /\ Lines \in Nat /\ Height <= Lines
  /\ MaxSaves \in Nat /\ MaxAccesses \in Nat \ {0} /\ MaxResets \in Nat

\* In the order System::power creates them; a thread's ID is its place from 0.
Order == <<"cpu", "ym2612", "apu", "vdp">>
Chips == {"cpu", "ym2612", "apu", "vdp"}
ID == [t \in Chips |-> CHOOSE i \in 0..3 : Order[i + 1] = t]

Add(c, n) == (c + n) % Width

-----------------------------------------------------------------------------
(* The chips' main(), run by synchronize(), or by a save, in which they do *)
(* not run others.                                                         *)

\* Thread::synchronize(ym2612) by a caller at the given time: YM2612::main runs until
\* its unsigned clock is not behind.
YmAfter(runs) == Add(clock["ym2612"], YmWork * runs)
CatchUp(time) ==
  {runs \in 0..Width : YmAfter(runs) >= time /\ \A k \in 0..(runs - 1) : YmAfter(k) < time}

Ym2612Main ==
  /\ clock' = [clock EXCEPT !["ym2612"] = Add(@, YmWork)]
  /\ UNCHANGED <<vdpVars, arbstate>>

VdpMain ==
  /\ clock' = [clock EXCEPT !["vdp"] = IF part \in {1, 2, 3} THEN Add(@, Segment) ELSE @]
  /\ part' = (part + 1) % 5
  /\ line' = IF part = 4 THEN (line + 1) % Lines ELSE line
  /\ hasRendered' = (hasRendered \/ (part = 4 /\ line + 1 = Height))
  /\ UNCHANGED arbstate

\* APU::updateBus
Delay == IF resetLine /\ busreqLine /\ ~busreqLatch THEN BusDelay ELSE 0
UpdateBus_WaitsAgain ==
  busreqLatch' = IF resetLine /\ Delay = 0 THEN busreqLine ELSE busreqLatch
UpdateBus == busreqLatch' = IF resetLine THEN busreqLine ELSE busreqLatch

\* The clocks of an instruction, and those it takes from the CPU.
Instruction == { <<n, 0>> : n \in 1..MaxWork } \cup { <<n + 1, Steal>> : n \in 1..MaxWork }

\* APU::step
ApuStep_Alone(work) ==
  clock' = [clock EXCEPT !["apu"] = Add(@, work[1]), !["cpu"] = Add(@, work[2])]
ApuStep(work) ==
  LET time == Add(clock["apu"], work[1]) IN
  \E runs \in IF at = "save" THEN {0} ELSE CatchUp(time) :
    clock' = [clock EXCEPT !["apu"] = time, !["cpu"] = Add(@, work[2]),
                           !["ym2612"] = YmAfter(runs)]

\* Without the bus, or while it is reset, the Z80 only lets time pass.
ApuMain ==
  /\ UpdateBus
  /\ \E work \in IF resetLine /\ ~busreqLatch' THEN Instruction ELSE { <<1, 0>> } :
       ApuStep(<<Delay + work[1], work[2]>>)
  /\ UNCHANGED <<vdpVars, resetLine, busreqLine, resets>>

Main(t) ==
  \/ t = "ym2612" /\ Ym2612Main
  \/ t = "apu" /\ ApuMain
  \/ t = "vdp" /\ VdpMain

-----------------------------------------------------------------------------
(* The CPU.                                                                *)

\* Scheduler::exit: minimum() and the subtraction are of unsigned numbers.
Minimum ==
  LET times == { (clock[t] + Width - ID[t]) % Width : t \in Chips }
  IN CHOOSE m \in times : \A n \in times : m <= n
Exit == clock' = [t \in Chips |-> (clock[t] + Width - Minimum) % Width]

\* A finished picture ends the frame; in a save it ends this main() only.
CpuMainFrame ==
  /\ at = "main" /\ host # "idle" /\ hasRendered
  /\ hasRendered' = FALSE
  /\ IF host = "run" THEN Exit /\ host' = "idle" /\ saves' = 0 /\ UNCHANGED <<at, next>>
     ELSE at' = "save" /\ next' = 2 /\ UNCHANGED <<host, saves, clock>>
  /\ UNCHANGED <<accesses, line, part, arbstate>>

CpuMain ==
  /\ at = "main" /\ host # "idle" /\ ~hasRendered
  /\ at' = "wait" /\ accesses' = 0
  /\ UNCHANGED <<host, saves, next, clock, vdpVars, arbstate>>

\* CPU::wait before a bus access: step, and synchronize() with the whole list.
\* vdp.dma.active is never set here: a DMA that began has ended.
Wait ==
  /\ at = "wait"
  /\ \E n \in 1..MaxWork : clock' = [clock EXCEPT !["cpu"] = Add(@, n)]
  /\ at' = "sync" /\ next' = 2 /\ accesses' = accesses + 1
  /\ UNCHANGED <<host, saves, vdpVars, arbstate>>

Synchronize ==
  /\ at = "sync"
  /\ IF clock[Order[next]] < clock["cpu"]
     THEN Main(Order[next]) /\ UNCHANGED <<at, next>>
     ELSE /\ IF next < 4 THEN next' = next + 1 /\ UNCHANGED at
             ELSE at' = "access" /\ UNCHANGED next
          /\ UNCHANGED <<clock, vdpVars, arbstate>>
  /\ UNCHANGED <<host, saves, accesses>>

\* The access is over: the instruction makes another, or ends.
Continue ==
  /\ at = "access"
  /\ \/ accesses < MaxAccesses /\ at' = "wait" /\ UNCHANGED next
     \/ IF host = "save" THEN at' = "save" /\ next' = 2 ELSE at' = "main" /\ UNCHANGED next
  /\ UNCHANGED <<host, saves, accesses, vdpVars>>

\* ROM, RAM and everything else that has no part in this module.
AccessMemory == Continue /\ UNCHANGED <<clock, arbstate>>

SetBREQ ==
  /\ Continue
  /\ busreqLine' \in BOOLEAN
  /\ UNCHANGED <<clock, resetLine, busreqLatch, resets>>

\* A reset creates two threads again that are in the list: their clocks are set to
\* zero, and append() leaves them there.
SetRES ==
  /\ Continue
  /\ resetLine' \in BOOLEAN
  /\ IF resetLine /\ ~resetLine'
     THEN /\ resets < MaxResets /\ resets' = resets + 1
          /\ clock' = [clock EXCEPT !["apu"] = 0, !["ym2612"] = 0]
     ELSE UNCHANGED <<clock, resets>>
  /\ UNCHANGED <<busreqLine, busreqLatch>>

-----------------------------------------------------------------------------
(* The System.                                                             *)

\* Scheduler::enter: a frame, or a save, which runs every other main() once.
Enter ==
  /\ host = "idle"
  /\ \/ host' = "run" /\ UNCHANGED saves
     \/ host' = "save" /\ saves < MaxSaves /\ saves' = saves + 1
  /\ UNCHANGED <<at, next, accesses, clock, vdpVars, arbstate>>

SaveAuxiliary ==
  /\ at = "save"
  /\ Main(Order[next])
  /\ IF next < 4 THEN next' = next + 1 /\ UNCHANGED <<at, host>>
     ELSE at' = "main" /\ host' = "idle" /\ UNCHANGED next
  /\ UNCHANGED <<saves, accesses>>

\* System::power(true); the static counter and hasRendered stay.
Reset ==
  /\ host = "idle"
  /\ clock' = ID /\ saves' = 0 /\ line' = 0
  /\ UNCHANGED <<host, at, next, accesses, part, hasRendered, arbstate>>

Init ==
  /\ host = "idle" /\ saves = 0 /\ at = "main" /\ next = 2 /\ accesses = 0
  /\ clock = ID /\ line = 0 /\ part = 0 /\ hasRendered = FALSE
  /\ resets = 0 /\ resetLine = FALSE /\ busreqLine = TRUE /\ busreqLatch = TRUE

Cpu == \/ CpuMainFrame \/ CpuMain \/ Wait \/ Synchronize
       \/ AccessMemory \/ SetBREQ \/ SetRES

Next == Enter \/ Cpu \/ SaveAuxiliary \/ Reset

Spec == Init /\ [][Next]_vars

-----------------------------------------------------------------------------

\* When the CPU touches a bus, every chip has reached the CPU's time, the sound chip
\* too, which was looked at before the Z80 held the CPU up.
BusIsCaughtUp == at = "access" => \A t \in Chips : clock[t] >= clock["cpu"]

\* The bus that the CPU requests is granted, unless it takes the request back or
\* resets the Z80.
BusIsGranted == busreqLine /\ resetLine ~> busreqLatch \/ ~busreqLine \/ ~resetLine

\* Scheduler::exit: "subtract the minimum time from all threads to prevent clock
\* overflow": a clock that leaves the frame is not greater than before.
NoOverflow == [][host = "run" /\ host' = "idle" => \A t \in Chips : clock'[t] <= clock[t]]_vars
=============================================================================
