------------------------------ MODULE SfcDma ------------------------------
(***************************************************************************)
(* DMA and HDMA of the Super Famicom's CPU (sfc/cpu/dma.cpp, timing.cpp).  *)
(* Every bus cycle of the CPU begins with dmaEdge(), which may run HDMA,   *)
(* for which CPU::step() set a flag at a position of the line, and then    *)
(* the DMA that the game asked for.  DMA calls dmaEdge() after every unit  *)
(* in turn, so that HDMA interrupts it, and may stop it.  All of them take *)
(* time by step(), which is what sets the flags.                           *)
(*                                                                         *)
(* lockstep.enabled is on: step() runs its clocks at once (SfcInterrupts). *)
(* irqLock is left out: a transfer ends by setting it, and a step(), which *)
(* clears it again, comes before the next lastCycle().                     *)
(* Addresses and the bytes moved are left out, the length of a line is     *)
(* fixed, and so are pauses to refresh the memory and overclocking.        *)
(***************************************************************************)
EXTENDS Integers, Sequences

CONSTANTS
  LineClocks,    \* 1364
  Scanlines, VisibleScanlines, \* 262 lines, of which the first 225 are visible
  HdmaPosition,  \* status.hdmaPosition: 1104
  CycleClocks,   \* clocks of a bus cycle: 6, 8 and 12
  Channels,      \* how many channels: 8
  Length,        \* the units of an HDMA transfer, by channel: 1, 2 or 4
  Indirect,      \* channels whose HDMA tables hold addresses
  DmaMasks, HdmaMasks, \* sets of channels that games write to $420b and $420c
  Sizes,         \* io values of DMA sizes, from 1
  CountTop,      \* the top bit of a line counter: 128
  Counts         \* bytes of HDMA tables, read as line counters

VARIABLES
  m,             \* what step() changes: the time, the flags it sets, the channels;
                 \* and which channels wait for their setup, and how many runs are due
  pc,            \* where the CPU is in dmaEdge() and below
  returns,       \* where the calls of dmaEdge() return to, the innermost first
  chan, hchan,   \* the channels that DMA and HDMA are looking at
  dmaActive, dmaPending, clockCount   \* CPU::status

statusVars == <<dmaActive, dmaPending, clockCount>>
sfcDmaVars == <<m, pc, returns, chan, hchan, statusVars>>

Channel == 1..Channels

ASSUME DmaAssumption ==
  /\ Channels \in Nat \ {0}
  /\ LineClocks \in Nat /\ Scanlines \in Nat /\ VisibleScanlines \in Nat \ {0}
  /\ VisibleScanlines < Scanlines
  /\ HdmaPosition \in Nat /\ 20 < HdmaPosition /\ HdmaPosition + 16 <= LineClocks
  /\ CycleClocks \subseteq Nat \ {0}
  /\ Length \in [Channel -> {1, 2, 4}] /\ Indirect \subseteq Channel
  /\ \A c \in Channel : HdmaPosition + 8 * Length[c] <= LineClocks
  /\ DmaMasks \subseteq SUBSET Channel /\ HdmaMasks \subseteq SUBSET Channel
  /\ Sizes \subseteq Nat \ {0} /\ CountTop \in Nat \ {0} /\ Counts \subseteq 0..2*CountTop-1

\* io.version is 2.
SetupPosition(phase) == 12 + phase

NoChannel == [dma |-> FALSE, hdma |-> FALSE, completed |-> FALSE,
              doTransfer |-> FALSE, size |-> 0, count |-> 2 * CountTop - 1]

DmaEnable(ch) == \E c \in Channel : ch[c].dma
HdmaEnable(ch) == \E c \in Channel : ch[c].hdma
IsActive(one) == one.hdma /\ ~one.completed
HdmaActive(ch) == \E c \in Channel : IsActive(ch[c])
HdmaFinished(ch, c) == \A d \in Channel : d > c => ~IsActive(ch[d])

-----------------------------------------------------------------------------
(* Time.  The operators that follow take m and give it some clocks later.  *)

\* CPU::step(n): the ticks lead to a position and a line, which begins, as may a field.
HAfter(t, n)        == (t.h + n) % LineClocks
BeginsLine(t, n)    == t.h + n >= LineClocks
VAfter(t, n)        == IF BeginsLine(t, n) THEN (t.v + 1) % Scanlines ELSE t.v
BeginsField(t, n)   == BeginsLine(t, n) /\ VAfter(t, n) = 0
BeginsVisible(t, n) == BeginsLine(t, n) /\ VAfter(t, n) < VisibleScanlines

\* CPU::scanline() and then a look at the two triggers.
SetupFrom(t, n) == IF BeginsField(t, n) THEN SetupPosition((t.phase + LineClocks - t.h) % 8)
                   ELSE t.setupPosition
SetsUp(t, n) == (BeginsField(t, n) \/ ~t.setupTriggered) /\ HAfter(t, n) >= SetupFrom(t, n)
Runs(t, n)   == (BeginsVisible(t, n) \/ ~t.hdmaTriggered) /\ HAfter(t, n) >= HdmaPosition

ChAfter(t, n) ==
  [c \in Channel |-> [t.ch[c] EXCEPT !.completed = @ /\ ~SetsUp(t, n),
                                     !.doTransfer = @ /\ ~SetsUp(t, n)]]
CallsSetup(t, n) == SetsUp(t, n) /\ HdmaEnable(ChAfter(t, n))
CallsRun(t, n)   == Runs(t, n) /\ HdmaActive(ChAfter(t, n))

RunIsDue(t, n) == /\ t.v < VisibleScanlines /\ t.h < HdmaPosition /\ t.h + n >= HdmaPosition
                  /\ HdmaActive(ChAfter(t, n))

StepClocks(t, n) ==
  [t EXCEPT
    !.h = HAfter(t, n), !.v = VAfter(t, n), !.phase = (@ + n) % 8,
    !.setupPosition = SetupFrom(t, n),
    !.setupTriggered = SetsUp(t, n) \/ (@ /\ ~BeginsField(t, n)),
    !.hdmaTriggered = Runs(t, n) \/ (@ /\ ~BeginsVisible(t, n)),
    !.ch = ChAfter(t, n),
    !.hdmaPending = @ \/ CallsRun(t, n) \/ CallsSetup(t, n),
    !.hdmaMode = IF CallsRun(t, n) THEN "run" ELSE IF CallsSetup(t, n) THEN "setup" ELSE @,
    !.setupDue = IF SetsUp(t, n) THEN {c \in Channel : t.ch[c].hdma} ELSE @,
    !.runsDue = IF RunIsDue(t, n) /\ @ < 2 THEN @ + 1 ELSE @]

\* Channel::step(), and the steps before the first channel: counter.dma is only
\* used modulo a cycle of 6, 8 or 12 clocks.
DmaStep(t, n) == StepClocks([t EXCEPT !.counterDma = (@ + n) % 24], n)

\* step(counter.dma = 8 - dmaCounter())
Align_None(t) == [t EXCEPT !.counterDma = 0]
Align(t) == StepClocks([t EXCEPT !.counterDma = 8 - t.phase], 8 - t.phase)

\* step(clockCount - counter.dma % clockCount)
AlignCpu(t) == StepClocks(t, clockCount - (t.counterDma % clockCount))

-----------------------------------------------------------------------------
(* Bus cycles.                                                             *)

GoTo(p) == pc' = p /\ UNCHANGED <<chan, hchan>>
Call(p) == pc' = "edge" /\ returns' = <<p>> \o returns /\ UNCHANGED <<chan, hchan>>

\* idle(), read() and write() up to dmaEdge().
Cycle ==
  /\ pc = "cpu"
  /\ clockCount' \in CycleClocks
  /\ Call("cycle")
  /\ UNCHANGED <<m, dmaActive, dmaPending>>

\* $420b, with the sizes that the game has written before; $420c; $43xa.
DmaEn(t) ==
  \E d \in DmaMasks : \E size \in [d -> Sizes] :
    /\ m' = [t EXCEPT !.ch = [c \in Channel |->
              IF c \in d THEN [@[c] EXCEPT !.dma = TRUE, !.size = size[c]]
                         ELSE [@[c] EXCEPT !.dma = FALSE]]]
    /\ dmaPending' = (dmaPending \/ d # {})
HdmaEn(t) ==
  \E d \in HdmaMasks :
    /\ m' = [t EXCEPT !.ch = [c \in Channel |-> [@[c] EXCEPT !.hdma = c \in d]]]
    /\ UNCHANGED dmaPending
WriteCount(t) ==
  \E c \in Channel, n \in Counts :
    /\ m' = [t EXCEPT !.ch[c].count = n]
    /\ UNCHANGED dmaPending

\* The rest of the cycle.
FinishCycle ==
  /\ pc = "cycle"
  /\ LET t == StepClocks(m, clockCount)
     IN \/ m' = t /\ UNCHANGED dmaPending
        \/ DmaEn(t) \/ HdmaEn(t) \/ WriteCount(t)
  /\ GoTo("cpu")
  /\ UNCHANGED <<returns, dmaActive, clockCount>>

-----------------------------------------------------------------------------
(* CPU::dmaEdge()                                                          *)

EdgeInactive ==
  /\ pc = "edge" /\ ~dmaActive
  /\ GoTo("edgeEnd")
  /\ UNCHANGED <<m, returns, statusVars>>

EdgeHdma ==
  /\ pc = "edge" /\ dmaActive
  /\ LET t == [m EXCEPT !.hdmaPending = FALSE]
     IN IF m.hdmaPending /\ HdmaEnable(m.ch)
        THEN /\ m' = IF DmaEnable(m.ch) THEN t ELSE Align(t)
             /\ GoTo("hdma")
        ELSE /\ m' = IF m.hdmaPending THEN [t EXCEPT !.runsDue = 0, !.setupDue = {}] ELSE t
             /\ GoTo("edgeDma")
  /\ UNCHANGED <<returns, statusVars>>

EdgeDma ==
  /\ pc = "edgeDma"
  /\ dmaPending' = FALSE
  /\ IF dmaPending /\ DmaEnable(m.ch)
     THEN m' = Align(m) /\ GoTo("dmaRun")
     ELSE UNCHANGED m /\ GoTo("edgeEnd")
  /\ UNCHANGED <<returns, dmaActive, clockCount>>

Wanted_Dma == dmaPending
Wanted == dmaPending \/ m.hdmaPending

EdgeEnd ==
  /\ pc = "edgeEnd"
  /\ dmaActive' = (dmaActive \/ Wanted)
  /\ pc' = IF Head(returns) = "channels" THEN "channel" ELSE Head(returns)
  /\ chan' = IF Head(returns) = "channels" THEN 1 ELSE chan
  /\ returns' = Tail(returns)
  /\ UNCHANGED <<m, hchan, dmaPending, clockCount>>

-----------------------------------------------------------------------------
(* HDMA.                                                                   *)

\* hdmaSetup and hdmaRun, before the first channel.
Hdma ==
  /\ pc = "hdma"
  /\ IF m.hdmaMode = "setup"
     THEN m' = DmaStep([m EXCEPT !.setupDue = {}], 8) /\ pc' = "setup"
     ELSE m' = DmaStep([m EXCEPT !.runsDue = 0], 8) /\ pc' = "transfer"
  /\ hchan' = 1
  /\ UNCHANGED <<returns, chan, statusVars>>

\* hdmaReload: the byte n is read in any case, and is the next line counter when
\* the last one has run out; then come the two bytes of an address, of which
\* the last channel reads one when its table ends.
Reload(t, c, n) ==
  LET t1 == DmaStep(t, 8)
      t2 == [t1 EXCEPT !.ch[c].count = n, !.ch[c].completed = n = 0,
                       !.ch[c].doTransfer = n # 0]
  IN IF t.ch[c].count % CountTop # 0 THEN t1
     ELSE IF c \notin Indirect THEN t2
     ELSE IF n = 0 /\ HdmaFinished(t2.ch, c) THEN DmaStep(t2, 8)
     ELSE DmaStep(t2, 16)

NextChannel(p, end) ==
  /\ IF hchan < Channels THEN pc' = p /\ hchan' = hchan + 1
                          ELSE pc' = end /\ hchan' = 1
  /\ UNCHANGED <<returns, chan, statusVars>>

SetupChannel ==
  /\ pc = "setup"
  /\ LET t == [m EXCEPT !.ch[hchan].doTransfer = TRUE]
     IN IF t.ch[hchan].hdma
        THEN \E n \in Counts :
               m' = Reload([t EXCEPT !.ch[hchan].dma = FALSE, !.ch[hchan].count = 0], hchan, n)
        ELSE m' = t
  /\ NextChannel("setup", "hdmaEnd")

\* HDMA stops the DMA of its channel, which may be the one it interrupts.
TransferChannel ==
  /\ pc = "transfer"
  /\ LET t == [m EXCEPT !.ch[hchan].dma = FALSE]
     IN m' = IF ~IsActive(m.ch[hchan]) THEN m
             ELSE IF t.ch[hchan].doTransfer THEN DmaStep(t, 8 * Length[hchan])
             ELSE t
  /\ NextChannel("transfer", "advance")

AdvanceChannel ==
  /\ pc = "advance"
  /\ IF IsActive(m.ch[hchan])
     THEN LET count == (m.ch[hchan].count - 1) % (2 * CountTop)
          IN \E n \in Counts :
               m' = Reload([m EXCEPT !.ch[hchan].count = count,
                                     !.ch[hchan].doTransfer = count >= CountTop], hchan, n)
     ELSE UNCHANGED m
  /\ NextChannel("advance", "hdmaEnd")

\* The end of hdmaSetup or hdmaRun, and back in dmaEdge().
HdmaEnd ==
  /\ pc = "hdmaEnd"
  /\ IF DmaEnable(m.ch)
     THEN UNCHANGED <<m, dmaActive>>
     ELSE m' = AlignCpu(m) /\ dmaActive' = FALSE
  /\ GoTo("edgeDma")
  /\ UNCHANGED <<returns, dmaPending, clockCount>>

-----------------------------------------------------------------------------
(* DMA.                                                                    *)

\* CPU::dmaRun, before the first channel.
DmaRun ==
  /\ pc = "dmaRun"
  /\ m' = DmaStep(m, 8)
  /\ Call("channels")
  /\ UNCHANGED <<statusVars>>

\* Channel::dmaRun, before the first unit, if there is one.
BeginChannel ==
  /\ pc = "channel" /\ m.ch[chan].dma
  /\ m' = DmaStep(m, 8)
  /\ Call("unit")
  /\ UNCHANGED <<statusVars>>

AfterChannel ==
  /\ IF chan < Channels THEN pc' = "channel" /\ chan' = chan + 1
                         ELSE pc' = "dmaEnd" /\ chan' = 1
  /\ UNCHANGED <<returns, hchan, statusVars>>

SkipChannel ==
  /\ pc = "channel" /\ ~m.ch[chan].dma
  /\ UNCHANGED m
  /\ AfterChannel

\* transfer(), and the edge behind it.
Unit ==
  /\ pc = "unit"
  /\ m' = DmaStep(m, 8)
  /\ Call("unitDone")
  /\ UNCHANGED <<statusVars>>

\* while(dmaEnable && --transferSize)
NextUnit ==
  /\ pc = "unitDone" /\ m.ch[chan].dma /\ m.ch[chan].size > 1
  /\ m' = [m EXCEPT !.ch[chan].size = @ - 1]
  /\ GoTo("unit")
  /\ UNCHANGED <<returns, statusVars>>

EndChannel ==
  /\ pc = "unitDone" /\ (m.ch[chan].dma => m.ch[chan].size = 1)
  /\ m' = [m EXCEPT !.ch[chan].dma = FALSE, !.ch[chan].size = 0]
  /\ AfterChannel

\* The end of dmaRun, and back in dmaEdge().
DmaEnd ==
  /\ pc = "dmaEnd"
  /\ m' = AlignCpu(m)
  /\ dmaActive' = FALSE
  /\ GoTo("edgeEnd")
  /\ UNCHANGED <<returns, dmaPending, clockCount>>

-----------------------------------------------------------------------------

\* CPU::power()
SfcDmaInit ==
  /\ m = [h |-> 0, v |-> 0, phase |-> 0, counterDma |-> 0,
          setupPosition |-> SetupPosition(0), setupTriggered |-> FALSE,
          hdmaTriggered |-> FALSE, hdmaPending |-> FALSE, hdmaMode |-> "setup",
          ch |-> [c \in Channel |-> NoChannel],
          setupDue |-> {}, runsDue |-> 0]
  /\ pc = "cpu" /\ returns = <<>> /\ chan = 1 /\ hchan = 1
  /\ dmaActive = FALSE /\ dmaPending = FALSE /\ clockCount \in CycleClocks

Edge ==
  \/ EdgeInactive \/ EdgeHdma \/ EdgeDma \/ EdgeEnd
  \/ Hdma \/ SetupChannel \/ TransferChannel \/ AdvanceChannel \/ HdmaEnd
  \/ DmaRun \/ BeginChannel \/ SkipChannel \/ Unit \/ NextUnit \/ EndChannel
  \/ DmaEnd \/ FinishCycle

SfcDmaNext == Edge \/ Cycle

SfcDmaSpec == SfcDmaInit /\ [][SfcDmaNext]_sfcDmaVars

-----------------------------------------------------------------------------
(* Properties.                                                             *)

\* The cycles of the Super Famicom have 12 clocks at most; then a transfer of all channels
\* ends before the next one is due, and their setup before the first transfer of a field.
HdmaFits ==
  /\ \A c \in CycleClocks : c <= 12
  /\ 80 + 24 * Channels < HdmaPosition
  /\ 60 + 56 * Channels < LineClocks

\* What timing.cpp says: HDMA triggers once every visible scanline.  It is run
\* before it is due again, also when a DMA is going on.
EveryLine == m.runsDue <= 1

\* The HDMA of a line begins only when the channels that were enabled at the start
\* of the field have been set up: hdmaMode is one variable for both flags.
SetUpFirst == pc = "hdma" /\ m.hdmaMode = "run" => m.setupDue = {}

\* Units of a DMA are moved at clocks divisible by 8, whatever HDMA came in between.
UnitsAligned == pc = "unit" /\ m.ch[chan].dma => m.phase = 0
=============================================================================
