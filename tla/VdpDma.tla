------------------------------- MODULE VdpDma -------------------------------
(***************************************************************************)
(* The Mega Drive's DMA in the web build: the registers that decide        *)
(* whether it runs, written one by one through the two ports of the        *)
(* picture chip in any order, and poll(), which some of those writes call  *)
(* and which moves everything there is to move before it returns.  What is *)
(* moved, and where to, is left out.                                       *)
(***************************************************************************)

VARIABLE dma

dmaVars == <<dma>>

Modes == {"load", "fill", "copy"}

\* command.bit(0,3) is 1 (vram), .bit(4) copies, .bit(5) go, and commandPending.
NoDma == [enable |-> FALSE, wait |-> FALSE, mode |-> "load", vram |-> FALSE,
          copies |-> FALSE, go |-> FALSE, pending |-> FALSE]

\* VDP::DMA::run
Runs(d) == d.enable /\ ~d.wait /\ d.go /\ (d.mode = "copy" => d.copies)

\* VDP::DMA::poll.  Neither cpu.active() nor apu.active() is true here: the CPU is
\* not being caught up, and the Z80 does not reach the picture chip.  The data port
\* that a load writes finds poll() locked.
Poll(d) == IF Runs(d) THEN [d EXCEPT !.go = FALSE] ELSE d

-----------------------------------------------------------------------------
(* The ports.                                                              *)

\* The data or the control port is read.
ReadPort == dma' = [dma EXCEPT !.pending = FALSE]

\* What is written to CRAM and VSRAM is not followed by a poll().
WriteDataPort ==
  LET d == [dma EXCEPT !.pending = FALSE, !.wait = FALSE]
  IN dma' = IF d.vram THEN Poll(d) ELSE d

WriteCommandHigh ==
  /\ ~dma.pending
  /\ \E vram \in BOOLEAN : dma' = [dma EXCEPT !.pending = TRUE, !.vram = vram]

WriteCommandLow ==
  /\ dma.pending
  /\ \E vram, copies, go \in BOOLEAN :
       dma' = Poll([dma EXCEPT !.pending = FALSE, !.vram = vram, !.copies = copies,
                               !.go = go /\ dma.enable,
                               !.wait = @ /\ dma.mode # "copy"])

WriteEnable ==
  /\ ~dma.pending
  /\ \E enable \in BOOLEAN : dma' = Poll([dma EXCEPT !.enable = enable, !.go = @ /\ enable])

WriteMode_NoPoll ==
  /\ ~dma.pending
  /\ \E mode \in Modes : dma' = [dma EXCEPT !.mode = mode, !.wait = mode # "load"]
WriteMode ==
  /\ ~dma.pending
  /\ \E mode \in Modes : dma' = Poll([dma EXCEPT !.mode = mode, !.wait = mode # "load"])

\* VDP::DMA::power, and io = {} of VDP::power.
DmaPower == dma' = NoDma

DmaInit == dma = NoDma

DmaNext == \/ ReadPort \/ WriteDataPort \/ WriteCommandHigh \/ WriteCommandLow
           \/ WriteEnable \/ WriteMode \/ DmaPower

-----------------------------------------------------------------------------

\* A DMA from the 68000's bus, during which the 68000 is halted, never waits to be
\* noticed: whichever register write makes it possible also carries it out, and
\* CPU::wait has nothing to wait for.  (A fill or copy that a write to CRAM or VSRAM
\* releases does wait, for the next poll().)
LoadsAreDone == Runs(dma) => dma.mode # "load"
=============================================================================
