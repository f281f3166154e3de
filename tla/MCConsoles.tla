----------------------------- MODULE MCConsoles -----------------------------
(* Parts of two consoles that do not meet, side by side: a behaviour is one of *)
(* the Mega Drive's clocks, its DMA registers, or the interrupts of the Super  *)
(* Famicom's CPU.                                                              *)
EXTENDS MegaDrive, VdpDma, SfcInterrupts

VARIABLE model

consoleVars == <<vars, dmaVars, irqVars, model>>

\* Only the interrupts begin with the lockstep switch in either position.
ConsolesInit ==
  /\ model \in {"mega_drive", "vdp_dma", "interrupts"}
  /\ Init /\ DmaInit /\ IrqInit
  /\ model = "interrupts" \/ lockstep

InMegaDrive  == model = "mega_drive" /\ UNCHANGED <<dmaVars, irqVars, model>>
InVdpDma     == model = "vdp_dma" /\ UNCHANGED <<vars, irqVars, model>>
InInterrupts == model = "interrupts" /\ UNCHANGED <<vars, dmaVars, model>>

ConsolesNext ==
  \/ InMegaDrive /\ Next
  \/ InVdpDma /\ DmaNext
  \/ InInterrupts /\ IrqNext

\* C++ goes on, and the page's main loop draws frames.
ConsolesFairness ==
  /\ WF_consoleVars(InMegaDrive /\ (Cpu \/ SaveAuxiliary))
  /\ WF_consoleVars(InMegaDrive /\ Enter)
  /\ WF_consoleVars(InInterrupts /\ RunCpu)

ConsolesSpec == ConsolesInit /\ [][ConsolesNext]_consoleVars /\ ConsolesFairness
=============================================================================
