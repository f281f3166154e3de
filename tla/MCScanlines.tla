----------------------------- MODULE MCScanlines -----------------------------
(* Two units that follow the scanlines of their consoles and do not meet, side *)
(* by side: a behaviour is one of the Famicom's picture unit or of the Super   *)
(* Famicom's DMA.                                                              *)
EXTENDS FcPpu, SfcDma

OneUnit == [c \in Channel |-> 1]

ASSUME HdmaFitsHere == HdmaFits

VARIABLE unit

ScanlinesInit ==
  /\ unit \in {"fc_ppu", "sfc_dma"}
  /\ Init /\ SfcDmaInit
  /\ unit = "fc_ppu" => clockCount = CHOOSE n \in CycleClocks : TRUE

InFcPpu  == unit = "fc_ppu" /\ UNCHANGED <<sfcDmaVars, unit>>
InSfcDma == unit = "sfc_dma" /\ UNCHANGED <<vars, unit>>

ScanlinesNext == (InFcPpu /\ Next) \/ (InSfcDma /\ SfcDmaNext)

ScanlinesSpec == ScanlinesInit /\ [][ScanlinesNext]_<<vars, sfcDmaVars, unit>>
=============================================================================
