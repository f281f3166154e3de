------------------------- MODULE MCSynchroScheduler -------------------------
(* Call graphs of the cores for SynchroScheduler, with model values.       *)
EXTENDS SynchroScheduler

CONSTANTS cpu, smp, dsp, ppu, pad, card, apu, cartridge, wild

\* Super Famicom: CPU::scanline synchronizes (smp, ppu), port accesses smp or
\* ppu; SMP::main the dsp, SMP::step the cpu; PPU::step the cpu; CPU::step each
\* plugged peripheral.
SfcThreads == {cpu, smp, dsp, ppu}
SfcLists == [t \in SfcThreads |->
  CASE t = cpu -> {<<smp, ppu>>, <<smp>>}
    [] t = smp -> {<<dsp>>, <<cpu>>}
    [] t = ppu -> {<<cpu>>}
    [] OTHER -> {}]
SfcLevel == [t \in SfcThreads |-> CASE t = cpu -> 0 [] t = dsp -> 2 [] OTHER -> 1]
SfcBoot == <<cpu, smp, dsp, ppu>>

\* Super Famicom with hot-plugged objects: a light gun on a controller port
\* (CPU::step synchronizes every peripheral) and a BS Memory cartridge
\* (CPU::scanline synchronizes every coprocessor).
PlugThreads == {cpu, ppu, pad, card}
PlugLists == [t \in PlugThreads |->
  IF t = cpu THEN {<<ppu>>, <<pad>>, <<card>>} ELSE {<<cpu>>}]
PlugLevel == [t \in PlugThreads |-> IF t = cpu THEN 0 ELSE 1]
PlugBoot == <<cpu, ppu>>

\* Famicom: CPU::main ends with synchronize(); in this build no other chip
\* synchronizes.  The cartridge is created first.
FcThreads == {cartridge, cpu, apu, ppu}
FcLists == [t \in FcThreads |-> {}]
FcLevel == [t \in FcThreads |-> IF t = cpu THEN 0 ELSE 1]
FcBoot == <<cartridge, cpu, apu, ppu>>
=============================================================================
