--------------------------- MODULE MCCoScheduler ---------------------------
(* The Super Famicom's call graph for CoScheduler, with model values.      *)
EXTENDS CoScheduler

CONSTANTS cpu, smp, ppu, program

McThreads == {cpu, smp, ppu}
McOrder == <<cpu, smp, ppu>>
McLists == [t \in McThreads |-> IF t = cpu THEN {<<smp, ppu>>} ELSE {<<cpu>>}]
=============================================================================
