-------------------------- MODULE MegaDriveProofs ---------------------------
(***************************************************************************)
(* For any clocks, any width of them and any number of resets: at a bus    *)
(* access of the 68000 every chip has reached its time.  For whatever is   *)
(* written to the ports of the picture chip: no load is left to be done.   *)
(***************************************************************************)
EXTENDS MegaDrive, VdpDma, WellFoundedInduction, TLAPS

-----------------------------------------------------------------------------
(* The chips' clocks.                                                      *)

MdTypeOK ==
  /\ host \in {"idle", "run", "save"}
  /\ at \in {"main", "wait", "sync", "access", "save"} /\ next \in 2..4
  /\ clock \in [Chips -> Nat]

\* Enter() finds the CPU between two instructions.
IdleAtMain == host = "idle" => at = "main"

\* What the chips that synchronize() has done with are not behind: the sound chip the
\* CPU or, if the Z80 has just held up the CPU, the Z80.
LookedAt ==
  at = "sync" =>
    /\ next = 3 => clock["ym2612"] >= clock["cpu"] \/ clock["ym2612"] >= clock["apu"]
    /\ next = 4 => clock["ym2612"] >= clock["cpu"] /\ clock["apu"] >= clock["cpu"]

MdInv == MdTypeOK /\ IdleAtMain /\ LookedAt /\ BusIsCaughtUp

LEMMA AddIsNat ==
  ASSUME NEW c \in Nat, NEW n \in Nat
  PROVE  Add(c, n) \in Nat
<1>1. c + n \in Nat /\ Width \in Nat \ {0}
  BY MegaDriveAssumption
<1> QED BY <1>1 DEF Add

LEMMA IDIsNat == ID \in [Chips -> Nat]
<1>1. ASSUME NEW t \in Chips PROVE \E i \in 0..3 : Order[i + 1] = t
  <2>1. Order[0 + 1] = "cpu" /\ Order[1 + 1] = "ym2612" /\ Order[2 + 1] = "apu"
        /\ Order[3 + 1] = "vdp"
    BY DEF Order
  <2>2. 0 \in 0..3 /\ 1 \in 0..3 /\ 2 \in 0..3 /\ 3 \in 0..3
    OBVIOUS
  <2>3. t = "cpu" \/ t = "ym2612" \/ t = "apu" \/ t = "vdp"
    BY DEF Chips
  <2> QED BY <2>1, <2>2, <2>3
<1> DEFINE place(t) == CHOOSE i \in 0..3 : Order[i + 1] = t
<1>2. ASSUME NEW t \in Chips PROVE place(t) \in Nat
  <2>1. place(t) \in 0..3
    BY <1>1
  <2> HIDE DEF place
  <2> QED BY <2>1
<1>3. ID = [t \in Chips |-> place(t)]
  BY DEF ID
<1> HIDE DEF place
<1> QED BY <1>2, <1>3

\* A least time, of the thread furthest behind.
LEMMA MinimumIsNat ==
  ASSUME clock \in [Chips -> Nat]
  PROVE  Minimum \in Nat
<1> DEFINE times == { (clock[t] + Width - ID[t]) % Width : t \in Chips }
<1>1. ASSUME NEW t \in Chips PROVE (clock[t] + Width - ID[t]) % Width \in Nat
  <2>1. clock[t] \in Nat /\ ID[t] \in Nat
    BY IDIsNat
  <2> QED BY <2>1, MegaDriveAssumption
<1>2. times \in SUBSET Nat
  BY <1>1
<1>3. (clock["cpu"] + Width - ID["cpu"]) % Width \in times
  BY DEF Chips
<1>4. PICK m \in times : \A n \in times : <<n, m>> \notin OpToRel(<, Nat)
  BY <1>2, <1>3, NatLessThanWellFounded, WFMin
<1>5. \A n \in times : m <= n
  <2> HIDE DEF times
  <2> SUFFICES ASSUME NEW n \in times PROVE m <= n
    OBVIOUS
  <2>1. <<n, m>> \notin OpToRel(<, Nat) /\ n \in Nat /\ m \in Nat
    BY <1>2, <1>4
  <2> QED BY <2>1 DEF OpToRel
<1>6. Minimum \in times
  BY <1>5 DEF Minimum
<1> QED BY <1>2, <1>6

\* The Z80 leaves the sound chip not behind itself, unless the scheduler is saving.
LEMMA ApuMainRuns ==
  ASSUME MdInv, ApuMain
  PROVE  /\ clock' \in [Chips -> Nat]
         /\ at # "save" => clock'["ym2612"] >= clock'["apu"]
         /\ clock'["vdp"] = clock["vdp"]
<1>1. PICK work \in { <<n, 0>> : n \in 1..MaxWork } \cup { <<n + 1, Steal>> : n \in 1..MaxWork }
                    \cup { <<1, 0>> } : ApuStep(<<Delay + work[1], work[2]>>)
  BY DEF ApuMain, Instruction
<1>2. work[1] \in Nat /\ work[2] \in Nat /\ Delay \in Nat
  BY <1>1, MegaDriveAssumption DEF Delay
<1> DEFINE time == Add(clock["apu"], Delay + work[1])
           steal == work[2]
<1>3. PICK runs \in IF at = "save" THEN {0} ELSE CatchUp(time) :
        clock' = [clock EXCEPT !["apu"] = time, !["cpu"] = Add(@, steal),
                               !["ym2612"] = YmAfter(runs)]
  BY <1>1 DEF ApuStep
<1>4. runs \in Nat /\ (at # "save" => YmAfter(runs) >= time)
  BY <1>3, MegaDriveAssumption DEF CatchUp
<1>5. /\ clock["ym2612"] \in Nat /\ clock["cpu"] \in Nat /\ clock["apu"] \in Nat
      /\ Delay + work[1] \in Nat /\ YmWork * runs \in Nat
  BY <1>2, <1>4, MegaDriveAssumption DEF MdInv, MdTypeOK, Chips
<1>6. time \in Nat /\ Add(clock["cpu"], steal) \in Nat /\ YmAfter(runs) \in Nat
  BY <1>2, <1>5, AddIsNat DEF YmAfter
<1> HIDE DEF time, steal
<1> QED BY <1>3, <1>4, <1>6 DEF MdInv, MdTypeOK, Chips

LEMMA MainRuns ==
  ASSUME MdInv, Main(Order[next])
  PROVE  /\ clock' \in [Chips -> Nat]
         /\ at # "save" /\ next = 3 => clock'["ym2612"] >= clock'["apu"]
         /\ next = 4 => \A t \in Chips \ {"vdp"} : clock'[t] = clock[t]
<1>1. next \in {2, 3, 4} /\ clock \in [Chips -> Nat]
  BY DEF MdInv, MdTypeOK
<1>2. /\ next = 2 => Order[next] = "ym2612"
      /\ next = 3 => Order[next] = "apu"
      /\ next = 4 => Order[next] = "vdp"
  BY DEF Order
<1>3. CASE next = 2
  <2>1. Ym2612Main
    BY <1>2, <1>3 DEF Main
  <2>2. clock["ym2612"] \in Nat /\ YmWork \in Nat
    BY <1>1, MegaDriveAssumption DEF Chips
  <2>3. Add(clock["ym2612"], YmWork) \in Nat
    BY <2>2, AddIsNat
  <2>4. clock' = [clock EXCEPT !["ym2612"] = Add(clock["ym2612"], YmWork)]
    BY <2>1 DEF Ym2612Main
  <2>5. clock' \in [Chips -> Nat]
    BY <1>1, <2>3, <2>4
  <2> QED BY <1>3, <2>5
<1>4. CASE next = 3
  BY <1>2, <1>4, ApuMainRuns DEF Main
<1>5. CASE next = 4
  <2>1. VdpMain
    BY <1>2, <1>5 DEF Main
  <2>2. clock["vdp"] \in Nat /\ Segment \in Nat
    BY <1>1, MegaDriveAssumption DEF Chips
  <2>3. Add(clock["vdp"], Segment) \in Nat
    BY <2>2, AddIsNat
  <2>4. PICK c \in Nat : clock' = [clock EXCEPT !["vdp"] = c]
    BY <2>1, <2>2, <2>3 DEF VdpMain
  <2>5. clock' \in [Chips -> Nat]
    BY <1>1, <2>4
  <2>6. \A t \in Chips \ {"vdp"} : clock'[t] = clock[t]
    BY <1>1, <2>4
  <2> QED BY <1>5, <2>5, <2>6
<1> QED BY <1>1, <1>3, <1>4, <1>5

-----------------------------------------------------------------------------
LEMMA InitMd == Init => MdInv
BY IDIsNat DEF Init, MdInv, MdTypeOK, IdleAtMain, LookedAt, BusIsCaughtUp

LEMMA CpuMainFrameKeeps ==
  ASSUME MdInv, CpuMainFrame
  PROVE  MdInv'
<1>1. CASE host = "run"
  <2>1. clock' = [t \in Chips |-> (clock[t] + Width - Minimum) % Width]
    BY <1>1 DEF CpuMainFrame, Exit
  <2>2. ASSUME NEW t \in Chips PROVE (clock[t] + Width - Minimum) % Width \in Nat
    <3>1. clock[t] \in Nat /\ Minimum \in Nat /\ Width \in Nat \ {0}
      BY MinimumIsNat, MegaDriveAssumption DEF MdInv, MdTypeOK
    <3> QED BY <3>1
  <2>3. clock' \in [Chips -> Nat]
    BY <2>1, <2>2
  <2>4. host' = "idle" /\ at' = "main" /\ next' = next
    BY <1>1 DEF CpuMainFrame
  <2> QED BY <2>3, <2>4 DEF MdInv, MdTypeOK, IdleAtMain, LookedAt, BusIsCaughtUp
<1>2. CASE host # "run"
  BY <1>2 DEF CpuMainFrame, MdInv, MdTypeOK, IdleAtMain, LookedAt, BusIsCaughtUp
<1> QED BY <1>1, <1>2

LEMMA WaitKeeps ==
  ASSUME MdInv, Wait
  PROVE  MdInv'
<1>1. PICK n \in 1..MaxWork : clock' = [clock EXCEPT !["cpu"] = Add(@, n)]
  BY DEF Wait
<1>2. Add(clock["cpu"], n) \in Nat
  BY <1>1, AddIsNat, MegaDriveAssumption DEF MdInv, MdTypeOK, Chips
<1>3. at' = "sync" /\ next' = 2 /\ host' = host /\ at = "wait"
  BY DEF Wait
<1>4. clock' \in [Chips -> Nat]
  BY <1>1, <1>2 DEF MdInv, MdTypeOK
<1> QED BY <1>3, <1>4 DEF MdInv, MdTypeOK, IdleAtMain, LookedAt, BusIsCaughtUp

\* A chip that is behind runs, and only the Z80 moves the clock of another.
LEMMA SynchronizeKeeps ==
  ASSUME MdInv, Synchronize
  PROVE  MdInv'
<1> DEFINE c == Order[next]
<1>1. at = "sync" /\ host' = host /\ host # "idle"
  BY DEF Synchronize, MdInv, IdleAtMain
<1>2. CASE clock[c] < clock["cpu"]
  <2>1. Main(c) /\ at' = at /\ next' = next
    BY <1>2 DEF Synchronize
  <2>2. MdTypeOK' /\ IdleAtMain' /\ BusIsCaughtUp'
    BY <1>1, <2>1, MainRuns DEF MdInv, MdTypeOK, IdleAtMain, BusIsCaughtUp
  <2>3. LookedAt'
    BY <1>1, <2>1, MainRuns DEF MdInv, LookedAt, Chips
  <2> QED BY <2>2, <2>3 DEF MdInv
<1>3. CASE ~(clock[c] < clock["cpu"])
  <2>1. /\ clock' = clock
        /\ IF next < 4 THEN next' = next + 1 /\ at' = at ELSE at' = "access" /\ next' = next
    BY <1>3 DEF Synchronize
  <2>2. next \in {2, 3, 4} /\ clock \in [Chips -> Nat]
    BY DEF MdInv, MdTypeOK
  <2>3. /\ next = 2 => c = "ym2612"
        /\ next = 3 => c = "apu"
        /\ next = 4 => c = "vdp"
    BY DEF Order
  <2>4. clock[c] >= clock["cpu"]
    BY <1>3, <2>2, <2>3 DEF Chips
  <2> HIDE DEF c
  <2>5. MdTypeOK' /\ IdleAtMain'
    BY <1>1, <2>1, <2>2 DEF MdInv, MdTypeOK, IdleAtMain
  <2>6. LookedAt'
    BY <1>1, <2>1, <2>2, <2>3, <2>4 DEF MdInv, LookedAt, Chips
  <2>7. BusIsCaughtUp'
    BY <1>1, <2>1, <2>2, <2>3, <2>4 DEF MdInv, LookedAt, BusIsCaughtUp, Chips
  <2> QED BY <2>5, <2>6, <2>7 DEF MdInv
<1> QED BY <1>2, <1>3

LEMMA AccessKeeps ==
  ASSUME MdInv, AccessMemory \/ SetBREQ \/ SetRES
  PROVE  MdInv'
<1>1. Continue /\ (clock' = clock \/ clock' = [clock EXCEPT !["apu"] = 0, !["ym2612"] = 0])
  BY DEF AccessMemory, SetBREQ, SetRES
<1>2. clock' \in [Chips -> Nat]
  BY <1>1 DEF MdInv, MdTypeOK
<1>3. /\ at = "access" /\ host' = host /\ at' \in {"wait", "save", "main"}
      /\ next' = next \/ next' = 2
  BY <1>1 DEF Continue
<1> QED BY <1>2, <1>3 DEF MdInv, MdTypeOK, IdleAtMain, LookedAt, BusIsCaughtUp

LEMMA SystemKeeps ==
  ASSUME MdInv, Enter \/ SaveAuxiliary \/ Reset
  PROVE  MdInv'
<1>1. CASE Enter
  BY <1>1 DEF Enter, MdInv, MdTypeOK, IdleAtMain, LookedAt, BusIsCaughtUp
<1>2. CASE SaveAuxiliary
  <2>1. clock' \in [Chips -> Nat]
    BY <1>2, MainRuns DEF SaveAuxiliary
  <2>2. /\ at = "save"
        /\ \/ host' = host /\ at' = "save"
           \/ host' = "idle" /\ at' = "main"
        /\ next' \in 2..4
    BY <1>2 DEF SaveAuxiliary, MdInv, MdTypeOK
  <2> QED BY <2>1, <2>2 DEF MdInv, MdTypeOK, IdleAtMain, LookedAt, BusIsCaughtUp
<1>3. CASE Reset
  BY <1>3, IDIsNat DEF Reset, MdInv, MdTypeOK, IdleAtMain, LookedAt, BusIsCaughtUp
<1> QED BY <1>1, <1>2, <1>3

LEMMA MdStep ==
  ASSUME MdInv, [Next]_vars
  PROVE  MdInv'
<1>1. CASE CpuMain
  BY <1>1 DEF CpuMain, MdInv, MdTypeOK, IdleAtMain, LookedAt, BusIsCaughtUp
<1>2. CASE UNCHANGED vars
  BY <1>2 DEF vars, MdInv, MdTypeOK, IdleAtMain, LookedAt, BusIsCaughtUp
<1> QED BY <1>1, <1>2, CpuMainFrameKeeps, WaitKeeps, SynchronizeKeeps, AccessKeeps, SystemKeeps
        DEF Next, Cpu

\* At every access to a bus, whatever the widths and costs, clocks that wrapped included.
THEOREM BusIsAlwaysCaughtUp == Spec => []BusIsCaughtUp
<1>1. MdInv /\ [Next]_vars => MdInv'
  BY MdStep
<1>2. MdInv => BusIsCaughtUp
  BY DEF MdInv
<1> QED BY InitMd, <1>1, <1>2, PTL DEF Spec

-----------------------------------------------------------------------------
(* The picture chip's DMA.                                                 *)

\* The registers that decide about a DMA.
DmaTypeOK ==
  dma \in [enable : BOOLEAN, wait : BOOLEAN, mode : Modes, vram : BOOLEAN,
           copies : BOOLEAN, go : BOOLEAN, pending : BOOLEAN]

\* A load does not wait for the data port, so that no write to it releases one.
LoadsDoNotWait == dma.mode = "load" => ~dma.wait

DmaInv == DmaTypeOK /\ LoadsDoNotWait /\ LoadsAreDone

\* After poll() there is nothing to do, and only the flag it clears has changed.
LEMMA PollIsDone ==
  ASSUME NEW d \in [enable : BOOLEAN, wait : BOOLEAN, mode : Modes, vram : BOOLEAN,
                    copies : BOOLEAN, go : BOOLEAN, pending : BOOLEAN]
  PROVE  /\ Poll(d) \in [enable : BOOLEAN, wait : BOOLEAN, mode : Modes, vram : BOOLEAN,
                         copies : BOOLEAN, go : BOOLEAN, pending : BOOLEAN]
         /\ ~Runs(Poll(d))
         /\ Poll(d).mode = d.mode /\ Poll(d).wait = d.wait
BY DEF Poll, Runs

\* poll() or not, every write leaves the registers in their ranges and no load.
LEMMA DmaStep == DmaInv /\ [DmaNext]_dmaVars => DmaInv'
<1> SUFFICES ASSUME DmaInv, [DmaNext]_dmaVars PROVE DmaInv'
  OBVIOUS
<1> USE DEF DmaInv, DmaTypeOK, LoadsDoNotWait, LoadsAreDone
<1>1. CASE ReadPort
  BY <1>1 DEF ReadPort, Runs
<1>2. CASE WriteDataPort
  <2> DEFINE d == [dma EXCEPT !.pending = FALSE, !.wait = FALSE]
  <2>1. d \in [enable : BOOLEAN, wait : BOOLEAN, mode : Modes, vram : BOOLEAN,
               copies : BOOLEAN, go : BOOLEAN, pending : BOOLEAN]
    OBVIOUS
  <2>2. CASE d.vram
    BY <1>2, <2>1, <2>2, PollIsDone DEF WriteDataPort
  <2>3. CASE ~d.vram
    BY <1>2, <2>1, <2>3 DEF WriteDataPort, Runs
  <2> QED BY <2>2, <2>3
<1>3. CASE WriteCommandHigh
  BY <1>3 DEF WriteCommandHigh, Runs
<1>4. CASE WriteCommandLow
  <2>1. PICK vram, copies, go \in BOOLEAN :
          dma' = Poll([dma EXCEPT !.pending = FALSE, !.vram = vram, !.copies = copies,
                                  !.go = go /\ dma.enable,
                                  !.wait = @ /\ dma.mode # "copy"])
    BY <1>4 DEF WriteCommandLow
  <2> DEFINE d == [dma EXCEPT !.pending = FALSE, !.vram = vram, !.copies = copies,
                              !.go = go /\ dma.enable,
                              !.wait = @ /\ dma.mode # "copy"]
  <2>2. /\ d \in [enable : BOOLEAN, wait : BOOLEAN, mode : Modes, vram : BOOLEAN,
               copies : BOOLEAN, go : BOOLEAN, pending : BOOLEAN]
        /\ d.mode = "load" => ~d.wait
    OBVIOUS
  <2> QED BY <2>1, <2>2, PollIsDone
<1>5. CASE WriteEnable
  <2>1. PICK enable \in BOOLEAN :
          dma' = Poll([dma EXCEPT !.enable = enable, !.go = @ /\ enable])
    BY <1>5 DEF WriteEnable
  <2> DEFINE d == [dma EXCEPT !.enable = enable, !.go = @ /\ enable]
  <2>2. /\ d \in [enable : BOOLEAN, wait : BOOLEAN, mode : Modes, vram : BOOLEAN,
               copies : BOOLEAN, go : BOOLEAN, pending : BOOLEAN]
        /\ d.mode = "load" => ~d.wait
    OBVIOUS
  <2> QED BY <2>1, <2>2, PollIsDone
<1>6. CASE WriteMode
  <2>1. PICK mode \in Modes :
          dma' = Poll([dma EXCEPT !.mode = mode, !.wait = mode # "load"])
    BY <1>6 DEF WriteMode
  <2> DEFINE d == [dma EXCEPT !.mode = mode, !.wait = mode # "load"]
  <2>2. /\ d \in [enable : BOOLEAN, wait : BOOLEAN, mode : Modes, vram : BOOLEAN,
               copies : BOOLEAN, go : BOOLEAN, pending : BOOLEAN]
        /\ d.mode = "load" => ~d.wait
    OBVIOUS
  <2> QED BY <2>1, <2>2, PollIsDone
<1>7. CASE DmaPower
  BY <1>7 DEF DmaPower, NoDma, Modes, Runs
<1>8. CASE UNCHANGED dmaVars
  BY <1>8 DEF dmaVars, Runs
<1> QED BY <1>1, <1>2, <1>3, <1>4, <1>5, <1>6, <1>7, <1>8 DEF DmaNext

\* Whatever a game writes, in whatever order, a load from the 68000's bus has been
\* carried out when the write is over.
THEOREM LoadsAreAlwaysDone == DmaInit /\ [][DmaNext]_dmaVars => []LoadsAreDone
<1>1. DmaInit => DmaInv
  BY DEF DmaInit, DmaInv, DmaTypeOK, LoadsDoNotWait, LoadsAreDone, NoDma, Modes, Runs
<1>2. DmaInv => LoadsAreDone
  BY DEF DmaInv
<1> QED BY <1>1, <1>2, DmaStep, PTL
=============================================================================
