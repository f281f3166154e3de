------------------------- MODULE CoSchedulerProofs -------------------------
(***************************************************************************)
(* For any threads, call lists and bounds: when enter(Synchronize) comes   *)
(* back, every coroutine is at a safe point; none is run past it while the *)
(* others are looked after; and what synchronize() has found caught up     *)
(* stays so until the caller steps.                                        *)
(***************************************************************************)
EXTENDS CoScheduler, SequenceTheorems, WellFoundedInduction, TLAPS

CoTypeOK ==
  /\ host \in {"on", "run", "savePrimary", "nextThread", "saveThread"}
  /\ active \in Thread \cup {Host} /\ resume \in Thread
  /\ mode \in {"Run", "SynchronizePrimary", "SynchronizeAuxiliary"}
  /\ event \in {"Step", "Frame", "Synchronize"}
  /\ queue \in Seq(Thread)
  /\ clock \in [Thread -> Nat]
  /\ at \in [Thread -> {"top", "main", "safe", "frame"}]
  /\ work \in [Thread -> Nat] /\ list \in [Thread -> Seq(Thread)]
  /\ met \in [Thread -> SUBSET Thread]

\* Between enter() calls, and between the threads of a save, nobody else runs; the
\* coroutine of a thread being saved is the only one that does.
WhoRuns ==
  /\ host \in {"on", "nextThread"} => active = Host
  /\ host = "saveThread" =>
       /\ queue # <<>> /\ resume = Head(queue) /\ resume # Primary
       /\ active \in {Host, resume}

\* The mode that enter() has set for each of its loops.
ModeOfLoop ==
  /\ host = "run" => mode = "Run"
  /\ host = "savePrimary" => mode = "SynchronizePrimary"
  /\ host = "saveThread" => mode = "SynchronizeAuxiliary"

\* The event by which a loop of enter() ends was raised by the thread it runs, at the
\* thread's safe point.
RaisedByTheOne ==
  event = "Synchronize" /\ active = Host =>
    /\ host = "savePrimary" => at[Primary] = "safe"
    /\ host = "saveThread" => at[Head(queue)] = "safe"

\* At the top of its loop a thread is in no main() and waits for nobody.
NothingBegun ==
  \A t \in Thread : at[t] \in {"safe", "top"} => work[t] = 0 /\ list[t] = <<>>

CoInv ==
  /\ CoTypeOK /\ WhoRuns /\ ModeOfLoop /\ RaisedByTheOne /\ NothingBegun
  /\ SafePoints /\ StaysSafe /\ CaughtUp

-----------------------------------------------------------------------------
(* Sequences, minimum(), and who may run.                                  *)

LEMMA HeadIsIn ==
  ASSUME NEW q \in Seq(Thread), q # <<>>
  PROVE  /\ Head(q) \in Thread /\ Tail(q) \in Seq(Thread)
         /\ \E i \in DOMAIN q : q[i] = Head(q)
         /\ \A i \in DOMAIN q : \/ q[i] = Head(q)
                               \/ \E j \in DOMAIN Tail(q) : Tail(q)[j] = q[i]
<1>1. /\ Head(q) \in Thread /\ Tail(q) \in Seq(Thread)
      /\ Len(q) \in Nat \ {0} /\ DOMAIN q = 1..Len(q) /\ q[1] = Head(q)
      /\ Len(Tail(q)) = Len(q) - 1 /\ DOMAIN Tail(q) = 1..Len(Tail(q))
      /\ \A i \in 1..Len(Tail(q)) : Tail(q)[i] = q[i + 1]
  BY HeadTailProperties, LenProperties, EmptySeq
<1>2. ASSUME NEW i \in DOMAIN q, i # 1
      PROVE  i - 1 \in DOMAIN Tail(q) /\ Tail(q)[i - 1] = q[i]
  BY <1>1, <1>2
<1>3. 1 \in DOMAIN q
  BY <1>1
<1>4. \E i \in DOMAIN q : q[i] = Head(q)
  BY <1>1, <1>3
<1>5. ASSUME NEW i \in DOMAIN q
      PROVE  q[i] = Head(q) \/ \E j \in DOMAIN Tail(q) : Tail(q)[j] = q[i]
  BY <1>1, <1>2
<1> QED BY <1>1, <1>4, <1>5

LEMMA NatMin ==
  ASSUME NEW S \in SUBSET Nat, S # {}
  PROVE  \E m \in S : \A n \in S : m <= n
<1>1. PICK m \in S : \A n \in S : <<n, m>> \notin OpToRel(<, Nat)
  BY NatLessThanWellFounded, WFMin
<1>2. \A n \in S : ~(n < m)
  BY <1>1 DEF OpToRel
<1> QED BY <1>2

\* minimum() is a clock, and no clock is below it.
LEMMA MinimumProps ==
  ASSUME CoTypeOK
  PROVE  Minimum \in Nat /\ \A t \in Thread : Minimum <= clock[t]
<1> DEFINE S == {clock[t] : t \in Thread}
<1>1. S \in SUBSET Nat /\ S # {}
  <2>1. \A t \in Thread : clock[t] \in Nat
    BY DEF CoTypeOK
  <2>2. clock[Primary] \in S
    BY ThreadsAssumption
  <2> QED BY <2>1, <2>2
<1>2. \E m \in S : \A n \in S : m <= n
  BY <1>1, NatMin
<1>3. \E m \in S : \A t \in Thread : m <= clock[t]
  BY <1>2
<1>4. Minimum \in S /\ \A t \in Thread : Minimum <= clock[t]
  BY <1>3 DEF Minimum
<1> QED BY <1>1, <1>4

\* While a coroutine runs, enter() is in a loop that runs it.
LEMMA Runs ==
  ASSUME CoInv, NEW t \in Thread, active = t
  PROVE  /\ active # Host /\ host \in {"run", "savePrimary", "saveThread"}
         /\ host = "saveThread" => /\ t = Head(queue) /\ t # Primary
                                   /\ \E i \in DOMAIN queue : queue[i] = t
<1>1. active # Host
  BY ThreadsAssumption
<1>2. host \in {"run", "savePrimary", "saveThread"}
  BY <1>1 DEF CoInv, CoTypeOK, WhoRuns
<1>3. ASSUME host = "saveThread"
      PROVE  t = Head(queue) /\ t # Primary /\ \E i \in DOMAIN queue : queue[i] = t
  BY <1>1, <1>3, HeadIsIn DEF CoInv, CoTypeOK, WhoRuns
<1> QED BY <1>1, <1>2, <1>3

\* Whatever a coroutine does to its own position, the others stay where they are safe.
LEMMA RunsKeepsSafe ==
  ASSUME CoInv, NEW t \in Thread, active = t, UNCHANGED <<host, mode, queue>>,
         \A u \in Thread \ {t} : at'[u] = at[u]
  PROVE  SafePoints' /\ StaysSafe' /\ ModeOfLoop'
<1>1. SafePoints'
  BY Runs DEF SafePoints
<1>2. ModeOfLoop'
  BY DEF CoInv, ModeOfLoop
<1>3. StaysSafe'
  <2> SUFFICES ASSUME host \in {"nextThread", "saveThread"}, NEW u \in Thread
               PROVE  \/ at'[u] = "safe"
                      \/ u # Primary /\ \E i \in DOMAIN queue : queue[i] = u
    BY DEF StaysSafe
  <2>1. host = "saveThread"
    BY Runs
  <2>2. CASE u = t
    BY <2>1, <2>2, Runs
  <2>3. CASE u # t
    BY <2>1, <2>3 DEF CoInv, StaysSafe
  <2> QED BY <2>2, <2>3
<1> QED BY <1>1, <1>2, <1>3

-----------------------------------------------------------------------------
(* The coroutines.                                                         *)

LEMMA ExitKeeps ==
  ASSUME CoInv, NEW t \in Thread, active = t, UNCHANGED <<host, mode, queue, work, list, met>>,
         \/ MayStop(t) /\ at[t] = "top" /\ Exit(t, "Synchronize", "safe")
         \/ at[t] = "main" /\ Exit(t, "Frame", "frame")
  PROVE  CoInv'
<1>1. /\ Minimum \in Nat /\ \A u \in Thread : Minimum <= clock[u]
      /\ clock' = [u \in Thread |-> clock[u] - Minimum]
  BY MinimumProps DEF CoInv, Exit
<1>2. /\ resume' = t /\ active' = Host /\ event' \in {"Frame", "Synchronize"}
      /\ \E w \in {"safe", "frame"} : at' = [at EXCEPT ![t] = w]
      /\ event' = "Synchronize" => at[t] = "top" /\ at'[t] = "safe" /\ MayStop(t)
      /\ at'[t] = "safe" => at[t] = "top"
  BY DEF Exit, CoInv, CoTypeOK
<1>3. CoTypeOK'
  <2>1. clock' \in [Thread -> Nat]
    <3>1. \A u \in Thread : clock[u] - Minimum \in Nat
      BY <1>1 DEF CoInv, CoTypeOK
    <3> QED BY <1>1, <3>1
  <2>2. at' \in [Thread -> {"top", "main", "safe", "frame"}]
    BY <1>2 DEF CoInv, CoTypeOK
  <2> QED BY <1>2, <2>1, <2>2 DEF CoInv, CoTypeOK
<1>4. WhoRuns'
  BY <1>2, Runs DEF CoInv, WhoRuns
<1>5. SafePoints' /\ StaysSafe' /\ ModeOfLoop'
  BY <1>2, RunsKeepsSafe DEF CoInv, CoTypeOK
<1>6. RaisedByTheOne'
  BY <1>2, Runs DEF RaisedByTheOne, MayStop, CoInv, ModeOfLoop
<1>7. NothingBegun'
  BY <1>2 DEF CoInv, CoTypeOK, NothingBegun
<1>8. CaughtUp'
  <2> SUFFICES ASSUME NEW v \in Thread, NEW u \in met[v] PROVE clock'[u] >= clock'[v]
    BY DEF CaughtUp
  <2>1. u \in Thread /\ clock[u] >= clock[v] /\ clock[u] \in Nat /\ clock[v] \in Nat
    BY DEF CoInv, CoTypeOK, CaughtUp
  <2> QED BY <1>1, <2>1
<1> QED BY <1>3, <1>4, <1>5, <1>6, <1>7, <1>8 DEF CoInv

LEMMA TopKeeps ==
  ASSUME CoInv, NEW t \in Thread, Top(t)
  PROVE  CoInv'
<1>1. CASE MayStop(t)
  BY <1>1, ExitKeeps DEF Top
<1>2. CASE ~MayStop(t)
  <2>1. /\ at' = [at EXCEPT ![t] = "main"] /\ active = t
        /\ UNCHANGED <<host, active, resume, mode, event, queue, clock, work, list, met>>
    BY <1>2 DEF Top
  <2>2. CoTypeOK' /\ WhoRuns' /\ NothingBegun' /\ CaughtUp'
    BY <2>1 DEF CoInv, CoTypeOK, WhoRuns, NothingBegun, CaughtUp
  <2>3. SafePoints' /\ StaysSafe' /\ ModeOfLoop'
    BY <2>1, RunsKeepsSafe DEF CoInv, CoTypeOK
  <2>4. RaisedByTheOne'
    BY <2>1, Runs DEF RaisedByTheOne
  <2> QED BY <2>2, <2>3, <2>4 DEF CoInv
<1> QED BY <1>1, <1>2

LEMMA ResumedKeeps ==
  ASSUME CoInv, NEW t \in Thread, Resumed(t)
  PROVE  CoInv'
<1>1. /\ at' = [at EXCEPT ![t] = "main"] /\ active = t
      /\ UNCHANGED <<host, active, resume, mode, event, queue, clock, work, list, met>>
  BY DEF Resumed
<1>2. CoTypeOK' /\ WhoRuns' /\ NothingBegun' /\ CaughtUp'
  BY <1>1 DEF CoInv, CoTypeOK, WhoRuns, NothingBegun, CaughtUp
<1>3. SafePoints' /\ StaysSafe' /\ ModeOfLoop'
  BY <1>1, RunsKeepsSafe DEF CoInv, CoTypeOK
<1>4. RaisedByTheOne'
  BY <1>1, Runs DEF RaisedByTheOne
<1> QED BY <1>2, <1>3, <1>4 DEF CoInv

\* A clock that goes ahead leaves only its own thread's targets behind: they are forgotten.
LEMMA StepKeeps ==
  ASSUME CoInv, NEW t \in Thread, Step(t)
  PROVE  CoInv'
<1>1. PICK n \in 1..(MaxWork - work[t]) :
        clock' = [clock EXCEPT ![t] = @ + n] /\ work' = [work EXCEPT ![t] = @ + n]
  BY DEF Step
<1>2. n \in Nat
  BY <1>1, ThreadsAssumption DEF CoInv, CoTypeOK
<1>3. /\ active = t /\ at[t] = "main" /\ met' = [met EXCEPT ![t] = {}]
      /\ UNCHANGED <<host, active, resume, mode, event, at, queue, list>>
  BY DEF Step, coVars
<1>4. CoTypeOK'
  BY <1>1, <1>2, <1>3 DEF CoInv, CoTypeOK
<1>5. WhoRuns' /\ RaisedByTheOne' /\ NothingBegun'
  BY <1>1, <1>3 DEF CoInv, CoTypeOK, WhoRuns, RaisedByTheOne, NothingBegun
<1>6. SafePoints' /\ StaysSafe' /\ ModeOfLoop'
  BY <1>3, RunsKeepsSafe
<1>7. CaughtUp'
  <2> SUFFICES ASSUME NEW v \in Thread, NEW u \in met'[v] PROVE clock'[u] >= clock'[v]
    BY DEF CaughtUp
  <2>1. v # t /\ u \in met[v]
    BY <1>3 DEF CoInv, CoTypeOK
  <2>2. u \in Thread /\ clock[u] >= clock[v] /\ clock[u] \in Nat /\ clock[v] \in Nat
    BY <2>1 DEF CoInv, CoTypeOK, CaughtUp
  <2>3. clock'[v] = clock[v] /\ clock'[u] >= clock[u]
    BY <1>1, <1>2, <2>1, <2>2 DEF CoInv, CoTypeOK
  <2> QED BY <2>2, <2>3, <1>4 DEF CoTypeOK
<1> QED BY <1>4, <1>5, <1>6, <1>7 DEF CoInv

LEMMA SynchronizeKeeps ==
  ASSUME CoInv, NEW t \in Thread, NEW l \in Lists[t], Synchronize(t, l)
  PROVE  CoInv'
<1>1. /\ active = t /\ at[t] = "main" /\ list' = [list EXCEPT ![t] = l]
      /\ UNCHANGED <<host, active, resume, mode, event, at, queue, clock, work, met>>
  BY DEF Synchronize, coVars
<1>2. l \in Seq(Thread)
  BY ThreadsAssumption
<1>3. CoTypeOK' /\ WhoRuns' /\ RaisedByTheOne' /\ NothingBegun' /\ CaughtUp'
  BY <1>1, <1>2 DEF CoInv, CoTypeOK, WhoRuns, RaisedByTheOne, NothingBegun, CaughtUp
<1>4. SafePoints' /\ StaysSafe' /\ ModeOfLoop'
  BY <1>1, RunsKeepsSafe
<1> QED BY <1>3, <1>4 DEF CoInv

\* In a save nobody switches: the target's coroutine is not run.
LEMMA SwitchKeeps ==
  ASSUME CoInv, NEW t \in Thread, Switch(t)
  PROVE  CoInv'
<1> DEFINE u == Head(list[t])
<1>1. /\ active = t /\ active' = u /\ ~Synchronizing
      /\ UNCHANGED <<host, resume, mode, event, at, queue, clock, work, list, met>>
  BY DEF Switch, MustSwitch
<1>2. u \in Thread
  BY HeadIsIn DEF CoInv, CoTypeOK, Switch
<1> HIDE DEF u
<1>3. host \in {"run", "savePrimary"}
  BY <1>1, Runs DEF CoInv, ModeOfLoop, Synchronizing
<1>4. CoTypeOK' /\ WhoRuns' /\ NothingBegun' /\ CaughtUp'
  BY <1>1, <1>2, <1>3 DEF CoInv, CoTypeOK, WhoRuns, NothingBegun, CaughtUp
<1>5. SafePoints' /\ StaysSafe' /\ ModeOfLoop'
  BY <1>1, RunsKeepsSafe
<1>6. RaisedByTheOne'
  BY <1>1, <1>2, ThreadsAssumption DEF RaisedByTheOne
<1> QED BY <1>4, <1>5, <1>6 DEF CoInv

LEMMA NextTargetKeeps ==
  ASSUME CoInv, NEW t \in Thread, NextTarget(t)
  PROVE  CoInv'
<1> DEFINE u == Head(list[t])
           found == IF Synchronizing THEN {} ELSE {u}
<1>1. /\ active = t /\ at[t] = "main" /\ list[t] # <<>>
      /\ ~MustSwitch(t, u)
      /\ list' = [list EXCEPT ![t] = Tail(@)]
      /\ met' = [met EXCEPT ![t] = @ \cup found]
      /\ UNCHANGED <<host, active, resume, mode, event, at, queue, clock, work>>
  BY DEF NextTarget, coVars
<1>2. u \in Thread /\ Tail(list[t]) \in Seq(Thread)
  BY <1>1, HeadIsIn DEF CoInv, CoTypeOK
<1>3. \A v \in found : v \in Thread /\ clock[v] >= clock[t]
  BY <1>1, <1>2 DEF MustSwitch, CoInv, CoTypeOK
<1> HIDE DEF u, found
<1>4. CoTypeOK'
  BY <1>1, <1>2, <1>3 DEF CoInv, CoTypeOK
<1>5. WhoRuns' /\ RaisedByTheOne' /\ NothingBegun'
  BY <1>1 DEF CoInv, CoTypeOK, WhoRuns, RaisedByTheOne, NothingBegun
<1>6. SafePoints' /\ StaysSafe' /\ ModeOfLoop'
  BY <1>1, RunsKeepsSafe
<1>7. CaughtUp'
  BY <1>1, <1>3 DEF CoInv, CoTypeOK, CaughtUp
<1> QED BY <1>4, <1>5, <1>6, <1>7 DEF CoInv

LEMMA FrameKeeps ==
  ASSUME CoInv, NEW t \in Thread, Frame(t)
  PROVE  CoInv'
BY ExitKeeps DEF Frame

LEMMA ReturnKeeps ==
  ASSUME CoInv, NEW t \in Thread, Return(t)
  PROVE  CoInv'
<1>1. /\ active = t /\ list[t] = <<>>
      /\ at' = [at EXCEPT ![t] = "top"] /\ work' = [work EXCEPT ![t] = 0]
      /\ met' = [met EXCEPT ![t] = {}]
      /\ UNCHANGED <<host, active, resume, mode, event, queue, clock, list>>
  BY DEF Return
<1>2. CoTypeOK' /\ WhoRuns' /\ NothingBegun' /\ CaughtUp'
  BY <1>1 DEF CoInv, CoTypeOK, WhoRuns, NothingBegun, CaughtUp
<1>3. SafePoints' /\ StaysSafe' /\ ModeOfLoop'
  BY <1>1, RunsKeepsSafe DEF CoInv, CoTypeOK
<1>4. RaisedByTheOne'
  BY <1>1, Runs DEF RaisedByTheOne
<1> QED BY <1>2, <1>3, <1>4 DEF CoInv

-----------------------------------------------------------------------------
(* The host.                                                               *)

\* What enter() does never moves a thread or its clock.
HostStep == UNCHANGED <<at, clock, work, list, met>>

LEMMA HostKeeps ==
  ASSUME CoInv, HostStep
  PROVE  NothingBegun' /\ CaughtUp'
BY DEF HostStep, CoInv, NothingBegun, CaughtUp

LEMMA EnterKeeps ==
  ASSUME CoInv, EnterRun \/ EnterSynchronize
  PROVE  CoInv'
<1>1. /\ host = "on" /\ active' = resume /\ resume' = resume
      /\ \/ host' = "run" /\ mode' = "Run"
         \/ host' = "savePrimary" /\ mode' = "SynchronizePrimary"
      /\ UNCHANGED <<event, queue>> /\ HostStep
  BY DEF EnterRun, EnterSynchronize, SwitchTo, HostStep
<1>2. active' # Host
  BY <1>1, ThreadsAssumption DEF CoInv, CoTypeOK
<1>3. CoTypeOK' /\ WhoRuns' /\ ModeOfLoop' /\ RaisedByTheOne' /\ SafePoints' /\ StaysSafe'
  BY <1>1, <1>2 DEF HostStep, CoInv, CoTypeOK, WhoRuns, ModeOfLoop, RaisedByTheOne, SafePoints,
     StaysSafe
<1> QED BY <1>1, <1>3, HostKeeps DEF CoInv

LEMMA RunReturnsKeeps ==
  ASSUME CoInv, RunReturns
  PROVE  CoInv'
BY DEF RunReturns, coVars, CoInv, CoTypeOK, WhoRuns, ModeOfLoop, RaisedByTheOne, NothingBegun,
   SafePoints, Synchronizing, StaysSafe, CaughtUp

LEMMA PrimaryReturnsKeeps ==
  ASSUME CoInv, PrimaryReturns
  PROVE  CoInv'
<1>1. CASE event = "Synchronize"
  <2>1. /\ host = "savePrimary" /\ active = Host /\ at[Primary] = "safe"
        /\ host' = "nextThread" /\ queue' = Threads
        /\ UNCHANGED <<active, resume, mode, event>> /\ HostStep
    BY <1>1 DEF PrimaryReturns, HostStep, CoInv, RaisedByTheOne
  <2>2. StaysSafe'
    BY <2>1, ThreadsAssumption DEF StaysSafe, HostStep
  <2>3. CoTypeOK' /\ WhoRuns' /\ ModeOfLoop' /\ RaisedByTheOne' /\ SafePoints'
    BY <2>1, ThreadsAssumption DEF HostStep, CoInv, CoTypeOK, WhoRuns, ModeOfLoop,
       RaisedByTheOne, SafePoints
  <2> QED BY <2>1, <2>2, <2>3, HostKeeps DEF CoInv
<1>2. CASE event # "Synchronize"
  <2>1. /\ host = "savePrimary" /\ active' = resume
        /\ UNCHANGED <<host, resume, mode, event, queue>> /\ HostStep
    BY <1>2 DEF PrimaryReturns, SwitchTo, HostStep
  <2>2. CoTypeOK' /\ WhoRuns' /\ ModeOfLoop' /\ RaisedByTheOne' /\ SafePoints' /\ StaysSafe'
    BY <1>2, <2>1 DEF HostStep, CoInv, CoTypeOK, WhoRuns, ModeOfLoop, RaisedByTheOne, SafePoints,
       StaysSafe
  <2> QED BY <2>1, <2>2, HostKeeps DEF CoInv
<1> QED BY <1>1, <1>2

LEMMA NextThreadKeeps ==
  ASSUME CoInv, NextThread
  PROVE  CoInv'
<1>1. /\ host = "nextThread" /\ queue # <<>> /\ Head(queue) # Primary
      /\ host' = "saveThread" /\ mode' = "SynchronizeAuxiliary"
      /\ resume' = Head(queue) /\ active' = Head(queue)
      /\ UNCHANGED <<event, queue>> /\ HostStep
  BY DEF NextThread, SwitchTo, HostStep
<1>2. Head(queue) \in Thread /\ Head(queue) # Host
  BY <1>1, HeadIsIn, ThreadsAssumption DEF CoInv, CoTypeOK
<1>3. CoTypeOK' /\ WhoRuns' /\ ModeOfLoop' /\ RaisedByTheOne' /\ SafePoints' /\ StaysSafe'
  BY <1>1, <1>2 DEF HostStep, CoInv, CoTypeOK, WhoRuns, ModeOfLoop, RaisedByTheOne, SafePoints,
     StaysSafe
<1> QED BY <1>1, <1>3, HostKeeps DEF CoInv

\* The thread that the save has done with is safe, or it is the primary.
LEMMA DoneKeeps ==
  ASSUME CoInv, HostStep, host \in {"nextThread", "saveThread"}, active = Host,
         queue # <<>>, Head(queue) = Primary \/ at[Head(queue)] = "safe",
         host' = "nextThread", queue' = Tail(queue), UNCHANGED <<active, resume, mode, event>>
  PROVE  CoInv'
<1>1. Tail(queue) \in Seq(Thread)
  BY HeadIsIn DEF CoInv, CoTypeOK
<1>2. StaysSafe'
  <2> SUFFICES ASSUME NEW t \in Thread, at[t] # "safe"
               PROVE  t # Primary /\ \E i \in DOMAIN Tail(queue) : Tail(queue)[i] = t
    BY DEF StaysSafe, HostStep
  <2>1. t # Primary /\ \E i \in DOMAIN queue : queue[i] = t
    BY DEF CoInv, StaysSafe
  <2>2. t # Head(queue)
    BY <2>1
  <2> QED BY <2>1, <2>2, HeadIsIn DEF CoInv, CoTypeOK
<1>3. CoTypeOK' /\ WhoRuns' /\ ModeOfLoop' /\ RaisedByTheOne' /\ SafePoints'
  BY <1>1 DEF HostStep, CoInv, CoTypeOK, WhoRuns, ModeOfLoop, RaisedByTheOne, SafePoints
<1> QED BY <1>2, <1>3, HostKeeps DEF CoInv

LEMMA SkipPrimaryKeeps ==
  ASSUME CoInv, SkipPrimary
  PROVE  CoInv'
<1>1. active = Host
  BY DEF SkipPrimary, CoInv, WhoRuns
<1> QED BY <1>1, DoneKeeps DEF SkipPrimary, coVars, HostStep

LEMMA ThreadReturnsKeeps ==
  ASSUME CoInv, ThreadReturns
  PROVE  CoInv'
<1>1. CASE event = "Synchronize"
  <2>1. queue # <<>> /\ at[Head(queue)] = "safe"
    BY <1>1 DEF ThreadReturns, CoInv, WhoRuns, RaisedByTheOne
  <2> QED BY <1>1, <2>1, DoneKeeps DEF ThreadReturns, HostStep
<1>2. CASE event # "Synchronize"
  <2>1. /\ host = "saveThread" /\ active' = resume
        /\ UNCHANGED <<host, resume, mode, event, queue>> /\ HostStep
    BY <1>2 DEF ThreadReturns, SwitchTo, HostStep
  <2>2. CoTypeOK' /\ WhoRuns' /\ ModeOfLoop' /\ RaisedByTheOne' /\ SafePoints' /\ StaysSafe'
    BY <1>2, <2>1 DEF HostStep, CoInv, CoTypeOK, WhoRuns, ModeOfLoop, RaisedByTheOne, SafePoints,
       StaysSafe
  <2> QED BY <2>1, <2>2, HostKeeps DEF CoInv
<1> QED BY <1>1, <1>2

LEMMA SavedKeeps ==
  ASSUME CoInv, Saved
  PROVE  CoInv'
<1>1. /\ host = "nextThread" /\ queue = <<>> /\ host' = "on"
      /\ UNCHANGED <<active, resume, mode, event, queue>> /\ HostStep
  BY DEF Saved, coVars, HostStep
<1>2. \A t \in Thread : at[t] = "safe" /\ work[t] = 0 /\ list[t] = <<>>
  BY <1>1 DEF CoInv, StaysSafe, NothingBegun
<1>3. SafePoints'
  BY <1>1, <1>2 DEF SafePoints, HostStep
<1>4. CoTypeOK' /\ WhoRuns' /\ ModeOfLoop' /\ RaisedByTheOne' /\ StaysSafe'
  BY <1>1 DEF HostStep, CoInv, CoTypeOK, WhoRuns, ModeOfLoop, RaisedByTheOne, StaysSafe
<1> QED BY <1>1, <1>3, <1>4, HostKeeps DEF CoInv

LEMMA PowerKeeps ==
  ASSUME CoInv, Power
  PROVE  CoInv'
<1>1. CoTypeOK'
  BY ThreadsAssumption DEF Power, CoInv, CoTypeOK
<1>2. WhoRuns' /\ ModeOfLoop' /\ RaisedByTheOne' /\ NothingBegun'
  BY DEF Power, CoInv, WhoRuns, ModeOfLoop, RaisedByTheOne, NothingBegun
<1>3. SafePoints' /\ StaysSafe' /\ CaughtUp'
  BY DEF Power, SafePoints, StaysSafe, CaughtUp
<1> QED BY <1>1, <1>2, <1>3 DEF CoInv

-----------------------------------------------------------------------------
LEMMA InitCo == Init => CoInv
<1> SUFFICES ASSUME Init PROVE CoInv
  OBVIOUS
<1>1. CoTypeOK
  BY ThreadsAssumption DEF Init, CoTypeOK
<1> QED BY <1>1 DEF Init, CoInv, WhoRuns, ModeOfLoop, RaisedByTheOne, NothingBegun, SafePoints,
   Synchronizing, StaysSafe, CaughtUp

LEMMA CoStep ==
  ASSUME CoInv, [Next]_vars
  PROVE  CoInv'
<1>1. CASE EnterRun \/ EnterSynchronize
  BY <1>1, EnterKeeps
<1>2. CASE Power
  BY <1>2, PowerKeeps
<1>3. CASE Entered
  BY <1>3, RunReturnsKeeps, PrimaryReturnsKeeps, NextThreadKeeps, SkipPrimaryKeeps,
     ThreadReturnsKeeps, SavedKeeps DEF Entered
<1>4. CASE \E t \in Thread : \/ Top(t) \/ Resumed(t) \/ Step(t) \/ Switch(t) \/ NextTarget(t)
                             \/ Frame(t) \/ Return(t) \/ \E l \in Lists[t] : Synchronize(t, l)
  BY <1>4, TopKeeps, ResumedKeeps, StepKeeps, SwitchKeeps, NextTargetKeeps, FrameKeeps,
     ReturnKeeps, SynchronizeKeeps
<1>5. CASE UNCHANGED vars
  BY <1>5 DEF vars, coVars, CoInv, CoTypeOK, WhoRuns, ModeOfLoop, RaisedByTheOne, NothingBegun,
     SafePoints, Synchronizing, StaysSafe, CaughtUp
<1> QED BY <1>1, <1>2, <1>3, <1>4, <1>5 DEF Next

\* The invariant behind the theorems below: who runs, in which mode and since which event,
\* for any threads, any order of them and any call lists.
THEOREM CoCorrect == Spec => []CoInv
<1>1. CoInv /\ [Next]_vars => CoInv'
  BY CoStep
<1> QED BY InitCo, <1>1, PTL DEF Spec

\* A state is saved with every coroutine at the top of its loop.
THEOREM AlwaysSafePoints == Spec => []SafePoints
<1>1. CoInv => SafePoints BY DEF CoInv
<1> QED BY <1>1, CoCorrect, PTL

\* A thread that reached its safe point is not run while the save looks after the others.
THEOREM AlwaysStaysSafe == Spec => []StaysSafe
<1>1. CoInv => StaysSafe BY DEF CoInv
<1> QED BY <1>1, CoCorrect, PTL

\* What synchronize() found caught up stays so until its caller steps, whatever frames end
\* and whatever saves begin in between.
THEOREM AlwaysCaughtUp == Spec => []CaughtUp
<1>1. CoInv => CaughtUp BY DEF CoInv
<1> QED BY <1>1, CoCorrect, PTL
=============================================================================
