---------------------------- MODULE CoScheduler ----------------------------
(***************************************************************************)
(* The scheduler of the builds that have coroutines (emulator/scheduler).  *)
(* Each chip runs on a stack of its own and hands over by co_switch, in    *)
(* the middle of its main(): Thread::synchronize() switches to whoever is  *)
(* behind until nobody is.  Scheduler::exit() leaves for the host from     *)
(* wherever the chip is, and the next enter() goes on there.               *)
(*                                                                         *)
(* One action is what a coroutine does between two points at which another *)
(* one, or the host, may look at it.                                       *)
(***************************************************************************)
EXTENDS Integers, Sequences, FiniteSets

CONSTANTS
  Thread,    \* the appended threads
  Threads,   \* Scheduler::_threads: the order in which they were appended
  Primary,   \* the thread passed to Scheduler::power
  Renderer,  \* the one that raises Event::Frame
  Lists,     \* Lists[t]: the argument lists of synchronize(...) in t's code
  Host,      \* the coroutine of the program
  Lines,     \* the main() of the renderer that make a picture
  MaxWork,   \* bound: the clocks one main() steps
  MaxLag,    \* bound: how far a thread runs before it synchronizes those it calls
  MaxSaves   \* bound: enter(Synchronize) calls since power

VARIABLES
  host,      \* outside enter() ("on"), or in one of its loops: "run", "savePrimary",
             \* "nextThread", "saveThread"
  active,    \* co_active()
  resume,    \* Scheduler::_resume
  mode,      \* "Run", "SynchronizePrimary", "SynchronizeAuxiliary"
  event,
  queue,     \* the threads that enter(Synchronize) has still to look at
  clock,     \* without the tie-breaking unique ID
  at,        \* where a thread's coroutine is: at the "top" of the loop of Enter(), in
             \* "main" (also waiting in synchronize()), or inside exit() from either
             \* ("safe", "frame")
  work,      \* the clocks stepped by its main()
  list,      \* the targets its synchronize() has still to handle
  met,       \* the ones found caught up since it last stepped
  line, saves

coVars == <<active, resume, mode, event, at>>
vars == <<host, coVars, queue, clock, work, list, met, line, saves>>

ASSUME ThreadsAssumption ==
  /\ Threads \in Seq(Thread) /\ {Threads[i] : i \in DOMAIN Threads} = Thread
  /\ Primary \in Thread /\ Renderer \in Thread /\ Host \notin Thread
  /\ Lists \in [Thread -> SUBSET Seq(Thread)]
  /\ Lines \in Nat /\ MaxWork \in Nat \ {0} /\ MaxLag \in Nat \ {0} /\ MaxSaves \in Nat

Synchronizing == mode = "SynchronizeAuxiliary"

Minimum == CHOOSE m \in {clock[t] : t \in Thread} : \A t \in Thread : m <= clock[t]

-----------------------------------------------------------------------------
(* A coroutine.                                                            *)

\* Scheduler::exit(): clocks are counted from the thread furthest behind.
Exit(t, e, where) ==
  /\ clock' = [u \in Thread |-> clock[u] - Minimum]
  /\ event' = e
  /\ resume' = t
  /\ active' = Host
  /\ at' = [at EXCEPT ![t] = where]

\* Scheduler::synchronize(): a safe point, where the mode may say to stop.
MayStop_OthersOnly(t) == t # Primary /\ Synchronizing
MayStop_Any(t) == mode \in {"SynchronizePrimary", "SynchronizeAuxiliary"}
MayStop(t) == mode = IF t = Primary THEN "SynchronizePrimary" ELSE "SynchronizeAuxiliary"

Top(t) ==
  /\ active = t /\ at[t] = "top"
  /\ IF MayStop(t) THEN Exit(t, "Synchronize", "safe")
     ELSE /\ at' = [at EXCEPT ![t] = "main"]
          /\ UNCHANGED <<active, resume, event, clock>>
  /\ UNCHANGED <<host, mode, queue, work, list, met, line, saves>>

\* exit() returns into the coroutine that called it.
Resumed(t) ==
  /\ active = t /\ at[t] \in {"safe", "frame"}
  /\ at' = [at EXCEPT ![t] = "main"]
  /\ UNCHANGED <<host, active, resume, mode, event, queue, clock, work, list, met, line, saves>>

Calls(t, u) == \E l \in Lists[t] : \E i \in DOMAIN l : l[i] = u

\* Thread::step.  Every core synchronizes those it calls regularly; while it is
\* run to its safe point nobody waits for it to.
Step(t) ==
  /\ active = t /\ at[t] = "main" /\ list[t] = <<>>
  /\ \E n \in 1..(MaxWork - work[t]) :
       /\ Synchronizing \/ \A u \in Thread : Calls(t, u) => clock[t] + n - clock[u] <= MaxLag
       /\ clock' = [clock EXCEPT ![t] = @ + n]
       /\ work' = [work EXCEPT ![t] = @ + n]
  /\ met' = [met EXCEPT ![t] = {}]
  /\ UNCHANGED <<host, coVars, queue, list, line, saves>>

\* Thread::synchronize(u, p...)
Synchronize(t, l) ==
  /\ active = t /\ at[t] = "main" /\ list[t] = <<>> /\ l # <<>>
  /\ list' = [list EXCEPT ![t] = l]
  /\ UNCHANGED <<host, coVars, queue, clock, work, met, line, saves>>

\* The loop of synchronize(): "synchronization can begin inside of this while loop".
MustSwitch_Saving(t, u) == clock[u] < clock[t]
MustSwitch_OffByOne(t, u) == clock[u] + 1 < clock[t] /\ ~Synchronizing
MustSwitch(t, u) == clock[u] < clock[t] /\ ~Synchronizing

Switch(t) ==
  /\ active = t /\ at[t] = "main" /\ list[t] # <<>>
  /\ MustSwitch(t, Head(list[t]))
  /\ active' = Head(list[t])
  /\ UNCHANGED <<host, resume, mode, event, at, queue, clock, work, list, met, line, saves>>

NextTarget(t) ==
  /\ active = t /\ at[t] = "main" /\ list[t] # <<>>
  /\ LET u == Head(list[t]) IN
       /\ ~MustSwitch(t, u)
       /\ list' = [list EXCEPT ![t] = Tail(@)]
       /\ met' = [met EXCEPT ![t] = @ \cup (IF Synchronizing THEN {} ELSE {u})]
  /\ UNCHANGED <<host, coVars, queue, clock, work, line, saves>>

\* The picture is complete: scheduler.exit(Event::Frame), in the middle of main().
Frame(t) ==
  /\ t = Renderer /\ line = Lines
  /\ active = t /\ at[t] = "main" /\ list[t] = <<>> /\ work[t] > 0
  /\ Exit(t, "Frame", "frame")
  /\ line' = 0
  /\ UNCHANGED <<host, mode, queue, work, list, met, saves>>

Return(t) ==
  /\ active = t /\ at[t] = "main" /\ list[t] = <<>> /\ work[t] > 0
  /\ IF t = Renderer THEN line < Lines /\ line' = line + 1 ELSE UNCHANGED line
  /\ at' = [at EXCEPT ![t] = "top"]
  /\ work' = [work EXCEPT ![t] = 0]
  /\ met' = [met EXCEPT ![t] = {}]
  /\ UNCHANGED <<host, active, resume, mode, event, queue, clock, list, saves>>

-----------------------------------------------------------------------------
(* The host: Scheduler::enter, and power.                                  *)

SwitchTo(t) == active' = t /\ UNCHANGED <<at, clock, work, list, met, line>>

EnterRun ==
  /\ host = "on" /\ active = Host
  /\ host' = "run" /\ mode' = "Run"
  /\ SwitchTo(resume)
  /\ UNCHANGED <<resume, event, queue, saves>>

RunReturns ==
  /\ host = "run" /\ active = Host
  /\ host' = "on"
  /\ UNCHANGED <<coVars, queue, clock, work, list, met, line, saves>>

EnterSynchronize ==
  /\ host = "on" /\ active = Host /\ saves < MaxSaves
  /\ host' = "savePrimary" /\ mode' = "SynchronizePrimary"
  /\ saves' = saves + 1
  /\ SwitchTo(resume)
  /\ UNCHANGED <<resume, event, queue>>

\* do { co_switch(_resume); } while(_event != Event::Synchronize), for the primary ...
PrimaryReturns ==
  /\ host = "savePrimary" /\ active = Host
  /\ IF event = "Synchronize"
     THEN /\ host' = "nextThread" /\ queue' = Threads
          /\ UNCHANGED <<active, at, clock, work, list, met, line>>
     ELSE SwitchTo(resume) /\ UNCHANGED <<host, queue>>
  /\ UNCHANGED <<resume, mode, event, saves>>

\* ... and for every other thread, from wherever it is.
NextThread ==
  /\ host = "nextThread" /\ queue # <<>> /\ Head(queue) # Primary
  /\ host' = "saveThread" /\ mode' = "SynchronizeAuxiliary"
  /\ resume' = Head(queue)
  /\ SwitchTo(Head(queue))
  /\ UNCHANGED <<event, queue, saves>>

SkipPrimary ==
  /\ host = "nextThread" /\ queue # <<>> /\ Head(queue) = Primary
  /\ queue' = Tail(queue)
  /\ UNCHANGED <<host, coVars, clock, work, list, met, line, saves>>

ThreadReturns ==
  /\ host = "saveThread" /\ active = Host
  /\ IF event = "Synchronize"
     THEN /\ host' = "nextThread" /\ queue' = Tail(queue)
          /\ UNCHANGED <<active, at, clock, work, list, met, line>>
     ELSE SwitchTo(resume) /\ UNCHANGED <<host, queue>>
  /\ UNCHANGED <<resume, mode, event, saves>>

Saved ==
  /\ host = "nextThread" /\ queue = <<>>
  /\ host' = "on"
  /\ UNCHANGED <<coVars, queue, clock, work, list, met, line, saves>>

\* System::power: co_derive makes every coroutine start again, Scheduler::power
\* clears the clocks and starts with the primary.
Power ==
  /\ host = "on" /\ active = Host
  /\ resume' = Primary
  /\ clock' = [t \in Thread |-> 0] /\ at' = [t \in Thread |-> "top"]
  /\ work' = [t \in Thread |-> 0] /\ list' = [t \in Thread |-> <<>>]
  /\ met' = [t \in Thread |-> {}]
  /\ line' = 0 /\ saves' = 0
  /\ UNCHANGED <<host, active, mode, event, queue>>

-----------------------------------------------------------------------------
Init ==
  /\ host = "on" /\ active = Host /\ resume = Primary
  /\ mode = "Run" /\ event = "Step" /\ queue = <<>> /\ line = 0 /\ saves = 0
  /\ clock = [t \in Thread |-> 0] /\ at = [t \in Thread |-> "top"]
  /\ work = [t \in Thread |-> 0] /\ list = [t \in Thread |-> <<>>]
  /\ met = [t \in Thread |-> {}]

\* What the host does until enter() returns.
Entered ==
  RunReturns \/ PrimaryReturns \/ NextThread \/ SkipPrimary \/ ThreadReturns \/ Saved

Next ==
  \/ EnterRun \/ EnterSynchronize \/ Power \/ Entered
  \/ \E t \in Thread :
       \/ Top(t) \/ Resumed(t) \/ Step(t) \/ Switch(t) \/ NextTarget(t)
       \/ Frame(t) \/ Return(t)
       \/ \E l \in Lists[t] : Synchronize(t, l)

Spec == Init /\ [][Next]_vars

\* Some coroutine goes on, and the code of each chip keeps reaching its steps, its
\* synchronize() calls, its end and, if it draws, the end of the picture.
Fairness ==
  /\ WF_vars(Entered \/ \E t \in Thread : Top(t) \/ Resumed(t) \/ Switch(t) \/ NextTarget(t))
  /\ SF_vars(\E t \in Thread : Step(t)) /\ SF_vars(\E t \in Thread : Return(t))
  /\ SF_vars(Frame(Renderer))
  /\ \A t \in Thread : \A l \in Lists[t] : SF_vars(Synchronize(t, l))
FairSpec == Spec /\ Fairness

-----------------------------------------------------------------------------

\* "run all threads to safe points": when enter(Synchronize) returns, every
\* coroutine, whoever was in the middle of main() and waiting for whom, is at the
\* top of its loop ("top" after a power cycle), where a state without stacks can be resumed.
SafePoints ==
  host = "on" /\ Synchronizing =>
    \A t \in Thread : at[t] \in {"safe", "top"} /\ work[t] = 0 /\ list[t] = <<>>

\* "as other threads are not run during synchronization": what has reached its safe
\* point is not run past it.
StaysSafe ==
  host \in {"nextThread", "saveThread"} =>
    \A t \in Thread : \/ at[t] = "safe"
                      \/ t # Primary /\ \E i \in DOMAIN queue : queue[i] = t

\* "ensure the specified thread(s) are caught up the current thread": what a thread
\* found caught up stays so until it steps, whoever is run in between, also by a
\* frame that ends or a save.
CaughtUp == \A t \in Thread : \A u \in met[t] : clock[u] >= clock[t]

\* Every enter(), for a frame or for a save, comes back: "this would otherwise
\* cause a deadlock".
EnterReturns == (host # "on") ~> (host = "on")
=============================================================================
