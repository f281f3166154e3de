-------------------------- MODULE SynchroScheduler --------------------------
(***************************************************************************)
(* The scheduler of the web build (emulator/scheduler-synchro): emulated   *)
(* chips are "threads" that share one C++ call stack.  A thread's main()   *)
(* steps its clock and calls Thread::synchronize(u), which re-enters u's   *)
(* main() until u has caught up; handle->parent remembers who is waiting   *)
(* for whom so that a thread asked to wait for its own caller returns      *)
(* instead of recursing.                                                   *)
(*                                                                         *)
(* One action is one operation of the scheduler on the top activation of   *)
(* the call stack, or one call of the host (System) while it is empty.     *)
(***************************************************************************)
EXTENDS Integers, Sequences, FiniteSets

CONSTANTS
  Thread,     \* every Thread object of the system and its peripherals
  Primary,    \* the thread passed to Scheduler::power (the CPU)
  Renderer,   \* the video thread, which raises hasRendered
  Boot,       \* the threads System::power creates, in its order
  Transient,  \* the threads whose handle is freed by unload or unplugging
  Hotplug,    \* the transient threads that are plugged while the system is on
  Lists,      \* Lists[t]: the argument lists of synchronize(...) in t's code
  Broadcast,  \* the threads whose code calls synchronize() with no argument
  Level,      \* Level[t]: distance of t from the primary in the call graph
  Garbage,    \* what the parent field of a malloc'ed handle may hold
  Null,       \* nullptr
  MaxWork,    \* bound: the clocks one activation of main() steps
  MaxLag,     \* bound: how far a thread runs before it synchronizes others
  Lines,      \* scanlines of a frame
  MaxSaves    \* bound: scheduler.enter(Synchronize) calls between two power-ons

VARIABLES
  host,       \* what System is doing; "run" and "save*" are inside enter()
  threads,    \* Scheduler::_threads
  mode,       \* Scheduler::_mode
  event,      \* Scheduler::_primary->event
  queue,      \* threads still to create (power) or to run (save)
  uniqueID,   \* Thread::_uniqueID
  clock,      \* Thread::_clock
  handle,     \* Thread::_handle # nullptr
  parent,     \* Thread::_handle->parent
  active,     \* Thread::_active
  rendered,   \* ppu.hasRendered
  line,       \* the scanline the renderer's next main() draws
  saves,      \* enter(Synchronize) calls since the last power-on
  stack       \* the activations of main() on the C++ stack, outermost first

threadVars == <<uniqueID, clock, handle, parent, active>>
hostVars == <<host, threads, mode, event, queue, saves>>
videoVars == <<rendered, line>>
vars == <<hostVars, threadVars, videoVars, stack>>

Hosts == {"off", "loaded", "powering", "on", "unloading", "run", "savePrimary",
          "saveOthers"}
Modes == {"Run", "SynchronizePrimary", "SynchronizeAuxiliary"}
Events == {"None", "Frame"}
Pointer == Thread \cup {Null} \cup Garbage

\* An activation of thread.main(): the clocks it stepped so far, the targets
\* its current synchronize(...) call has still to handle (the head is being
\* caught up while "waiting", its own parent saved in "saved"), and the targets
\* that call has handled since the last step.
Frame == {f \in [thread: Thread, work: 0..MaxWork, list: Seq(Thread), waiting: BOOLEAN,
                 saved: Pointer, done: SUBSET Thread] : f.waiting => f.list # <<>>}

Activation(t) == [thread |-> t, work |-> 0, list |-> <<>>, waiting |-> FALSE,
                  saved |-> Null, done |-> {}]

-----------------------------------------------------------------------------
(* The call graph.  Up: towards the primary; Down: away from it.           *)

Target(t, u) == \/ \E l \in Lists[t] : \E i \in DOMAIN l : l[i] = u
                \/ t \in Broadcast /\ u # t
Down(t, u) == Target(t, u) /\ Level[u] = Level[t] + 1
Up(t, u)   == Target(t, u) /\ Level[t] = Level[u] + 1

ASSUME ConstantAssumption ==
  /\ IsFiniteSet(Thread)
  /\ Primary \in Thread /\ Renderer \in Thread
  /\ Null \notin Thread
  /\ Boot \in Seq(Thread)
  /\ Hotplug \subseteq Transient /\ Transient \subseteq Thread
  /\ Broadcast \subseteq {Primary}
  /\ Lists \in [Thread -> SUBSET Seq(Thread)]
  /\ Level \in [Thread -> Nat]
  /\ MaxWork \in Nat \ {0} /\ MaxLag \in Nat \ {0} /\ Lines \in Nat \ {0}
  /\ MaxSaves \in Nat

\* The cores' call graphs are trees rooted at the primary: a synchronize()
\* target is one level up or down, and nobody has two neighbours above it.
ASSUME TreeAssumption ==
  /\ Level[Primary] = 0
  /\ \A t, u \in Thread : Target(t, u) => Down(t, u) \/ Up(t, u)
  /\ \A t, u, v \in Thread : /\ Up(t, u) \/ Down(u, t)
                             /\ Up(t, v) \/ Down(v, t)
                             => u = v

-----------------------------------------------------------------------------
(* Scheduler: threads and clocks.                                          *)

Appended == {threads[i] : i \in DOMAIN threads}

\* The first ID no appended thread uses.
NextUniqueID_Size == Len(threads)

NextUniqueID ==
  CHOOSE n \in 0..Cardinality(Appended) :
    /\ \A u \in Appended : uniqueID[u] # n
    /\ \A m \in 0..(n - 1) : \E u \in Appended : uniqueID[u] = m

\* minimum() and maximum(): the clock, without the tie-breaking ID, of the
\* thread furthest behind and furthest ahead.
Times == {clock[u] - uniqueID[u] : u \in Appended}
Minimum == CHOOSE m \in Times : \A n \in Times : m <= n
Maximum == CHOOSE m \in Times \cup {0} : \A n \in Times \cup {0} : n <= m

\* The clock append() gives a thread that gets the unique ID id.
AppendClock_NoID(id) == Maximum

AppendClock(id) == Maximum + id

\* Auxiliary threads do not synchronize others while the state is saved.
Synchronizing_Primary == mode = "SynchronizePrimary"

Synchronizing == mode = "SynchronizeAuxiliary"

\* Thread::create and Scheduler::append: a new handle keeps what malloc left in
\* its parent field; a thread that is appended already keeps its ID and is left
\* with a clock of 0, whatever its ID is.
Create(t) ==
  /\ handle' = [handle EXCEPT ![t] = TRUE]
  /\ IF handle[t] THEN parent' = parent
     ELSE \E p \in Garbage : parent' = [parent EXCEPT ![t] = p]
  /\ IF t \in Appended
     THEN /\ clock' = [clock EXCEPT ![t] = 0]
          /\ UNCHANGED <<threads, uniqueID>>
     ELSE /\ uniqueID' = [uniqueID EXCEPT ![t] = NextUniqueID]
          /\ clock' = [clock EXCEPT ![t] = AppendClock(NextUniqueID)]
          /\ threads' = Append(threads, t)

\* Thread::destroy and Scheduler::remove.
RemoveAt(i) == SubSeq(threads, 1, i - 1) \o SubSeq(threads, i + 1, Len(threads))

Destroy(t) ==
  /\ \/ t \notin Appended /\ UNCHANGED threads
     \/ \E i \in DOMAIN threads : threads[i] = t /\ threads' = RemoveAt(i)
  /\ handle' = [handle EXCEPT ![t] = FALSE]
  /\ parent' = [parent EXCEPT ![t] = Null]

-----------------------------------------------------------------------------
(* The host: System::load, power, unload and hot-plugged peripherals.      *)

\* System::load empties the list; the static threads keep their handles.
Load ==
  /\ host = "off"
  /\ host' = "loaded"
  /\ threads' = <<>>
  /\ UNCHANGED <<mode, event, queue, saves, threadVars, videoVars, stack>>

\* System::power creates every thread of the machine, ...
PowerOn ==
  /\ host \in {"loaded", "on"}
  /\ host' = "powering"
  /\ queue' = Boot
  /\ UNCHANGED <<threads, mode, event, saves, threadVars, videoVars, stack>>

PowerThread ==
  /\ host = "powering" /\ queue # <<>>
  /\ Create(Head(queue))
  /\ queue' = Tail(queue)
  /\ UNCHANGED <<host, mode, event, saves, active, videoVars, stack>>

\* ... restarts the picture counter, and ends with scheduler.power(cpu).
\* hasRendered is not reset.
SchedulerPower ==
  /\ host = "powering" /\ queue = <<>>
  /\ host' = "on"
  /\ clock' = [t \in Thread |-> IF t \in Appended THEN uniqueID[t] ELSE clock[t]]
  /\ line' = 0
  /\ saves' = 0
  /\ UNCHANGED <<threads, mode, event, queue, uniqueID, handle, parent, active,
                 rendered, stack>>

\* A peripheral is a new object each time: its _active is uninitialized too.
Connect(t) ==
  /\ host \in {"loaded", "on"} /\ ~handle[t]
  /\ Create(t)
  /\ \E b \in BOOLEAN : active' = [active EXCEPT ![t] = b]
  /\ UNCHANGED <<host, mode, event, queue, saves, videoVars, stack>>

Disconnect(t) ==
  /\ host \in {"loaded", "on"} /\ handle[t]
  /\ Destroy(t)
  /\ UNCHANGED <<host, mode, event, queue, saves, uniqueID, clock, active,
                 videoVars, stack>>

\* System::unload destroys the threads of the cartridge and the ports.
Unload ==
  /\ host \in {"loaded", "on"}
  /\ host' = "unloading"
  /\ UNCHANGED <<threads, mode, event, queue, saves, threadVars, videoVars, stack>>

UnloadThread(t) ==
  /\ host = "unloading" /\ handle[t]
  /\ Destroy(t)
  /\ UNCHANGED <<host, mode, event, queue, saves, uniqueID, clock, active,
                 videoVars, stack>>

Unloaded ==
  /\ host = "unloading" /\ \A t \in Transient : ~handle[t]
  /\ host' = "off"
  /\ UNCHANGED <<threads, mode, event, queue, saves, threadVars, videoVars, stack>>

-----------------------------------------------------------------------------
(* Scheduler::enter and exit.                                              *)

EnterRun ==
  /\ host = "on"
  /\ host' = "run" /\ mode' = "Run"
  /\ UNCHANGED <<threads, event, queue, saves, threadVars, videoVars, stack>>

EnterSynchronize ==
  /\ host = "on" /\ saves < MaxSaves
  /\ host' = "savePrimary" /\ mode' = "SynchronizePrimary"
  /\ saves' = saves + 1
  /\ UNCHANGED <<threads, event, queue, threadVars, videoVars, stack>>

\* The primary's main(), called by enter(): a rendered frame makes it return
\* at once with the Frame event.
PrimaryMain_NoEvent ==
  /\ host \in {"run", "savePrimary"} /\ stack = <<>> /\ queue = <<>>
  /\ event = "None"
  /\ stack' = IF rendered THEN <<>> ELSE <<Activation(Primary)>>
  /\ queue' = IF host = "savePrimary" THEN threads ELSE <<>>
  /\ UNCHANGED <<host, threads, mode, event, saves, threadVars, videoVars>>

PrimaryMain ==
  /\ host \in {"run", "savePrimary"} /\ stack = <<>> /\ queue = <<>>
  /\ event = "None"
  /\ IF rendered
     THEN rendered' = FALSE /\ event' = "Frame" /\ UNCHANGED stack
     ELSE stack' = <<Activation(Primary)>> /\ UNCHANGED <<rendered, event>>
  /\ queue' = IF host = "savePrimary" THEN threads ELSE <<>>
  /\ UNCHANGED <<host, threads, mode, saves, threadVars, line>>

\* exit(): the time of the thread furthest behind becomes 0 and the event goes
\* to System::run.
Normalized_PrimaryOnly(t) == IF t = Primary THEN clock[t] - Minimum ELSE clock[t]

Normalized(t) == clock[t] - Minimum

Exit ==
  /\ host = "run" /\ stack = <<>> /\ event # "None"
  /\ host' = "on"
  /\ clock' = [t \in Thread |-> IF t \in Appended THEN Normalized(t) ELSE clock[t]]
  /\ event' = "None"
  /\ UNCHANGED <<threads, mode, queue, saves, uniqueID, handle, parent, active,
                 videoVars, stack>>

\* After its main() has returned, whatever event the primary raised is dropped.
PrimarySaved ==
  /\ host = "savePrimary" /\ stack = <<>> /\ queue # <<>>
  /\ host' = "saveOthers"
  /\ event' = "None"
  /\ UNCHANGED <<threads, mode, queue, saves, threadVars, videoVars, stack>>

\* One main() of each other thread, in the order of the list, whatever its clock.
OtherMain ==
  /\ host = "saveOthers" /\ stack = <<>> /\ queue # <<>>
  /\ queue' = Tail(queue)
  /\ IF Head(queue) = Primary
     THEN UNCHANGED <<mode, stack>>
     ELSE /\ mode' = "SynchronizeAuxiliary"
          /\ stack' = <<Activation(Head(queue))>>
  /\ UNCHANGED <<host, threads, event, saves, threadVars, videoVars>>

Saved ==
  /\ host = "saveOthers" /\ stack = <<>> /\ queue = <<>>
  /\ host' = "on"
  /\ UNCHANGED <<threads, mode, event, queue, saves, threadVars, videoVars, stack>>

-----------------------------------------------------------------------------
(* The top activation.                                                     *)

Top == stack[Len(stack)]
SetTop(f) == [stack EXCEPT ![Len(stack)] = f]
Pop == SubSeq(stack, 1, Len(stack) - 1)
Running(t) == stack # <<>> /\ Top.thread = t

\* Thread::step.  MaxLag bounds the clocks by making the threads synchronize
\* those below them regularly, as every core's code does.
Step(t) ==
  /\ Running(t) /\ Top.list = <<>>
  /\ \E n \in 1..(MaxWork - Top.work) :
       /\ \/ Synchronizing
          \/ \A u \in Appended : Down(t, u) => clock[t] + n - clock[u] <= MaxLag
       /\ clock' = [clock EXCEPT ![t] = @ + n]
       /\ stack' = SetTop([Top EXCEPT !.work = @ + n, !.done = {}])
  /\ UNCHANGED <<hostVars, uniqueID, handle, parent, active, videoVars>>

\* Thread::synchronize(u, p...), or synchronize() with every appended thread.
Call(t, l) ==
  /\ Running(t) /\ Top.list = <<>>
  /\ l # <<>> /\ \A i \in DOMAIN l : l[i] \in Appended
  /\ stack' = SetTop([Top EXCEPT !.list = l, !.done = {}])
  /\ UNCHANGED <<hostVars, threadVars, videoVars>>

Synchronize(t) ==
  \/ \E l \in Lists[t] : Call(t, l)
  \/ t \in Broadcast /\ Call(t, threads)

\* t was called by u, which is waiting for it: synchronize(u) yields back.
YieldsBack_Never(t, u) == FALSE

YieldsBack(t, u) == parent[t] # Null /\ parent[t] = u

Yield(t) ==
  /\ Running(t) /\ Top.list # <<>> /\ ~Top.waiting
  /\ YieldsBack(t, Head(Top.list))
  /\ stack' = SetTop([Top EXCEPT !.list = Tail(@), !.done = @ \cup {Head(Top.list)}])
  /\ UNCHANGED <<hostVars, threadVars, videoVars>>

Wait(t) ==
  /\ Running(t) /\ Top.list # <<>> /\ ~Top.waiting
  /\ ~YieldsBack(t, Head(Top.list))
  /\ LET u == Head(Top.list) IN
       /\ parent' = [parent EXCEPT ![u] = t]
       /\ stack' = SetTop([Top EXCEPT !.waiting = TRUE, !.saved = parent[u]])
  /\ UNCHANGED <<hostVars, uniqueID, clock, handle, active, videoVars>>

\* The loop of synchronize() runs u.main() again.
MustCatchUp_OffByOne(t, u) == clock[u] + 1 < clock[t] /\ ~Synchronizing

MustCatchUp(t, u) == clock[u] < clock[t] /\ ~Synchronizing

CatchUp(t) ==
  /\ Running(t) /\ Top.waiting
  /\ LET u == Head(Top.list) IN
       /\ MustCatchUp(t, u)
       /\ active' = [active EXCEPT ![u] = TRUE]
       /\ stack' = Append(stack, Activation(u))
  /\ UNCHANGED <<hostVars, uniqueID, clock, handle, parent, videoVars>>

\* The loop ends: u gets back the parent it had, and the next target follows.
Restored_Missing(u, p) == parent

Restored(u, p) == [parent EXCEPT ![u] = p]

Resume(t) ==
  /\ Running(t) /\ Top.waiting
  /\ LET u == Head(Top.list) IN
       /\ ~MustCatchUp(t, u)
       /\ parent' = Restored(u, Top.saved)
       /\ stack' = SetTop([Top EXCEPT !.list = Tail(@), !.waiting = FALSE,
                                      !.saved = Null, !.done = @ \cup {u}])
  /\ UNCHANGED <<hostVars, uniqueID, clock, handle, active, videoVars>>

\* main() returns to the loop of synchronize(), which clears _active, or to
\* enter(), possibly without a step: out of lockstep the CPU and the SMP step once
\* in five.  The renderer's main() draws a line and steps by it; the last line of
\* the picture raises hasRendered.

NextLine == (line + 1) % Lines

ActiveAfter(t) == IF Len(stack) > 1 THEN [active EXCEPT ![t] = FALSE] ELSE active

Return(t) ==
  /\ Running(t) /\ Top.list = <<>>
  /\ t = Renderer => Top.work > 0
  /\ stack' = Pop
  /\ active' = ActiveAfter(t)
  /\ IF t = Renderer
     THEN /\ line' = NextLine
          /\ rendered' = (rendered \/ line = Lines - 1)
     ELSE UNCHANGED videoVars
  /\ UNCHANGED <<hostVars, uniqueID, clock, handle, parent>>

-----------------------------------------------------------------------------
Init ==
  /\ host = "off" /\ threads = <<>> /\ mode = "Run" /\ event = "None"
  /\ queue = <<>> /\ saves = 0 /\ stack = <<>>
  /\ uniqueID = [t \in Thread |-> 0]
  /\ clock = [t \in Thread |-> 0]
  /\ handle = [t \in Thread |-> FALSE]
  /\ parent = [t \in Thread |-> Null]
  /\ active = [t \in Thread |-> FALSE]
  /\ rendered = FALSE /\ line = 0

Host ==
  \/ Load \/ PowerOn \/ PowerThread \/ SchedulerPower 
  \/ Unload \/ Unloaded \/ \E t \in Transient : UnloadThread(t)
  \/ \E t \in Hotplug : Connect(t) \/ Disconnect(t)
  \/ EnterRun \/ EnterSynchronize \/ PrimaryMain \/ Exit
  \/ PrimarySaved \/ OtherMain \/ Saved

Chip ==
  \E t \in Thread : \/ Step(t) \/ Synchronize(t) \/ Yield(t) \/ Wait(t)
                    \/ CatchUp(t) \/ Resume(t) \/ Return(t)

Next == Host \/ Chip

Spec == Init /\ [][Next]_vars

-----------------------------------------------------------------------------
(* Properties.                                                             *)

TypeOK ==
  /\ host \in Hosts /\ mode \in Modes /\ event \in Events
  /\ threads \in Seq(Thread) /\ queue \in Seq(Thread)
  /\ uniqueID \in [Thread -> Nat]
  /\ clock \in [Thread -> Int]
  /\ handle \in [Thread -> BOOLEAN]
  /\ parent \in [Thread -> Pointer]
  /\ active \in [Thread -> BOOLEAN]
  /\ rendered \in BOOLEAN /\ line \in 0..(Lines - 1)
  /\ saves \in 0..MaxSaves
  /\ stack \in Seq(Frame)

\* No main() is entered while an earlier call of it is still on the C++ stack:
\* the chip would be re-entered in the middle of an instruction.  The parent
\* test of Thread::synchronize is what prevents it.
NoReentry ==
  \A i, j \in DOMAIN stack : stack[i].thread = stack[j].thread => i = j

\* When synchronize(u, ...) has returned to a chip other than the one that is
\* waiting for it, u is caught up, and stays so until the chip steps on, even
\* though other threads have run in the meantime.
CaughtUp ==
  ~Synchronizing =>
    \A i \in DOMAIN stack : \A u \in stack[i].done :
      \/ i > 1 /\ u = stack[i - 1].thread
      \/ clock[u] >= clock[stack[i].thread]

\* A thread appears once in the list and no two share an ID, through any
\* sequence of power cycles and plugging; IDs are reused, not used up.
UniqueIDs ==
  \A i, j \in DOMAIN threads :
    /\ uniqueID[threads[i]] < Cardinality(Thread)
    /\ uniqueID[threads[i]] = uniqueID[threads[j]] => i = j

\* Outside System::power no clock is below its thread's ID, where the unsigned
\* subtraction of minimum() and maximum() would wrap around.
NoUnderflow == host # "powering" => \A t \in Appended : clock[t] >= uniqueID[t]

\* A thread is at most one main() ahead of the one that waits for it, and one
\* more for every save state taken since power-on, because saving runs every
\* main() once whatever the clocks are.
Lead == LET slack == {MaxWork - 1, Len(Boot) - 1} IN
        (CHOOSE s \in slack : \A r \in slack : r <= s) + saves * MaxWork
BoundedLead ==
  host # "powering" =>
    \A t, u \in Appended : Down(t, u) => clock[u] - clock[t] <= Lead

\* While the other threads are run to their safe points nobody runs anybody
\* else: "as other threads are not run during synchronization".
SavesRunAlone == host = "saveOthers" => Len(stack) <= 1

\* With no main() on the stack no thread remembers a caller: every parent field
\* holds what it held when the handle was created.
ParentsRestored ==
  stack = <<>> => \A t \in Thread : handle[t] => parent[t] \in Garbage

\* _active tells which chips are being caught up (VDP::DMA::poll asks): those
\* above the bottom of the stack.
ActiveIsNested ==
  \A t \in Thread \ Hotplug :
    active[t] <=> \E i \in DOMAIN stack : i > 1 /\ stack[i].thread = t

\* Fairness: the chips keep executing, and the code of each keeps reaching its
\* steps, its synchronize calls and its end.
Fairness ==
  /\ WF_vars(Host /\ host # "on" /\ host # "off" /\ host # "loaded")
  /\ WF_vars(\E t \in Thread : Yield(t) \/ Wait(t) \/ CatchUp(t) \/ Resume(t))
  /\ SF_vars(\E t \in Thread : Step(t)) /\ SF_vars(\E t \in Thread : Return(t))
  /\ \A t \in Thread : \A l \in Lists[t] : SF_vars(Call(t, l))
  /\ \A t \in Broadcast : SF_vars(Call(t, threads))

FairSpec == Spec /\ Fairness

\* Every enter(Run) returns with a frame, and every save completes.
EnterReturns == host \in {"run", "savePrimary", "saveOthers"} ~> host = "on"
=============================================================================
