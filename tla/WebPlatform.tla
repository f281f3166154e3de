---------------------------- MODULE WebPlatform ----------------------------
(***************************************************************************)
(* The library that a page embeds (target-web/web.cpp and platform.cpp):   *)
(* one current emulator, a main loop that the browser drives once per      *)
(* animation frame, and state saves, which are not taken when they are     *)
(* asked for but scheduled for the end of the next run().                  *)
(*                                                                         *)
(* JavaScript has one thread: an API call is made either by a task of its  *)
(* own or by a callback of the run() that is going on.                     *)
(***************************************************************************)
EXTENDS Naturals, Sequences

CONSTANTS
  Emulator,     \* the emulation cores
  Game,         \* the games that can be loaded
  Null,         \* nullptr, emscripten::val::null()
  TaskCalls,    \* the API calls that the page makes from its own tasks
  FrameCalls,   \* ... from its frame.start and frame.end listeners
  ResizeCalls,  \* ... from its resize listener, called while a frame is drawn
  Throws,       \* the places of run() from which an exception may come
  MaxSaves,     \* bound: state saves asked for
  MaxDepth      \* bound: runs on the stack

VARIABLES
  emulator,     \* WebPlatform::emulator
  loaded,       \* loaded[e]: the game in e's System
  started,      \* WebPlatform::started
  running,      \* WebPlatform::running
  loop,         \* a main loop is set: the browser may call run() in its frames
  frames,       \* the browser goes on calling the loop: no exception has left it
  elapsed,      \* 16 ms have passed since lastExecution
  scheduled,    \* scheduledStateSave: the save it belongs to
  calls,        \* where each run() on the C++ stack is, outermost first
  asked,        \* the game that was current when each save was asked for
  answers       \* history: the saves whose callback was called, with the game

vars == <<emulator, loaded, started, running, loop, frames, elapsed, scheduled, calls,
          asked, answers>>

ApiCalls == {"setEmulator", "load", "unload", "start", "stop", "run", "stateSave"}
Places == {"frameStart", "emulate", "frameEnd", "save"}

ASSUME ConstantAssumption ==
  /\ Null \notin Emulator \cup Game \cup Nat
  /\ TaskCalls \cup FrameCalls \cup ResizeCalls \subseteq ApiCalls
  /\ Throws \subseteq {"frameStart", "emulate", "frameEnd"}
  /\ MaxSaves \in Nat /\ MaxDepth \in Nat \ {0}

CurrentGame == IF emulator = Null THEN Null ELSE loaded[emulator]

\* An emulator is selected and has no game: its System cannot run or be saved.
NoGame == emulator # Null /\ CurrentGame = Null

\* Who may call: a task of the page while no run() is going on, or the
\* listener that the innermost run() is calling.
MayCall(c) ==
  \/ calls = <<>> /\ c \in TaskCalls
  \/ calls # <<>> /\ LET at == calls[Len(calls)] IN
       \/ at \in {"frameStart", "frameEnd"} /\ c \in FrameCalls
       \/ at = "emulate" /\ c \in ResizeCalls

At(place) == calls # <<>> /\ calls[Len(calls)] = place
GoTo(place) == calls' = [calls EXCEPT ![Len(calls)] = place]

-----------------------------------------------------------------------------
(* Games.                                                                  *)

\* setEmulator forgets the emulator it replaces, which stays loaded; a name
\* that no emulator has leaves none.
SetEmulator ==
  /\ MayCall("setEmulator")
  /\ emulator' \in Emulator \cup {Null}
  /\ UNCHANGED <<loaded, started, running, loop, frames, elapsed,
                 scheduled, calls, asked, answers>>

\* Without an emulator load() only returns null.
Load(g) ==
  /\ MayCall("load")
  /\ loaded' = [e \in Emulator |-> IF e = emulator THEN g ELSE loaded[e]]
  /\ UNCHANGED <<emulator, started, running, loop, frames, elapsed,
                 scheduled, calls, asked, answers>>

\* unload() and terminate() stop a started emulator first.
Unload ==
  /\ MayCall("unload")
  /\ started' = FALSE
  /\ loop' = (loop /\ ~started)
  /\ loaded' = [e \in Emulator |-> IF e = emulator THEN Null ELSE loaded[e]]
  /\ emulator' = Null
  /\ UNCHANGED <<running, frames, elapsed, scheduled, calls, asked, answers>>

-----------------------------------------------------------------------------
(* The main loop.                                                          *)

Start ==
  /\ MayCall("start") /\ ~started
  /\ started' = TRUE /\ loop' = TRUE /\ frames' = TRUE /\ elapsed' = TRUE
  /\ UNCHANGED <<emulator, loaded, running, scheduled, calls, asked, answers>>

Stop ==
  /\ MayCall("stop") /\ started
  /\ started' = FALSE /\ loop' = FALSE
  /\ UNCHANGED <<emulator, loaded, running, frames, elapsed,
                 scheduled, calls, asked, answers>>

\* A save of a stopped emulator borrows the main loop "for one cycle".
StateSave_Now ==
  /\ MayCall("stateSave") /\ Len(asked) < MaxSaves
  /\ asked' = Append(asked, CurrentGame)
  /\ answers' = IF emulator = Null THEN answers
                ELSE Append(answers, [save |-> Len(asked) + 1, game |-> CurrentGame])
  /\ UNCHANGED <<emulator, loaded, started, running, loop, frames, elapsed,
                 scheduled, calls>>

StateSave ==
  /\ MayCall("stateSave") /\ Len(asked) < MaxSaves
  /\ asked' = Append(asked, CurrentGame)
  /\ scheduled' = Len(asked) + 1
  /\ loop' = (loop \/ ~started) /\ frames' = (frames \/ ~started)
  /\ UNCHANGED <<emulator, loaded, started, running, elapsed, calls, answers>>

\* web.cpp run(): nothing within 16 ms of the last run; otherwise it calls
\* WebPlatform::run(), which does nothing while another one is going on.
Enter_Nested ==
  /\ elapsed /\ Len(calls) < MaxDepth
  /\ elapsed' = FALSE
  /\ IF emulator # Null
     THEN running' = TRUE /\ calls' = Append(calls, "frameStart")
     ELSE calls' = Append(calls, "save") /\ UNCHANGED running

Enter ==
  /\ elapsed /\ Len(calls) < MaxDepth
  /\ elapsed' = FALSE
  /\ IF emulator # Null /\ ~running
     THEN running' = TRUE /\ calls' = Append(calls, "frameStart")
     ELSE calls' = Append(calls, "save") /\ UNCHANGED running

\* The browser's animation frame.
AnimationFrame ==
  /\ loop /\ calls = <<>>
  /\ Enter
  /\ UNCHANGED <<emulator, loaded, started, loop, frames, scheduled, asked, answers>>

\* The page calls run() itself.
Run ==
  /\ MayCall("run")
  /\ Enter
  /\ UNCHANGED <<emulator, loaded, started, loop, frames, scheduled, asked, answers>>

\* The frame.start listeners return and System::run() begins, ...
FrameStart ==
  /\ At("frameStart") /\ CurrentGame # Null
  /\ GoTo("emulate")
  /\ UNCHANGED <<emulator, loaded, started, running, loop, frames, elapsed,
                 scheduled, asked, answers>>

\* ... it returns, ...
Emulate ==
  /\ At("emulate") /\ GoTo("frameEnd")
  /\ UNCHANGED <<emulator, loaded, started, running, loop, frames, elapsed,
                 scheduled, asked, answers>>

\* ... and the frame.end listeners do.
FrameEnd ==
  /\ At("frameEnd") /\ GoTo("save")
  /\ running' = FALSE
  /\ UNCHANGED <<emulator, loaded, started, loop, frames, elapsed,
                 scheduled, asked, answers>>

\* WebPlatform::stateSave calls back with the state of the current game; with
\* no emulator it returns, and the callback is dropped.
Answered == IF scheduled = Null \/ emulator = Null THEN answers
            ELSE Append(answers, [save |-> scheduled, game |-> CurrentGame])

ScheduledAfter_Kept == scheduled

ScheduledAfter == Null

\* emscripten_cancel_main_loop, unless the emulator is started.
LoopAfter_Cancelled == FALSE

LoopAfter_Kept == loop

LoopAfter == loop /\ started

Finish ==
  /\ At("save") /\ (scheduled # Null => ~NoGame)
  /\ answers' = Answered
  /\ scheduled' = ScheduledAfter
  /\ loop' = LoopAfter
  /\ calls' = SubSeq(calls, 1, Len(calls) - 1)
  /\ UNCHANGED <<emulator, loaded, started, running, frames, elapsed, asked>>

\* What a listener throws, and the trap of a System without a game (or of the null
\* emulator a frame.start listener has unloaded), leave every run() on the stack
\* as it is; the listener of an outer run() may catch it.  One that nobody catches
\* leaves the main loop's callback too, which then asks for no other frame.
Throw ==
  /\ calls # <<>>
  /\ \/ calls[Len(calls)] \in Throws
     \/ At("frameStart") /\ CurrentGame = Null
     \/ At("save") /\ scheduled # Null /\ NoGame
  /\ \E n \in 0..(Len(calls) - 1) : /\ calls' = SubSeq(calls, 1, n)
                                   /\ frames' = (frames /\ n # 0)
  /\ UNCHANGED <<emulator, loaded, started, running, loop, elapsed,
                 scheduled, asked, answers>>

Tick ==
  /\ ~elapsed /\ elapsed' = TRUE
  /\ UNCHANGED <<emulator, loaded, started, running, loop, frames,
                 scheduled, calls, asked, answers>>

-----------------------------------------------------------------------------
Init ==
  /\ emulator = Null /\ loaded = [e \in Emulator |-> Null]
  /\ started = FALSE /\ running = FALSE /\ loop = FALSE /\ frames = FALSE
  /\ elapsed = TRUE /\ scheduled = Null /\ calls = <<>> /\ asked = <<>> /\ answers = <<>>

Api == \/ SetEmulator \/ Unload \/ Start \/ Stop \/ StateSave \/ Run
       \/ \E g \in Game : Load(g)

Body == FrameStart \/ Emulate \/ FrameEnd \/ Finish \/ Throw

Next == Api \/ AnimationFrame \/ Body \/ Tick

Spec == Init /\ [][Next]_vars

\* Time passes, listeners and frames return or throw, and the browser draws the frames
\* that it was asked for.  Whether it calls a loop that has thrown again is open: it
\* may, and need not.
NextFrame == frames /\ AnimationFrame
Fairness == WF_vars(Tick) /\ WF_vars(NextFrame) /\ WF_vars(Body)
FairSpec == Spec /\ Fairness

-----------------------------------------------------------------------------
(* Properties.                                                             *)

Saves == 1..MaxSaves

TypeOK ==
  /\ emulator \in Emulator \cup {Null}
  /\ loaded \in [Emulator -> Game \cup {Null}]
  /\ {started, running, loop, frames, elapsed} \subseteq BOOLEAN
  /\ scheduled \in Saves \cup {Null}
  /\ calls \in Seq(Places) /\ Len(calls) <= MaxDepth
  /\ asked \in Seq(Game \cup {Null}) /\ Len(asked) <= MaxSaves
  /\ answers \in Seq([save : Saves, game : Game])

\* System::run() is never entered while a frame is being drawn, though a
\* listener calls run(): one run() at most is in a frame, and running says so.
OneFrame ==
  /\ (\E i \in DOMAIN calls : calls[i] # "save") => running
  /\ \A i, j \in DOMAIN calls : calls[i] # "save" /\ calls[j] # "save" => i = j

\* A started emulator has its main loop, whatever stops, saves and restarts
\* came from tasks and listeners, even in the middle of a run() or of one that an
\* exception cut short.
StartedLoops == started => loop

\* The loop of an emulator that is not started is there for a save: the borrowed
\* loop ends with the cycle that served it, whoever called run() for that cycle.
BorrowedLoop == loop /\ ~started => scheduled # Null

\* No callback of stateSave is called twice.
AnsweredOnce ==
  \A i, j \in DOMAIN answers : answers[i].save = answers[j].save => i = j

\* The state is serialized between two frames, never inside one, though a
\* listener asked for it there: the chips are run to safe points from outside.
SavedBetweenFrames ==
  [][answers' # answers => \A i \in DOMAIN calls : calls[i] # "emulate"]_vars

\* The loop borrowed by a save is given back, unless the emulator gets started, the
\* page selects an emulator and loads no game (its listeners may catch the trap and
\* call run() for ever), or an exception leaves the loop before the save is served.
BorrowedLoopEnds == loop /\ ~started ~> ~loop \/ started \/ NoGame \/ ~frames

\* api.d.ts, stateSave: "Take a snapshot of the current game's state": the state
\* that answers a save is that of the game it was asked for.
SnapshotOfGame ==
  \A i \in DOMAIN answers : LET g == asked[answers[i].save] IN
    g # Null => answers[i].game = g
=============================================================================
