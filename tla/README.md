# A verification development for byuu-web

byuu-web runs the higan emulation cores in a browser. It replaces higan's
coroutine scheduler by one that needs a single C++ stack, and adds a library
(`byuu.load`, `byuu.start`, `byuu.stateSave`, ...) that a page embeds, with a
reference page. This is new code, and it is about order: who runs when, inside
whom, and what is still true afterwards. Below it lie `nall`'s containers, files
and handles, which keep state across long sequences of calls. These modules
model both, TLC checks them on small instances, and TLAPS proves the main
results for all instances.

## The system

| Part | State | Operations | Interacts through |
|---|---|---|---|
| Synchronous scheduler, `higan/emulator/scheduler-synchro` | list of threads, mode, primary; per thread: ID, clock, handle, parent, active | append, remove, power, enter(Run), enter(Synchronize), exit; create, destroy, step, synchronize | recursion: a chip's `main()` calls the `main()` of others |
| Cooperative scheduler, `higan/emulator/scheduler`, `libco` | the same, and a coroutine per thread | the same, resume | coroutine switches |
| Super Famicom, Famicom (`higan/sfc`, `fc`) | chips, `hasRendered`, peripheral lists | load, power, run, unload, serialize, unserialize, connect, disconnect | `scheduler`, chips' ports |
| Super Famicom CPU, `sfc/cpu` | interrupt lines and what is pending, position in the frame, DMA channels, `lockstep` | instructions, register accesses, NMI and IRQ, DMA, HDMA | `step()` moves everybody's time; the page's switches |
| Famicom picture unit, `fc/ppu` | position in the frame, blank flag, interrupt line, static line counter | main, register accesses, power, serialize | chips that read its flags within a line |
| Mega Drive (`higan/md`) | bus request and reset lines, DMA registers | bus accesses, waits, arbitration, DMA | every bus access runs all chips |
| Library, `target-web/web.cpp`, `platform/platform.cpp` | current emulator, started, running, scheduled save, listeners, folder of save files | setEmulator, load, unload, start, stop, run, stateSave, save, ... | the browser's main loop, JavaScript callbacks within `run()` |
| Emulators, `target-web/emulator` | node tree, button maps | connect, disconnect, setButton, input | callbacks between cores and platform |
| Wrapper and page, `api.js`, `shell.html` | current game, running flag, pause button, timers, database | select, start, pause, focus, blur | asynchronous tasks, promises |
| Files, handles, containers, `nall` | window of a file, counts of a manager, tree, two-ended block | read, write, seek; assign, reset; insert, remove; prepend, append | used by everything above |
| Audio, video | queue of audio buffers | output, render | OpenAL, WebGL |

What is hard, and where the properties come from:

- **Reentrancy.** Chips call each other. If the one test in
  `Thread::synchronize` that detects a caller failed, a chip would be entered in
  the middle of its own instruction. Listeners of a page call the library from
  inside `run()`. Destructors run inside destructors.
- **Order.** `synchronize(a, b)` compares clocks, runs other chips, which run
  yet others, and goes on with conclusions drawn before. Clicks overtake the
  database requests of earlier clicks.
- **Long legal sequences.** Power cycles, plugging and unplugging reuse IDs and
  handles; saves move clocks that nothing moves back; a file's window, a tree's
  colours and a vector's two ends carry an error to a call made much later.
- **Unsigned arithmetic** on clocks, IDs and file offsets.
- **State that is not saved**, or saved at a moment when a chip is in `main()`.
- **Deferred work.** A save is scheduled now, taken later, in another state.

The `hazards` of `PROJECT.json` list these line by line, with the properties that
would catch them.

## Modules

| Module | What it is |
|---|---|
| `SynchroScheduler` | The web build's scheduler, the host that drives it, the call stack |
| `MCSynchroScheduler` | Call graphs of the cores, for TLC |
| `SynchroSchedulerProofs` | Theorems about it, after lemmas on finite sets of integers: least and greatest elements, images, first free number |
| `CoScheduler`, `CoSchedulerProofs`, `MCCoScheduler` | The scheduler over coroutines, theorems about it, and a call graph |
| `SfcInterrupts`, `SfcProofs` | The Super Famicom CPU's interrupts, its main loop and its time |
| `SfcDma`, `SfcProofs` | Its DMA and HDMA, which the same time sets off |
| `FcPpu`, `FcPpuProofs` | The Famicom's picture unit under the synchronous scheduler |
| `MegaDrive`, `MegaDriveProofs` | The Mega Drive's clocks, bus request and reset |
| `VdpDma`, `MegaDriveProofs` | Its DMA registers |
| `MCConsoles` | The Mega Drive's clocks, its DMA registers or the Super Famicom's interrupts, for TLC |
| `MCScanlines` | The Famicom's picture unit or the Super Famicom's DMA, for TLC |
| `WebPlatform`, `WebProofs` | The library: emulator, main loop, nested `run()`, scheduled saves |
| `ControllerPorts`, `WebProofs` | Peripherals, node tree and button maps of one emulator |
| `WebApp`, `WebProofs` | The reference page over the library: starts, pauses, save files |
| `MCWebPlatform` | Any of the three, for TLC |
| `ByteFile` | What a file promises: an array of bytes and an offset |
| `FileBuffer`, `NallProofs` | `nall::file_buffer`, which implements `ByteFile` through a window |
| `SharedPointer`, `NallProofs` | `nall::shared_pointer` and `shared_pointer_weak` |
| `NallSet`, `SetProofs` | `nall::set`, a red-black tree, and its iterator |
| `NallVector`, `NallProofs` | `nall::vector`, a block with room at both ends |
| `MCNall` | Any of the four, for TLC |

`MCConsoles`, `MCScanlines`, `MCWebPlatform` and `MCNall` are sums: a variable
(`model`, `unit`, `class`) chosen initially says which model a behaviour is of, and
the others stand still. The parts of a sum do not share state, so this loses no
behaviour. Where parts do interact, the interaction is in the module:
`FolderAfterUnload` in `WebApp` is what a core's unload does to the library's folder,
`LoadPorts` in `ControllerPorts` is what loading does to the library's tree. The Super
Famicom's interrupts and DMA do share `step()`; each module has the time of its own
properties: a DMA makes a bus cycle longer, and `SfcInterrupts` has cycles of any length.

### SynchroScheduler

The state is the scheduler's (`threads`, `mode`), each thread's (`uniqueID`,
`clock`, `handle`, `parent`, `active`), the primary's pending `event`, the
renderer's `rendered` (`hasRendered`) and scanline, and `stack`: the activations
of `main()` on the C++ stack with the locals of their `synchronize` calls. `host`
says which call of the system is going on.

One action is one operation on the innermost activation. `Step` is
`Thread::step`. `Synchronize` begins a call of `synchronize(u, p...)` or of
`synchronize()`; then, for each target, either `Yield` (the target is the caller
that waits for this thread: return) or `Wait` (save the target's parent, become its
parent), `CatchUp` as long as the loop condition holds, and `Resume` (restore the
parent). `Return` is the end of `main()`; the renderer's draws a line. The host
loads, powers on thread by thread, plugs and unplugs, unloads, enters for a frame
and enters for a save. A frame ends when the primary's `main()` finds
`hasRendered` and raises `Frame`, which `Exit` answers by subtracting the minimum
from all clocks.

What chips compute is abstracted: a chip steps any number of clocks and
synchronizes whomever its code synchronizes, whenever it likes. A property that
holds here holds for every program a console can run. What a chip's code does
always do is run ahead of those *below* it in the call graph by a bounded amount
only (`MaxLag`: CPU::scanline synchronizes at the end of each line); the guard of
`Step` says so, and nothing else bounds the clocks.

Two assumptions are about the cores: `TreeAssumption` (targets are one level up or
down a tree rooted at the CPU: true of the Super Famicom and of the Famicom, false
of the Mega Drive, which has its own module), and `Broadcast` is at
most the primary. `Garbage` is what `malloc` may leave in a handle's parent field,
which `create` does not initialize; it is chosen anew for every handle.

Behaviours that are the code's design, or that no property states because they do
not hold: a chip that synchronizes its *caller* goes on although the caller is
behind (`Yield`; `CaughtUp` excepts the caller); a save drops the `Frame` event of a
picture that was finished in the save before (`PrimarySaved`), so a frame can be
lost. Clocks are integers here, 32-bit unsigned in the web build
(`nall/stdint.hpp` makes `uintmax` an `uint` under Emscripten). `NoUnderflow` shows
that subtracting IDs cannot wrap; `BoundedLead` and the normalization of every
frame keep clocks within a frame of each other, far from 2^32 for every chip in the
MHz or kHz range. Threads of 1 Hz are the exception, listed as a hazard. IDs are
not saved with a state; they agree all the same, because `power` creates the same
threads in the same order and light guns get higher ones.

### CoScheduler

The builds with coroutines keep each chip's place in its own stack. `at[t]` is that
place: at the top of the loop of `Enter()`, within `main()`, or in `exit()` from
either. A save (`EnterSynchronize`, `NextThread`, `ThreadReturns`) resumes each
coroutine, wherever it was left, until it is at the top of its loop, and passes over the
primary, which it has run before (`SkipPrimary`); `Switch` is the
`co_switch` of `Thread::synchronize`, whose condition refuses while auxiliary
threads are being brought to their safe points. Clocks are relative to the minimum
without the tie-breaking IDs, which are `SynchroScheduler`'s subject; `libco` is
modelled from its use (`active`).

### SfcInterrupts

`ticks` is what is left of the loop of `CPU::step()`, two clocks a tick; `place` is where
`main()` is, and `stage` and `access` where the current instruction's bus cycles are.
An instruction is any number of cycles, of which any may access a register; an access
comes at its place in the cycle, a read two ticks before the end. `NmiPoll` and
`IrqPoll` are the two functions of that name, called at every other tick, with the
counters some ticks ago (`VBefore`, `HBefore`). `LastCycle` tests the transitions
before the last cycle of an instruction, unless `irqLock` is set. `WaitCycle` is the
loop of WAI.

`caused` is history: how many vertical blanks and enabling writes still owe the game an
NMI. `NmiHasCause` says that none comes without: the line is held for four clocks, and
a write of `$4200` within them asks for an NMI at once that the end of the hold will
ask for again; a `lastCycle()` between the two would take both. That `irqLock` and the
length of a cycle rule it out is what `CauseInv` of the proofs spells out.

`lockstep`, `owed` and `cycle` are `CPU::Lockstep`. With the page's switch off, `step()`
adds up clocks and every fifth `main()` runs them. A WAI is one `main()`, and then waits
for an interrupt that only time brings (`timing.cpp:12`, `instructions-other.cpp:76`):
nothing but a chip of the cartridge ends it, and `WaitEnds` is for a switch that is on.
`NmiHasCause` is for a switch that has been on ever since the console was powered on
(`steady`): one that is thrown right after a write of `$4200` can clear the lock without
time passing.

### SfcDma

`m` is what `step()` changes: the time, its two triggers, the channels. `pc`, `returns`,
`chan` and `hchan` are the C++ stack of `dmaEdge()`, which DMA calls again after every
unit. `StepClocks` adds clocks (`HAfter`), begins a line and perhaps a field (`VAfter`,
`BeginsLine`, `BeginsField`: `CPU::scanline`), and looks at the triggers of the setup
(`SetsUp`) and of a run (`Runs`); several steps in a row without an observer in between are one (`8 * Length`).
`setupDue` and `runsDue` are history, kept apart from the triggers: the channels that
were enabled at the field's start and are not set up, and the lines at which HDMA was
due and not begun. `EveryLine` and `SetUpFirst` say that `hdmaPending` and `hdmaMode`,
one bit each for both kinds of HDMA, lose neither. That is a matter of time: an HDMA
that took longer than a line would miss the next. `HdmaFits` is the condition, and it
holds of the Super Famicom with all eight channels.

Two comments of the code do not hold of it, and no property says so. The lock that a
transfer sets against interrupts "immediately after DMA" (`irq.cpp:86`) is gone before a
`lastCycle()` looks: after it, `dmaEdge()` calls `step()`, which clears it
(`timing.cpp:161`). And `dmaActive` stays set when what was pending is switched off in
the cycle between (`timing.cpp:168`), so that the next transfer begins at once instead
of after "one full CPU cycle" (`timing.cpp:133`).

### FcPpu

`PPU::main()` of the web build draws a visible line in three calls, because others
must be caught up in between, and remembers which part is next in a function-static
counter that neither `power()` resets nor `serialize()` saves. The module is the
position (`lx`, `ly`, `field`), the counter, the blank flag with the CPU's interrupt
line, frame skipping, and save, load and power at every place the host can make
them. `moved` is history: the position was replaced since the last line. After a
load, a line may be drawn from dot 257 on, until the next line is in step again:
`PhaseFollowsDot` says it takes no longer.

`rows` says of each visible line of the buffer whose pixels it holds: those of this
picture, of the picture before, or a mixture of anything. A line drawn out of step leaves
its own row incomplete and spoils the next ones, whose own lines are drawn over them later.
With frame skipping every other picture is not drawn, and what `frame()` shows at its end
is the picture before. `PictureIsWhole` says that what is shown is one picture, each line
in its place. What it has to leave out is kept in the history variable `firstRow`: the
line during which a reset or a load came may be missing, and those above it are what the
cleared or loaded buffer held. If frame skipping is switched off during a picture that is
not drawn, drawing begins below the current line; if it is switched on during one that
would then be skipped, the picture stays half drawn and is shown like that, so nothing is
promised of it.

The buffer has 262 lines, and the pre-render line is drawn too. On PAL (312 lines) it is
written 49 lines past the end of the buffer, the last member of `PPU`; on NTSC it goes past
the end only if it is drawn out of step, after a load. Neither is in the model, whose
`rows` are the visible lines: what lies behind the object is up to the linker.

### MegaDrive, VdpDma

At every bus access the 68000 steps its clock and synchronizes the whole list
(`Wait`, `Synchronize`), in the order of the list. The Z80, run by that, synchronizes
the sound chip, and takes 11 clocks from the 68000 while it is being caught up
(`ApuStep`), after the sound chip was looked at. `BusIsCaughtUp` holds because
the Z80 runs the sound chip itself. Clocks are numbers modulo `Width`: a reset
creates the Z80 and the YM2612 again, which sets their clocks to zero although they
stay in the list (`SetRES`), and the end of the frame then subtracts more than they
hold (`NoOverflow`, a finding). `BusIsGranted` says that even then the bus is granted,
because a frame or a save later somebody runs the Z80.

The DMA is moved at once by the register write that makes it possible (`Poll`).
`cpu.active()` and `apu.active()` are never true there: the CPU is not being caught up, and
the Z80 does not reach the picture chip. `LoadsAreDone` says that no order of
writes leaves a load undone, which is why the 68000's wait for the DMA flag
(`cpu.cpp:83`) ends. A fill or copy that is released by a write to CRAM or VSRAM
does wait for the next `poll()`: only VRAM writes call it.

### WebPlatform

The state is that of `web.cpp` and `WebPlatform`, plus `calls`, the place each
`run()` on the stack has reached (frame.start listeners, `System::run`, frame.end
listeners, the save after it), plus the history of saves. `MayCall` says who calls
the API: a task of the page when no `run()` is going on, or the listener that the
innermost `run()` is calling. A page is described by three constants:
what its tasks, its frame listeners and its resize listener call. `Throw` unwinds:
a listener throws (`Throws` says where), or a System without a game traps.
Exceptions are not caught in C++ (`DISABLE_EXCEPTION_CATCHING=1`), so `running = false` is
skipped, and no frame is drawn any more; `isRunning()` stays true. After an
exception a browser may stop calling the loop or not: emscripten's runner asks for the
next frame after the callback has returned, and rethrows what it throws. `loop` says that
one is set, and lets the browser call it; `frames` says that the browser is sure to, which
ends with an exception that no listener has caught and begins with the next loop that is
set. `BorrowedLoopEnds` holds while `frames` does: after an exception a borrowed loop may
stay set with nobody to end it but `start()` and `stop()` or the page's own `run()`.

Three ways leave a promise of `stateSave()` unsettled: `stop()` cancels the loop the
save waits for, a second `stateSave()` replaces the callback, and without an
emulator it is dropped. The model has all three, and no property claims otherwise;
`AnsweredOnce` and `BorrowedLoopEnds` say what does hold.

External, modelled from their use: `emscripten_set_main_loop` and
`emscripten_cancel_main_loop` (`AnimationFrame`, `NextFrame`, `loop`, `frames`), the millisecond clock
(`Tick`: the 16 ms that `run()` insists on have passed).

### ControllerPorts

One emulator's tree of nodes as the library keeps it (`root`, `node`), the devices the
core made (`device`), the button maps. The tree outlives the game: between two games the
page may connect a controller, whose device then hangs in no tree (`inTree = FALSE`),
survives the next load and is found by no `disconnect`. `PluggedIsShown` says that
these phantoms are the only disagreement between tree and devices. The gamepad that
`load()` itself plugs into port 1 carries no `portName` (`tagged`), so it reads no
buttons until the page connects one. Before the first game `connect` follows a null
pointer; `root # "none"` leaves that out. A name the core does not know returns true
and makes no device.

### WebApp

The page's variables, the waiting `startGame` and `selectEmulator` calls (`fetching`,
`queue`, `timers`) with the database's ordering of readers and writers (`Ready`), and
what the calls change in the library: the selected core, each core's game, the
save folder. Files are told apart by the game whose progress they hold.
`PageKnowsGame` and `FocusKeepsPause` hold in every order; `FilesBelong` does not (a
finding): two starts that overtake each other load one game over the other, and the
old one's unload saves into the folder that was just filled for the new one.

Seen while modelling, in no property: the timer resumes whatever is selected by then,
also a core without a game, which traps; a pause within 100 ms of a start is
overridden; adding a game that is there selects another core than the list shows.
These are the code's behaviour and are in the model, except the last.

### ByteFile, FileBuffer

`ByteFile` is the abstract file: bytes, an offset, reads and writes of one byte, seeks
that pad. `FileBuffer` has `nall`'s window of the file, its offset, the dirty flag, the
size that runs ahead of the disk, and the `FILE`'s bytes. `IsByteFile` is
the refinement: the abstract bytes are the file's with the dirty window laid over
them (`Bytes`, `Contents`). Padding writes byte by byte, each through the
window; in the abstract file the whole pad is one step, of which the concrete
ones are stutters. Offsets are as wide as an `int` allows (`IntHalf`): the window's
base is computed in a signed 32-bit variable, and the theorem is about files below
that, 2 GiB.

### SharedPointer

A manager counts strong and weak handles. Deleting an object destroys its members one
by one (`DestroyMember`), which may delete further objects before it returns
(`Waiting`); the count drops after the deletion (`FinishDelete`). `This` is the weak
handle of itself that `shared_pointer_this` gives an object. `CopyWeak` is what
the compiler's copy constructor does to a weak handle returned by value; it is in the
violating run only.

### NallSet, NallVector

`NallSet` is the tree, a record of records, with its repairs as operators (`Repair`, `Rotate`,
`RotateTwice`, `Balance`). What the code does by recursion (`find`, `insert`, `remove`,
following links to their end) are recursive functions: `Inserted[n]` is `insert()` for
trees of at most `n` levels, and `nodes` are as many levels as the tree can have. The
iterator is state of its own, a position and the stack of nodes above the current one:
`Begin` is its constructor, `Increment` is `operator++`, with the loop that pops the
stack as `Ascended`. A change of the set ends an iteration (`EndIterators`), since
`remove()` frees and moves nodes that the stack points to. Pointers are compared as the nodes
they point to, which in a set are different from each other. `contents` is the
set of values that the same calls would make; no action reads it. Copying and moving a
set, which yield the same tree, are left out, and `nodes`, an unsigned integer of
32 bits, does not wrap. `NallVector` is the two-ended block: a
pool of `left + size + right` places, grown at either end to one of `Capacities`, which
are the powers of two (`bit::round`).

## What the runs check

Passing runs, with the distinct states TLC visits:

| Run | Instance | Shows |
|---|---|---|
| `synchro_sfc` (305 thousand) | CPU, SMP, PPU and DSP: three levels; 2 clocks an activation, 2 lines a picture, 1 save; garbage parents | `NoReentry`, `CaughtUp`, `BoundedLead`, `SavesRunAlone`, `ParentsRestored` |
| `synchro_plug` (1.3 million) | CPU, PPU, a light gun and a memory cartridge, plugged and unplugged between frames | `UniqueIDs`, `NoUnderflow` |
| `synchro_fc` (86 thousand) | Famicom: the CPU synchronizes the whole list, itself included; 1 save, 3 lines | `EnterReturns` |
| `coscheduler` (50 thousand) | CPU, SMP and PPU as coroutines; 2 clocks a `main()`, 2 lines, 1 save | `SafePoints`, `StaysSafe`, `CaughtUp`, `EnterReturns` |
| `scanlines` (25 million) | Famicom: NTSC scaled to 2 visible lines of 6; resets, skipped frames, states saved and loaded at any time. Super Famicom: 2 channels, one indirect, lines of 180 clocks, 3 lines, cycles of 8 and 12 clocks; DMA of 2 units on one channel, HDMA on both | `PhaseFollowsDot`, `NmiLineFollowsFlag`, `PictureIsWhole`; `EveryLine`, `SetUpFirst`, `UnitsAligned` |
| `consoles` (1.5 million) | Mega Drive: 4 threads, 2 accesses an instruction, one reset, clocks modulo 24; or the DMA registers. Super Famicom: lines of 6 ticks, 2 lines a field of which 1 is visible; the lockstep switch set at any time; a cartridge chip driving the IRQ | `BusIsCaughtUp`, `BusIsGranted`, `LoadsAreDone`; `IrqHasLine`, `NmiHasCause`, `WaitEnds` |
| `web_api` (1 million) | 2 emulators, 2 games, 3 saves, runs nested twice, exceptions; or 2 ports and a button; or the page with 2 games on 2 cores and 2 waiting calls | `OneFrame`, `StartedLoops`, `BorrowedLoop`, `AnsweredOnce`, `SavedBetweenFrames`, `BorrowedLoopEnds`; `PluggedIsShown`, `NoHeldButton`; `PageKnowsGame`, `FocusKeepsPause` |
| `nall` (150 thousand) | files of 5 bytes in windows of 2; two objects and seven handles; sets of up to ten values; vectors of up to 4 elements | `IsByteFile` (refinement); `Counted`, `ObjectsAreOwned`; `RedBlack`, `IsSet`; `IsList` |

Runs that end in a violation, each of one property taken from a comment or an
interface description:

| Run | The text | The code |
|---|---|---|
| `web_snapshot` | "a snapshot of the current game's state" (`api.d.ts:396`) | the state is that of the game current when the save is taken |
| `page_files` | "a map of files which can be provided back when loading a game" (`api.d.ts:413`) | a game loaded over another finds the other's save in its folder, and the page files it under its own name |
| `megadrive_reset` | "subtract the minimum time from all threads to prevent clock overflow" (`scheduler.cpp:101`) | the clocks of the Z80 and the YM2612, reset within the frame, wrap around |
| `nall_copies` | "pointer may contain weak references; if strong==0 it may destroy manager" (`shared-pointer.hpp:197`) | a weak handle copied by value was never counted, and its destruction takes the manager from others |

### Bounds

The bounds are constants of the modules. `SynchroScheduler`: `MaxWork` (clocks of an
activation), `MaxLag`, `Lines`, `MaxSaves`. Clocks need no bound: lag and the
normalization at each frame bound them. Three levels and two children at one level
are enough for every shape of call: down, up to the caller, and down again under
another parent. Two clocks an activation make threads end up ahead by one, equal and
behind. Two plugged threads between two fixed ones make IDs free up in any order.

`SfcInterrupts`: lengths are scaled down, and a line is of an even number of ticks, more
than the five that `IrqPoll` looks back. It is shorter than an instruction, so that a
line's begin and the hold of an NMI (ticks 1 and 2 of the first blank line) meet every
place in an instruction: cycles and register accesses take three ticks, the reset takes
four, so that accesses fall on tick 1. The vertical timer is off the screen: the
horizontal one raises the line; `IrqAlwaysHasLine` is for any values. `Group = 1` runs
the clocks put aside every other `main()`; `MaxOwed` saturates them. `SfcDma`: a line is
4 modulo 8 clocks, as 1364 is, so that the alignment differs from line to line, and its
position for HDMA is 0 modulo 8, as 1104 is; both are the least such numbers that
`HdmaFits` allows for two channels. Counters have two bits instead of eight. The model
that TLC runs assumes `HdmaFits`, so that TLC evaluates it. Two channels, one with DMA and both with HDMA, are enough for a
transfer that is interrupted by its own channel's and by another's.

`CoScheduler`: the same bounds; three coroutines let one wait for a second that waits
for a third when a save begins. `FcPpu`: two visible lines, so that a load can come
between a drawn line and the next, and pixels of the first fall into the row of the
second; `MaxDot` bounds the dots at which states are saved,
and is past the parts' ends (257, 321, 341). `MegaDrive`: `Width = 24` is more than
four times the clocks of a frame of the instance, so that nothing but a reset wraps;
two accesses make an instruction that goes on after its reset and one that ends with it.

`WebPlatform`: two nested runs and three saves let a save be asked for,
replaced and answered at every place of both runs. `WebApp`: two waiting calls
(`MaxTasks`) are the least that overtake each other; `page_files` needs three, and has
two games on one core. `ControllerPorts`: two ports, one of which `load` fills.

`FileBuffer`: five bytes in windows of two make three windows, the last one cut off;
seeks go past the end. `SharedPointer`: an object that owns another that points
back, and three variables. `NallSet`: ten values make a tree four levels deep, in which
every case of the removal's repair occurs; all sets are reached, by every sequence
of calls, and an iteration of each tree. `NallVector`: `MaxRoom`
bounds the room that removed elements leave, which a queue would grow for ever.

### Fairness

`SynchroScheduler`: weak fairness of the host while it is inside a call (C++ goes
on), and of the scheduler's own code; strong fairness of a chip's steps, of the end
of its `main()` and of each `synchronize` call in its code, since a chip repeats its
loop. Nothing is assumed of the host between calls. `EnterReturns` then says that no
set of chips can wait for each other for ever. `CoScheduler` assumes the same of its
coroutines, and that the renderer reaches the end of its picture.

These assumptions exclude a chip that loops inside `main()` until its caller acts.
There are three in the repository: the SuperFX, the 21fx, and an idle BS Memory under
the cooperative scheduler, which steps without synchronizing anybody. They are listed
as hazards.

`MegaDrive`: the 68000 goes on, and the page's loop keeps drawing frames; saves and
resets need not happen.

`SfcInterrupts`: weak fairness of the CPU's own code, which nothing blocks; the game, the
page and the cartridge may do what they like or nothing.

`WebPlatform`: weak fairness of time, of the body of `run()` (listeners return or throw)
and of the browser's frames, but of these only while no exception has left the loop
(`NextFrame`); none of the page.

## What is proved

All proofs are checked for arbitrary constants that satisfy the named assumptions.

### The scheduler

`SynchroSchedulerProofs`, under `ConstantAssumption` and `TreeAssumption`:

- `TypeCorrect`: `Spec => []TypeOK`. The one difficulty is that the `CHOOSE` in
  `Minimum`, `Maximum` and `NextUniqueID` has a witness: finite sets of integers
  have extrema, and among n + 1 numbers one is not used by n threads
  (`FirstFree`: why the loop of `uniqueID()` ends).
- `NeverReentered`: `Spec => []NoReentry`. `NoReentry` is not inductive: that no
  activation is entered twice depends on *where* a thread may be called from.
  `StackInv` strengthens it. The stack is empty outside `enter` (`StackInEnter`);
  every activation but the innermost is waiting for the one above it (`Nested`),
  and has itself as parent recorded there (`Waits`); the targets still in a
  call's list are targets of that thread's code (`Targets`); levels grow by one up
  the stack, starting at the thread that `enter` called (`Depth`); and
  every thread that nobody waits for has a garbage parent (`Parents`). A thread
  that calls its target `u` one level *up* can only be an activation whose caller is
  `u`, so the parent test yields; every real wait goes one level *down*, so levels
  are distinct and no thread occurs twice. `StackCorrect` is `Spec => []StackInv`.
  Where a call goes *up* from a thread that no one called (an auxiliary thread of a
  save), it waits instead of yielding, and the mode keeps it from running anyone; the
  proof distinguishes the two.
- `SavesAlone`, from the same invariant and `SavingMode`, that an
  auxiliary thread run by a save finds the mode that keeps it alone;
  `ParentsAreRestored` and `ActiveIsTrue`, from the same invariant.
- `IDsAreUnique` and `ClocksAboveIDs`: `UniqueIDs` is inductive with `Handles` (a
  thread in the list has a handle, so that what is plugged is new): what is
  appended gets an ID that no one uses, and removing keeps the order of the
  rest. A clock starts at its ID or above, steps upwards, and the normalization
  subtracts the least clock above its ID.
- `SynchronizedAreCaughtUp`: `CaughtUp`, if `Garbage` contains no thread. With a
  thread's address left in a new handle, `synchronize` could yield to somebody
  who is not waiting. What has been caught up stays so because only the
  caller's own step moves its clock; other clocks only grow within `enter`.
- `LeadIsBounded`: `BoundedLead`, if nothing is plugged while the system is on. The
  bound is for the moment *between* clock changes; the inductive `Leads` says what
  each thread is still allowed (`Allowed`): before a save runs it, the bound of before
  that save; while it runs, what its activation has stepped besides; afterwards the
  new bound. `Catching` (an activation started behind its caller) gives the step of
  frames, `Booted` (IDs are below the number of threads that `power` creates) the
  bound after `power`, and `QueuedOnce` that a save runs nobody twice. A thread that is
  plugged later gets the maximum of all clocks and its ID added, which may be beyond
  the bound: the assumption excludes it.

### The Super Famicom's interrupts

`SfcProofs`, under `InterruptAssumption`, for lines, fields and cycles of any
length (a cycle has three ticks or more): `TypeCorrect`, `PendingIsAlwaysDispatched`,
`IrqAlwaysHasLine`, and `NmiAlwaysHasCause`, for settings of the lockstep switch that
change at any time. The invariant of the last is `CauseInv`, which holds as long as the
switch has been on: what is held or asked for has been counted; and when an NMI was
asked for during the hold and counted once, either the lock is still set, or the step
that is going on reaches the next poll, or the access that follows will.

### The Super Famicom's DMA

`SfcProofs`, under `DmaAssumption`, for any number of channels, lengths and tables, and
for games that write what they like:

- `DmaCorrect`: `SfcDmaSpec => []DmaInv`. `Calls` says where `dmaEdge()` can have been
  called from: it nests twice, in a bus cycle and in a DMA that runs in it, and no
  deeper. For a DMA begins only if one is pending, and while one goes on the CPU writes
  no register (`Transfers`). As long as there is more to move, DMA is active and the
  clock is divisible by 8: everything that takes time between two units takes a
  multiple of 8, and HDMA aligns to the CPU's cycle only if it has just stopped the last
  channel.
- `AlwaysAligned`: `UnitsAligned`, from it.
- `HdmaCorrect`: if `HdmaFits`, `TimeInv` holds as well. `Triggered` reads the two flags
  of `step()` as places on the screen. `Waits` bounds the clocks since HDMA was
  called, at each point at which it can be pending (at most 40: a cycle that is going
  on, a unit, an alignment), and `Hdmas` the clocks since then while it is going on (24 for
  each channel of a setup, 56 for each of a run). So a setup is over before the first
  line's position for HDMA, and a run before the next line's.
- `AlwaysEveryLine` and `AlwaysSetUpFirst`, from it.

`HdmaFits` is a hypothesis of the last three, because `DmaAssumption` allows lines as
short as one likes, in which HDMA is late and these properties are false. With cycles of
at most 12 clocks and 8 channels it says 272 < 1104 and 508 < 1364: it leaves 832 and
856 clocks, more than the refresh (40 clocks a line) that the model leaves out.

### The Famicom's picture unit

`FcPpuProofs`, under `LinesAssumption`: `InterruptLine` (`NmiLineFollowsFlag`, an
invariant with the dots at which a `main()` can start), `PhaseRecovers`
(`PhaseFollowsDot`) and `PicturesAreWhole` (`PictureIsWhole`). The last needs `RowsInv`:
the rows down to the line that was last drawn are this picture's, a skipped picture keeps
those of the one before, and while the counter may be out of step nothing is promised of
the current line and those above it, so that all that such a line spoils is yet to be drawn.

### The cooperative scheduler

`CoSchedulerProofs`, under `ThreadsAssumption`, for any threads, call lists and bounds:
`CoCorrect` is `Spec => []CoInv`, and from it `AlwaysSafePoints`, `AlwaysStaysSafe` and
`AlwaysCaughtUp`. `WhoRuns` says that while the threads are saved one by one, none runs but
the host and the thread whose turn it is: `synchronize()` does not switch in that
mode (`ModeOfLoop`). `RaisedByTheOne` is why the loops of `enter()` may trust
`_event`: when the host finds `Synchronize`, the thread it resumed is at its safe point, and
not another one, or an event that was left from the save before. `NothingBegun` says
that a thread at the top of its loop waits for nobody. The normalization in `exit()` moves
all clocks alike, so that nobody falls behind by it; that the minimum exists is by the
well-foundedness of the naturals.

### The Mega Drive

`MegaDriveProofs`, under `MegaDriveAssumption`, for clocks of any width, also when they
wrap around, and with resets: `BusIsAlwaysCaughtUp`. When the 68000 touches a bus, every
chip has reached its time. The strengthening is `LookedAt`, what each part of
`synchronize()` leaves true for the next: the sound chip, which is looked at first, has
reached the 68000, or the Z80 if the Z80 held the 68000 up after that; then the
Z80's turn brings both to the 68000's time. `IdleAtMain` says that a frame begins between two
instructions.

About the DMA registers: `LoadsAreAlwaysDone`. Each write that can make `Runs` true polls, or
leaves a mode other than load.

### The library, its ports and the page

`WebProofs`, under `ConstantAssumption`, for any page:

- `TypeCorrect`; `OneFrameAtATime` (`OneFrame` is inductive once types are known);
  `StartedHasLoop` and `LoopIsBorrowed` (together they are inductive);
  `AnsweredAtMostOnce`, from `AnswerInv`: saves are numbered in the order they
  are asked for, and the scheduled one has not been answered.
- `SavesBetweenFrames`: a serialized state is one between frames, *provided* the
  resize listener does not call `run()`. With such a listener the nested `run()`
  skips the frame and goes on to serialize in the middle of the outer one
  (`web.cpp:21`); the theorem states the assumption, and the run's page respects it.

`WebProofs`, about the ports, for any number of ports and values: `PortInv` is the type,
`BetweenGames` (after an unload only devices that are in no tree remain) and
`MapIsSent` (a port's button map holds a value that was sent since its device was
made). From it `PluggedIsAlwaysShown` and `NoButtonIsHeld`.

`WebProofs`, about the page, for any games, cores and number of waiting calls: `PageInv` is the
type, that the page's game is in the selected core, and `PauseIsNoticed`: after a
pause by a click the button reads "Resume", and if the window then loses the focus
during a game, `wasPaused` is set. From it `PageAlwaysKnowsGame` and
`FocusAlwaysKeepsPause`.

### Buffered files

`NallProofs`, for windows of any size, any bytes and sizes below half the range of an
int: `WindowIsClean`, `SizeIsAccountedFor`, and `Refinement`:
`Spec => IsByteFile`, step by step: a read or write of the window is one of the
abstract file, moving the window changes no abstract byte (what is flushed is what
lay over the file), the bytes of a pad are stutters until the last.

### Shared pointers

`NallProofs`, under `HandleAssumption`, for any handles and objects, any ownership between
them: `PointersCorrect` (`PointerSpec => []PointerInv`), and from it `AlwaysCounted`,
`ObjectsAreAlwaysOwned`, and `ManagersOutlive`: a handle never refers to a manager that
was freed. The counts equal the cardinalities of sets of handles that each operation changes by
one element. Deletion is the difficulty, which nests: `Deletions` says that an object under deletion is
held by the one handle that deletes it, and that the members that are gone hold nothing or
delete what they held. `CallGoesOn` is what an assignment relies on when its old
target's deletion returns: nothing was assigned to it meanwhile, and its source is as it was.
`RanksRise`, that objects own objects of higher ranks only, is preserved because the actions
assign no others: cycles of strong pointers leak by design, and are not in the model.
`CopyWeak` is not in `PointerSpec`: with it `Counted` is false (`nall_copies`).

### Vectors

`NallProofs`, under `VectorAssumption`, for any elements and capacities:
`VectorIsAlwaysAList`. `VectorInv` adds to it that the rooms are natural numbers and the block is as
long as the rooms and the elements together, from which each operation keeps what it
does not touch.

### Sets

`SetProofs`, under `ValueAssumption` alone (values are integers), for sets of any size
and any calls: `SetIsBalanced` (`RedBlack`), `SetHoldsItsContents` (`IsSet`) and, as a
part of it, `SetIsInOrder` (`InOrder`, about the iterator), from the inductive
invariant `SetInv` (`SetCorrect`).

- The prover has no induction whose claim is a parameter, so each induction is written out:
  of the depths for which a claim is wrong there is a least (`LeastNumber`, from the
  well-foundedness of the naturals), and the claim turns out to be wrong for a lesser one.
  That the recursive functions of the module exist at all, that is that they satisfy the
  equations that define them, is proved first, in the same way.
- The depth is a bound only: `Is(node, h, S)` says that a node is a red-black tree
  of black height `h` with the values `S`, at any depth, and the operations are shown to do the
  same whatever depth they are given, if the tree fits.
- `insert()` leaves a tree that is red-black but for a red child of a red root
  (`Almost`), of the same black height; `Repair` makes a red-black tree of a node whose child
  is such, or an almost red-black one. All that `insert()` still has to do is to paint the
  root.
- `remove()` leaves what `Remains` says: if `done`, a tree of the black height it had,
  whose root is red only if it was before; if not, a black one whose height is one less, and it
  had a black root. `Balance` is given such a tree on one side. That its sibling is not
  a leaf then, nor a child of a red sibling, follows from the heights: the early
  return of `balance()` is never taken, and none of its links is null.
- The value that takes the place of a removed one is the greatest of those less than it
  (`End`): the end of the spine that the loop follows.
- The iterator's stack is a `Path`: nodes linked to one another, the first the root, each of which
  holds a range of the contents without gaps (`Within`). The next node, down to the left
  from the right link or up to the last node that was left to the left, has the next value
  (`Follows`). So the number of lesser elements is the position, and the loop of
  `operator++` never empties the stack, because a position before the last has a
  greater element.

### Only model-checked

- Liveness: `EnterReturns`, `BorrowedLoopEnds`, `BusIsGranted`, `WaitEnds`.
  Temporal properties under fairness are out of the prover's reach.
- What is outside the theorems' assumptions is not in the runs either: `BoundedLead` with
  peripherals plugged while the system is on, `CaughtUp` with threads in `Garbage`,
  `EveryLine` and `SetUpFirst` with lines too short for `HdmaFits`.

## What is not modelled

Most of the repository's two hundred thousand lines are instruction sets, chips that
compute, the desktop toolkit and data: they have no protocol between actors to check,
and a model of them would repeat them. The modules take what is stateful, ordered or
shared.

- What chips compute, their registers and memories; rendering and sound. The data of
  a save state.
- Frequencies and scalars of threads; the width of clocks, except on the Mega Drive.
- Of the Super Famicom's CPU: the pauses that refresh memory (only with `cpu/fastmath`
  off), overclocking, automatic joypad reading, multiplication and division, lines of
  other lengths, addresses and bytes of DMA. STP never returns from `main()` under the
  synchronous scheduler. Without lockstep, HDMA of all lines but one is lost in the
  clocks that a step was put aside for; `SfcDma` is with lockstep.
- A page that unloads or replaces the game from its resize listener: that frees the
  chips that are running.
- `load` that fails in the core: the game is then there and its System is not
  powered. Configuration, stateLoad and firmware. A `load()` after `load()` at the level
  of the library is in `WebApp`, where it goes wrong.
- Of the page: adding games, stored states, settings, keys and touch, saving before
  the page is left.
- Audio: `output()` is one sequential routine over OpenAL's queue. (A frame that is
  drawn for a save after `stop()` starts playback again.)
- Loops inside one `main()` that wait for another chip (SuperFX, 21fx): under the
  synchronous scheduler they end at once or never.
- BS Memory: nothing in the web build plugs one. `cpu.active()`, by which it learns
  whether to erase at once, is never true under the synchronous scheduler, and its
  block numbers are four bits wide.
- `Expansion` leaves itself in `cpu.peripherals` when it is destroyed; threads in the
  model call threads in the list only.
- `vector::insert`, which only the desktop interface calls: it counts no room as used.
- The cores that the web build leaves out, and the desktop interface and tools.

`PROJECT.json` lists every component with its status.

## Plan

Done: everything under "Modules". What is left, in this order:

1. `Timeline`, an abstract specification of both schedulers: a chip observes another
   only at or after its own time, except its caller.
2. `Peripherals`: the CPU's peripheral and coprocessor lists against object
   lifetimes.
3. Frequencies: clocks in units of 2^-31 seconds, modulo 2^32, and threads of 1 Hz.
4. `stateLoad` and stored states in `WebApp`.
