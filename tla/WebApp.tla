------------------------------- MODULE WebApp -------------------------------
(***************************************************************************)
(* The reference page (target-web/shell.html) over the library: games are  *)
(* selected, started, paused and resumed by clicks, by the window's focus  *)
(* and by a timer, and their save files are read from and written to a     *)
(* database, whose answers come later, while other clicks are handled.     *)
(*                                                                         *)
(* Of the library there is what these calls change: the selected core, the *)
(* game in each core, whether it is started, the folder of save files and  *)
(* the memory of the cartridge.  A save file and a memory are told apart   *)
(* by the game whose progress they hold.  Every game here has save memory. *)
(***************************************************************************)
EXTENDS Naturals, Sequences, SequencesExt

CONSTANTS
  Rom,       \* the games of the page's list
  Cores,     \* the cores: for each, the set of the games that it plays
  NoRom,     \* no game, no core, no file
  MaxTasks   \* bound: starts and selections that wait for something

VARIABLES
  core,      \* WebPlatform::emulator
  inside,    \* inside[c]: the game loaded in c's System
  memory,    \* memory[c]: whose progress the memory of its cartridge holds
  folder,    \* ... the save file in the library's GameFolder holds
  on,        \* WebPlatform::started
  playing,   \* Module.info.isRunning
  shown,     \* Module.info.currentGame
  chosen,    \* select.value
  button,    \* the text of pauseButton
  wasPaused, focused,
  fetching,  \* startGame calls waiting for getGame
  queue,     \* ... for getSave, and selectEmulator calls waiting for storeSave
  timers,    \* ... for the 100 ms before setResume
  stored,    \* stored[g]: whose progress is stored as g's save files
  byUser     \* history: the game was last paused by a click, not by the window

libraryVars == <<core, inside, memory, folder>>
pageVars == <<libraryVars, on, playing, shown, chosen, button, wasPaused, focused,
              fetching, queue, timers, stored, byUser>>

CoreOf(g) == CHOOSE c \in Cores : g \in c

ASSUME RomAssumption ==
  /\ \A g \in Rom : \E c \in Cores : g \in c
  /\ NoRom \notin Rom \cup Cores

Waiting == Len(fetching) + Len(queue) + timers

-----------------------------------------------------------------------------
(* The library.                                                            *)

\* System::unload saves first: the memory is written to the folder.
FolderAfterUnload ==
  IF core # NoRom /\ inside[core] # NoRom THEN memory[core] ELSE folder

\* WebPlatform::load empties the folder and puts the given files there; then the core
\* unloads the game that it still has, and the new one reads its memory from the folder.
LoadRom(g, file) ==
  /\ core # NoRom
  /\ folder' = IF inside[core] # NoRom THEN memory[core] ELSE file
  /\ memory' = [memory EXCEPT ![core] = IF folder' = NoRom THEN g ELSE folder']
  /\ inside' = [inside EXCEPT ![core] = g]
  /\ UNCHANGED core

\* Module.save, and the storeSave that files it.
GameSave ==
  /\ folder' = memory[core]
  /\ UNCHANGED <<core, inside, memory>>

-----------------------------------------------------------------------------
(* The page.                                                               *)

SetPause == button' = "Resume" /\ on' = FALSE
SetResume == button' = "Pause" /\ on' = TRUE

\* The list's change event, and selectEmulator up to where it waits for storeSave.
SelectEmulator(g) ==
  /\ Waiting < MaxTasks /\ g # chosen
  /\ chosen' = g
  /\ IF playing
     THEN /\ GameSave
          /\ queue' = Append(queue, [call |-> "put", rom |-> shown, from |-> memory[core],
                                     next |-> g])
     ELSE /\ core' = CoreOf(g)
          /\ UNCHANGED <<inside, memory, folder, queue>>
  /\ UNCHANGED <<on, playing, shown, button, wasPaused, focused, fetching, timers, stored,
                 byUser>>

\* startButton, and startGame up to where it waits for getGame.
StartGame ==
  /\ Waiting < MaxTasks
  /\ fetching' = Append(fetching, chosen)
  /\ UNCHANGED <<libraryVars, on, playing, shown, chosen, button, wasPaused, focused, queue,
                 timers, stored, byUser>>

\* Readers of the database do not wait for each other.
Fetched(i) ==
  /\ fetching' = RemoveAt(fetching, i)
  /\ queue' = Append(queue, [call |-> "get", rom |-> fetching[i]])
  /\ UNCHANGED <<libraryVars, on, playing, shown, chosen, button, wasPaused, focused, timers,
                 stored, byUser>>

\* A writer waits for those before it, and those after it wait for the writer.
Ready(i) == \A j \in 1..(i - 1) : queue[i].call = "get" /\ queue[j].call = "get"

\* selectEmulator goes on: Module.unload stops the game first.
Selected_StillPlaying(i) ==
  /\ Ready(i) /\ queue[i].call = "put"
  /\ queue' = RemoveAt(queue, i)
  /\ stored' = [stored EXCEPT ![queue[i].rom] = queue[i].from]
  /\ on' = FALSE
  /\ folder' = FolderAfterUnload
  /\ inside' = IF core = NoRom THEN inside ELSE [inside EXCEPT ![core] = NoRom]
  /\ core' = CoreOf(queue[i].next)
  /\ UNCHANGED <<memory, playing, shown, chosen, button, wasPaused, focused, fetching, timers,
                 byUser>>

Selected(i) ==
  /\ Ready(i) /\ queue[i].call = "put"
  /\ queue' = RemoveAt(queue, i)
  /\ stored' = [stored EXCEPT ![queue[i].rom] = queue[i].from]
  /\ playing' = FALSE /\ shown' = NoRom
  /\ on' = FALSE
  /\ folder' = FolderAfterUnload
  /\ inside' = IF core = NoRom THEN inside ELSE [inside EXCEPT ![core] = NoRom]
  /\ core' = CoreOf(queue[i].next)
  /\ UNCHANGED <<memory, chosen, button, wasPaused, focused, fetching, timers, byUser>>

\* startGame goes on: the game is loaded, and shown as running.
Started(i) ==
  /\ Ready(i) /\ queue[i].call = "get"
  /\ queue' = RemoveAt(queue, i)
  /\ LoadRom(queue[i].rom, stored[queue[i].rom])
  /\ playing' = TRUE /\ shown' = queue[i].rom
  /\ timers' = timers + 1
  /\ byUser' = FALSE
  /\ UNCHANGED <<on, chosen, button, wasPaused, focused, fetching, stored>>

\* The timer of startGame.
Resume ==
  /\ timers > 0 /\ timers' = timers - 1
  /\ SetResume /\ byUser' = FALSE
  /\ UNCHANGED <<libraryVars, playing, shown, chosen, wasPaused, focused, fetching, queue, stored>>

PauseOrResume ==
  /\ focused /\ playing
  /\ IF button = "Pause" THEN SetPause ELSE SetResume
  /\ byUser' = (button = "Pause")
  /\ UNCHANGED <<libraryVars, playing, shown, chosen, wasPaused, focused, fetching, queue,
                 timers, stored>>

\* The window loses the focus ...
Blur_OnlyPauses ==
  /\ focused /\ focused' = FALSE
  /\ IF playing /\ button = "Pause"
     THEN wasPaused' = FALSE /\ SetPause
     ELSE UNCHANGED <<wasPaused, button, on>>
  /\ UNCHANGED <<libraryVars, playing, shown, chosen, fetching, queue, timers, stored, byUser>>

Blur ==
  /\ focused /\ focused' = FALSE
  /\ IF playing
     THEN /\ wasPaused' = (button = "Resume")
          /\ IF button = "Resume" THEN UNCHANGED <<button, on>> ELSE SetPause
     ELSE UNCHANGED <<wasPaused, button, on>>
  /\ UNCHANGED <<libraryVars, playing, shown, chosen, fetching, queue, timers, stored, byUser>>

\* ... and gets it back.
Focus ==
  /\ ~focused /\ focused' = TRUE
  /\ IF playing /\ ~wasPaused THEN SetResume ELSE UNCHANGED <<button, on>>
  /\ UNCHANGED <<libraryVars, playing, shown, chosen, wasPaused, fetching, queue, timers, stored,
                 byUser>>

-----------------------------------------------------------------------------
PageInit ==
  /\ chosen \in Rom /\ core = CoreOf(chosen)
  /\ inside = [c \in Cores |-> NoRom] /\ memory = [c \in Cores |-> NoRom] /\ folder = NoRom
  /\ stored = [g \in Rom |-> NoRom]
  /\ on = FALSE /\ playing = FALSE /\ shown = NoRom /\ button = "Pause"
  /\ wasPaused = FALSE /\ focused \in BOOLEAN /\ byUser = FALSE
  /\ fetching = <<>> /\ queue = <<>> /\ timers = 0

PageNext ==
  \/ \E g \in Rom : SelectEmulator(g)
  \/ \E i \in DOMAIN fetching : Fetched(i)
  \/ \E i \in DOMAIN queue : Selected(i) \/ Started(i)
  \/ StartGame \/ Resume \/ PauseOrResume \/ Blur \/ Focus

PageSpec == PageInit /\ [][PageNext]_pageVars

-----------------------------------------------------------------------------
(* Properties.                                                             *)

\* The game that the page takes for the current one, and files saves and states under,
\* is the one in the selected core, whatever selections and starts overtook each other.
PageKnowsGame == playing => core # NoRom /\ inside[core] = shown

\* Coming back to the window never resumes a game that was paused by a click, although blur
\* and timers pause and resume in between and blur remembers a pause only while playing.
FocusKeepsPause == [][~focused /\ focused' /\ on' /\ ~on => ~byUser]_pageVars

\* api.d.ts, save: "a map of files which can be provided back when loading a game
\* during a future session": the save files of a game hold that game's progress.
FilesBelong == \A g \in Rom : stored[g] \in {g, NoRom}
=============================================================================
