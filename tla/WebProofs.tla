----------------------------- MODULE WebProofs ------------------------------
(***************************************************************************)
(* Proofs about the web build, for any emulators, games, pages, ports,     *)
(* values and bounds.                                                      *)
(*                                                                         *)
(* The platform: what its calls, loop and callbacks leave of each other.   *)
(*                                                                         *)
(* The ports: devices and tree agree while a game is loaded, and no button *)
(* is held down on a device that it was not sent to.                       *)
(*                                                                         *)
(* The reference page: it knows which game is in the selected core, and    *)
(* the window's focus never undoes a pause that was asked for by a click.  *)
(***************************************************************************)
EXTENDS WebPlatform, ControllerPorts, WebApp, SequenceTheorems, TLAPS

-----------------------------------------------------------------------------
(* The platform.                                                           *)

Top == calls[Len(calls)]

\* What a step does to the stack of runs: it is left alone, gets a new run, has
\* its innermost run moved on, or loses its innermost runs.
LEMMA StackProps ==
  ASSUME calls \in Seq(Places)
  PROVE  /\ Len(calls) \in Nat
         /\ \A i \in DOMAIN calls : i \in 1..Len(calls) /\ calls[i] \in Places
         /\ DOMAIN calls = 1..Len(calls)
         /\ calls # <<>> <=> Len(calls) > 0
BY EmptySeq

LEMMA Entered ==
  ASSUME calls \in Seq(Places), NEW p \in Places, calls' = Append(calls, p)
  PROVE  /\ calls' \in Seq(Places)
         /\ Len(calls') = Len(calls) + 1
         /\ DOMAIN calls' = 1..(Len(calls) + 1)
         /\ \A i \in 1..Len(calls) : calls'[i] = calls[i]
         /\ calls'[Len(calls) + 1] = p
OBVIOUS

LEMMA Moved ==
  ASSUME calls \in Seq(Places), calls # <<>>, NEW p \in Places, GoTo(p)
  PROVE  /\ calls' \in Seq(Places)
         /\ Len(calls') = Len(calls)
         /\ DOMAIN calls' = DOMAIN calls
         /\ Len(calls) \in DOMAIN calls
         /\ calls'[Len(calls)] = p
         /\ \A i \in DOMAIN calls : i # Len(calls) => calls'[i] = calls[i]
BY DEF GoTo

LEMMA Unwound ==
  ASSUME calls \in Seq(Places), NEW n \in 0..Len(calls), calls' = SubSeq(calls, 1, n)
  PROVE  /\ calls' \in Seq(Places)
         /\ Len(calls') = n
         /\ DOMAIN calls' = 1..n
         /\ \A i \in 1..n : calls'[i] = calls[i]
BY SubSeqProperties

-----------------------------------------------------------------------------
(* Types.                                                                  *)

LEMMA TypeInit == ASSUME Init PROVE TypeOK
<1>1. MaxSaves \in Nat /\ MaxDepth \in Nat
  BY ConstantAssumption
<1>2. /\ calls \in Seq(Places) /\ Len(calls) <= MaxDepth
      /\ asked \in Seq(Game \cup {Null}) /\ Len(asked) <= MaxSaves
      /\ answers \in Seq([save : Saves, game : Game])
  BY <1>1 DEF Init
<1>3. {started, running, loop, frames, elapsed} \subseteq BOOLEAN
  BY DEF Init
<1> QED
  BY <1>2, <1>3 DEF Init, TypeOK

LEMMA EnterTypes ==
  ASSUME TypeOK, Enter
  PROVE  /\ elapsed' \in BOOLEAN /\ running' \in BOOLEAN
         /\ calls' \in Seq(Places) /\ Len(calls') <= MaxDepth
<1>1. calls \in Seq(Places) /\ Len(calls) \in Nat /\ Len(calls) < MaxDepth
  BY DEF TypeOK, Enter
<1>2. MaxDepth \in Nat
  BY ConstantAssumption
<1>3. PICK p \in {"frameStart", "save"} : calls' = Append(calls, p)
  BY DEF Enter
<1>4. p \in Places
  BY DEF Places
<1>5. elapsed' \in BOOLEAN
  BY DEF Enter
<1>6. running' \in BOOLEAN
  BY DEF Enter, TypeOK
<1>7. calls' \in Seq(Places) /\ Len(calls') = Len(calls) + 1
  BY <1>1, <1>3, <1>4, Entered
<1> QED
  BY <1>1, <1>2, <1>5, <1>6, <1>7

LEMMA ApiTypes ==
  ASSUME TypeOK, Api
  PROVE  TypeOK'
<1>1. CASE SetEmulator
  BY <1>1 DEF TypeOK, SetEmulator
<1>2. CASE Unload
  BY <1>2 DEF TypeOK, Unload
<1>3. CASE Start
  BY <1>3 DEF TypeOK, Start
<1>4. CASE Stop
  BY <1>4 DEF TypeOK, Stop
<1>5. CASE StateSave
  <2>1. CurrentGame \in Game \cup {Null}
    BY DEF TypeOK, CurrentGame
  <2>2. Len(asked) + 1 \in Saves
    BY <1>5, ConstantAssumption DEF TypeOK, StateSave, Saves
  <2>3. asked' \in Seq(Game \cup {Null}) /\ Len(asked') <= MaxSaves
    BY <1>5, <2>1, <2>2 DEF TypeOK, StateSave, Saves
  <2>4. UNCHANGED <<emulator, loaded, started, running, elapsed, calls, answers>>
    BY <1>5 DEF StateSave
  <2>5. scheduled' \in Saves
    BY <1>5, <2>2 DEF StateSave
  <2>6. loop' \in BOOLEAN /\ frames' \in BOOLEAN
    BY <1>5 DEF StateSave
  <2> QED
    BY <2>3, <2>4, <2>5, <2>6 DEF TypeOK
<1>6. CASE Run
  BY <1>6, EnterTypes DEF TypeOK, Run
<1>7. ASSUME NEW g \in Game, Load(g) PROVE TypeOK'
  BY <1>7 DEF TypeOK, Load
<1> QED
  BY <1>1, <1>2, <1>3, <1>4, <1>5, <1>6, <1>7 DEF Api

LEMMA BodyTypes ==
  ASSUME TypeOK, Body
  PROVE  TypeOK'
<1>1. /\ calls \in Seq(Places) /\ calls # <<>> /\ Len(calls) \in Nat /\ Len(calls) > 0
      /\ Len(calls) <= MaxDepth /\ MaxDepth \in Nat
  BY StackProps, ConstantAssumption
  DEF TypeOK, Body, FrameStart, Emulate, FrameEnd, Finish, Throw, At
<1>2. ASSUME NEW p \in Places, GoTo(p) PROVE calls' \in Seq(Places) /\ Len(calls') <= MaxDepth
  BY <1>1, <1>2, Moved
<1>3. ASSUME NEW n \in 0..(Len(calls) - 1), calls' = SubSeq(calls, 1, n)
      PROVE  calls' \in Seq(Places) /\ Len(calls') <= MaxDepth
  <2>1. n \in 0..Len(calls)
    BY <1>1
  <2> QED
    BY <1>1, <1>3, <2>1, Unwound
<1>4. CASE FrameStart
  BY <1>4, <1>2 DEF TypeOK, FrameStart, Places
<1>5. CASE Emulate
  BY <1>5, <1>2 DEF TypeOK, Emulate, Places
<1>6. CASE FrameEnd
  BY <1>6, <1>2 DEF TypeOK, FrameEnd, Places
<1>7. CASE Finish
  <2>1. Answered \in Seq([save : Saves, game : Game])
    <3>1. CASE scheduled = Null \/ emulator = Null
      BY <3>1 DEF Answered, TypeOK
    <3>2. CASE ~(scheduled = Null \/ emulator = Null)
      <4>1. scheduled \in Saves /\ CurrentGame \in Game
        BY <3>2, <1>7 DEF TypeOK, Finish, NoGame, CurrentGame
      <4> QED
        BY <3>2, <4>1 DEF Answered, TypeOK
    <3> QED
      BY <3>1, <3>2
  <2>2. Len(calls) - 1 \in 0..(Len(calls) - 1)
    BY <1>1
  <2>3. calls' \in Seq(Places) /\ Len(calls') <= MaxDepth
    BY <1>7, <2>2, <1>3 DEF Finish
  <2> QED
    BY <1>7, <2>1, <2>3 DEF TypeOK, Finish, ScheduledAfter, LoopAfter
<1>8. CASE Throw
  BY <1>8, <1>3 DEF TypeOK, Throw
<1> QED
  BY <1>4, <1>5, <1>6, <1>7, <1>8 DEF Body

LEMMA TypeNext ==
  ASSUME TypeOK, [Next]_vars
  PROVE  TypeOK'
<1>1. CASE AnimationFrame
  BY <1>1, EnterTypes DEF TypeOK, AnimationFrame
<1>2. CASE Tick
  BY <1>2 DEF TypeOK, Tick
<1>3. CASE UNCHANGED vars
  BY <1>3 DEF TypeOK, vars
<1> QED
  BY <1>1, <1>2, <1>3, ApiTypes, BodyTypes DEF Next

\* The state of the library keeps its shape whatever the page and the browser
\* do; in particular no save is answered for a game that is not there.
THEOREM TypeCorrect == Spec => []TypeOK
<1>1. Init => TypeOK
  BY TypeInit
<1>2. TypeOK /\ [Next]_vars => TypeOK'
  BY TypeNext
<1> QED
  BY <1>1, <1>2, PTL DEF Spec

-----------------------------------------------------------------------------
(* One frame at a time.                                                    *)

Drawing(i) == calls[i] # "save"

LEMMA FrameEntered ==
  ASSUME TypeOK, OneFrame, Enter
  PROVE  OneFrame'
<1>1. calls \in Seq(Places) /\ Len(calls) \in Nat /\ DOMAIN calls = 1..Len(calls)
  BY StackProps DEF TypeOK
<1>2. CASE emulator # Null /\ ~running
  <2>1. calls' = Append(calls, "frameStart") /\ running'
    BY <1>2 DEF Enter
  <2>2. \A i \in 1..Len(calls) : calls'[i] = "save"
    BY <1>1, <1>2, <2>1, Entered DEF OneFrame, Places
  <2>3. DOMAIN calls' = 1..(Len(calls) + 1)
    BY <1>1, <2>1, Entered DEF Places
  <2>4. \A i \in DOMAIN calls' : calls'[i] # "save" => i = Len(calls) + 1
    BY <1>1, <2>2, <2>3
  <2> QED
    BY <2>1, <2>4 DEF OneFrame
<1>3. CASE ~(emulator # Null /\ ~running)
  <2>1. calls' = Append(calls, "save") /\ running' = running
    BY <1>3 DEF Enter
  <2>2. /\ DOMAIN calls' = 1..(Len(calls) + 1)
        /\ \A i \in 1..Len(calls) : calls'[i] = calls[i]
        /\ calls'[Len(calls) + 1] = "save"
    BY <1>1, <2>1, Entered DEF Places
  <2>3. \A i \in DOMAIN calls' : calls'[i] # "save" => i \in DOMAIN calls /\ calls[i] # "save"
    BY <1>1, <2>2
  <2> QED
    BY <2>1, <2>2, <2>3 DEF OneFrame
<1> QED
  BY <1>2, <1>3

LEMMA FrameMoved ==
  ASSUME TypeOK, OneFrame, calls # <<>>, Top # "save",
         NEW p \in {"emulate", "frameEnd"}, GoTo(p), running' = running
  PROVE  OneFrame'
<1>1. calls \in Seq(Places) /\ p \in Places
  BY DEF TypeOK, Places
<1>2. /\ DOMAIN calls' = DOMAIN calls /\ Len(calls) \in DOMAIN calls
      /\ calls'[Len(calls)] = p
      /\ \A i \in DOMAIN calls : i # Len(calls) => calls'[i] = calls[i]
  BY <1>1, Moved
<1>3. \A i \in DOMAIN calls : calls'[i] # "save" => calls[i] # "save"
  BY <1>2 DEF Top
<1> QED
  BY <1>2, <1>3 DEF OneFrame

LEMMA FrameEnded ==
  ASSUME TypeOK, OneFrame, FrameEnd
  PROVE  OneFrame'
<1>1. calls \in Seq(Places) /\ calls # <<>> /\ "save" \in Places /\ GoTo("save")
      /\ Top # "save"
  BY DEF TypeOK, Places, FrameEnd, At, Top
<1>2. /\ DOMAIN calls' = DOMAIN calls /\ Len(calls) \in DOMAIN calls
      /\ calls'[Len(calls)] = "save"
      /\ \A i \in DOMAIN calls : i # Len(calls) => calls'[i] = calls[i]
  BY <1>1, Moved
<1>3. \A i \in DOMAIN calls : i # Len(calls) => calls[i] = "save"
  BY <1>1, <1>2 DEF OneFrame, Top
<1>4. \A i \in DOMAIN calls' : calls'[i] = "save"
  BY <1>2, <1>3
<1> QED
  BY <1>4 DEF OneFrame

LEMMA FrameUnwound ==
  ASSUME TypeOK, OneFrame, calls # <<>>,
         NEW n \in 0..(Len(calls) - 1), calls' = SubSeq(calls, 1, n), running' = running
  PROVE  OneFrame'
<1>1. calls \in Seq(Places) /\ Len(calls) \in Nat /\ DOMAIN calls = 1..Len(calls)
  BY StackProps DEF TypeOK
<1>2. n \in 0..Len(calls)
  BY <1>1
<1>3. DOMAIN calls' = 1..n /\ \A i \in 1..n : calls'[i] = calls[i]
  BY <1>1, <1>2, Unwound
<1>4. \A i \in DOMAIN calls' : i \in DOMAIN calls /\ calls'[i] = calls[i]
  BY <1>1, <1>2, <1>3
<1> QED
  BY <1>4 DEF OneFrame

LEMMA FrameNext ==
  ASSUME TypeOK, OneFrame, [Next]_vars
  PROVE  OneFrame'
<1>1. CASE UNCHANGED <<calls, running>>
  BY <1>1 DEF OneFrame
<1>2. CASE Run \/ AnimationFrame
  BY <1>2, FrameEntered DEF Run, AnimationFrame
<1>3. CASE FrameStart \/ Emulate
  BY <1>3, FrameMoved DEF FrameStart, Emulate, At, Top
<1>4. CASE FrameEnd
  BY <1>4, FrameEnded
<1>5. CASE Finish
  <2>1. Len(calls) \in Nat /\ Len(calls) > 0 /\ calls # <<>>
    BY <1>5, StackProps DEF TypeOK, Finish, At
  <2>2. Len(calls) - 1 \in 0..(Len(calls) - 1)
    BY <2>1
  <2> QED
    BY <1>5, <2>1, <2>2, FrameUnwound DEF Finish
<1>6. CASE Throw
  BY <1>6, FrameUnwound DEF Throw
<1>7. CASE SetEmulator \/ Unload \/ Start \/ Stop \/ StateSave \/ Tick \/ UNCHANGED vars
  BY <1>7, <1>1 DEF SetEmulator, Unload, Start, Stop, StateSave, Tick, vars
<1>8. ASSUME NEW g \in Game, Load(g) PROVE OneFrame'
  BY <1>8, <1>1 DEF Load
<1> QED
  BY <1>2, <1>3, <1>4, <1>5, <1>6, <1>7, <1>8 DEF Next, Api, Body

\* However listeners nest calls of run(), and whatever they throw, System::run()
\* is never entered while a frame is being drawn.
THEOREM OneFrameAtATime == Spec => []OneFrame
<1>1. Init => OneFrame
  BY DEF Init, OneFrame
<1>2. TypeOK /\ OneFrame /\ [Next]_vars => OneFrame'
  BY FrameNext
<1> QED
  BY <1>1, <1>2, TypeCorrect, PTL DEF Spec

-----------------------------------------------------------------------------
(* The main loop.                                                          *)

LoopInv == StartedLoops /\ BorrowedLoop

LEMMA LoopNext ==
  ASSUME TypeOK, LoopInv, [Next]_vars
  PROVE  LoopInv'
<1> USE DEF LoopInv, StartedLoops, BorrowedLoop
<1>1. CASE UNCHANGED <<started, loop, scheduled>>
  BY <1>1
<1>2. CASE Unload \/ Start \/ Stop
  BY <1>2 DEF Unload, Start, Stop
<1>3. CASE StateSave
  <2>1. Len(asked) + 1 \in Nat /\ Null \notin Nat
    BY ConstantAssumption DEF TypeOK
  <2> QED
    BY <1>3, <2>1 DEF StateSave
<1>4. CASE Finish
  BY <1>4 DEF Finish, LoopAfter
<1>5. CASE SetEmulator \/ Run \/ AnimationFrame \/ Tick \/ UNCHANGED vars
  BY <1>5, <1>1 DEF SetEmulator, Run, AnimationFrame, Tick, vars
<1>6. CASE FrameStart \/ Emulate \/ FrameEnd \/ Throw
  BY <1>6, <1>1 DEF FrameStart, Emulate, FrameEnd, Throw
<1>7. ASSUME NEW g \in Game, Load(g) PROVE LoopInv'
  BY <1>7, <1>1 DEF Load
<1> QED
  BY <1>2, <1>3, <1>4, <1>5, <1>6, <1>7 DEF Next, Api, Body

LEMMA LoopCorrect == Spec => []LoopInv
<1>1. Init => LoopInv
  BY DEF Init, LoopInv, StartedLoops, BorrowedLoop
<1>2. TypeOK /\ LoopInv /\ [Next]_vars => LoopInv'
  BY LoopNext
<1> QED
  BY <1>1, <1>2, TypeCorrect, PTL DEF Spec

\* A started emulator always has its main loop.
THEOREM StartedHasLoop == Spec => []StartedLoops
<1>1. LoopInv => StartedLoops
  BY DEF LoopInv
<1> QED
  BY <1>1, LoopCorrect, PTL

\* The main loop of an emulator that is not started is there for a save.
THEOREM LoopIsBorrowed == Spec => []BorrowedLoop
<1>1. LoopInv => BorrowedLoop
  BY DEF LoopInv
<1> QED
  BY <1>1, LoopCorrect, PTL

-----------------------------------------------------------------------------
(* Saves.                                                                  *)

\* Saves are numbered in the order they are asked for, and the scheduled one has
\* not been answered.
AnswerInv ==
  /\ AnsweredOnce
  /\ \A i \in DOMAIN answers : /\ answers[i].save <= Len(asked)
                               /\ scheduled # Null => answers[i].save # scheduled
  /\ scheduled # Null => scheduled <= Len(asked)

LEMMA AnswerNext ==
  ASSUME TypeOK, AnswerInv, [Next]_vars
  PROVE  AnswerInv'
<1> USE DEF AnswerInv, AnsweredOnce
<1>0. \A i \in DOMAIN answers : answers[i].save \in Nat
  <2> DEFINE Answer == [save : Saves, game : Game]
  <2>1. answers \in Seq(Answer)
    BY DEF TypeOK
  <2> HIDE DEF Answer
  <2>2. \A i \in DOMAIN answers : answers[i] \in Answer
    BY <2>1
  <2>3. \A i \in DOMAIN answers : answers[i] \in [save : Saves, game : Game]
    BY <2>2 DEF Answer
  <2>4. Saves \subseteq Nat
    BY ConstantAssumption DEF Saves
  <2> QED
    BY <2>3, <2>4
<1>1. CASE UNCHANGED <<scheduled, asked, answers>>
  BY <1>1
<1>2. CASE StateSave
  <2>1. Len(asked) \in Nat
    BY DEF TypeOK
  <2>2. answers' = answers /\ scheduled' = Len(asked) + 1
    BY <1>2 DEF StateSave
  <2>3. Len(asked') = Len(asked) + 1
    BY <1>2 DEF StateSave, TypeOK
  <2>4. \A i \in DOMAIN answers : /\ answers[i].save <= Len(asked) + 1
                                    /\ answers[i].save # Len(asked) + 1
    BY <1>0, <2>1
  <2>5. scheduled' <= Len(asked')
    BY <2>1, <2>2, <2>3
  <2>6. \A i \in DOMAIN answers' : /\ answers'[i].save <= Len(asked')
                                     /\ answers'[i].save # scheduled'
    BY <2>2, <2>3, <2>4
  <2>7. AnsweredOnce'
    BY <2>2
  <2> QED
    BY <2>5, <2>6, <2>7
<1>3. CASE Finish
  <2>1. scheduled' = Null /\ asked' = asked /\ answers' = Answered
    BY <1>3 DEF Finish, ScheduledAfter
  <2>2. CASE scheduled = Null \/ emulator = Null
    BY <2>1, <2>2 DEF Answered
  <2>3. CASE ~(scheduled = Null \/ emulator = Null)
    <3>1. answers \in Seq([save : Saves, game : Game])
      BY DEF TypeOK
    <3> DEFINE a == [save |-> scheduled, game |-> CurrentGame]
    <3>2. answers' = Append(answers, a) /\ a.save = scheduled
      BY <2>1, <2>3 DEF Answered
    <3> HIDE DEF a
    <3>3. /\ Len(answers) \in Nat /\ DOMAIN answers = 1..Len(answers)
          /\ DOMAIN answers' = 1..(Len(answers) + 1)
          /\ \A i \in 1..Len(answers) : answers'[i] = answers[i]
          /\ answers'[Len(answers) + 1] = a
      BY <3>1, <3>2
    <3>4. \A i \in DOMAIN answers' : answers'[i].save <= Len(asked)
      BY <2>3, <3>2, <3>3
    <3>5. \A i, j \in DOMAIN answers' : answers'[i].save = answers'[j].save => i = j
      BY <2>3, <3>2, <3>3
    <3> QED
      BY <2>1, <3>4, <3>5
  <2> QED
    BY <2>2, <2>3
<1>4. CASE SetEmulator \/ Unload \/ Start \/ Stop \/ Run \/ AnimationFrame \/ Tick \/ UNCHANGED vars
  BY <1>4, <1>1 DEF SetEmulator, Unload, Start, Stop, Run, AnimationFrame, Tick, vars
<1>5. CASE FrameStart \/ Emulate \/ FrameEnd \/ Throw
  BY <1>5, <1>1 DEF FrameStart, Emulate, FrameEnd, Throw
<1>6. ASSUME NEW g \in Game, Load(g) PROVE AnswerInv'
  BY <1>6, <1>1 DEF Load
<1> QED
  BY <1>2, <1>3, <1>4, <1>5, <1>6 DEF Next, Api, Body

\* However saves, runs and stops interleave, no callback of stateSave is called
\* twice.
THEOREM AnsweredAtMostOnce == Spec => []AnsweredOnce
<1>1. Init => AnswerInv
  BY DEF Init, AnswerInv, AnsweredOnce
<1>2. TypeOK /\ AnswerInv /\ [Next]_vars => AnswerInv'
  BY AnswerNext
<1>3. AnswerInv => AnsweredOnce
  BY DEF AnswerInv
<1> QED
  BY <1>1, <1>2, <1>3, TypeCorrect, PTL DEF Spec

\* Only the innermost run() is inside System::run(), if its listener does not
\* call run().
EmulatesOnTop == \A i \in DOMAIN calls : calls[i] = "emulate" => i = Len(calls)

LEMMA EmulateEntered ==
  ASSUME TypeOK, EmulatesOnTop, Enter, calls = <<>> \/ Top # "emulate"
  PROVE  EmulatesOnTop'
<1>1. calls \in Seq(Places) /\ Len(calls) \in Nat /\ DOMAIN calls = 1..Len(calls)
  BY StackProps DEF TypeOK
<1>2. \A i \in DOMAIN calls : calls[i] # "emulate"
  BY <1>1 DEF EmulatesOnTop, Top
<1>3. PICK p \in {"frameStart", "save"} : calls' = Append(calls, p)
  BY DEF Enter
<1>4. /\ DOMAIN calls' = 1..(Len(calls) + 1)
      /\ \A i \in 1..Len(calls) : calls'[i] = calls[i]
      /\ calls'[Len(calls) + 1] = p
  BY <1>1, <1>3, Entered DEF Places
<1>5. \A i \in DOMAIN calls' : calls'[i] # "emulate"
  BY <1>1, <1>2, <1>4
<1> QED
  BY <1>5 DEF EmulatesOnTop

LEMMA EmulateMoved ==
  ASSUME TypeOK, EmulatesOnTop, calls # <<>>, NEW p \in Places, GoTo(p)
  PROVE  EmulatesOnTop'
<1>1. /\ Len(calls') = Len(calls) /\ DOMAIN calls' = DOMAIN calls
      /\ \A i \in DOMAIN calls : i # Len(calls) => calls'[i] = calls[i]
  BY Moved DEF TypeOK
<1> QED
  BY <1>1 DEF EmulatesOnTop

LEMMA EmulateUnwound ==
  ASSUME TypeOK, EmulatesOnTop, calls # <<>>,
         NEW n \in 0..(Len(calls) - 1), calls' = SubSeq(calls, 1, n)
  PROVE  EmulatesOnTop'
<1>1. calls \in Seq(Places) /\ Len(calls) \in Nat /\ DOMAIN calls = 1..Len(calls)
  BY StackProps DEF TypeOK
<1>2. n \in 0..Len(calls)
  BY <1>1
<1>3. DOMAIN calls' = 1..n /\ \A i \in 1..n : calls'[i] = calls[i]
  BY <1>1, <1>2, Unwound
<1>4. \A i \in DOMAIN calls' : calls'[i] # "emulate"
  BY <1>1, <1>3 DEF EmulatesOnTop
<1> QED
  BY <1>4 DEF EmulatesOnTop

LEMMA EmulateNext ==
  ASSUME "run" \notin ResizeCalls, TypeOK, EmulatesOnTop, [Next]_vars
  PROVE  EmulatesOnTop'
<1>1. CASE UNCHANGED calls
  BY <1>1 DEF EmulatesOnTop
<1>2. CASE Run \/ AnimationFrame
  BY <1>2, EmulateEntered DEF Run, AnimationFrame, MayCall, Top
<1>3. CASE FrameStart \/ Emulate \/ FrameEnd
  BY <1>3, EmulateMoved DEF FrameStart, Emulate, FrameEnd, At, Places
<1>4. CASE Finish
  <2>1. Len(calls) \in Nat /\ Len(calls) > 0 /\ calls # <<>>
    BY <1>4, StackProps DEF TypeOK, Finish, At
  <2>2. Len(calls) - 1 \in 0..(Len(calls) - 1)
    BY <2>1
  <2> QED
    BY <1>4, <2>1, <2>2, EmulateUnwound DEF Finish
<1>5. CASE Throw
  BY <1>5, EmulateUnwound DEF Throw
<1>6. CASE SetEmulator \/ Unload \/ Start \/ Stop \/ StateSave \/ Tick \/ UNCHANGED vars
  BY <1>6, <1>1 DEF SetEmulator, Unload, Start, Stop, StateSave, Tick, vars
<1>7. ASSUME NEW g \in Game, Load(g) PROVE EmulatesOnTop'
  BY <1>7, <1>1 DEF Load
<1> QED
  BY <1>2, <1>3, <1>4, <1>5, <1>6, <1>7 DEF Next, Api, Body

LEMMA AnswersOutside ==
  ASSUME TypeOK, EmulatesOnTop, [Next]_vars, answers' # answers
  PROVE  \A i \in DOMAIN calls : calls[i] # "emulate"
<1>1. Finish
  BY DEF Next, Api, Body, vars, SetEmulator, Load, Unload, Start, Stop, StateSave, Run,
         AnimationFrame, FrameStart, Emulate, FrameEnd, Throw, Tick
<1> QED
  BY <1>1 DEF Finish, At, EmulatesOnTop

\* A page whose resize listener does not call run() gets its states serialized
\* between frames, whoever asked for them and when.
THEOREM SavesBetweenFrames ==
  ASSUME "run" \notin ResizeCalls
  PROVE  Spec => SavedBetweenFrames
<1>1. Init => EmulatesOnTop
  BY DEF Init, EmulatesOnTop
<1>2. TypeOK /\ EmulatesOnTop /\ [Next]_vars => EmulatesOnTop'
  BY EmulateNext
<1>3. TypeOK /\ EmulatesOnTop /\ [Next]_vars
      => [answers' # answers => \A i \in DOMAIN calls : calls[i] # "emulate"]_vars
  BY AnswersOutside
<1> QED
  BY <1>1, <1>2, <1>3, TypeCorrect, PTL DEF Spec, SavedBetweenFrames


-----------------------------------------------------------------------------
(* The ports of an emulator.                                               *)

PortTypeOK ==
  /\ root \in {"none", "live", "stale"}
  /\ node \in [Port -> BOOLEAN]
  /\ device \in [Port -> Gamepads \cup {Unplugged}]
  /\ buttonMap \in [Port -> Value \cup {Unplugged}]
  /\ sent \in [Port -> SUBSET Value]

\* What the devices made between two games are: in no tree.
BetweenGames ==
  root # "live" => \A p \in Port : device[p] # Unplugged => ~device[p].inTree

\* The map that a device reads has been sent to it, or set to zero for it; the one that
\* the library keeps from the game before is read by nobody.
MapIsSent ==
  \A p \in Port : device[p] # Unplugged /\ device[p].tagged /\ buttonMap[p] # Unplugged
                  => buttonMap[p] \in sent[p]

PortInv == PortTypeOK /\ PluggedIsShown /\ BetweenGames /\ MapIsSent /\ NoHeldButton

LEMMA NewGamepadIsOne ==
  ASSUME NEW t \in BOOLEAN, PortTypeOK
  PROVE  /\ NewGamepad(t) \in Gamepads /\ NewGamepad(t) # Unplugged
         /\ NewGamepad(t).button = 0
         /\ NewGamepad(t).inTree <=> root = "live"
<1>1. NewGamepad(t) \in Gamepads
  BY PortAssumption DEF NewGamepad, Gamepads
<1>2. NewGamepad(t).button = 0 /\ (NewGamepad(t).inTree <=> root = "live")
  BY DEF NewGamepad
<1> QED BY <1>1, <1>2, PortAssumption

LEMMA InitPorts == PortsInit => PortInv
BY PortAssumption DEF PortsInit, PortInv, PortTypeOK, PluggedIsShown, BetweenGames, MapIsSent,
   NoHeldButton

LEMMA LoadKeeps ==
  ASSUME PortInv, LoadPorts
  PROVE  PortInv'
<1> DEFINE pad == [tagged |-> FALSE, inTree |-> TRUE, button |-> 0]
<1>1. pad \in Gamepads /\ pad # Unplugged /\ ~pad.tagged /\ pad.inTree /\ pad.button = 0
  <2>1. pad \in Gamepads
    BY PortAssumption DEF Gamepads
  <2>2. ~pad.tagged /\ pad.inTree /\ pad.button = 0
    OBVIOUS
  <2> QED BY <2>1, <2>2, PortAssumption
<1> HIDE DEF pad
<1>2. /\ root' = "live" /\ node' = [p \in Port |-> p = FirstPort]
      /\ device' = [p \in Port |-> IF p = FirstPort THEN pad ELSE Left(p)]
      /\ sent' = [sent EXCEPT ![FirstPort] = {0}] /\ buttonMap' = buttonMap
  BY DEF LoadPorts, pad
<1>3. \A p \in Port : Left(p) \in Gamepads \cup {Unplugged}
  BY DEF Left, PortInv, PortTypeOK
<1>4. \A p \in Port : Left(p) # Unplugged => Left(p) = device[p] /\ ~Left(p).inTree
  BY DEF Left, PortInv, BetweenGames
<1>5. PortTypeOK'
  BY <1>1, <1>2, <1>3, PortAssumption DEF PortInv, PortTypeOK
<1>6. PluggedIsShown' /\ BetweenGames'
  BY <1>1, <1>2, <1>4, PortAssumption DEF PluggedIsShown, BetweenGames
<1>7. MapIsSent' /\ NoHeldButton'
  BY <1>1, <1>2, <1>4, PortAssumption DEF PortInv, PortTypeOK, MapIsSent, NoHeldButton
<1> QED BY <1>5, <1>6, <1>7 DEF PortInv

LEMMA UnloadKeeps ==
  ASSUME PortInv, UnloadPorts
  PROVE  PortInv'
BY DEF UnloadPorts, PortInv, PortTypeOK, PluggedIsShown, BetweenGames, MapIsSent, NoHeldButton

LEMMA ConnectKeeps ==
  ASSUME PortInv, NEW q \in Port, Connect(q)
  PROVE  PortInv'
<1>1. PICK known \in BOOLEAN :
        /\ device' = [device EXCEPT ![q] = IF known THEN NewGamepad(TRUE) ELSE Unplugged]
        /\ node' = [node EXCEPT ![q] = known /\ root = "live"]
  BY DEF Connect
<1>2. /\ buttonMap' = [buttonMap EXCEPT ![q] = 0] /\ sent' = [sent EXCEPT ![q] = {0}]
      /\ root' = root
  BY DEF Connect, MapAfterConnect
<1>3. /\ NewGamepad(TRUE) \in Gamepads /\ NewGamepad(TRUE) # Unplugged
      /\ NewGamepad(TRUE).button = 0 /\ (NewGamepad(TRUE).inTree <=> root = "live")
  BY NewGamepadIsOne DEF PortInv
<1>4. PortTypeOK'
  BY <1>1, <1>2, <1>3, PortAssumption DEF PortInv, PortTypeOK
<1>5. PluggedIsShown' /\ BetweenGames'
  BY <1>1, <1>2, <1>3 DEF PortInv, PortTypeOK, PluggedIsShown, BetweenGames
<1>6. MapIsSent' /\ NoHeldButton'
  BY <1>1, <1>2, <1>3 DEF PortInv, PortTypeOK, MapIsSent, NoHeldButton
<1> QED BY <1>4, <1>5, <1>6 DEF PortInv

LEMMA DisconnectKeeps ==
  ASSUME PortInv, NEW q \in Port, Disconnect(q)
  PROVE  PortInv'
<1>1. PortTypeOK'
  BY DEF Disconnect, DeviceAfterDisconnect, PortInv, PortTypeOK
<1>2. PluggedIsShown' /\ BetweenGames'
  BY DEF Disconnect, DeviceAfterDisconnect, PortInv, PortTypeOK, PluggedIsShown, BetweenGames
<1>3. MapIsSent' /\ NoHeldButton'
  BY DEF Disconnect, DeviceAfterDisconnect, PortInv, PortTypeOK, MapIsSent, NoHeldButton
<1> QED BY <1>1, <1>2, <1>3 DEF PortInv

LEMMA SetButtonKeeps ==
  ASSUME PortInv, NEW q \in Port, NEW v \in Value, SetButton(q, v)
  PROVE  PortInv'
BY DEF SetButton, PortInv, PortTypeOK, PluggedIsShown, BetweenGames, MapIsSent, NoHeldButton

\* A device reads its map while the game runs: nothing else about it changes.
LEMMA PollKeeps ==
  ASSUME PortInv, NEW q \in Port, Poll(q)
  PROVE  PortInv'
<1> DEFINE polled == [device[q] EXCEPT !.button = buttonMap[q]]
<1>1. device[q] \in Gamepads /\ buttonMap[q] \in Value /\ buttonMap[q] \in sent[q]
  BY DEF Poll, PortInv, PortTypeOK, MapIsSent
<1>2. /\ polled \in Gamepads /\ polled # Unplugged /\ polled.button = buttonMap[q]
      /\ polled.tagged = device[q].tagged /\ polled.inTree = device[q].inTree
  BY <1>1, PortAssumption DEF Gamepads
<1>3. device' = [device EXCEPT ![q] = polled] /\ UNCHANGED <<root, node, buttonMap, sent>>
  BY DEF Poll
<1> HIDE DEF polled
<1>4. PortTypeOK'
  BY <1>2, <1>3 DEF PortInv, PortTypeOK
<1>5. PluggedIsShown' /\ BetweenGames'
  BY <1>2, <1>3 DEF Poll, PortInv, PortTypeOK, PluggedIsShown, BetweenGames
<1>6. MapIsSent' /\ NoHeldButton'
  BY <1>1, <1>2, <1>3 DEF Poll, PortInv, PortTypeOK, MapIsSent, NoHeldButton
<1> QED BY <1>4, <1>5, <1>6 DEF PortInv

\* The controllers of any page, however it plugs them and whenever: PortInv holds
\* in every state.
THEOREM PortsCorrect == PortsSpec => []PortInv
<1>1. PortInv /\ [PortsNext]_portVars => PortInv'
  <2> SUFFICES ASSUME PortInv, [PortsNext]_portVars PROVE PortInv'
    OBVIOUS
  <2>1. CASE LoadPorts BY <2>1, LoadKeeps
  <2>2. CASE UnloadPorts BY <2>2, UnloadKeeps
  <2>3. CASE \E p \in Port : Connect(p) \/ Disconnect(p) \/ Poll(p)
    BY <2>3, ConnectKeeps, DisconnectKeeps, PollKeeps
  <2>4. CASE \E p \in Port, v \in Value : SetButton(p, v)
    BY <2>4, SetButtonKeeps
  <2>5. CASE UNCHANGED portVars
    BY <2>5 DEF portVars, PortInv, PortTypeOK, PluggedIsShown, BetweenGames, MapIsSent,
       NoHeldButton
  <2> QED BY <2>1, <2>2, <2>3, <2>4, <2>5 DEF PortsNext
<1> QED BY InitPorts, <1>1, PTL DEF PortsSpec

\* While a game is loaded, the library's tree and the devices of the core agree.
THEOREM PluggedIsAlwaysShown == PortsSpec => []PluggedIsShown
<1>1. PortInv => PluggedIsShown BY DEF PortInv
<1> QED BY <1>1, PortsCorrect, PTL

\* No device shows a value that was sent before it was made.
THEOREM NoButtonIsHeld == PortsSpec => []NoHeldButton
<1>1. PortInv => NoHeldButton BY DEF PortInv
<1> QED BY <1>1, PortsCorrect, PTL

-----------------------------------------------------------------------------
(* The page.                                                               *)

Files == Rom \cup {NoRom}

Waits == [call : {"get"}, rom : Rom]
           \cup [call : {"put"}, rom : Files, from : Files, next : Rom]

PageTypeOK ==
  /\ core \in Cores \cup {NoRom}
  /\ inside \in [Cores -> Files]
  /\ memory \in [Cores -> Files]
  /\ stored \in [Rom -> Files]
  /\ shown \in Files /\ chosen \in Rom
  /\ fetching \in Seq(Rom) /\ queue \in Seq(Waits)

\* A click's pause is known to the button, and to the blur that came after it.
PauseIsNoticed ==
  /\ byUser => button = "Resume"
  /\ ~focused /\ playing /\ byUser => wasPaused

PageInv == PageTypeOK /\ folder \in Files /\ PageKnowsGame /\ PauseIsNoticed

-----------------------------------------------------------------------------
LEMMA CoreOfGame ==
  ASSUME NEW g \in Rom
  PROVE  CoreOf(g) \in Cores
BY RomAssumption DEF CoreOf

LEMMA CoresAreNoRom == \A c \in Cores : c # NoRom
BY RomAssumption

LEMMA RemoveKeeps ==
  ASSUME NEW S, NEW s \in Seq(S), NEW i \in DOMAIN s
  PROVE  RemoveAt(s, i) \in Seq(S) /\ s[i] \in S
<1>1. i \in 1..Len(s) /\ Len(s) \in Nat
  OBVIOUS
<1>2. SubSeq(s, 1, i - 1) \in Seq(S)
  BY <1>1, SubSeqProperties
<1>3. SubSeq(s, i + 1, Len(s)) \in Seq(S)
  BY <1>1, SubSeqProperties
<1> QED BY <1>1, <1>2, <1>3, ConcatProperties DEF RemoveAt

\* The library's calls keep its part of the invariant.
LEMMA LoadsGame ==
  ASSUME PageInv, NEW g \in Rom, NEW file \in Files, LoadRom(g, file)
  PROVE  /\ core' = core /\ core \in Cores /\ core # NoRom
         /\ inside' = [inside EXCEPT ![core] = g] /\ inside' \in [Cores -> Files]
         /\ memory' \in [Cores -> Files] /\ folder' \in Files
<1>1. core' = core /\ core \in Cores /\ core # NoRom
  BY DEF LoadRom, PageInv, PageTypeOK
<1>2. folder' \in Files
  BY <1>1 DEF LoadRom, PageInv, PageTypeOK
<1>3. inside' = [inside EXCEPT ![core] = g] /\ inside' \in [Cores -> Files]
  BY <1>1 DEF LoadRom, PageInv, PageTypeOK, Files
<1>4. memory' \in [Cores -> Files]
  BY <1>1, <1>2 DEF LoadRom, PageInv, PageTypeOK, Files
<1> QED BY <1>1, <1>2, <1>3, <1>4

LEMMA FolderIsFile == PageInv => FolderAfterUnload \in Files
BY DEF PageInv, PageTypeOK, FolderAfterUnload

-----------------------------------------------------------------------------
LEMMA InitPage == PageInit => PageInv
<1> SUFFICES ASSUME PageInit PROVE PageInv
  OBVIOUS
<1>1. core \in Cores
  BY CoreOfGame DEF PageInit
<1>2. PageTypeOK
  <2>1. fetching \in Seq(Rom) /\ queue \in Seq(Waits)
    BY DEF PageInit
  <2> QED BY <1>1, <2>1 DEF PageInit, PageTypeOK, Files
<1> QED BY <1>2 DEF PageInit, PageInv, PageKnowsGame, PauseIsNoticed, Files

LEMMA SelectKeeps ==
  ASSUME PageInv, NEW g \in Rom, SelectEmulator(g)
  PROVE  PageInv'
<1> USE DEF PageInv, PageTypeOK
<1>1. CASE playing
  <2>1. core \in Cores /\ inside[core] = shown
    BY <1>1 DEF PageKnowsGame
  <2>2. memory[core] \in Files
    BY <2>1
  <2> DEFINE put == [call |-> "put", rom |-> shown, from |-> memory[core], next |-> g]
  <2>3. put \in Waits
    BY <2>2 DEF Waits
  <2>4. queue' = Append(queue, put) /\ folder' = memory[core] /\ chosen' = g
    BY <1>1 DEF SelectEmulator, GameSave
  <2> HIDE DEF put
  <2>5. queue' \in Seq(Waits)
    BY <2>3, <2>4
  <2>6. UNCHANGED <<core, inside, memory, stored, shown, fetching, playing, byUser, button,
                    focused, wasPaused>>
    BY <1>1 DEF SelectEmulator, GameSave
  <2>7. PageTypeOK' /\ folder' \in Files
    BY <2>2, <2>4, <2>5, <2>6
  <2>8. PageKnowsGame' /\ PauseIsNoticed'
    BY <2>6 DEF PageKnowsGame, PauseIsNoticed
  <2> QED BY <2>7, <2>8
<1>2. CASE ~playing
  <2>1. core' \in Cores
    BY <1>2, CoreOfGame DEF SelectEmulator
  <2>2. UNCHANGED <<inside, memory, folder, queue, stored, shown, fetching, playing, byUser,
                    button, focused, wasPaused>> /\ chosen' = g
    BY <1>2 DEF SelectEmulator
  <2>3. PageTypeOK' /\ folder' \in Files
    BY <2>1, <2>2
  <2>4. PageKnowsGame' /\ PauseIsNoticed'
    BY <1>2, <2>2 DEF PageKnowsGame, PauseIsNoticed
  <2> QED BY <2>3, <2>4
<1> QED BY <1>1, <1>2

LEMMA StartKeeps ==
  ASSUME PageInv, StartGame
  PROVE  PageInv'
<1>1. fetching' \in Seq(Rom)
  BY DEF StartGame, PageInv, PageTypeOK
<1> QED BY <1>1 DEF StartGame, PageInv, PageTypeOK, PageKnowsGame, PauseIsNoticed, libraryVars

LEMMA FetchedKeeps ==
  ASSUME PageInv, NEW i \in DOMAIN fetching, Fetched(i)
  PROVE  PageInv'
<1> DEFINE get == [call |-> "get", rom |-> fetching[i]]
<1>1. fetching \in Seq(Rom) /\ queue \in Seq(Waits)
  BY DEF PageInv, PageTypeOK
<1>2. RemoveAt(fetching, i) \in Seq(Rom) /\ fetching[i] \in Rom
  BY <1>1, RemoveKeeps
<1>3. get \in Waits
  BY <1>2 DEF Waits
<1>4. fetching' = RemoveAt(fetching, i) /\ queue' = Append(queue, get)
  BY DEF Fetched
<1> HIDE DEF get
<1>5. fetching' \in Seq(Rom) /\ queue' \in Seq(Waits)
  BY <1>1, <1>2, <1>3, <1>4
<1> QED BY <1>5 DEF Fetched, PageInv, PageTypeOK, PageKnowsGame, PauseIsNoticed, libraryVars

LEMMA SelectedKeeps ==
  ASSUME PageInv, NEW i \in DOMAIN queue, Selected(i)
  PROVE  PageInv'
<1>1. queue \in Seq(Waits) /\ inside \in [Cores -> Files] /\ stored \in [Rom -> Files]
      /\ core \in Cores \cup {NoRom}
  BY DEF PageInv, PageTypeOK
<1>2. RemoveAt(queue, i) \in Seq(Waits) /\ queue[i] \in Waits
  BY <1>1, RemoveKeeps
<1>3. queue[i].next \in Rom /\ queue[i].from \in Files
  BY <1>2 DEF Selected, Waits
<1>4. core' \in Cores
  BY <1>3, CoreOfGame DEF Selected
<1>5. inside' \in [Cores -> Files]
  BY <1>1 DEF Selected, Files
<1>6. stored' \in [Rom -> Files]
  BY <1>1, <1>3 DEF Selected
<1>7. folder' \in Files
  BY FolderIsFile DEF Selected
<1>8. queue' \in Seq(Waits)
  BY <1>2 DEF Selected
<1>9. UNCHANGED <<memory, chosen, button, wasPaused, focused, fetching, byUser>>
      /\ ~playing' /\ shown' = NoRom
  BY DEF Selected
<1>10. PageTypeOK'
  BY <1>4, <1>5, <1>6, <1>8, <1>9 DEF PageInv, PageTypeOK, Files
<1> QED BY <1>7, <1>9, <1>10 DEF PageInv, PageKnowsGame, PauseIsNoticed

LEMMA StartedKeeps ==
  ASSUME PageInv, NEW i \in DOMAIN queue, Started(i)
  PROVE  PageInv'
<1>1. queue \in Seq(Waits) /\ stored \in [Rom -> Files]
  BY DEF PageInv, PageTypeOK
<1>2. RemoveAt(queue, i) \in Seq(Waits) /\ queue[i] \in Waits
  BY <1>1, RemoveKeeps
<1> DEFINE g == queue[i].rom
<1>3. g \in Rom
  BY <1>2 DEF Started, Waits
<1>4. LoadRom(g, stored[g]) /\ stored[g] \in Files
  BY <1>1, <1>3 DEF Started
<1>5. /\ queue' = RemoveAt(queue, i) /\ playing' = TRUE /\ shown' = g /\ byUser' = FALSE
      /\ UNCHANGED <<chosen, button, wasPaused, focused, fetching, stored>>
  BY DEF Started
<1> HIDE DEF g
<1>6. /\ core' = core /\ core \in Cores /\ core # NoRom
      /\ inside' = [inside EXCEPT ![core] = g] /\ inside' \in [Cores -> Files]
      /\ memory' \in [Cores -> Files] /\ folder' \in Files
  BY <1>3, <1>4, LoadsGame
<1>7. PageTypeOK'
  BY <1>2, <1>3, <1>5, <1>6 DEF PageInv, PageTypeOK, Files
<1>8. PageKnowsGame'
  BY <1>5, <1>6 DEF PageInv, PageTypeOK, PageKnowsGame
<1>9. PauseIsNoticed'
  BY <1>5 DEF PauseIsNoticed
<1> QED BY <1>6, <1>7, <1>8, <1>9 DEF PageInv

\* The steps that only pause and resume.
LEMMA PausesKeep ==
  ASSUME PageInv, Resume \/ PauseOrResume \/ Blur \/ Focus
  PROVE  PageInv'
<1>1. UNCHANGED <<core, inside, memory, folder, stored, shown, chosen, fetching, queue, playing>>
  BY DEF Resume, PauseOrResume, Blur, Focus, libraryVars
<1>2. PageTypeOK' /\ folder' \in Files /\ PageKnowsGame'
  BY <1>1 DEF PageInv, PageTypeOK, PageKnowsGame
<1>3. PauseIsNoticed'
  <2>1. CASE Resume
    BY <2>1 DEF Resume, SetResume, PauseIsNoticed
  <2>2. CASE PauseOrResume
    BY <2>2 DEF PauseOrResume, SetPause, SetResume, PauseIsNoticed
  <2>3. CASE Blur
    BY <2>3 DEF PageInv, Blur, SetPause, PauseIsNoticed
  <2>4. CASE Focus
    BY <2>4 DEF PageInv, Focus, SetResume, PauseIsNoticed
  <2> QED BY <2>1, <2>2, <2>3, <2>4
<1> QED BY <1>2, <1>3 DEF PageInv

LEMMA PageStep ==
  ASSUME PageInv, [PageNext]_pageVars
  PROVE  PageInv'
<1>1. CASE \E g \in Rom : SelectEmulator(g)
  BY <1>1, SelectKeeps
<1>2. CASE \E i \in DOMAIN fetching : Fetched(i)
  BY <1>2, FetchedKeeps
<1>3. CASE \E i \in DOMAIN queue : Selected(i) \/ Started(i)
  BY <1>3, SelectedKeeps, StartedKeeps
<1>4. CASE StartGame
  BY <1>4, StartKeeps
<1>5. CASE Resume \/ PauseOrResume \/ Blur \/ Focus
  BY <1>5, PausesKeep
<1>6. CASE UNCHANGED pageVars
  BY <1>6 DEF pageVars, libraryVars, PageInv, PageTypeOK, PageKnowsGame, PauseIsNoticed
<1> QED BY <1>1, <1>2, <1>3, <1>4, <1>5, <1>6 DEF PageNext

\* Of the steps that get the focus back, only Focus does, and it finds the pause noticed.
LEMMA FocusStep ==
  ASSUME PageInv, [PageNext]_pageVars, ~focused, focused', on', ~on
  PROVE  ~byUser
<1>1. Focus
  BY DEF PageNext, pageVars, SelectEmulator, Fetched, Selected, Started, StartGame, Resume,
     PauseOrResume, Blur
<1> QED BY <1>1 DEF Focus, PageInv, PauseIsNoticed

-----------------------------------------------------------------------------
\* The invariant behind both theorems: games, cores, files and waiting calls keep their
\* range, whatever calls of startGame and selectEmulator wait and in whatever order they go on.
THEOREM PageCorrect == PageSpec => []PageInv
<1>1. PageInit => PageInv
  BY InitPage
<1>2. PageInv /\ [PageNext]_pageVars => PageInv'
  BY PageStep
<1> QED BY <1>1, <1>2, PTL DEF PageSpec

\* Module.info.currentGame names the game in the selected core, however many starts and
\* selections of however many games overtake each other.
THEOREM PageAlwaysKnowsGame == PageSpec => []PageKnowsGame
<1>1. PageInv => PageKnowsGame
  BY DEF PageInv
<1> QED BY <1>1, PageCorrect, PTL

\* The focus event resumes nothing that a click has paused.
THEOREM FocusAlwaysKeepsPause == PageSpec => FocusKeepsPause
<1>1. PageInv /\ [PageNext]_pageVars => [~focused /\ focused' /\ on' /\ ~on => ~byUser]_pageVars
  BY FocusStep
<1> QED BY <1>1, PageCorrect, PTL DEF PageSpec, FocusKeepsPause
=============================================================================
