--------------------------- MODULE EmulatorProofs ---------------------------
(***************************************************************************)
(* That the renderer thread never works on a freed bank or window, that    *)
(* the screen exists as a whole or not at all, and that devices are ticked *)
(* by one party only, for every set of keys and every number of events.    *)
(*                                                                         *)
(* The inductive invariant says, for each place the main thread can be at, *)
(* how far the screen has been built up or torn down there.                *)
(***************************************************************************)
EXTENDS Emulator, TLAPS

Live   == child \in {"check", "reading", "drawing"}
Built  == bank = "present" /\ sdl /\ ~stop /\ Live
Gone   == bank = "absent" /\ ~sdl /\ child \in {"none", "joined"}
Doomed == SCREEN \in devices /\ bank = "present" /\ stop

Removal == {"join", "remove", "rejoin", "teardown", "unbank"}

Construction ==
  /\ main \notin Removal \cup {"add"} =>
       IF SCREEN \in devices THEN Built ELSE Gone
  /\ main = "add" => SCREEN \notin devices /\ Built

Destruction ==
  /\ main \in Removal => Doomed
  /\ main = "join" => sdl /\ (Live \/ child = "exited")
  /\ main \in {"remove", "rejoin", "teardown"} => sdl /\ child = "joined"
  /\ main = "unbank" => ~sdl /\ child = "joined"

Ticking ==
  /\ main \in {"prompt", "add"} => ~simulating
  /\ main \in {"loop", "batch", "check"} => simulating
  /\ main \in {"tick", "poll"} \cup Removal => (simulating <=> ret = "batch")

IInv == TypeOK /\ Construction /\ Destruction /\ Ticking

USE DEF KB, SCREEN

LEMMA InitIInv == Init => IInv
<1> SUFFICES ASSUME Init PROVE IInv
    OBVIOUS
<1>1. events \in Seq(Event)
      BY DEF Init
<1>2. budget \in 0 .. EventBudget
      BY EmulatorAssumption DEF Init
<1>3. TypeOK
      BY <1>1, <1>2 DEF Init, TypeOK, Deaths
<1>4. Construction /\ Destruction /\ Ticking
      BY DEF Init, Construction, Destruction, Ticking, Gone, Removal
<1> QED BY <1>3, <1>4 DEF IInv

(* Types: every step keeps each variable in its range. The flags, the      *)
(* places and the data are kept for unrelated reasons.                     *)
Flags ==
  /\ simulating \in BOOLEAN
  /\ halted \in BOOLEAN
  /\ sdl \in BOOLEAN
  /\ stop \in BOOLEAN
  /\ enter \in BOOLEAN
Places ==
  /\ main \in {"prompt", "add", "loop", "batch", "check", "tick", "poll",
               "join", "remove", "rejoin", "teardown", "unbank"}
  /\ ret \in {"prompt", "batch"}
  /\ devices \subseteq {KB, SCREEN}
  /\ bank \in {"absent", "present"}
  /\ child \in {"none", "check", "reading", "drawing", "exited", "joined"}
  /\ death \in Deaths
Stored ==
  /\ events \in Seq(Event)
  /\ budget \in 0 .. EventBudget
  /\ data \in Keys \cup {0}

LEMMA TypeParts == TypeOK <=> Flags /\ Places /\ Stored
BY DEF TypeOK, Flags, Places, Stored

LEMMA FlagsKept == Flags /\ [Next]_vars => Flags'
<1> SUFFICES ASSUME Flags, [Next]_vars PROVE Flags'
    OBVIOUS
<1> USE DEF Flags, machine, window, Die
<1>1. CASE Prompt
  <2>1. CASE ScreenInit \/ ScreenInitAgain \/ LoadKeyboard
        BY <2>1 DEF ScreenInit, ScreenInitAgain, LoadKeyboard
  <2>2. CASE StepCommand
        BY <2>2 DEF StepCommand, Execute
  <2>3. CASE RunCommand \/ RunRefused \/ RunZero \/ QuitCommand
        BY <2>3 DEF RunCommand, RunRefused, RunZero, QuitCommand
  <2> QED BY <1>1, <2>1, <2>2, <2>3 DEF Prompt
<1>2. CASE AddScreen
      BY <1>2 DEF AddScreen
<1>3. CASE Simulate
  <2>1. CASE LoopTick \/ BatchEnd
        BY <2>1 DEF LoopTick, BatchEnd
  <2>2. CASE BatchStep
        BY <2>2 DEF BatchStep, Execute
  <2>3. CASE LoopCheck
        BY <2>3 DEF LoopCheck
  <2> QED BY <1>3, <2>1, <2>2, <2>3 DEF Simulate
<1>4. CASE Tick
      BY <1>4 DEF Tick, NoTick, TickPoll, PollNothing, PollKey, PollQuit,
                  JoinQuit, RemoveScreen, JoinDestroy, Teardown, Unbank
<1>5. CASE Child
      BY <1>5 DEF Child, ChildCheck, ChildRead, ChildDraw
<1>6. CASE User
      BY <1>6 DEF User, UserEvent, UserEnter
<1>7. CASE UNCHANGED vars
      BY <1>7 DEF vars
<1> QED BY <1>1, <1>2, <1>3, <1>4, <1>5, <1>6, <1>7 DEF Next, Main

LEMMA PlacesKept == Places /\ [Next]_vars => Places'
<1> SUFFICES ASSUME Places, [Next]_vars PROVE Places'
    OBVIOUS
<1> USE DEF Places, machine, window, Die, At, Deaths
<1>1. CASE Prompt \/ AddScreen
  <2>1. CASE ScreenInit \/ ScreenInitAgain
        BY <2>1 DEF ScreenInit, ScreenInitAgain
  <2>2. CASE LoadKeyboard
        BY <2>2 DEF LoadKeyboard
  <2>3. CASE AddScreen
        BY <2>3 DEF AddScreen
  <2>4. CASE StepCommand
        BY <2>4 DEF StepCommand, Execute
  <2>5. CASE RunCommand \/ RunRefused
        BY <2>5 DEF RunCommand, RunRefused
  <2>6. CASE RunZero \/ QuitCommand
        BY <2>6 DEF RunZero, QuitCommand
  <2> QED BY <1>1, <2>1, <2>2, <2>3, <2>4, <2>5, <2>6 DEF Prompt
<1>2. CASE Simulate
      BY <1>2 DEF Simulate, LoopTick, BatchStep, Execute, BatchEnd, LoopCheck
<1>3. CASE Tick
      BY <1>3 DEF Tick, NoTick, TickPoll, PollNothing, PollKey, PollQuit,
                  JoinQuit, RemoveScreen, JoinDestroy, Teardown, Unbank
<1>4. CASE Child
      BY <1>4 DEF Child, ChildCheck, ChildRead, ChildDraw
<1>5. CASE User
      BY <1>5 DEF User, UserEvent, UserEnter
<1>6. CASE UNCHANGED vars
      BY <1>6 DEF vars
<1> QED BY <1>1, <1>2, <1>3, <1>4, <1>5, <1>6 DEF Next, Main

LEMMA StoredKept == Stored /\ [Next]_vars => Stored'
<1> SUFFICES ASSUME Stored, [Next]_vars PROVE Stored'
    OBVIOUS
<1> USE DEF Stored, machine, window, Die
<1>1. CASE Prompt \/ AddScreen
  <2>1. CASE ScreenInit
        BY <2>1 DEF ScreenInit
  <2>2. CASE LoadKeyboard
        BY <2>2 DEF LoadKeyboard
  <2>3. CASE AddScreen
        BY <2>3 DEF AddScreen
  <2>4. CASE StepCommand
        BY <2>4 DEF StepCommand, Execute
  <2>5. CASE RunCommand \/ RunRefused
        BY <2>5 DEF RunCommand, RunRefused
  <2>6. CASE ScreenInitAgain \/ RunZero \/ QuitCommand
        BY <2>6 DEF ScreenInitAgain, RunZero, QuitCommand
  <2> QED BY <1>1, <2>1, <2>2, <2>3, <2>4, <2>5, <2>6 DEF Prompt
<1>2. CASE Simulate
      BY <1>2 DEF Simulate, LoopTick, BatchStep, Execute, BatchEnd, LoopCheck
<1>3. CASE PollKey
  <2>1. Head(events) \in Keys /\ events' \in Seq(Event)
        BY <1>3 DEF PollKey
  <2> QED BY <1>3, <2>1 DEF PollKey
<1>4. CASE PollQuit
      BY <1>4 DEF PollQuit
<1>5. CASE NoTick \/ TickPoll \/ PollNothing \/ JoinQuit \/ RemoveScreen
           \/ JoinDestroy \/ Teardown \/ Unbank
  <2>1. CASE NoTick \/ TickPoll \/ PollNothing
        BY <2>1 DEF NoTick, TickPoll, PollNothing
  <2>2. CASE JoinQuit \/ RemoveScreen
        BY <2>2 DEF JoinQuit, RemoveScreen
  <2>3. CASE JoinDestroy \/ Unbank
        BY <2>3 DEF JoinDestroy, Unbank
  <2>4. CASE Teardown
        BY <2>4 DEF Teardown
  <2> QED BY <1>5, <2>1, <2>2, <2>3, <2>4
<1>6. CASE Child
      BY <1>6 DEF Child, ChildCheck, ChildRead, ChildDraw
<1>7. CASE UserEnter
      BY <1>7 DEF UserEnter
<1>8. ASSUME NEW e \in Event, UserEvent(e) PROVE Stored'
      BY <1>8, EmulatorAssumption DEF UserEvent
<1>9. CASE UNCHANGED vars
      BY <1>9 DEF vars
<1> QED BY <1>1, <1>2, <1>3, <1>4, <1>5, <1>6, <1>7, <1>8, <1>9
        DEF Next, Main, Tick, User

LEMMA TypeKept == TypeOK /\ [Next]_vars => TypeOK'
<1>1. (Flags /\ Places /\ Stored)' => TypeOK'
      BY DEF TypeOK, Flags, Places, Stored
<1> QED BY TypeParts, FlagsKept, PlacesKept, StoredKept, <1>1

(* The screen: where the main thread is tells what exists.                 *)
LEMMA ScreenKept ==
  IInv /\ [Next]_vars => Construction' /\ Destruction' /\ Ticking'
<1> SUFFICES ASSUME IInv, [Next]_vars
             PROVE  Construction' /\ Destruction' /\ Ticking'
    OBVIOUS
<1> USE DEF IInv, TypeOK, Construction, Destruction, Ticking, Live, Built,
            Gone, Doomed, Removal, machine, window, Die, At
<1>1. CASE Prompt
      BY <1>1 DEF Prompt, ScreenInit, ScreenInitAgain, LoadKeyboard,
                  StepCommand, Execute, RunCommand, RunRefused, RunZero,
                  QuitCommand
<1>2. CASE AddScreen
      BY <1>2 DEF AddScreen
<1>3. CASE Simulate
      BY <1>3 DEF Simulate, LoopTick, BatchStep, Execute, BatchEnd, LoopCheck
<1>4. CASE Tick
  <2>1. CASE NoTick \/ TickPoll \/ PollNothing \/ PollKey \/ PollQuit
        BY <2>1 DEF NoTick, TickPoll, PollNothing, PollKey, PollQuit
  <2>2. CASE JoinQuit
        BY <2>2 DEF JoinQuit
  <2>3. CASE RemoveScreen
        BY <2>3 DEF RemoveScreen
  <2>4. CASE JoinDestroy
    <3>1. child = "joined" /\ Doomed /\ sdl
          BY <2>4 DEF JoinDestroy
    <3>2. CASE Die("fault")
          BY <3>1, <3>2
    <3>3. CASE main' = "teardown" /\ child' = "joined"
          BY <2>4, <3>1, <3>3 DEF JoinDestroy
    <3> QED BY <2>4, <3>2, <3>3 DEF JoinDestroy
  <2>5. CASE Teardown
        BY <2>5 DEF Teardown
  <2>6. CASE Unbank
        BY <2>6 DEF Unbank
  <2> QED BY <1>4, <2>1, <2>2, <2>3, <2>4, <2>5, <2>6 DEF Tick
<1>5. CASE Child
      BY <1>5 DEF Child, ChildCheck, ChildRead, ChildDraw
<1>6. CASE User
      BY <1>6 DEF User, UserEvent, UserEnter
<1>7. CASE UNCHANGED vars
      BY <1>7 DEF vars
<1> QED BY <1>1, <1>2, <1>3, <1>4, <1>5, <1>6, <1>7 DEF Next, Main

LEMMA Inductive == Spec => []IInv
<1>1. IInv /\ [Next]_vars => IInv'
      BY TypeKept, ScreenKept DEF IInv
<1> QED BY InitIInv, <1>1, PTL DEF Spec

(* Types hold in every run (main, screen_tick, simulate).                  *)
THEOREM EmulatorTypes == Spec => []TypeOK
<1>1. IInv => TypeOK
      BY DEF IInv
<1> QED BY Inductive, <1>1, PTL

(* fchild() never reads a freed bank and never draws on a destroyed window *)
(* in any interleaving with the main thread.                               *)
THEOREM RendererSafe == Spec => []NoRenderAfterFree
<1>1. IInv => NoRenderAfterFree
      BY DEF IInv, TypeOK, Construction, Destruction, Built, Gone, Doomed, Live,
             Removal, NoRenderAfterFree, Rendering
<1> QED BY Inductive, <1>1, PTL

(* screen_init() and screen_destroy() never leave half a screen behind.    *)
THEOREM ScreenIsWhole == Spec => []ScreenWhole
<1>1. IInv => ScreenWhole
      BY DEF IInv, TypeOK, Construction, Built, Gone, Live, Removal,
             ScreenWhole, Settled, Rendering
<1> QED BY Inductive, <1>1, PTL

(* simulate() and step() never both tick the devices, and one of them does.*)
THEOREM TicksOnce == Spec => []OneTicker
<1>1. IInv => OneTicker
      BY DEF IInv, Ticking, OneTicker
<1> QED BY Inductive, <1>1, PTL
=============================================================================
