------------------------------ MODULE Emulator ------------------------------
(***************************************************************************)
(* The emulator process: the main thread (prompt of emu/emu.c, simulate()  *)
(* and device table of emu/libemu.c, modules of emu/mod.c), the SCREEN     *)
(* device with the renderer thread it starts (emu/screen.c) and the        *)
(* KEYBOARD device it feeds (emu/kb.c).                                    *)
(*                                                                         *)
(* The two threads share the VRAM bank, the flag screen.stop and SDL's     *)
(* window objects. The processor is abstracted to what the threads can     *)
(* tell apart: an instruction may halt, read the keyboard port or do       *)
(* neither. SDL and the terminal are external: the user sends key and      *)
(* close events to an open window, types commands, and presses enter.      *)
(***************************************************************************)
EXTENDS Integers, Sequences

CONSTANTS
  Keys,        \* key events, as the byte kb_set_data() stores
  EventBudget  \* window events the user produces in all

ASSUME EmulatorAssumption ==
  /\ Keys \subseteq 0 .. 255
  /\ EventBudget \in Nat

KB     == 2    \* device ids
SCREEN == 64
Quit   == -1     \* a close event

Event == Keys \cup {Quit}

Deaths == {"alive", "exit", "assert", "divide", "fault"}

VARIABLES
  main,        \* where the main thread is
  ret,         \* where screen_tick() returns to
  simulating,  \* state->simulating
  halted,      \* the HALT bit of STATUS
  devices,     \* ids of the occupied slots of state->devices
  bank,        \* banks[1]: "absent" or "present"
  sdl,         \* SDL and its window, renderer and texture exist
  stop,        \* screen.stop
  child,       \* the renderer thread
  events,      \* SDL's event queue
  budget,      \* events the user may still produce
  data,        \* the keyboard's data byte
  enter,       \* stdin holds an unread character
  death        \* why the process ended: an entry of Deaths

vars == <<main, ret, simulating, halted, devices, bank, sdl, stop, child,
          events, budget, data, enter, death>>
machine == <<halted, devices, bank>>
window  == <<sdl, stop, child, events>>

Alive == death = "alive"
At(where) == Alive /\ main = where

Die(how) ==
  /\ death' = how
  /\ UNCHANGED <<main, ret, simulating, halted, devices, bank, sdl, stop,
                 child, events, budget, data, enter>>
-----------------------------------------------------------------------------
(* Loading a module: mod_load(). screen_init() takes bank 1, starts SDL    *)
(* and the renderer thread; add_device() then enters the device.           *)
ScreenInit ==
  /\ At("prompt")
  /\ bank = "absent"
  /\ bank' = "present"
  /\ stop' = FALSE
  /\ sdl' = TRUE
  /\ events' = << >>
  /\ child' = "check"
  /\ main' = "add"
  /\ UNCHANGED <<ret, simulating, halted, devices, budget, data, enter, death>>

(* assert(!state->banks[i]) in add_bank().                                 *)
ScreenInitAgain ==
  /\ At("prompt")
  /\ bank = "present"
  /\ Die("assert")

AddScreen ==
  /\ At("add")
  /\ SCREEN \notin devices
  /\ devices' = devices \cup {SCREEN}
  /\ main' = "prompt"
  /\ UNCHANGED <<ret, simulating, halted, bank, window, budget, data, enter,
                 death>>

(* assert(state->devices[device.id].id == 0) in add_device().              *)
LoadKeyboard ==
  /\ At("prompt")
  /\ \/ /\ KB \notin devices
        /\ devices' = devices \cup {KB}
        /\ UNCHANGED <<main, ret, simulating, halted, bank, window, budget,
                       data, enter, death>>
     \/ /\ KB \in devices
        /\ Die("assert")
-----------------------------------------------------------------------------
(* One instruction: step() up to the device ticks. While not simulating    *)
(* the ticks are part of it, so the main thread goes on to tick().         *)
Execute ==
  /\ halted' \in BOOLEAN
  /\ UNCHANGED <<devices, bank, window, budget, data, enter, death>>

StepCommand ==
  /\ At("prompt")
  /\ ~halted
  /\ Execute
  /\ main' = "tick"
  /\ ret' = "prompt"
  /\ UNCHANGED simulating

(* RUN: the machine is un-halted first. A speed that does not parse, or    *)
(* one above SIMULATE_MAX_SPEED, goes back to the prompt; speed 0 divides  *)
(* by zero in simulate().                                                  *)
RunCommand ==
  /\ At("prompt")
  /\ halted' = FALSE
  /\ simulating' = TRUE
  /\ main' = "loop"
  /\ UNCHANGED <<ret, devices, bank, window, budget, data, enter, death>>

RunRefused ==
  /\ At("prompt")
  /\ halted' = FALSE
  /\ UNCHANGED <<main, ret, simulating, devices, bank, window, budget, data,
                 enter, death>>

RunZero == At("prompt") /\ Die("divide")

QuitCommand == At("prompt") /\ Die("exit")

(* Slip: the tick is never due.                                            *)
LoopTickNever ==
  /\ At("loop")
  /\ main' = "batch"
  /\ ret' = "batch"
  /\ UNCHANGED <<simulating, machine, window, budget, data, enter, death>>

(* simulate(): each round ticks the devices when 100us have passed, runs   *)
(* a batch of instructions when it is their time, and leaves on a key or   *)
(* when the machine has halted.                                            *)
LoopTick ==
  /\ At("loop")
  /\ main' \in {"tick", "batch"}
  /\ ret' = "batch"
  /\ UNCHANGED <<simulating, machine, window, budget, data, enter, death>>

BatchStep ==
  /\ At("batch")
  /\ ~halted
  /\ Execute
  /\ UNCHANGED <<main, ret, simulating>>

BatchEnd ==
  /\ At("batch")
  /\ main' = "check"
  /\ UNCHANGED <<ret, simulating, machine, window, budget, data, enter, death>>

(* Slips: simulating is left set; the halt is not looked at.               *)
LoopCheckStillSet ==
  /\ At("check")
  /\ enter' = FALSE
  /\ main' = IF enter \/ halted THEN "prompt" ELSE "loop"
  /\ UNCHANGED <<simulating, ret, machine, window, budget, data, death>>

LoopCheckKeyOnly ==
  /\ At("check")
  /\ enter' = FALSE
  /\ main' = IF enter THEN "prompt" ELSE "loop"
  /\ simulating' = ~enter
  /\ UNCHANGED <<ret, machine, window, budget, data, death>>

(* stop_simulation() consumes one character; it is asked before halted().  *)
LoopCheck ==
  /\ At("check")
  /\ enter' = FALSE
  /\ IF enter \/ halted
     THEN main' = "prompt" /\ simulating' = FALSE
     ELSE main' = "loop" /\ UNCHANGED simulating
  /\ UNCHANGED <<ret, machine, window, budget, data, death>>
-----------------------------------------------------------------------------
(* screen_tick() on the main thread.                                       *)
NoTick ==
  /\ At("tick")
  /\ SCREEN \notin devices
  /\ main' = ret
  /\ UNCHANGED <<ret, simulating, machine, window, budget, data, enter, death>>

(* The test of screen.stop comes first: a stopped screen removes itself.    *)
TickPoll ==
  /\ At("tick")
  /\ SCREEN \in devices
  /\ main' = IF stop THEN "remove" ELSE "poll"
  /\ UNCHANGED <<ret, simulating, machine, window, budget, data, enter, death>>

(* SDL_PollEvent() finds nothing, or SDL has been shut down.               *)
PollNothing ==
  /\ At("poll")
  /\ ~sdl \/ events = << >>
  /\ main' = ret
  /\ UNCHANGED <<ret, simulating, machine, window, budget, data, enter, death>>

PollKey ==
  /\ At("poll")
  /\ sdl /\ events # << >> /\ Head(events) \in Keys
  /\ data' = IF KB \in devices THEN Head(events) ELSE data
  /\ events' = Tail(events)
  /\ UNCHANGED <<main, ret, simulating, machine, sdl, stop, child, budget,
                 enter, death>>

(* Slips: nobody waits for the renderer; nobody tells it to stop.          *)
PollQuitNoJoin ==
  /\ At("poll")
  /\ sdl /\ events # << >> /\ Head(events) = Quit
  /\ events' = Tail(events)
  /\ stop' = TRUE
  /\ main' = "teardown"
  /\ UNCHANGED <<ret, simulating, machine, sdl, child, budget, data, enter,
                 death>>

PollQuitNoStop ==
  /\ At("poll")
  /\ sdl /\ events # << >> /\ Head(events) = Quit
  /\ events' = Tail(events)
  /\ main' = "join"
  /\ UNCHANGED <<ret, simulating, machine, sdl, stop, child, budget, data,
                 enter, death>>

PollQuit ==
  /\ At("poll")
  /\ sdl /\ events # << >> /\ Head(events) = Quit
  /\ events' = Tail(events)
  /\ stop' = TRUE
  /\ main' = "join"
  /\ UNCHANGED <<ret, simulating, machine, sdl, child, budget, data, enter,
                 death>>

(* pthread_join() in the SDL_QUIT branch waits for the renderer.           *)
JoinQuit ==
  /\ At("join")
  /\ child = "exited"
  /\ child' = "joined"
  /\ main' = "remove"
  /\ UNCHANGED <<ret, simulating, machine, sdl, stop, events, budget, data,
                 enter, death>>

(* remove_device() asserts the device and calls screen_destroy(), which    *)
(* sets screen.stop (again).                                               *)
RemoveScreen ==
  /\ At("remove")
  /\ IF SCREEN \in devices
     THEN /\ main' = "rejoin"
          /\ stop' = TRUE
          /\ UNCHANGED <<ret, simulating, machine, sdl, child, events, budget,
                         data, enter, death>>
     ELSE Die("assert")

(* It joins too. Joining a thread that was joined already is undefined:     *)
(* the C library reports an error or follows a stale handle.               *)
JoinDestroy ==
  /\ At("rejoin")
  /\ \/ /\ child \in {"exited", "joined"}
        /\ child' = "joined"
        /\ main' = "teardown"
        /\ UNCHANGED <<ret, simulating, machine, sdl, stop, events, budget,
                       data, enter, death>>
     \/ /\ child = "joined"
        /\ Die("fault")

(* SDL's objects go, SDL_Quit() empties the event queue.                   *)
Teardown ==
  /\ At("teardown")
  /\ sdl' = FALSE
  /\ events' = << >>
  /\ main' = "unbank"
  /\ UNCHANGED <<ret, simulating, machine, stop, child, budget, data, enter,
                 death>>

(* Slip: the bank is kept.                                                 *)
UnbankKept ==
  /\ At("unbank")
  /\ devices' = devices \ {SCREEN}
  /\ main' = "poll"
  /\ UNCHANGED <<ret, simulating, halted, bank, window, budget, data, enter,
                 death>>

(* remove_bank(1), then remove_device() frees the slot. The poll loop goes *)
(* on with the next event.                                                 *)
Unbank ==
  /\ At("unbank")
  /\ IF bank = "present"
     THEN /\ bank' = "absent"
          /\ devices' = devices \ {SCREEN}
          /\ main' = "poll"
          /\ UNCHANGED <<ret, simulating, halted, window, budget, data, enter,
                         death>>
     ELSE Die("assert")
-----------------------------------------------------------------------------
(* fchild(): the renderer reads the whole bank, hands the picture to SDL   *)
(* and looks at screen.stop once per frame.                                *)
ChildCheck ==
  /\ Alive /\ child = "check"
  /\ child' = IF stop THEN "exited" ELSE "reading"
  /\ UNCHANGED <<main, ret, simulating, machine, sdl, stop, events, budget,
                 data, enter, death>>

ChildRead ==
  /\ Alive /\ child = "reading"
  /\ child' = "drawing"
  /\ UNCHANGED <<main, ret, simulating, machine, sdl, stop, events, budget,
                 data, enter, death>>

ChildDraw ==
  /\ Alive /\ child = "drawing"
  /\ child' = "check"
  /\ UNCHANGED <<main, ret, simulating, machine, sdl, stop, events, budget,
                 data, enter, death>>
-----------------------------------------------------------------------------
(* The user.                                                               *)
UserEvent(e) ==
  /\ Alive /\ sdl /\ budget > 0
  /\ events' = Append(events, e)
  /\ budget' = budget - 1
  /\ UNCHANGED <<main, ret, simulating, machine, sdl, stop, child, data, enter,
                 death>>

UserEnter ==
  /\ Alive /\ simulating /\ ~enter
  /\ enter' = TRUE
  /\ UNCHANGED <<main, ret, simulating, machine, window, budget, data, death>>

Init ==
  /\ main = "prompt" /\ ret = "prompt"
  /\ simulating = FALSE
  /\ halted = FALSE
  /\ devices = {}
  /\ bank = "absent"
  /\ sdl = FALSE
  /\ stop = FALSE
  /\ child = "none"
  /\ events = << >>
  /\ budget = EventBudget
  /\ data = 0
  /\ enter = FALSE
  /\ death = "alive"

Simulate == LoopTick \/ BatchStep \/ BatchEnd \/ LoopCheck
Tick == NoTick \/ TickPoll \/ PollNothing \/ PollKey \/ PollQuit
        \/ JoinQuit \/ RemoveScreen \/ JoinDestroy \/ Teardown
        \/ Unbank
Prompt == ScreenInit \/ ScreenInitAgain \/ LoadKeyboard \/ StepCommand
          \/ RunCommand \/ RunRefused \/ RunZero \/ QuitCommand
Main == Prompt \/ AddScreen \/ Simulate \/ Tick
Child == ChildCheck \/ ChildRead \/ ChildDraw
User == (\E e \in Event : UserEvent(e)) \/ UserEnter

Next == Main \/ Child \/ User

Spec == Init /\ [][Next]_vars

(* The scheduler runs both threads. In simulate() the 100us of a device    *)
(* tick pass again and again however short the rounds are; a batch has at  *)
(* most 512 instructions, so its end is not put off for ever.              *)
Fairness ==
  /\ WF_vars(Simulate)
  /\ WF_vars(BatchEnd)
  /\ SF_vars(LoopTick /\ main' = "tick")
  /\ WF_vars(Tick)
  /\ WF_vars(AddScreen)
  /\ WF_vars(Child)
FairSpec == Spec /\ Fairness
-----------------------------------------------------------------------------
TypeOK ==
  /\ main \in {"prompt", "add", "loop", "batch", "check", "tick", "poll",
               "join", "remove", "rejoin", "teardown", "unbank"}
  /\ ret \in {"prompt", "batch"}
  /\ simulating \in BOOLEAN /\ halted \in BOOLEAN
  /\ devices \subseteq {KB, SCREEN}
  /\ bank \in {"absent", "present"}
  /\ sdl \in BOOLEAN /\ stop \in BOOLEAN
  /\ child \in {"none", "check", "reading", "drawing", "exited", "joined"}
  /\ events \in Seq(Event)
  /\ budget \in 0 .. EventBudget
  /\ data \in Keys \cup {0}
  /\ enter \in BOOLEAN
  /\ death \in Deaths

Rendering == child \in {"reading", "drawing"}

(* The renderer thread touches the VRAM bank only while it is allocated    *)
(* and SDL's objects only while they exist, whenever the window is closed. *)
NoRenderAfterFree == Rendering => bank = "present" /\ sdl

(* Between two ticks or commands the screen is there as a whole or not at  *)
(* all: its device, its bank, its window and a renderer that has not been  *)
(* told to stop; and without a device no thread is left unjoined.          *)
Settled == main \in {"prompt", "loop", "batch", "check"}
ScreenWhole ==
  Settled =>
    IF SCREEN \in devices
    THEN bank = "present" /\ sdl /\ ~stop /\ (child = "check" \/ Rendering)
    ELSE bank = "absent" /\ ~sdl /\ child \in {"none", "joined"}

(* simulating tells step() whether to tick the devices itself; it is set   *)
(* exactly while simulate() runs, however it ends, so a tick is never      *)
(* skipped at the prompt nor done twice in a simulation.                   *)
OneTicker ==
  /\ main = "prompt" => ~simulating
  /\ main \in {"loop", "batch", "check"} => simulating
  /\ main = "tick" => (simulating <=> ret = "batch")

(* Closing the window ends in a freed device slot: the main thread does    *)
(* not wait for ever for a renderer that does not look at screen.stop.     *)
CloseCompletes == main = "join" ~> (SCREEN \notin devices \/ ~Alive)

(* A simulation that halted, or was asked to stop by a key, gets back to   *)
(* the prompt, window events notwithstanding.                              *)
SimulationEnds == (simulating /\ (halted \/ enter)) ~> (main = "prompt" \/ ~Alive)

(* A close event is not overlooked while the machine runs: the screen is   *)
(* gone in the end unless the simulation was left first.                   *)
ClosePending == simulating /\ \E i \in DOMAIN events : events[i] = Quit
CloseServed == ClosePending ~> (SCREEN \notin devices \/ ~simulating \/ ~Alive)
=============================================================================
