------------------------------- MODULE MCJdh8 -------------------------------
(***************************************************************************)
(* Small instances of Jdh8: three suites of programs, loaded at the        *)
(* addresses of the suite and run with the machine's other state as main() *)
(* leaves it. In one of them the prompt interferes between instructions.   *)
(***************************************************************************)
EXTENDS Jdh8, SequencesExt

VARIABLE suite

(* Instructions that move MB, write through the window, push into ROM and  *)
(* into the special registers.                                             *)
MemoryAlphabet ==
  { <<0, 1>>,               \* MW A, 1
    <<32, 1, 0>>,           \* SW [0x0001], A
    <<32, 0, 128>>,         \* SW [0x8000], A
    <<32, 250, 255>>,       \* SW [0xFFFA], A     MB
    <<33, 252, 255>>,       \* SW [0xFFFC], B     SP
    <<17, 0, 128>>,         \* LW B, [0x8000]
    <<48, 7>>,              \* PUSH 7
    <<65>>,                 \* POP B
    <<80, 1, 0>>,           \* LDA 0x0001
    <<40>>,                 \* SW [HL], A
    <<96, 1>>,              \* JNZ 1
    <<144, 255>> }          \* ADD A, 255

(* Every pair runs with RAM in the window, and again with bank 1 there.    *)
SelectBank == <<0, 1>> \o <<32, 250, 255>>
MemoryPrograms ==
  {p \o x \o y : p \in {<< >>, SelectBank},
                 x \in MemoryAlphabet, y \in MemoryAlphabet}

-----------------------------------------------------------------------------
(* Programs that use the stack the way SPEC.txt recommends: SP is set to   *)
(* the top of 0xFC00..0xFEFF, then bytes are pushed and popped.            *)
StackTop == 65279        \* 0xFEFF
SetStack ==
  <<0, 255>> \o <<32, 252, 255>> \o <<0, 254>> \o <<32, 253, 255>>

StackAlphabet ==
  { <<48, 1>>,            \* PUSH 1
    <<56>>,               \* PUSH A
    <<64>>,               \* POP A
    <<65>>,               \* POP B
    <<0, 5>>,             \* MW A, 5
    <<152, 1>> }          \* ADD A, B

StackPrograms ==
  {SetStack \o x1 \o x2 \o x3 \o x4 : x1 \in StackAlphabet,
     x2 \in StackAlphabet, x3 \in StackAlphabet, x4 \in StackAlphabet}

(* The bytes on the stack, oldest first, once SP is inside the region.     *)
StackBytes ==
  IF suite = "stack" /\ space.special[SP] \in StackTop - 767 .. StackTop
  THEN [k \in 1 .. StackTop - space.special[SP] |->
          Peek(space, StackTop + 1 - k)]
  ELSE << >>

Lifo == INSTANCE LifoStack WITH
          stack <- StackBytes,
          registers <- IF suite = "stack" THEN regs ELSE << >>

(* PUSH and POP implement a last-in first-out stack: POP delivers exactly  *)
(* the byte of the matching PUSH and nothing else disturbs the stack.      *)
ImplementsLifo == Lifo!Spec
-----------------------------------------------------------------------------
(* Port instructions with a status port, a screen, a keyboard that cannot  *)
(* receive and ports past the device table, with the prompt interfering.   *)
PortImages ==
  { <<112, 0>>,           \* INB A, 0       STATUS
    <<112, 2>>,           \* INB A, 2       keyboard
    <<112, 125>>,         \* INB A, 125     past the device table
    <<136, 1>>,           \* OUTB B, A      the port is in B
    <<128, 2>>,           \* OUTB 2, A
    <<128, 126>> }        \* OUTB 126, A

-----------------------------------------------------------------------------
Suites == {"memory", "stack", "ports"}
Programs ==
  [memory |-> MemoryPrograms, stack |-> StackPrograms, ports |-> PortImages]
Origins == [memory |-> {0}, stack |-> {0}, ports |-> {0, ADDR_BANK}]
AllPrograms == UNION {Programs[s] : s \in Suites}
AllOrigins == UNION {Origins[s] : s \in Suites}

(* A file is loaded once, while the memory is still blank; only beside the *)
(* programs of the ports does the user type commands.                      *)
Unloaded == DOMAIN space.ram.cells = {}
BootNext ==
  /\ \/ /\ Unloaded
        /\ \E img \in Programs[suite], a \in Origins[suite] : LoadOpen(img, a)
     \/ LoadByte \/ LoadCrash \/ LoadDone
     \/ Step
     \/ suite = "ports" /\ Command
  /\ UNCHANGED suite
BootInit == suite \in Suites /\ Init
BootSpec == BootInit /\ [][BootNext]_<<vars, suite>>

(* Nothing runs before the load, and execution is followed while PC stays  *)
(* near the program; the prompt moves few registers.                       *)
NearProgram ==
  /\ suite # "ports" /\ Unloaded => pc = 0
  /\ suite = "memory" => pc \in 0 .. 12 \cup ADDR_BANK .. ADDR_BANK + 1
  /\ suite = "stack" => pc \in 0 .. 18
  /\ suite = "ports" =>
       /\ \A i \in 2 .. 7 : regs[i] = 0
       /\ pc \in 0 .. 2 \cup ADDR_BANK .. ADDR_BANK + 2
       /\ space.special[SP] = 0
       /\ space.special[MB] \in {0, 1, 256}
=============================================================================
