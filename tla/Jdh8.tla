-------------------------------- MODULE Jdh8 --------------------------------
(***************************************************************************)
(* The machine the emulator simulates: the address space (common/jdh8.h),  *)
(* the instruction set (step() in emu/libemu.c), the port instructions,    *)
(* load() and the commands of the prompt that touch machine state          *)
(* (command() in emu/emu.c).                                               *)
(*                                                                         *)
(* Memories are sparse: a memory is [fill, cells] where cells holds the    *)
(* bytes written since it was created and every other byte reads as fill.  *)
(* The main memory starts zeroed; a bank comes from malloc, so its fill is *)
(* any byte. load() copies byte by byte with write protection off, so it   *)
(* is a sequence of actions here; everything else is one action.           *)
(***************************************************************************)
EXTENDS Bytes, Sequences

CONSTANTS
  Images,     \* files load() may be asked for: sequences of bytes
  LoadAddrs,  \* addresses a load may name
  Banks,      \* the banks add_bank() made: a set of bank numbers
  Fills,      \* bytes a fresh malloc may hold
  Attached,   \* ports with a device
  NoSend,     \* ... whose device has no send()
  NoReceive,  \* ... whose device has no receive()
  Inputs,     \* bytes a device may send
  UserBytes,  \* bytes, words and ports typed at the prompt
  UserWords,
  UserPorts

ASSUME ConstantsAssumption ==
  /\ Images \subseteq Seq(Byte)
  /\ LoadAddrs \subseteq Word
  /\ Banks \subseteq 1 .. 255
  /\ Fills \subseteq Byte
  /\ Attached \subseteq 1 .. 124
  /\ NoSend \subseteq Attached
  /\ NoReceive \subseteq Attached
  /\ Inputs \subseteq Byte
  /\ UserBytes \subseteq Byte
  /\ UserWords \subseteq Word
  /\ UserPorts \subseteq Byte

VARIABLES
  regs,           \* registers.raw
  space,          \* everything ppeek() can reach: special, ram, banks
  status,         \* the STATUS register
  write_protect,  \* ROM write protection
  copy,           \* the load() in progress, or NoCopy
  crashed         \* the emulator process died

vars == <<regs, space, status, write_protect, copy, crashed>>
-----------------------------------------------------------------------------
(* Memory map. *)
ADDR_BANK == 32768   \* 0x8000
ADDR_RAM  == 49152   \* 0xC000
ADDR_MB   == 65530   \* 0xFFFA
DEVICE_MAX == 125

RomAddr  == 0 .. ADDR_BANK - 1
BankAddr == ADDR_BANK .. ADDR_RAM - 1

(* Indices of special.raw. *)
MB == 0
SP == 1
PC == 2

(* Indices of registers.raw. *)
L == 4
H == 5
F == 7

Fresh(fill) == [fill |-> fill, cells |-> << >>]
Get(m, a) == IF a \in DOMAIN m.cells THEN m.cells[a] ELSE m.fill
Put(m, a, v) ==
  [m EXCEPT !.cells = [x \in DOMAIN m.cells \cup {a} |->
                         IF x = a THEN v ELSE m.cells[x]]]

(* ppeek(): which storage an address selects. *)
IsSpecial(a) == a >= ADDR_MB
(* Slip: the first bank is taken for the built-in RAM.                     *)
BankedFromTwo(s, a) == s.special[MB] > 1 /\ a \in BankAddr

Banked(s, a) == s.special[MB] # 0 /\ a \in BankAddr
Present(s) == s.special[MB] \in DOMAIN s.banks

(* MB is 16 bits wide and banks has 256 slots: beyond them ppeek() reads   *)
(* whatever follows the array as a pointer. When it is zero the bank is    *)
(* absent, otherwise the process dies on the access.                       *)
Wild(s, a) == Banked(s, a) /\ s.special[MB] > 255

Peek(s, a) ==
  CASE IsSpecial(a) ->
         LET w == s.special[(a - ADDR_MB) \div 2]
         IN  IF a % 2 = 0 THEN Lo(w) ELSE Hi(w)
    [] Banked(s, a) ->
         IF Present(s) THEN Get(s.banks[s.special[MB]], a - ADDR_BANK) ELSE 0
    [] OTHER -> Get(s.ram, a)

PokeSpecial(s, a, v) ==
  LET w == s.special[(a - ADDR_MB) \div 2]
  IN  [s EXCEPT !.special[(a - ADDR_MB) \div 2] =
         IF a % 2 = 0 THEN Pair(v, Hi(w)) ELSE Pair(Lo(w), v)]

PokeBank(s, a, v) ==
  IF Present(s)
  THEN [s EXCEPT !.banks[s.special[MB]] = Put(@, a - ADDR_BANK, v)]
  ELSE s

(* Slip: write protection is not looked at.                                *)
PokeUnprotected(s, wp, a, v) ==
  CASE IsSpecial(a) -> PokeSpecial(s, a, v)
    [] Banked(s, a) -> PokeBank(s, a, v)
    [] OTHER -> [s EXCEPT !.ram = Put(@, a, v)]

Poke(s, wp, a, v) ==
  CASE wp /\ a \in RomAddr -> s
    [] IsSpecial(a) -> PokeSpecial(s, a, v)
    [] Banked(s, a) -> PokeBank(s, a, v)
    [] OTHER -> [s EXCEPT !.ram = Put(@, a, v)]
-----------------------------------------------------------------------------
(* Decoding. Each byte is read after the increment of PC that skips it,    *)
(* which matters when PC itself is being executed.                         *)
pc == space.special[PC]
Skip(n) == [space EXCEPT !.special[PC] = ToWord(@ + n)]
Code(k) == Peek(Skip(k + 1), ToWord(pc + k))

Op == Code(0) \div 16
Y  == BitAt(Code(0), 8) = 1
Z  == Code(0) % 8

HL == Pair(regs[L], regs[H])
IMM8_REG == IF Y THEN regs[Code(1) % 8] ELSE Code(1)
IMM8_PC0_REG == IF Y THEN regs[Z] ELSE Code(1)
Address == IF Y THEN HL ELSE Pair(Code(1), Code(2))

I_MW == 0
I_LW == 1
I_SW == 2
I_PUSH == 3
I_POP == 4
I_LDA == 5
I_JNZ == 6
I_INB == 7
I_OUTB == 8

Length ==
  CASE Op = I_LDA -> 3
    [] Op \in {I_LW, I_SW} -> IF Y THEN 1 ELSE 3
    [] Op \in {I_PUSH, I_JNZ} -> IF Y THEN 1 ELSE 2
    [] Op = I_POP -> 1
    [] OTHER -> 2

Fetched == Skip(Length)

(* The addresses the instruction at PC touches apart from its own bytes. *)
DataAddrs ==
  CASE Op \in {I_LW, I_SW} -> {Address}
    [] Op = I_PUSH -> {space.special[SP]}
    [] Op = I_POP -> {ToWord(space.special[SP] + 1)}
    [] OTHER -> {}
Touched == {ToWord(pc + k) : k \in 0 .. Length - 1} \cup DataAddrs

halted == BitAt(status, S_HALT) = 1

NoCopy == [active |-> FALSE]

(* The process can take commands and, unless halted, execute. *)
Idle == ~crashed /\ ~copy.active
Executes(op) == Idle /\ ~halted /\ Op = op

UNCHANGED_IO == UNCHANGED <<status, write_protect, copy, crashed>>
-----------------------------------------------------------------------------
(* One action per instruction of step(). *)
MW ==
  /\ Executes(I_MW)
  /\ regs' = [regs EXCEPT ![Z] = IMM8_REG]
  /\ space' = Fetched
  /\ UNCHANGED_IO

LW ==
  /\ Executes(I_LW)
  /\ regs' = [regs EXCEPT ![Z] = Peek(Fetched, Address)]
  /\ space' = Fetched
  /\ UNCHANGED_IO

SW ==
  /\ Executes(I_SW)
  /\ space' = Poke(Fetched, write_protect, Address, regs[Z])
  /\ UNCHANGED regs
  /\ UNCHANGED_IO

(* C leaves open whether the operand byte is fetched before or after SP is *)
(* decremented; it shows only when PC runs through the cells of SP.        *)
PUSH ==
  /\ Executes(I_PUSH)
  /\ LET moved == [Fetched EXCEPT !.special[SP] = ToWord(@ - 1)]
     IN  \E operand \in
              {IMM8_PC0_REG,
               IF Y THEN regs[Z] ELSE
                 Peek([Skip(2) EXCEPT !.special[SP] = ToWord(@ - 1)],
                      ToWord(pc + 1))} :
           space' = Poke(moved, write_protect, space.special[SP], operand)
  /\ UNCHANGED regs
  /\ UNCHANGED_IO

(* Slip: SP is moved after the byte is read.                               *)
PopFirst ==
  /\ Executes(I_POP)
  /\ regs' = [regs EXCEPT ![Z] = Peek(Fetched, space.special[SP])]
  /\ space' = [Fetched EXCEPT !.special[SP] = ToWord(@ + 1)]
  /\ UNCHANGED_IO

POP ==
  /\ Executes(I_POP)
  /\ LET moved == [Fetched EXCEPT !.special[SP] = ToWord(@ + 1)]
     IN  /\ regs' = [regs EXCEPT ![Z] = Peek(moved, moved.special[SP])]
         /\ space' = moved
  /\ UNCHANGED_IO

LDA ==
  /\ Executes(I_LDA)
  /\ regs' = [regs EXCEPT ![L] = Code(1), ![H] = Code(2)]
  /\ space' = Fetched
  /\ UNCHANGED_IO

JNZ ==
  /\ Executes(I_JNZ)
  /\ space' = IF IMM8_PC0_REG # 0
              THEN [Fetched EXCEPT !.special[PC] = HL]
              ELSE Fetched
  /\ UNCHANGED regs
  /\ UNCHANGED_IO

ALU ==
  /\ Idle /\ ~halted /\ Op \in AluOps
  /\ LET a == regs[Z]
         b == IMM8_REG
         stored == [regs EXCEPT ![Z] = AluValue(Op, a, b, regs[F])]
     IN  regs' = IF Op \in LoadsFlags
                 THEN [stored EXCEPT ![F] = FlagsOf(a, b)]
                 ELSE stored
  /\ space' = Fetched
  /\ UNCHANGED_IO
-----------------------------------------------------------------------------
(* inb() and outb(). Ports DEVICE_MAX..127 pass the range check but index  *)
(* past the device table: what is there may look like no device, or like   *)
(* a device whose handlers are garbage.                                    *)
Beyond(port) == port \in DEVICE_MAX .. 127

InValues(port) ==
  CASE port = 0 -> {status}
    [] port \in Attached \ NoSend -> Inputs
    [] OTHER -> {0}

INB ==
  /\ Executes(I_INB)
  /\ \E v \in InValues(IMM8_REG) : regs' = [regs EXCEPT ![Z] = v]
  /\ space' = Fetched
  /\ UNCHANGED_IO

OUTB ==
  /\ Executes(I_OUTB)
  /\ IMM8_REG \notin NoReceive
  /\ status' = IF IMM8_REG = 0 THEN regs[Z] ELSE status
  /\ space' = Fetched
  /\ UNCHANGED <<regs, write_protect, copy, crashed>>

Dies ==
  /\ crashed' = TRUE
  /\ UNCHANGED <<regs, space, status, write_protect, copy>>

(* outb() calls receive without testing it, the keyboard has none; a wild  *)
(* bank pointer or a garbage device handler is followed.                   *)
CrashStep ==
  /\ Idle /\ ~halted
  /\ \/ \E a \in Touched : Wild(space, a)
     \/ Op = I_OUTB /\ (IMM8_REG \in NoReceive \/ Beyond(IMM8_REG))
     \/ Op = I_INB /\ Beyond(IMM8_REG)
  /\ Dies

Step == MW \/ LW \/ SW \/ PUSH \/ POP \/ LDA \/ JNZ \/ ALU \/ INB \/ OUTB
        \/ CrashStep
-----------------------------------------------------------------------------
(* load(): an unreadable or empty file returns before anything changed.    *)
LoadOpen(img, addr) ==
  /\ Idle
  /\ Len(img) > 0
  /\ copy' = [active |-> TRUE, img |-> img, dest |-> addr, i |-> 0,
              wp |-> write_protect]
  /\ write_protect' = FALSE
  /\ UNCHANGED <<regs, space, status, crashed>>

LoadByte ==
  /\ ~crashed /\ copy.active /\ copy.i < Len(copy.img)
  /\ space' = Poke(space, write_protect, ToWord(copy.dest + copy.i),
                   copy.img[copy.i + 1])
  /\ copy' = [copy EXCEPT !.i = @ + 1]
  /\ UNCHANGED <<regs, status, write_protect, crashed>>

LoadCrash ==
  /\ ~crashed /\ copy.active /\ copy.i < Len(copy.img)
  /\ Wild(space, ToWord(copy.dest + copy.i))
  /\ Dies

LoadDone ==
  /\ ~crashed /\ copy.active /\ copy.i = Len(copy.img)
  /\ write_protect' = copy.wp
  /\ copy' = NoCopy
  /\ UNCHANGED <<regs, space, status, crashed>>
-----------------------------------------------------------------------------
(* The commands that change machine state: SET of a register and of MB, SP *)
(* or PC, POKE, OUTB and the un-halting that RUN does first.               *)
SetRegister(i, v) ==
  /\ Idle
  /\ regs' = [regs EXCEPT ![i] = v]
  /\ UNCHANGED <<space, status, write_protect, copy, crashed>>

SetSpecial(i, w) ==
  /\ Idle
  /\ space' = [space EXCEPT !.special[i] = w]
  /\ UNCHANGED <<regs, status, write_protect, copy, crashed>>

PokeCommand(a, v) ==
  /\ Idle
  /\ \/ /\ space' = Poke(space, write_protect, a, v)
        /\ UNCHANGED crashed
     \/ /\ Wild(space, a)
        /\ crashed' = TRUE
        /\ UNCHANGED space
  /\ UNCHANGED <<regs, status, write_protect, copy>>

OutCommand(port, v) ==
  /\ Idle
  /\ \/ /\ port \notin NoReceive
        /\ status' = IF port = 0 THEN v ELSE status
        /\ UNCHANGED crashed
     \/ /\ port \in NoReceive \/ Beyond(port)
        /\ crashed' = TRUE
        /\ UNCHANGED status
  /\ UNCHANGED <<regs, space, write_protect, copy>>

Unhalt ==
  /\ Idle
  /\ status' = BitClear(status, S_HALT)
  /\ UNCHANGED <<regs, space, write_protect, copy, crashed>>

Command ==
  \/ \E i \in 0 .. 7, v \in UserBytes : SetRegister(i, v)
  \/ \E i \in {MB, SP, PC}, w \in UserWords : SetSpecial(i, w)
  \/ \E a \in UserWords, v \in UserBytes : PokeCommand(a, v)
  \/ \E p \in UserPorts, v \in UserBytes : OutCommand(p, v)
  \/ Unhalt

(* main(): a zeroed machine with write protection on. *)
Init ==
  /\ regs = [i \in 0 .. 7 |-> 0]
  /\ \E fill \in Fills :
       space = [special |-> [i \in {MB, SP, PC} |-> 0],
                ram |-> Fresh(0),
                banks |-> [b \in Banks |-> Fresh(fill)]]
  /\ status = 0
  /\ write_protect = TRUE
  /\ copy = NoCopy
  /\ crashed = FALSE

Load ==
  \/ \E img \in Images, addr \in LoadAddrs : LoadOpen(img, addr)
  \/ LoadByte
  \/ LoadCrash
  \/ LoadDone

Next == Step \/ Load \/ Command

Spec == Init /\ [][Next]_vars
-----------------------------------------------------------------------------
(* Types. A memory is well formed over a set of addresses.                 *)
IsMemory(m, addrs) ==
  /\ m = [fill |-> m.fill, cells |-> m.cells]
  /\ m.fill \in Byte
  /\ m.cells = [a \in DOMAIN m.cells |-> m.cells[a]]
  /\ DOMAIN m.cells \subseteq addrs
  /\ \A a \in DOMAIN m.cells : m.cells[a] \in Byte

IsSpace(s) ==
  /\ s = [special |-> s.special, ram |-> s.ram, banks |-> s.banks]
  /\ s.special \in [{MB, SP, PC} -> Word]
  /\ IsMemory(s.ram, 0 .. ADDR_MB - 1)
  /\ s.banks = [b \in Banks |-> s.banks[b]]
  /\ \A b \in Banks : IsMemory(s.banks[b], 0 .. ADDR_RAM - ADDR_BANK - 1)

Copying ==
  [active : {TRUE}, img : Images, dest : LoadAddrs, i : Nat, wp : BOOLEAN]
CopyOK ==
  \/ copy = NoCopy
  \/ copy \in Copying /\ copy.i <= Len(copy.img)

(* Every register, byte of memory and special register stays in its width, *)
(* memory never holds a byte at an address the C arrays do not have        *)
(* (memory.raw, a bank's half of its 32 KiB block), and a load in progress *)
(* is within its file.                                                     *)
TypeOK ==
  /\ regs \in [0 .. 7 -> Byte]
  /\ IsSpace(space)
  /\ status \in Byte
  /\ write_protect \in BOOLEAN
  /\ CopyOK
  /\ crashed \in BOOLEAN

(* load() lifts the write protection of ROM and puts it back: whenever no  *)
(* load is running, ROM is protected.                                      *)
ProtectionRestored == ~copy.active => write_protect

RomCells(m) == [a \in DOMAIN m.cells \cap RomAddr |-> m.cells[a]]
WindowCells(m) == [a \in DOMAIN m.cells \cap BankAddr |-> m.cells[a]]

(* ROM changes only while load() copies a file: no instruction, no stack   *)
(* that walks down into ROM and no POKE at the prompt changes it.          *)
RomStable ==
  [][~copy.active => RomCells(space.ram)' = RomCells(space.ram)]_vars

(* Between 0x8000 and 0xBFFF a write reaches only the storage MB selects   *)
(* at that moment: the other banks, and the built-in RAM under the window  *)
(* when a bank covers it, keep their contents.                             *)
StorageSelected ==
  [][/\ \A b \in Banks :
          space'.banks[b] # space.banks[b] => space.special[MB] = b
     /\ WindowCells(space.ram)' # WindowCells(space.ram)
          => space.special[MB] = 0]_vars
=============================================================================
