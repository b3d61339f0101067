# JDH-8: a verification development

The JDH-8 is an 8-bit computer: a circuit, an emulator with a window and a
keyboard, an assembler with a macro library, an operating system library and
programs, and a programmer for its EEPROMs. This directory models the machine,
the emulator process, the assembler, the macro and operating system libraries
and the programmer in TLA+, checks small instances with TLC and proves theorems
about all instances with TLAPS. `PROJECT.json` lists runs, mutants, findings,
hazards and theorems and maps every definition to the lines it models.

## The system's parts

| part | source | state | operations | what is hard about it |
|---|---|---|---|---|
| machine | `common/jdh8.h`, `emu/libemu.c` | 8 registers, MB/SP/PC, 64 KiB of memory, banks, STATUS, write protection | `step`, `inb`, `outb`, `load`, `peek`, `poke` | MB, SP and PC are memory cells; the stack may walk anywhere; `load` lifts write protection; arithmetic wraps |
| simulation loop, device table | `emu/libemu.c` | `simulating`, 125 device slots, 256 bank pointers | `simulate`, `add_device`, `remove_device`, `add_bank`, `remove_bank` | the loop must end; devices are ticked from two places; slots are freed inside their own callback |
| screen | `emu/screen.c` | window objects, `screen.stop`, a renderer thread | `screen_init`, `screen_tick`, `screen_destroy`, `fchild` | two threads share VRAM and the window; stop flag, joins and teardown order |
| keyboard, modules | `emu/kb.c`, `emu/mod.c` | one data byte; the module list | `kb_set_data`, `kb_send`, `mod_load` | loading twice; no `receive` |
| prompt | `emu/emu.c` | argv, the command line | SET, POKE, OUTB, STEP, LOAD, MOD, RUN, QUIT, ... | commands between any two instructions; RUN un-halts first |
| lexer and preprocessor | `asm/lex.c`, `asm/asm.c`, `asm/directive.c` | the stack of inputs, the chain of tokens, defines, states of @ifdefs | `lex`, `lex_push`, `push_input`, `pop_input`, the lex directives, `parse` | inputs nest; a flag is written in one file and tested in two others; a buffer without a capacity |
| labels and patches | `asm/asm.c`, `asm/directive.c` | labels, patches, the output, the origin | `resolve_label`, `add_patch`, `emit_addr`, `emit`, @org, the last pass of `assemble` | names that mean different labels at different places and times; two bytes left open and filled in later |
| macros, expressions, encoding | `asm/macro.c`, `asm/eval.c`, `asm/asm.c`, `asm/directive.c` | the doubly linked chain of tokens, operations, the output | `parse_macro`, `expand_macro`, `eval_labels`, `eval_exp`, `emit`, @db, @dd, @dn, @ds | tokens are copied with their flags and neighbours and spliced into the chain the parser stands in |
| microcode | `asm/microcode.c` | the list being filled, the ROM | `microcode_parse`, `microcode_emit` | an index nothing bounds; the end of a list is recognised by what follows it |
| macro library | `asm/macros.asm` | registers, flags and the stack of the running machine | 16-bit arithmetic, compare and jump, call and return | flags that survive from an earlier instruction, clobbered registers |
| OS library | `os/lib/math.asm`, `shift.asm`, `util.asm`, `gfx.asm` | registers, memory, the scratch word D0 | `mul`, `mul16`, `cmp16`, shifts, `memcpy16`, `memset`, `set_pixel`, ... | scratch registers and a scratch word shared by nested calls; counters at 255, 256 and 0 |
| terminal | `os/lib/term.asm` | page, cursor, the picture in the screen's bank | `term_print`, `term_print_str`, `term_scroll`, `term_clear` | page and picture are changed separately and must agree at every edge |
| EEPROM programmer | `misc/aep/aep.py`, `aep.ino` | the host's job, the firmware's buffers, the EEPROM | read, write, verify, image, clear; READ, WRITE, READY | two programs and a serial line without flow control; the board may restart |
| programs, video timing, pictures, circuit, Windows layer, tests | `programs/`, `misc/avt`, `misc/chk`, `misc/imc`, `circ/jdh8.circ`, `emu/win`, `test/` | | | see "Not modelled" |

The parts meet in these places. The prompt calls the machine and `simulate`;
`simulate` (or, at the prompt, `step`) calls the tick of every device; the
screen's tick polls SDL for the whole process, hands keys to the keyboard and
removes its own device when the window is closed; the renderer thread reads
bank 1 while instructions write it; instructions reach devices through ports.
In the assembler, `lex` calls back at the end of every line to run the lex
directives, which push inputs under it; `parse` then walks the chain, rewriting
it as it goes, and patches are applied last. The macro library is the first
input of every assembly, what it expands to runs on the machine, the library of
the operating system is written in it, and the terminal calls that library.

## Modules

`Bytes` has the C integer conversions (`u8`, `u16`), bit operations on bytes
and the ALU of `step`: `AluValue` is the byte an operation leaves,
`FlagsOf` the flags it loads.

`Jdh8` is the machine. `regs`, `space` (the special registers, the main memory
and the banks), `status` and `write_protect` are the fields of `struct JDH8`.
`Peek` and `Poke` are `peek` and `poke`, down to MB being sixteen bits wide and
`banks` having 256 slots (`Wild`). There is one action for each instruction
(the seven ALU instructions share `ALU`), one for each command that changes
state, and four for `load`, which copies byte by byte: `LoadOpen`,
`LoadByte`, `LoadCrash`, `LoadDone`. `CrashStep` and the second disjuncts of
the commands are the ways the process dies. Memories are sparse functions over
a fill byte, so a state stays small. `LifoStack` is what SPEC.txt promises of
PUSH and POP, a stack of bytes. `MCJdh8` has three suites of programs and the
refinement mapping from `Jdh8` to `LifoStack`: the bytes between SP and the top
of the stack region.

`Emulator` is the process: the main thread as a program counter `main` over the
prompt, `simulate` and the device tick, the renderer thread as `child`, the
user as a source of window events and of the enter key. An instruction is
abstracted to whether it halts the machine. SDL and pthreads are external.

`MacroBodies` is the macro library as functions of the register file: `add16`,
`dec16`, `eq16`, `test` and the others are compositions of the ALU steps of
`Bytes`, with their effect on F, H and L; it declares the registers, the memory
and the stack that `Macros` and `OsLib` work on. `Macros` makes programs of them: its
upper-case actions are the macros with the operands they take, over registers,
memory, the stack and the place the program jumps to. `frames` is a history of
the calls and PUSHAs still to be undone. Nothing interrupts a program, so a
macro is one step. SIGN, SIGN16 and the three-operand JNZ name an argument they
do not have and do not assemble; they are not modelled.

`Lexer` is the preprocessor and the parse loop. A text is a sequence of words;
what a word is made of is abstracted, and so are strings, character constants
and line numbers. `inputs` has every input ever pushed, `tokens` every token in
the order of allocation, `chain` those that are in the stream. The arena is
there because of one fact: `main` gives the buffer of @ifdef states no minimal
capacity, so `BUFCHK` allocates zero bytes, and the state just pushed lies
where the next token will be allocated. `ifs.buffer` says whose memory it is:
`Ahead` until the next allocation, then that token, whose first bytes (`kind`)
are read and written as states from then on. The second disjunct of `Push` is
the allocation that opens a new region.

`Labels` is definitions, references, patches, @org and the last pass. A pointer
to a label is its number. A statement is abstracted to the bytes it emits and
the label it defines or mentions; `refs` is a history of the references with
the label they were under. `Resolves`, `Fits` and `Unresolved` are the two
outcomes of `resolve_label`.

`Expressions` is `eval_exp` over the tokens of a line: a stack of frames, one
for each open parenthesis, where the code has one call of the function, and
`Meaning`, a definition of the same expressions read from the right.

`Assembly` is `parse` with macros, expressions and the encoder. The heap is the
sequence of all tokens allocated, a pointer an index into it, and the chain is
the `prev` and `next` of the tokens, rewritten in place as the code does:
`Evaluated` (labels and `$` become numbers, parentheses their value),
`duplicate_macro`, `replace`, `spliced`. Its label operators are those of
`Labels`. `listing` is a history of the lines emitted as their text says, and
`Decoded` reads the output with the operators of `Jdh8`: assembler and machine
are modelled apart, from their own sources, and composed in this property.

`Microcode` is the assembler in microcode mode. A word of the ROM is the set of
its bits; `Runs` is what the circuit does with the ROM, up to the first word
that clears the step counter.

`OsLib` is the library of the operating system: a step is a stretch of
instructions between two labels, in the terms of `MacroBodies`. `Terminal` is
term.asm with the page, the cursor and the bank as state; what it calls is one
step each. `TextScreen` is what a terminal promises: lines, a cursor, and a page
that moves up behind the last line.

`Programmer` is both ends of the EEPROM programmer with the two directions of
the serial line and the receive buffer of the board. Host and firmware are
program counters (`host`, `dev`) whose steps are the bytes they take and send.

`MCJdh8`, `MCMacros`, `MCLexer`, `MCLabels`, `MCAssembly`, `MCMicrocode`,
`MCOsLib`, `MCTerminal` and `MCProgrammer` give the small sets of the runs. The
modules named `...Proofs` hold the theorems. Definitions whose comment starts with "Slip" are not part
of the model: they are the mutated forms `PROJECT.json` names, each of which
some property refutes.

## Runs

| run | question | bounds |
|---|---|---|
| `jdh8` | do memory, ROM, banks and the stack stay what they are under instructions, ports and the prompt? | every pair of 12 instructions, with RAM and with bank 1 in the window (the pairs include the loops in which SP walks through all 64 KiB); all programs of four out of six instructions after SP is set; six port instructions, devices with and without handlers, commands over one byte and three words. Execution is followed while PC is near the program |
| `emulator_threads` | do the two threads close the window safely, and do simulations end? | three window events, which covers a key before and after a close and two windows closed one after the other |
| `macros` | is arithmetic exact, is each macro what it is named for, are jumps right; do memory words, flag jumps, nested calls and saved registers survive what comes between? | all programs of three macros over the bytes 0 and 255 and the word 258 (the theorems are for all); cells across a page boundary; two call sites, one whose return address crosses a page |
| `lexer_programs` | is every word read once, whatever nests, and what is assembled in the end? | all programs of five lines from 15 kinds: enough for an @ifdef with both branches, a define that is used inside an included file, and every malformed directive |
| `labels` | does every reference get its label's address? | all programs of six statements with two names, each with and without a dot; origins at which addresses cross 0x0100 and wrap around. Two labels under different parents, and a reference before and after each, fit |
| `assembly` | is the program in the output the program in the source? | six macros: overloaded by byte, register and cell, calling each other, with an argument inside parentheses, with `$`, in the style of JMP and OUTB; all programs of three lines out of fourteen, so that every macro is used twice and after every other, and 34 lines the assembler rejects or takes though they look wrong |
| `oslib` | does every routine compute its result, keep registers and return? | edge bytes 0, 1, 2, 127, 128, 255; lengths 0, 1, 255, 256, 511, across page boundaries and overlapping; pixels in two lines at both ends of a byte |
| `terminal` | do page, picture and cursor agree at every edge? | three columns and three lines, glyphs of three scan lines of which the last is not drawn; four strings, printed in any order |
| `programmer` | does the EEPROM hold what the host reports? | bytes of four values, an EEPROM of eight cells in sixteen addresses, chunks of two, verified in threes; two of seven commands, one restart at any moment; the last cell and the bus may read as an end of command or as the ready byte. Chunk sizes divide neither each other nor the files, so every remainder occurs |
| `microcode` | does the circuit run the lists that were written? | two instructions with room for two steps; all programs of five lines out of fourteen |
| `lexer_ignored` | asm.h: a token flagged TF_IGNORE is ignored | violated: bit 1 is set, bit 0 is tested |
| `os_shr` | shift.asm: shr shifts b times | violated: it shifts once |

Deadlock is checked where a run is meant to be able to go on (`oslib`,
`terminal`, `assembly`, which has a last step that repeats); elsewhere the process
may exit or die, programs end, and the constraints of `jdh8` end its behaviours.
`programmer` is constrained in one way: a clear that a restart interrupted is
not followed further, as every later command is followed from a clean start (the
theorems on `Programmer` have no such constraint).

`lexer_ignored` and the lost states of @ifdefs cancel out: the flag computed
from them is not looked at, so that conditionals select nothing and
every line is assembled (`AllAssembled`), unless an @else writes into the token
that lies in its state's place.

Other places where code and documents differ are in the models as the code has
them and not refuted by runs of their own:

- machine and emulator: programs can change the ERROR bit (SPEC.txt:101); the
  byte at 0xFFFB takes part in selecting the bank (SPEC.txt:80); OUTB to the
  keyboard calls a null pointer; RUN 0 divides by zero; loading a module twice
  fails the `assert`s of `add_bank` and `add_device`;
- macro library: SUB16 does not clear the borrow first (theorem
  `Sub16TakesBorrow`); JGE always jumps (`JgeAlwaysTaken`); EQ16 uses H; XNOR of
  a register with itself is not all ones;
- assembler: `.x` resolves to a label `x` that has no dot when no other fits;
  SW without operands reads a pointer that was never set; the states of @ifdefs
  lie in the next token's memory;
- microcode: a ninth step of a list gets into the next list, a list begun again
  keeps the words behind its new end, a step of no lines ends a list, and
  a program without a line follows a null pointer when it is emitted
  (`RomRunsLists` speaks of the lists none of this happened to);
- operating system: `mul16` by zero returns its first operand; `set_pixel` takes
  the byte of column x div 2, where `shr` by 3 leads it; cmp16 is right because
  `shr` shifts once; arch.asm:19 gives ADDR_PC as 0xFFFC, the address of SP;
  seven of the eight rows of a glyph are drawn;
- programmer: `write <addr> 0` takes the zero for the name of a file; clear
  writes 0xFF where the help says zeroes; bit 15 of an address is the output
  enable, so that addresses from 0x8000 on write the lower cells and read a bus
  nobody drives; a file that ends at the last address is refused; clear wraps
  around at the end. After a restart of the board while the host verifies, an end of
  command may still be under way, and the next report may be wrong: `InStep` and
  `ReportsAreTrue` speak of sessions without a restart, `OkIsWritten` of all,
  until the host took data after a restart: the ready byte is taken for a byte of
  data then, a byte of data with the value 0xFF for the end of the command, and the
  true end that is left behind would have the next chunk reported before it is
  written. The length of a `read` is sent modulo 65536 and waited for in full, so
  that a longer one never ends. C leaves open which of the two
  calls of `read_wait` in one expression comes first; the model has the order of
  the text, which is the one the protocol needs.

Fairness. `Emulator!Fairness` is weak for the threads' own steps. The one
strong condition is that `LoopTick` takes the tick again and again: `simulate`
ticks when 100 microseconds have passed since the last time, and each round
takes time. Nothing is assumed of the user or of the prompt. In `Lexer` the
assembler is a single thread that nothing blocks, so `WF_vars(Next)`;
`LexingEnds` is about programs whose defines do not expand to themselves. In
`OsLib` a processor goes on executing: `Executes` says in the terms of a
behaviour what weak fairness of `LibNext` says where no state deadlocks, which the
run checks. In `Programmer` host and firmware are loops that nothing but an
empty buffer blocks, and the line delivers what was sent: weak fairness of
`Host`, `Board` and `Arrive`; the user need not type, the board need not
restart.

## Proofs

All theorems hold for every value of the constants that satisfies the
`ConstantsAssumption` of the module: sets of files, banks, devices, inputs,
operands, addresses, names and sizes are arbitrary, and bounds on the length of
behaviours are arbitrary numbers.

`Jdh8Proofs`: `TypeCorrect`, `ProtectionAlwaysRestored`, `RomIsStable`,
`StorageIsSelected` and `StackIsLifo`. The type invariant is inductive by itself; the second
needs that the saved value in `copy.wp` is TRUE while a load runs, the third
uses the second: outside a load write protection is on, and `Poke` at a ROM
address then changes nothing. The last relates the space before and after each
single write, and needs the widths of the addresses only. `StackIsLifo` is the
refinement of `LifoStack`, instruction by instruction, with the refinement mapping
of `MCJdh8` for any region Low..Top of the RAM above the window: an
instruction of a program that keeps to its region (SP within it at a PUSH or POP, no SW
into it or into SP) pushes, pops or leaves the stack alone. The region may
touch the window or the special registers on either side; MB, PC, banks and
the rest of memory may change freely.

`EmulatorProofs`: `RendererSafe`, `ScreenIsWhole` and `TicksOnce`. Their
inductive invariant says for each place of the main thread what exists there:
everything while the device is in the table, nothing after it has left it, and
in the removal the parts that have not been torn down yet, with the renderer
joined before the window and the bank go. `NoRenderAfterFree` alone is not
inductive: it says nothing about where the main thread is.

`LibraryProofs`, on the macros: `WordsAreExact` (ADD16, INC16 and DEC16 on all bytes; the lemma
is that two byte sums with a carry between them are the sum of the words),
`BytesAreExact` (AND, OR and the others as functions of the bits: a byte is the
sum of its bits, so that bytes with the same bits are equal), `WordsStayInMemory`,
`JumpsAreRight`, `FlagJumpsAreRight`, `JgeAlwaysTaken`, `Sub16TakesBorrow`, and
`StackHoldsFrames` and `CallsDoReturn` for every nesting of calls. RET and POPA read the stack, so
their types and results need to know what is on it: the invariant is
`TypeOK /\ FramesOnStack`.

`LibraryProofs`, on `OsLib`, with the lemmas about the macros: `ProductsAreRight`,
`OrderIsRight`, `MemoryIsRight`, `RegistersAreKept` and `LibTypes`, for all
registers, words in D0 and memories a routine is called with, where the run takes
bytes at the edges. The properties speak of the moment of return. The
invariant `LibInv` has for each label what is true there: who waits for whom
(`Calling`, so that a routine knows which registers it was called with, `Entry`),
what was pushed since, and what the passes of the loop have done so far, in a
form that one more pass carries on. `AtMulLoop` has the product by what was
counted down, `AtMemcpyLoop` the number of bytes already at their place,
`AtShrShift` that twice the halves and what is left make the number.
`memcpy` is called by the program or by `memcpy16`, and its invariant serves both:
a piece of 255 bytes carries on where n bytes were copied before. Bytes already
copied must not be the source of later ones, and that is `Copies`, on words
that wrap around at the end of the address space. `memcpy16`
keeps its length in the word at D0 (0xFD00), so that it needs `Apart`: source
and destination must not hold that word, which `util.asm` does not say. The
counters are bytes and words: that the loop at length 0 is not entered and at
255 ends is part of the claim. `ShrShiftsOnce` is the other side of the
counterexample to `ShiftsRight`: shr halves once whatever the count, which is
what `cmp16` needs of it, since it shifts the flags of the high bytes by
themselves.

`LabelsProofs`: `LabelTypes`, `PatchSlotsReserved`, `EmittedBytesKept` and
`ReferencesAreRight`. `ReferencesRight` speaks of the end only. The invariant
says that every reference at any time is settled (its two bytes hold the value
of a label that fits) or has a patch waiting; that no patch waits for anything
else; that references lie apart; and that patches own their two bytes. A
reference found at once never gets a label with a dot (`ResolvedAnswers`): the
parent of such a label was defined before it, so it is not the newest.

`LexerProofs`: `LexerTypes`, `WordsAreReadOnce` and `ConditionalsSelectNothing`.
The actions of the lexer have one shape, `Lexes` (a token more, an input
that advances or waits for a new one), and that shape keeps the invariant: what is
read of an input is what it was left at, and a push or the end of an input
changes who waits by that input only. For the parser the invariant adds that it
is at the start of a line, that what it emitted is the code before, and
that tokens have the kinds of their words until an @else writes into one.
`ConstantsAssumption` says that words of different kinds differ and that
no operation is called like a directive.

`TerminalProofs`: `TerminalIsTextScreen`, the refinement,
`CursorStaysOnPage` and `PictureIsOfPage`. The invariant says for each label inside term_print what is
due there: which page and cursor the page in memory, the registers and the rest
of the routine lead to, and that this is what the character promises. Places
of the page have different offsets, so that a cell written changes one character
of one line; and term_scroll copies downwards, so that each byte is read
before it is written. `PictureOfPage` speaks of the moments between two
characters; the invariant `Picture` says at every label how the bank differs from
the picture of the page (nowhere, in the cursor, in the one character that
was set and is about to be drawn, or by a line while scrolling), and that the page
is empty from the cursor on, since nothing else draws what scrolling moves up.

`ProgrammerProofs`: `ProgrammerTypes`, `NothingIsLost`, `StaysInStep`,
`OkMeansWritten` and `ReportsAreRight`, for any number of commands and restarts and without the
constraint of the run. The firmware knows a message only by its bytes, so the
invariant follows them: `Flow(p)` says that p bytes of the message of the job have
been read and that what is in the buffer and on the line is the rest of it, in
order. While the host waits one of three things holds (`InTouch`): the command
is alive, and each place of the firmware has its own account of what is still to
be read, written and answered; or the board restarted after it had answered
(`Finished`); or the command was lost and what comes can only be the ready byte,
which is not taken for an end of command (`Doomed`). The last case fails once
the ready byte was taken as data, which is why `OkIsWritten` ends there
(`astray`). `ProgrammerAssumption` asks that a message fits the buffer and that a
chunk is not longer than the EEPROM, so that no cell is written twice, and that
clear starts at address 0, where `rom_clear()` starts. What
the host reports at the end of verify and clear rests on a second invariant,
`Reports`: each byte the host has and each that is on its way to it is the one of
the cell it was asked for, the data compared so far is in its cells, and the cells
below the address of clear are blank.

`MicrocodeProofs`: `RomIsRight`, for any instructions, macros and lines and any room
in a list. `RomRunsLists` speaks of the end only; the invariant `Placed` says
that while the program is parsed the words of a list nothing has disturbed are
those of its steps, with zeros behind them, and that the current list is as long as
its index says. Steps get into another list only from an index past the room, which
counts that list as disturbed. A bit that stands for two lines is decoded by bit
15, which a step has if and only if it has a line of type B, and then none of type A.

Only model-checked are: everything about `Assembly`, that the stack of a program
which sets SP itself, a byte at a time, is a `LifoStack` from the start, and all
liveness, `Returns` of `OsLib` included (the prover has no rules for fairness and
ENABLED).
What recursive definitions compute for all inputs is out of its reach too:
the evaluation and the expansion of a line in `Assembly` walk lists of tokens,
and `LinesLinked` and `OutputMeansSource` speak of the whole list. `Lexer` and
`Labels` have the parts of the assembler that proofs reach.

## Not modelled

Left out of the models above: formatting, warnings, the wording of messages,
the disassembler (INST, DUMP), the picture the renderer draws, the speed of the
simulation, the characters of a token. `push`, `pop` and their 16-bit forms in
`libemu.c` and `term_draw_line` in `term.asm` have no caller.

- The regions of the assembler's arena (`asmalloc`), but for the allocation of
  zero bytes `Lexer` needs: an allocation is a new token, and what a region is
  filled with decides nothing.
- Reading argv and files, and writing the output: one pass before and after.
- The rest of `gfx.asm`, the font and `ostest.asm`: pictures and a test program.
  `ostext.asm` and `oscall.asm` are a table of jumps and their addresses.
- Pong and the demos: one loop over a ball and two paddles, whose arithmetic is
  that of `MacroBodies`; a property of it would restate the rules of the game.
- The video timing firmware (`misc/avt`): what it promises is the number of
  microseconds between two edges of a pin, which its source does not fix.
- `misc/aep/old/main.c`: an earlier firmware no script talks to any more.
- The image converter and the checking script: one pass over a file.
- The circuit: a drawing in the format of another tool; `Microcode` reads its
  ROM as `microcode.asm` and `microcode.c` say.
- The Windows layer: vendored shims. The test harness: read as a reference.
