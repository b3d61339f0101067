----------------------------- MODULE Microcode -----------------------------
(***************************************************************************)
(* The assembler in microcode mode (asm/microcode.c): a program lists, for *)
(* each instruction, the steps the circuit goes through when its operand   *)
(* is a constant and when it is a register (circ/microcode.asm is one). A  *)
(* step is a word of control lines; the words of all lists are one array,  *)
(* emitted as the contents of the microcode ROM. The circuit runs a list   *)
(* until the line CC clears its step counter.                              *)
(*                                                                         *)
(* A line of the program is the sequence of its tokens, a word the set of  *)
(* its bits.                                                               *)
(***************************************************************************)
EXTENDS Integers, Sequences, SequencesExt

CONSTANTS
  I_NAMES,      \* the instructions, in the order of their codes
  Steps,        \* steps a list has room for, 8
  MacroNames, Bodies,      \* macros, and the lines of each
  Lines,        \* lines a program may have
  MaxLines      \* bound: lines of a program

ASSUME MicrocodeAssumption ==
  /\ I_NAMES \in Seq(STRING) /\ Steps \in Nat \ {0} /\ MaxLines \in Nat
  /\ DOMAIN Bodies = MacroNames
  /\ \A l \in Lines : l # << >>

VARIABLES
  mctx,         \* ctx->mctx is allocated, by the first line
  code,         \* ctx->mctx->code, the lists one behind the other
  instruction, reg, index,     \* the list and step being filled
  expanded,     \* lines of a macro still to be parsed
  budget,       \* lines that may still come
  out,          \* ctx->out
  phase,        \* "parsing", "done", "error" or "undefined"
  listed,       \* history: the steps listed last for each list
  disturbed     \* history: the lists begun again after they had steps, and
                \* those the steps of another one got into

vars == <<mctx, code, instruction, reg, index, expanded, budget, out, phase, listed, disturbed>>

I_COUNT == Len(I_NAMES)
Lists == 0 .. 2 * I_COUNT - 1
Words == 0 .. 2 * I_COUNT * Steps - 1
-----------------------------------------------------------------------------
(* The control lines: their type and their bit. Words of type A and of     *)
(* type B use the same bits for different lines, bit 15 tells them apart;  *)
(* AHL is what happens anyway.                                             *)
MTA == "A"
MTB == "B"
MTG == "G"
MTD == "dummy"
MICRO_OPS ==
  [emem |-> <<MTA, 0>>, asp |-> <<MTA, 1>>, aimm |-> <<MTA, 2>>, lmem |-> <<MTA, 3>>,
   spinc |-> <<MTA, 4>>, spdec |-> <<MTA, 5>>, jnz |-> <<MTA, 6>>,
   ldx |-> <<MTB, 0>>, ldy |-> <<MTB, 1>>, ldf |-> <<MTB, 2>>, ealu |-> <<MTB, 3>>,
   ldh |-> <<MTB, 4>>, ldl |-> <<MTB, 5>>, lprt |-> <<MTB, 6>>,
   ereg |-> <<MTG, 7>>, lreg |-> <<MTG, 8>>, sel |-> <<MTG, 9>>, eop1 |-> <<MTG, 10>>,
   eop2 |-> <<MTG, 11>>, edev |-> <<MTG, 12>>, ldev |-> <<MTG, 13>>, cc |-> <<MTG, 14>>,
   ahl |-> <<MTD, 0>>]
Type(op) == MICRO_OPS[op][1]
Bit(op) == MICRO_OPS[op][2]
Ops == DOMAIN MICRO_OPS
-----------------------------------------------------------------------------
(* The lines. A line that ends in a colon names an instruction or a side.  *)
Parsing == phase = "parsing"
Takes(l) ==
  /\ Parsing /\ mctx' = TRUE
  /\ IF expanded # << >>
     THEN l = Head(expanded) /\ expanded' = Tail(expanded) /\ UNCHANGED budget
     ELSE l \in Lines /\ budget > 0 /\ budget' = budget - 1 /\ UNCHANGED expanded

IsLabel(l) == Last(l) = ":"
NamesSide(l) == IsLabel(l) /\ l[1] = "." /\ l[2] \in {"const", "reg"}
NamesInstruction(l) == IsLabel(l) /\ \E i \in DOMAIN I_NAMES : I_NAMES[i] = l[1]
IsMacro(l) == Len(l) = 1 /\ l[1] \in MacroNames

(* The tokens of a step that count: lines named without a ~ before them    *)
(* that are not dummies.                                                   *)
Counted(l) ==
  {k \in DOMAIN l : l[k] \in Ops /\ Type(l[k]) # MTD /\ ~(k > 1 /\ l[k - 1] = "~")}
Named(l) == {l[k] : k \in Counted(l)}

(* A step is refused for what is neither a line nor a ~, for two ~ in a    *)
(* row, and when it has lines of both type A and type B.                   *)
IsStep(l) ==
  /\ \A k \in DOMAIN l : l[k] \in Ops \cup {"~"}
  /\ \A k \in 2 .. Len(l) : ~(l[k - 1] = "~" /\ l[k] = "~")
  /\ ~(\E o \in Named(l), p \in Named(l) : Type(o) = MTA /\ Type(p) = MTB)

cval(l) ==
  {Bit(o) : o \in Named(l)} \cup {15 : o \in {p \in Named(l) : Type(p) = MTB}}
-----------------------------------------------------------------------------
List(i, r) == 2 * i + (IF r THEN 1 ELSE 0)

Begin(i, r) ==
  /\ instruction' = i /\ reg' = r /\ index' = 0
  /\ listed' = [listed EXCEPT ![List(i, r)] = << >>]
  /\ disturbed' = disturbed \cup {k \in {List(i, r)} : listed[k] # << >>}
  /\ UNCHANGED <<code, out, phase>>

InstructionLabel(l) ==
  /\ Takes(l) /\ NamesInstruction(l)
  /\ \E i \in DOMAIN I_NAMES : I_NAMES[i] = l[1] /\ Begin(i - 1, FALSE)

SideLabel(l) ==
  /\ Takes(l) /\ NamesSide(l)
  /\ Begin(instruction, l[2] = "reg")

ExpandMacro(l) ==
  /\ Parsing /\ ~IsLabel(l) /\ IsMacro(l) /\ mctx' = TRUE
  /\ IF expanded # << >>
     THEN /\ l = Head(expanded) /\ expanded' = Bodies[l[1]] \o Tail(expanded)
          /\ UNCHANGED budget
     ELSE /\ l \in Lines /\ budget > 0 /\ budget' = budget - 1
          /\ expanded' = Bodies[l[1]]
  /\ UNCHANGED <<code, instruction, reg, index, out, phase, listed, disturbed>>

(* The next word of the list. index is not compared with the room there    *)
(* is: further steps get into the next list, and behind the last one the   *)
(* write is undefined.                                                     *)
Place == List(instruction, reg) * Steps + index
Step(l) ==
  /\ Takes(l) /\ ~IsLabel(l) /\ ~IsMacro(l) /\ IsStep(l)
  /\ IF Place \in Words
     THEN code' = [code EXCEPT ![Place] = cval(l)] /\ UNCHANGED phase
     ELSE phase' = "undefined" /\ UNCHANGED code
  /\ index' = index + 1
  /\ listed' = [listed EXCEPT ![List(instruction, reg)] = Append(@, Named(l))]
  /\ disturbed' = disturbed \cup (IF index < Steps THEN {} ELSE {Place \div Steps})
  /\ UNCHANGED <<instruction, reg, out>>

RejectLine(l) ==
  /\ Takes(l)
  /\ IF IsLabel(l) THEN ~NamesSide(l) /\ ~NamesInstruction(l)
     ELSE ~IsMacro(l) /\ ~IsStep(l)
  /\ phase' = "error"
  /\ UNCHANGED <<code, instruction, reg, index, out, listed, disturbed>>

(* microcode_emit(): a word is the last of its list if there is no room    *)
(* for another or the next one is zero; its step also clears the counter.  *)
(* A program without a line follows a null pointer here.                   *)
Bytes(w) == <<w \cap (0 .. 7), {b - 8 : b \in w \cap (8 .. 15)}>>
\* Slip: only the word behind the last step, which is zero, is marked.
EndsBehind(n) == n % Steps = Steps - 1 \/ code[n] = {}
Ends(n) == n % Steps = Steps - 1 \/ code[n + 1] = {}
Contents ==
  [b \in 0 .. 4 * I_COUNT * Steps - 1 |->
     LET n == b \div 2
         w == code[n] \cup (IF Ends(n) THEN {14} ELSE {})
     IN  Bytes(w)[(b % 2) + 1]]
microcode_emit ==
  /\ Parsing /\ expanded = << >>
  /\ IF mctx THEN out' = Contents /\ phase' = "done"
     ELSE phase' = "undefined" /\ UNCHANGED out
  /\ UNCHANGED <<mctx, code, instruction, reg, index, expanded, budget, listed, disturbed>>

Init ==
  /\ mctx = FALSE
  /\ code = [n \in Words |-> {}]
  /\ instruction = 0 /\ reg = FALSE /\ index = 0
  /\ expanded = << >> /\ budget = MaxLines
  /\ out = << >> /\ phase = "parsing"
  /\ listed = [k \in Lists |-> << >>] /\ disturbed = {}

Tokens == Lines \cup UNION {Range(Bodies[m]) : m \in MacroNames}
Next ==
  \/ \E l \in Tokens :
       InstructionLabel(l) \/ SideLabel(l) \/ ExpandMacro(l) \/ Step(l) \/ RejectLine(l)
  \/ microcode_emit
Spec == Init /\ [][Next]_vars
-----------------------------------------------------------------------------
(* What the circuit does with the ROM: the lines of a word, and the words  *)
(* of a list up to the first that clears the counter.                      *)
Word(k, j) ==
  LET at == 2 * (Steps * k + j)
  IN  out[at] \cup {b + 8 : b \in out[at + 1]}
Driven(w) ==
  {o \in Ops : /\ Type(o) # MTD /\ Bit(o) \in w
               /\ Type(o) = MTA => 15 \notin w
               /\ Type(o) = MTB => 15 \in w}
Runs(k) ==
  LET clears == {j \in 0 .. Steps - 1 : 14 \in Word(k, j)}
      stop == CHOOSE j \in clears : \A n \in clears : j <= n
  IN  [j \in 1 .. stop + 1 |-> Driven(Word(k, j - 1))]

(* A list the circuit can be expected to run as it is written: there is    *)
(* room for it, nothing else has been put there, every step does something *)
(* and none before the last clears the counter.                            *)
Clear(k) ==
  /\ k \notin disturbed /\ Len(listed[k]) <= Steps
  /\ \A j \in DOMAIN listed[k] : listed[k][j] # {}
  /\ \A j \in 1 .. Len(listed[k]) - 1 : "cc" \notin listed[k][j]

(* The ROM runs every clear list step by step, with the lines named and no *)
(* other, and clears the counter in its last step and not before; a list   *)
(* without steps does nothing but that.                                    *)
Written(k) ==
  IF listed[k] = << >> THEN << {"cc"} >>
  ELSE [listed[k] EXCEPT ![Len(listed[k])] = @ \cup {"cc"}]
RomRunsLists ==
  phase = "done" => \A k \in Lists : Clear(k) => Runs(k) = Written(k)
=============================================================================
