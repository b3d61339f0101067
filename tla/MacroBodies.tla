---------------------------- MODULE MacroBodies ----------------------------
(***************************************************************************)
(* What code in assembly language works on, and the bodies of the built-in *)
(* macros, asm/macros.asm, that work on the register file alone: each is a *)
(* function of the register file r, built from the instructions the        *)
(* machine executes.                                                       *)
(***************************************************************************)
EXTENDS Bytes

VARIABLES
  regs,      \* the register file
  mem,       \* the memory the code uses
  stack      \* bytes pushed, the last one first

Register == 0 .. 7
A == 0
B == 1
C == 2
D == 3
L == 4
H == 5
Z == 6
F == 7

(* An operand %x is a register or an immediate byte. *)
Reg(d) == <<"reg", d>>
Imm(n) == <<"imm", n>>
Val(r, x) == IF x[1] = "reg" THEN r[x[2]] ELSE x[2]

(* A pair of registers, high byte first as the macros take them. *)
WordIn(r, p) == Pair(r[p[2]], r[p[1]])
HL(r) == Pair(r[L], r[H])
hlPair == <<H, L>>
-----------------------------------------------------------------------------
(* The instructions the bodies are made of, on a register file r. *)
mw(r, d, x) == [r EXCEPT ![d] = Val(r, x)]
lda(r, w) == [r EXCEPT ![L] = Lo(w), ![H] = Hi(w)]
alu(op, r, d, x) ==
  LET b == Val(r, x)
      stored == [r EXCEPT ![d] = AluValue(op, r[d], b, r[F])]
  IN  IF op \in LoadsFlags THEN [stored EXCEPT ![F] = FlagsOf(r[d], b)]
      ELSE stored
add(r, d, x) == alu(I_ADD, r, d, x)
adc(r, d, x) == alu(I_ADC, r, d, x)
sbb(r, d, x) == alu(I_SBB, r, d, x)
and(r, d, x) == alu(I_AND, r, d, x)
or(r, d, x)  == alu(I_OR, r, d, x)
nor(r, d, x) == alu(I_NOR, r, d, x)
cmp(r, d, x) == alu(I_CMP, r, d, x)
-----------------------------------------------------------------------------
(* Macros on registers. *)
clf(r) == mw(r, F, Imm(0))
stFlag(r, n) == or(r, F, Imm(n))
clFlag(r, n) == and(r, F, Imm(ByteMax - n))
clb(r) == and(r, F, Imm(247))

(* Slip: the borrow an earlier macro left in F is not cleared.             *)
subNoClear(r, d, x) == sbb(r, d, x)

sub(r, d, x) == sbb(clb(r), d, x)
inc(r, d) == add(r, d, Imm(1))
fdec(r, d) == sbb(r, d, Imm(1))
dec(r, d) == sbb(clb(r), d, Imm(1))

not(r, d) == nor(r, d, Reg(d))
nand(r, d, x) == not(and(r, d, x), d)
xnor(r, d, x) ==
  LET f == mw(r, F, Reg(d))
  IN  or(and(nor(f, d, x), F, x), d, Reg(F))
xor(r, d, x) ==
  LET f == or(mw(r, F, x), F, Reg(d))
  IN  and(nand(f, d, x), d, Reg(F))

(* 16-bit macros: p is the pair %r0, %r1; the operand is a byte x, or a    *)
(* word whose high and low bytes are the operands hi and lo.               *)
inc16(r, p) == adc(add(r, p[2], Imm(1)), p[1], Imm(0))

dec16(r, p) == sbb(sbb(clb(r), p[2], Imm(1)), p[1], Imm(0))
add16b(r, p, x) == adc(add(r, p[2], x), p[1], Imm(0))

(* Slip: the high bytes are added without the carry.                       *)
add16NoCarry(r, p, hi, lo) == add(add(r, p[2], lo), p[1], hi)

add16(r, p, hi, lo) == adc(add(r, p[2], lo), p[1], hi)
sub16b(r, p, x) == sbb(sbb(r, p[2], x), p[1], Imm(0))
sub16(r, p, hi, lo) == sbb(sbb(r, p[2], lo), p[1], hi)
eq16(r, p, hi, lo) ==
  LET high == mw(cmp(r, p[1], hi), H, Reg(F))
  IN  and(and(cmp(high, p[2], lo), F, Reg(H)), F, Imm(2))
-----------------------------------------------------------------------------
FlagWeights == {F_LESS, F_EQUAL, F_CARRY, F_BORROW}

(* Conditional jumps. Each leaves in F a byte that is not zero if the jump *)
(* is taken, from the flags of a comparison; the forms with operands       *)
(* compare first. JGT ends in JZ, which is a JEQ against 0.                *)
Comparisons == {"JLT", "JLE", "JEQ", "JNE", "JGE", "JGT"}
FlagJumps == Comparisons \cup {"JC", "JNC", "JB", "JNB"}

mask(r, n) == and(r, F, Imm(n))
isZero(r, d) == mask(cmp(r, d, Imm(0)), 2)

(* Slip: JNE forgets to invert the flags.                                  *)
testUninverted(c, r) ==
  CASE c = "JLT" -> mask(r, 1)
    [] c = "JLE" -> mask(r, 3)
    [] c = "JEQ" -> mask(r, 2)
    [] c = "JNE" -> mask(r, 2)
    [] c = "JGE" -> mask(nand(r, F, Imm(1)), 3)
    [] c = "JGT" -> isZero(mask(r, 3), F)
    [] c = "JC"  -> mask(r, 4)
    [] c = "JNC" -> mask(not(r, F), 4)
    [] c = "JB"  -> mask(r, 8)
    [] c = "JNB" -> mask(not(r, F), 8)

test(c, r) ==
  CASE c = "JLT" -> mask(r, 1)
    [] c = "JLE" -> mask(r, 3)
    [] c = "JEQ" -> mask(r, 2)
    [] c = "JNE" -> mask(not(r, F), 2)
    [] c = "JGE" -> mask(nand(r, F, Imm(1)), 3)
    [] c = "JGT" -> isZero(mask(r, 3), F)
    [] c = "JC"  -> mask(r, 4)
    [] c = "JNC" -> mask(not(r, F), 4)
    [] c = "JB"  -> mask(r, 8)
    [] c = "JNB" -> mask(not(r, F), 8)

(* LDA %r0, %r1: HL from a pair of registers, H first. *)
ldaPair(r, p) == mw(mw(r, H, Reg(p[1])), L, Reg(p[2]))
=============================================================================
