------------------------------- MODULE Bytes -------------------------------
(***************************************************************************)
(* Unsigned 8- and 16-bit arithmetic of the JDH-8 as C's u8 and u16 do it, *)
(* and the ALU of emu/libemu.c: the value and the flags every arithmetic   *)
(* and logical instruction computes.                                       *)
(***************************************************************************)
EXTENDS Integers

ByteMax == 255
WordMax == 65535
Byte == 0 .. ByteMax
Word == 0 .. WordMax

(* Storing a C int into a u8 or a u16. *)
ToByte(n) == n % 256
ToWord(n) == n % 65536

(* The two bytes of a u16, which the machine keeps little-endian. *)
Lo(w) == w % 256
Hi(w) == w \div 256
Pair(lo, hi) == lo + 256 * hi

(* The bit of n that has weight w (a power of two). *)
BitAt(n, w) == (n \div w) % 2

(* A bitwise operation from the same operation on one bit. *)
Bitwise(op(_, _), a, b) ==
  op(BitAt(a, 1), BitAt(b, 1)) + 2 * op(BitAt(a, 2), BitAt(b, 2))
  + 4 * op(BitAt(a, 4), BitAt(b, 4)) + 8 * op(BitAt(a, 8), BitAt(b, 8))
  + 16 * op(BitAt(a, 16), BitAt(b, 16)) + 32 * op(BitAt(a, 32), BitAt(b, 32))
  + 64 * op(BitAt(a, 64), BitAt(b, 64)) + 128 * op(BitAt(a, 128), BitAt(b, 128))

BitAnd(x, y) == IF x = 1 /\ y = 1 THEN 1 ELSE 0
BitOr(x, y)  == IF x = 1 \/ y = 1 THEN 1 ELSE 0

And(a, b) == Bitwise(BitAnd, a, b)
Or(a, b)  == Bitwise(BitOr, a, b)
Nor(a, b) == 255 - Or(a, b)

(* Clearing or setting the bit of weight w: BIT_SET. *)
BitClear(n, w) == n - w * BitAt(n, w)
BitSet(n, w)   == BitClear(n, w) + w

(* Weights of the bits of the flags register F. *)
F_LESS   == 1
F_EQUAL  == 2
F_CARRY  == 4
F_BORROW == 8

(* Weights of the bits of the status register the emulator acts on. *)
S_ERROR == 2
S_HALT  == 8

If01(p) == IF p THEN 1 ELSE 0

(* step(): the flags ADD, ADC, CMP and SBB load. They are computed from    *)
(* the two operands alone, without the carry or borrow that went in.       *)
FlagsOf(a, b) ==
  F_LESS * If01(a < b) + F_EQUAL * If01(a = b)
  + F_CARRY * If01(a + b > 255) + F_BORROW * If01(b > a)

(* Instruction codes of the ALU operations. *)
I_ADD == 9
I_ADC == 10
I_AND == 11
I_OR  == 12
I_NOR == 13
I_CMP == 14
I_SBB == 15
AluOps == {I_ADD, I_ADC, I_AND, I_OR, I_NOR, I_CMP, I_SBB}
LoadsFlags == {I_ADD, I_ADC, I_SBB, I_CMP}

(* step(): the byte an ALU operation leaves in its register; f is the      *)
(* flags register before the instruction.                                  *)
AluValue(op, a, b, f) ==
  CASE op = I_CMP -> a
    [] op = I_AND -> And(a, b)
    [] op = I_OR  -> Or(a, b)
    [] op = I_NOR -> Nor(a, b)
    [] op = I_ADD -> ToByte(a + b)
    [] op = I_ADC -> ToByte(a + b + BitAt(f, F_CARRY))
    [] op = I_SBB -> ToByte(a - b - BitAt(f, F_BORROW))
=============================================================================
