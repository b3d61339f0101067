----------------------------- MODULE Jdh8Proofs -----------------------------
(***************************************************************************)
(* Proofs about Jdh8, for every value of its constants: the type           *)
(* invariant, that load() always puts ROM's write protection back, that    *)
(* ROM changes only while a file is being loaded, that a write reaches the *)
(* storage MB selects only, and that PUSH and POP implement LifoStack.     *)
(***************************************************************************)
EXTENDS Jdh8, TLAPS
-----------------------------------------------------------------------------
(* Bytes and words. The bounds are lemmas so that no proof unfolds a range *)
(* of 65536 numbers.                                                       *)
LEMMA ByteRange == \A n : n \in Byte <=> n \in Int /\ 0 <= n /\ n <= ByteMax
<1>1. ByteMax \in Int
  BY DEF ByteMax
<1>2. QED BY <1>1 DEF Byte

LEMMA ByteBounds == \A n : n \in Byte <=> n \in Int /\ 0 <= n /\ n <= 255
<1>1. ByteMax = 255
  BY DEF ByteMax
<1>2. QED BY <1>1, ByteRange

LEMMA WordRange == \A n : n \in Word <=> n \in Int /\ 0 <= n /\ n <= WordMax
<1>1. WordMax \in Int
  BY DEF WordMax
<1>2. QED BY <1>1 DEF Word

LEMMA WordBounds == \A n : n \in Word <=> n \in Int /\ 0 <= n /\ n <= 65535
<1>1. WordMax = 65535
  BY DEF WordMax
<1>2. QED BY <1>1, WordRange

LEMMA BitAtIs01 ==
  ASSUME NEW n \in Nat, NEW w \in {1, 2, 4, 8, 16, 32, 64, 128}
  PROVE  BitAt(n, w) \in {0, 1}
BY DEF BitAt

(* Un-halting clears one bit of STATUS and cannot borrow from the others.  *)
LEMMA BitClearIsByte ==
  ASSUME NEW n \in Byte
  PROVE  BitClear(n, S_HALT) \in Byte
<1>1. n \in Nat /\ n <= 255
  BY ByteBounds
<1>2. BitAt(n, 8) \in {0, 1}
  BY <1>1, BitAtIs01
<1>3. n < 8 => n \div 8 = 0
  BY <1>1
<1>4. n < 8 => BitAt(n, 8) = 0
  BY <1>3 DEF BitAt
<1>5. n - 8 * BitAt(n, 8) \in Int /\ 0 <= n - 8 * BitAt(n, 8)
      /\ n - 8 * BitAt(n, 8) <= 255
  BY <1>1, <1>2, <1>4
<1>6. QED BY <1>5, ByteBounds DEF BitClear, S_HALT

LEMMA HalvesAreBytes ==
  ASSUME NEW w \in Word
  PROVE  Lo(w) \in Byte /\ Hi(w) \in Byte
<1>1. w \in Nat /\ w <= 65535
  BY WordBounds
<1>2. w \div 256 <= 255 /\ w \div 256 \in Nat
  BY <1>1
<1>3. w % 256 \in Int /\ 0 <= w % 256 /\ w % 256 <= 255
  BY <1>1
<1>4. QED BY <1>2, <1>3, ByteBounds DEF Lo, Hi

LEMMA PairIsWord ==
  ASSUME NEW lo \in Byte, NEW hi \in Byte
  PROVE  Pair(lo, hi) \in Word
BY ByteBounds, WordBounds DEF Pair

LEMMA ToWordIsWord == \A n \in Int : ToWord(n) \in Word
BY WordBounds DEF ToWord

LEMMA ToByteIsByte == \A n \in Int : ToByte(n) \in Byte
BY ByteBounds DEF ToByte

LEMMA EightBits ==
  ASSUME NEW b1 \in {0, 1}, NEW b2 \in {0, 1}, NEW b4 \in {0, 1},
         NEW b8 \in {0, 1}, NEW b16 \in {0, 1}, NEW b32 \in {0, 1},
         NEW b64 \in {0, 1}, NEW b128 \in {0, 1}
  PROVE  b1 + 2 * b2 + 4 * b4 + 8 * b8 + 16 * b16 + 32 * b32 + 64 * b64
         + 128 * b128 \in Byte
<1> DEFINE n == b1 + 2 * b2 + 4 * b4 + 8 * b8 + 16 * b16 + 32 * b32 + 64 * b64
                + 128 * b128
<1>1. n \in Int /\ 0 <= n /\ n <= 255
  OBVIOUS
<1> HIDE DEF n
<1>2. n \in Byte
  BY <1>1, ByteBounds
<1>3. QED BY <1>2 DEF n

LEMMA AndIsByte ==
  ASSUME NEW a \in Byte, NEW b \in Byte
  PROVE  And(a, b) \in Byte
<1> DEFINE bit(w) == BitAnd(BitAt(a, w), BitAt(b, w))
<1>1. \A w \in {1, 2, 4, 8, 16, 32, 64, 128} : bit(w) \in {0, 1}
  BY DEF BitAnd
<1>2. And(a, b) = bit(1) + 2 * bit(2) + 4 * bit(4) + 8 * bit(8) + 16 * bit(16)
                  + 32 * bit(32) + 64 * bit(64) + 128 * bit(128)
  BY DEF And, Bitwise
<1> HIDE DEF bit
<1>3. QED BY <1>1, <1>2, EightBits

LEMMA OrIsByte ==
  ASSUME NEW a \in Byte, NEW b \in Byte
  PROVE  Or(a, b) \in Byte
<1> DEFINE bit(w) == BitOr(BitAt(a, w), BitAt(b, w))
<1>1. \A w \in {1, 2, 4, 8, 16, 32, 64, 128} : bit(w) \in {0, 1}
  BY DEF BitOr
<1>2. Or(a, b) = bit(1) + 2 * bit(2) + 4 * bit(4) + 8 * bit(8) + 16 * bit(16)
                 + 32 * bit(32) + 64 * bit(64) + 128 * bit(128)
  BY DEF Or, Bitwise
<1> HIDE DEF bit
<1>3. QED BY <1>1, <1>2, EightBits

LEMMA AluValueIsByte ==
  ASSUME NEW op \in AluOps, NEW a \in Byte, NEW b \in Byte, NEW f \in Byte
  PROVE  AluValue(op, a, b, f) \in Byte
<1>1. BitAt(f, F_CARRY) \in {0, 1} /\ BitAt(f, F_BORROW) \in {0, 1}
  BY BitAtIs01, ByteBounds DEF F_CARRY, F_BORROW
<1>2. And(a, b) \in Byte /\ Or(a, b) \in Byte
  BY AndIsByte, OrIsByte
<1>3. Nor(a, b) \in Byte
  BY <1>2, ByteBounds DEF Nor
<1>4. /\ ToByte(a + b) \in Byte
      /\ ToByte(a + b + BitAt(f, F_CARRY)) \in Byte
      /\ ToByte(a - b - BitAt(f, F_BORROW)) \in Byte
  BY <1>1, ToByteIsByte, ByteBounds
<1>5. QED
  BY <1>2, <1>3, <1>4 DEF AluValue, AluOps, I_ADD, I_ADC, I_AND, I_OR, I_NOR, I_CMP,
                    I_SBB

LEMMA FlagsAreByte ==
  ASSUME NEW a \in Byte, NEW b \in Byte
  PROVE  FlagsOf(a, b) \in Byte
<1> DEFINE less == If01(a < b)
           equal == If01(a = b)
           carry == If01(a + b > 255)
           borrow == If01(b > a)
<1>1. /\ less \in {0, 1} /\ equal \in {0, 1}
      /\ carry \in {0, 1} /\ borrow \in {0, 1}
  BY DEF If01
<1>2. FlagsOf(a, b) = less + 2 * equal + 4 * carry + 8 * borrow
  BY <1>1 DEF FlagsOf, F_LESS, F_EQUAL, F_CARRY, F_BORROW
<1> HIDE DEF less, equal, carry, borrow
<1>3. QED BY <1>1, <1>2, ByteBounds
-----------------------------------------------------------------------------
(* The address space.                                                      *)
LEMMA PutIsMemory ==
  ASSUME NEW addrs, NEW m, IsMemory(m, addrs), NEW a \in addrs, NEW v \in Byte
  PROVE  IsMemory(Put(m, a, v), addrs)
<1> DEFINE c == [x \in DOMAIN m.cells \cup {a} |->
                   IF x = a THEN v ELSE m.cells[x]]
<1>1. Put(m, a, v) = [fill |-> m.fill, cells |-> c]
  BY DEF Put, IsMemory
<1>2. DOMAIN c \subseteq addrs /\ \A x \in DOMAIN c : c[x] \in Byte
  BY DEF IsMemory
<1> HIDE DEF c
<1>3. c = [x \in DOMAIN c |-> c[x]]
  BY DEF c
<1>4. QED BY <1>1, <1>2, <1>3 DEF IsMemory

LEMMA GetIsByte ==
  ASSUME NEW addrs, NEW m, IsMemory(m, addrs), NEW a
  PROVE  Get(m, a) \in Byte
BY DEF Get, IsMemory

LEMMA SpecialIndex ==
  ASSUME NEW a \in Word, IsSpecial(a)
  PROVE  (a - ADDR_MB) \div 2 \in {MB, SP, PC}
<1> DEFINE n == a - ADDR_MB
<1>1. n \in Nat /\ n <= 5
  BY WordBounds DEF IsSpecial, ADDR_MB
<1>2. n \div 2 \in Int /\ 0 <= n \div 2 /\ n \div 2 <= 2
  BY <1>1
<1>3. QED BY <1>2 DEF MB, SP, PC

(* The ways ppeek() and poke() tell addresses apart exclude each other.    *)
LEMMA KindsOfAddress ==
  ASSUME NEW s, NEW a \in Word
  PROVE  /\ ~(IsSpecial(a) /\ Banked(s, a))
         /\ ~(IsSpecial(a) /\ a \in RomAddr)
         /\ ~(Banked(s, a) /\ a \in RomAddr)
<1> DEFINE last == ADDR_RAM - 1
           rom == ADDR_BANK - 1
<1>1. /\ last \in Int /\ last < ADDR_MB /\ ADDR_BANK <= last
      /\ rom \in Int /\ rom < ADDR_BANK
      /\ ADDR_BANK \in Int /\ ADDR_MB \in Int /\ a \in Int
  BY WordBounds DEF ADDR_MB, ADDR_BANK, ADDR_RAM
<1> HIDE DEF last, rom
<1>2. RomAddr = 0 .. rom /\ BankAddr = ADDR_BANK .. last
  BY DEF RomAddr, BankAddr, rom, last
<1>3. QED BY <1>1, <1>2 DEF IsSpecial, Banked

LEMMA RamRange ==
  ASSUME NEW a \in Word, ~IsSpecial(a)
  PROVE  a \in 0 .. ADDR_MB - 1
<1> DEFINE last == ADDR_MB - 1
<1>1. last \in Int /\ a \in Int /\ 0 <= a /\ a <= last
  BY WordBounds DEF IsSpecial, ADDR_MB
<1> HIDE DEF last
<1>2. a \in 0 .. last
  BY <1>1
<1>3. QED BY <1>2 DEF last

LEMMA WindowRange ==
  ASSUME NEW a \in Word, a \in BankAddr
  PROVE  a - ADDR_BANK \in 0 .. ADDR_RAM - ADDR_BANK - 1
<1> DEFINE last == ADDR_RAM - 1
           size == ADDR_RAM - ADDR_BANK - 1
<1>1. last \in Int /\ size \in Int /\ ADDR_BANK \in Int /\ last = ADDR_BANK + size
  BY DEF ADDR_RAM, ADDR_BANK
<1> HIDE DEF last, size
<1>2. a \in ADDR_BANK .. last
  BY DEF BankAddr, last
<1>3. a - ADDR_BANK \in 0 .. size
  BY <1>1, <1>2
<1>4. QED BY <1>3 DEF size

LEMMA PeekIsByte ==
  ASSUME NEW s, IsSpace(s), NEW a \in Word
  PROVE  Peek(s, a) \in Byte
<1>1. CASE IsSpecial(a)
  <2>1. s.special[(a - ADDR_MB) \div 2] \in Word
    BY <1>1, SpecialIndex DEF IsSpace
  <2>2. QED BY <1>1, <2>1, HalvesAreBytes, KindsOfAddress DEF Peek
<1>2. CASE ~IsSpecial(a) /\ Banked(s, a)
  <2>1. CASE Present(s)
    <3>1. s.special[MB] \in Banks
      BY <2>1 DEF Present, IsSpace
    <3>2. Get(s.banks[s.special[MB]], a - ADDR_BANK) \in Byte
      BY <3>1, GetIsByte DEF IsSpace
    <3>3. QED BY <1>2, <2>1, <3>2 DEF Peek
  <2>2. CASE ~Present(s)
    BY <1>2, <2>2, ByteBounds, KindsOfAddress DEF Peek
  <2>3. QED BY <2>1, <2>2
<1>3. CASE ~IsSpecial(a) /\ ~Banked(s, a)
  <2>1. Get(s.ram, a) \in Byte
    BY GetIsByte DEF IsSpace
  <2>2. QED BY <1>3, <2>1 DEF Peek
<1>4. QED BY <1>1, <1>2, <1>3

LEMMA SetSpecialIsSpace ==
  ASSUME NEW s, IsSpace(s), NEW i \in {MB, SP, PC}, NEW w \in Word
  PROVE  IsSpace([s EXCEPT !.special[i] = w])
BY DEF IsSpace, MB, SP, PC

LEMMA PokeIsSpace ==
  ASSUME NEW s, IsSpace(s), NEW wp \in BOOLEAN, NEW a \in Word, NEW v \in Byte
  PROVE  IsSpace(Poke(s, wp, a, v))
<1>1. CASE wp /\ a \in RomAddr
  BY <1>1, KindsOfAddress DEF Poke
<1>2. CASE ~(wp /\ a \in RomAddr) /\ IsSpecial(a)
  <2> DEFINE i == (a - ADDR_MB) \div 2
             w == s.special[i]
             n == IF a % 2 = 0 THEN Pair(v, Hi(w)) ELSE Pair(Lo(w), v)
  <2>1. i \in {MB, SP, PC}
    BY <1>2, SpecialIndex
  <2>2. w \in Word
    BY <2>1 DEF IsSpace
  <2>3. n \in Word
    BY <2>2, HalvesAreBytes, PairIsWord
  <2>4. Poke(s, wp, a, v) = [s EXCEPT !.special[i] = n]
    BY <1>2, KindsOfAddress DEF Poke, PokeSpecial
  <2> HIDE DEF i, n
  <2>5. QED BY <2>1, <2>3, <2>4, SetSpecialIsSpace
<1>3. CASE ~(wp /\ a \in RomAddr) /\ ~IsSpecial(a) /\ Banked(s, a)
  <2>1. Poke(s, wp, a, v) = PokeBank(s, a, v)
    BY <1>3, KindsOfAddress DEF Poke
  <2>2. CASE Present(s)
    <3> DEFINE b == s.special[MB]
               m == Put(s.banks[b], a - ADDR_BANK, v)
    <3>1. b \in Banks
      BY <2>2 DEF Present, IsSpace
    <3>2. a - ADDR_BANK \in 0 .. ADDR_RAM - ADDR_BANK - 1
      BY <1>3, WindowRange DEF Banked
    <3>3. IsMemory(m, 0 .. ADDR_RAM - ADDR_BANK - 1)
      BY <3>1, <3>2, PutIsMemory DEF IsSpace
    <3>4. PokeBank(s, a, v) = [s EXCEPT !.banks[b] = m]
      BY <2>2 DEF PokeBank
    <3> HIDE DEF b, m
    <3>5. IsSpace([s EXCEPT !.banks[b] = m])
      BY <3>1, <3>3 DEF IsSpace
    <3>6. QED BY <2>1, <3>4, <3>5
  <2>3. CASE ~Present(s)
    BY <2>1, <2>3 DEF PokeBank
  <2>4. QED BY <2>2, <2>3
<1>4. CASE ~(wp /\ a \in RomAddr) /\ ~IsSpecial(a) /\ ~Banked(s, a)
  <2> DEFINE m == Put(s.ram, a, v)
  <2>1. Poke(s, wp, a, v) = [s EXCEPT !.ram = m]
    BY <1>4 DEF Poke
  <2>2. a \in 0 .. ADDR_MB - 1
    BY <1>4, RamRange
  <2>3. IsMemory(m, 0 .. ADDR_MB - 1)
    BY <2>2, PutIsMemory DEF IsSpace
  <2> HIDE DEF m
  <2>4. IsSpace([s EXCEPT !.ram = m])
    BY <2>3 DEF IsSpace
  <2>5. QED BY <2>1, <2>4
<1>5. QED BY <1>1, <1>2, <1>3, <1>4
-----------------------------------------------------------------------------
(* Decoding.                                                               *)
LEMMA SkipIsSpace ==
  ASSUME TypeOK, NEW n \in Nat
  PROVE  IsSpace(Skip(n))
<1>1. IsSpace(space) /\ PC \in {MB, SP, PC}
  BY DEF TypeOK
<1>2. ToWord(space.special[PC] + n) \in Word
  BY <1>1, WordBounds, ToWordIsWord DEF IsSpace
<1>3. Skip(n) = [space EXCEPT !.special[PC] = ToWord(space.special[PC] + n)]
  BY DEF Skip
<1>4. QED BY <1>1, <1>2, <1>3, SetSpecialIsSpace

LEMMA CodeIsByte ==
  ASSUME TypeOK, NEW k \in {0, 1, 2}
  PROVE  Code(k) \in Byte
<1>1. IsSpace(Skip(k + 1))
  BY SkipIsSpace
<1>2. pc \in Word
  BY DEF pc, TypeOK, IsSpace
<1>3. ToWord(pc + k) \in Word
  BY <1>2, WordBounds, ToWordIsWord
<1>4. QED BY <1>1, <1>3, PeekIsByte DEF Code

(* Every operand of an instruction has its width, and what remains after   *)
(* fetching is an address space.                                           *)
LEMMA OperandsOK ==
  ASSUME TypeOK
  PROVE  /\ Z \in 0 .. 7
         /\ IMM8_REG \in Byte
         /\ IMM8_PC0_REG \in Byte
         /\ HL \in Word
         /\ Address \in Word
         /\ IsSpace(Fetched)
<1>1. Code(0) \in Byte /\ Code(1) \in Byte /\ Code(2) \in Byte
  BY CodeIsByte
<1>2. Z \in 0 .. 7 /\ Code(1) % 8 \in 0 .. 7
  BY <1>1, ByteBounds DEF Z
<1>3. regs \in [0 .. 7 -> Byte]
  BY DEF TypeOK
<1>4. HL \in Word
  BY <1>3, PairIsWord DEF HL, L, H
<1>5. Length \in Nat
  BY DEF Length
<1>6. IsSpace(Fetched)
  BY <1>5, SkipIsSpace DEF Fetched
<1>7. QED
  BY <1>1, <1>2, <1>3, <1>4, <1>6, PairIsWord
  DEF IMM8_REG, IMM8_PC0_REG, Address
-----------------------------------------------------------------------------
LEMMA InitTypeOK == Init => TypeOK
<1> SUFFICES ASSUME Init PROVE TypeOK
  OBVIOUS
<1>1. PICK fill \in Fills :
        space = [special |-> [i \in {MB, SP, PC} |-> 0], ram |-> Fresh(0),
                 banks |-> [b \in Banks |-> Fresh(fill)]]
  BY DEF Init
<1>2. 0 \in Byte /\ 0 \in Word /\ fill \in Byte
  BY ByteBounds, WordBounds, ConstantsAssumption
<1>3. ASSUME NEW v \in Byte, NEW addrs
      PROVE  IsMemory(Fresh(v), addrs)
  BY <1>3 DEF IsMemory, Fresh
<1>4. IsSpace(space)
  <2>1. /\ space.special = [i \in {MB, SP, PC} |-> 0]
        /\ space.ram = Fresh(0)
        /\ space.banks = [b \in Banks |-> Fresh(fill)]
        /\ space = [special |-> space.special, ram |-> space.ram,
                    banks |-> space.banks]
    BY <1>1
  <2>2. QED BY <2>1, <1>2, <1>3 DEF IsSpace
<1>5. regs \in [0 .. 7 -> Byte] /\ status \in Byte
  BY <1>2 DEF Init
<1>6. QED BY <1>4, <1>5 DEF Init, TypeOK, CopyOK

(* Instructions keep the types: one step per instruction.                  *)
LEMMA StepTypeOK == TypeOK /\ Step => TypeOK'
<1> SUFFICES ASSUME TypeOK, Step PROVE TypeOK'
  OBVIOUS
<1> USE OperandsOK
<1>1. regs \in [0 .. 7 -> Byte] /\ IsSpace(space) /\ regs[Z] \in Byte
  BY DEF TypeOK
<1>2. ASSUME regs' \in [0 .. 7 -> Byte], IsSpace(space'), UNCHANGED_IO
      PROVE  TypeOK'
  BY <1>2 DEF UNCHANGED_IO, TypeOK, CopyOK
<1>3. CASE MW
  BY <1>1, <1>2, <1>3 DEF MW
<1>4. CASE LW
  BY <1>1, <1>2, <1>4, PeekIsByte DEF LW
<1>5. CASE SW
  BY <1>1, <1>2, <1>5, PokeIsSpace DEF SW, TypeOK
<1>6. CASE PUSH
  <2> DEFINE below == ToWord(space.special[SP] - 1)
             moved == [Fetched EXCEPT !.special[SP] = below]
             early == [Skip(2) EXCEPT !.special[SP] = below]
             late == Peek(early, ToWord(pc + 1))
  <2>1. space.special[SP] \in Word /\ pc \in Word
    BY <1>1 DEF IsSpace, pc
  <2>2. below \in Word /\ ToWord(pc + 1) \in Word
    BY <2>1, WordBounds, ToWordIsWord
  <2>3. IsSpace(moved) /\ IsSpace(early)
    BY <2>2, SkipIsSpace, SetSpecialIsSpace
  <2>4. late \in Byte
    BY <2>2, <2>3, PeekIsByte
  <2>5. /\ Fetched.special[SP] = space.special[SP]
        /\ Skip(2).special[SP] = space.special[SP]
    BY <1>1 DEF Fetched, Skip, IsSpace, SP, PC, MB
  <2>6. \E operand \in {IMM8_PC0_REG, IF Y THEN regs[Z] ELSE late} :
          space' = Poke(moved, write_protect, space.special[SP], operand)
    BY <1>6, <2>5 DEF PUSH
  <2>7. IsSpace(space')
    BY SMTT(40), <1>1, <2>1, <2>3, <2>4, <2>6, PokeIsSpace DEF TypeOK
  <2>8. QED BY <1>1, <1>2, <1>6, <2>7 DEF PUSH
<1>7. CASE POP
  <2> DEFINE above == ToWord(Fetched.special[SP] + 1)
             moved == [Fetched EXCEPT !.special[SP] = above]
  <2>1. above \in Word
    BY WordBounds, ToWordIsWord DEF IsSpace
  <2>2. IsSpace(moved) /\ moved.special[SP] \in Word
    BY <2>1, SetSpecialIsSpace DEF IsSpace
  <2>3. Peek(moved, moved.special[SP]) \in Byte
    BY <2>2, PeekIsByte
  <2>4. /\ regs' = [regs EXCEPT ![Z] = Peek(moved, moved.special[SP])]
        /\ space' = moved
    BY <1>7 DEF POP
  <2>5. QED BY <1>1, <1>2, <1>7, <2>2, <2>3, <2>4 DEF POP
<1>8. CASE LDA
  BY <1>1, <1>2, <1>8, CodeIsByte DEF LDA, L, H
<1>9. CASE JNZ
  <2>1. IsSpace([Fetched EXCEPT !.special[PC] = HL])
    BY SetSpecialIsSpace
  <2>2. QED BY <1>1, <1>2, <1>9, <2>1 DEF JNZ
<1>10. CASE ALU
  <2> DEFINE a == regs[Z]
             b == IMM8_REG
             stored == [regs EXCEPT ![Z] = AluValue(Op, a, b, regs[F])]
  <2>1. AluValue(Op, a, b, regs[F]) \in Byte /\ FlagsOf(a, b) \in Byte
    BY <1>1, <1>10, AluValueIsByte, FlagsAreByte DEF ALU, F
  <2>2. /\ stored \in [0 .. 7 -> Byte]
        /\ [stored EXCEPT ![F] = FlagsOf(a, b)] \in [0 .. 7 -> Byte]
    BY <1>1, <2>1
  <2>3. QED BY <1>2, <1>10, <2>2 DEF ALU
<1>11. CASE INB
  <2>1. InValues(IMM8_REG) \subseteq Byte
    BY SMTT(40), ConstantsAssumption, ByteBounds DEF InValues, TypeOK
  <2>2. QED BY <1>1, <1>2, <1>11, <2>1 DEF INB
<1>12. CASE OUTB
  BY <1>1, <1>12 DEF OUTB, TypeOK, CopyOK
<1>13. CASE CrashStep
  BY <1>13 DEF CrashStep, Dies, TypeOK, CopyOK
<1>14. QED
  BY <1>3, <1>4, <1>5, <1>6, <1>7, <1>8, <1>9, <1>10, <1>11, <1>12, <1>13
  DEF Step

LEMMA LoadTypeOK == TypeOK /\ Load => TypeOK'
<1> SUFFICES ASSUME TypeOK, Load PROVE TypeOK'
  OBVIOUS
<1>1. ASSUME NEW img \in Images, NEW addr \in LoadAddrs, LoadOpen(img, addr)
      PROVE  TypeOK'
  <2>1. copy' \in Copying /\ copy'.i <= Len(copy'.img)
    BY <1>1, ConstantsAssumption DEF LoadOpen, Copying, TypeOK
  <2>2. QED BY <1>1, <2>1 DEF LoadOpen, TypeOK, CopyOK
<1>2. CASE LoadByte
  <2>1. copy \in Copying /\ copy.i < Len(copy.img)
    BY <1>2 DEF LoadByte, TypeOK, CopyOK, NoCopy
  <2>2. copy.img \in Seq(Byte) /\ copy.dest \in Word /\ copy.i \in Nat
    BY <2>1, ConstantsAssumption DEF Copying
  <2>3. copy.img[copy.i + 1] \in Byte
    BY <2>1, <2>2
  <2>4. ToWord(copy.dest + copy.i) \in Word
    BY SMTT(40), <2>2, WordBounds, ToWordIsWord
  <2>5. IsSpace(space')
    BY <1>2, <2>3, <2>4, PokeIsSpace DEF LoadByte, TypeOK
  <2>6. copy' \in Copying /\ copy'.i <= Len(copy'.img)
    <3>1. /\ copy' = [copy EXCEPT !.i = copy.i + 1]
          /\ copy.i + 1 \in Nat /\ copy.i + 1 <= Len(copy.img)
      BY <1>2, <2>1, <2>2 DEF LoadByte
    <3>2. QED BY <2>1, <3>1 DEF Copying
  <2>7. QED BY <1>2, <2>5, <2>6 DEF LoadByte, TypeOK, CopyOK
<1>3. CASE LoadCrash
  BY <1>3 DEF LoadCrash, Dies, TypeOK, CopyOK
<1>4. CASE LoadDone
  <2>1. copy \in Copying
    BY <1>4 DEF LoadDone, TypeOK, CopyOK, NoCopy
  <2>2. QED BY <1>4, <2>1 DEF LoadDone, TypeOK, CopyOK, Copying
<1>5. QED BY <1>1, <1>2, <1>3, <1>4 DEF Load

LEMMA CommandTypeOK == TypeOK /\ Command => TypeOK'
<1> SUFFICES ASSUME TypeOK, Command PROVE TypeOK'
  OBVIOUS
<1>1. ASSUME NEW i \in 0 .. 7, NEW v \in UserBytes, SetRegister(i, v)
      PROVE  TypeOK'
  BY <1>1, ConstantsAssumption DEF SetRegister, TypeOK, CopyOK
<1>2. ASSUME NEW i \in {MB, SP, PC}, NEW w \in UserWords, SetSpecial(i, w)
      PROVE  TypeOK'
  <2>1. IsSpace(space')
    BY <1>2, ConstantsAssumption, SetSpecialIsSpace DEF SetSpecial, TypeOK
  <2>2. QED BY <1>2, <2>1 DEF SetSpecial, TypeOK, CopyOK
<1>3. ASSUME NEW a \in UserWords, NEW v \in UserBytes, PokeCommand(a, v)
      PROVE  TypeOK'
  <2>1. IsSpace(space')
    BY <1>3, ConstantsAssumption, PokeIsSpace DEF PokeCommand, TypeOK
  <2>2. QED BY <1>3, <2>1 DEF PokeCommand, TypeOK, CopyOK
<1>4. ASSUME NEW p \in UserPorts, NEW v \in UserBytes, OutCommand(p, v)
      PROVE  TypeOK'
  BY <1>4, ConstantsAssumption DEF OutCommand, TypeOK, CopyOK
<1>5. CASE Unhalt
  <2>1. status' \in Byte
    BY <1>5, BitClearIsByte DEF Unhalt, TypeOK
  <2>2. QED BY <1>5, <2>1 DEF Unhalt, TypeOK, CopyOK
<1>6. QED BY <1>1, <1>2, <1>3, <1>4, <1>5 DEF Command

LEMMA NextTypeOK == TypeOK /\ [Next]_vars => TypeOK'
<1>1. TypeOK /\ UNCHANGED vars => TypeOK'
  BY DEF vars, TypeOK, CopyOK
<1>2. QED BY <1>1, StepTypeOK, LoadTypeOK, CommandTypeOK DEF Next

(* Every byte, word and address of the machine stays in its width, and     *)
(* memory is never addressed outside its arrays, whatever is loaded, typed *)
(* or executed.                                                            *)
THEOREM TypeCorrect == Spec => []TypeOK
BY InitTypeOK, NextTypeOK, PTL DEF Spec
-----------------------------------------------------------------------------
(* Write protection. A load in progress remembers that protection was on,  *)
(* so finishing it turns protection on again.                              *)
ProtectionInv == TypeOK /\ ProtectionRestored /\ (copy.active => copy.wp)

LEMMA ProtectionInvInit == Init => ProtectionInv
<1>1. Init => write_protect = TRUE /\ copy.active = FALSE
  BY DEF Init, NoCopy
<1>2. QED BY <1>1, InitTypeOK DEF ProtectionInv, ProtectionRestored

LEMMA ProtectionInvStep == ProtectionInv /\ [Next]_vars => ProtectionInv'
<1> SUFFICES ASSUME ProtectionInv, [Next]_vars
             PROVE  ProtectionRestored' /\ (copy.active => copy.wp)'
  BY NextTypeOK DEF ProtectionInv
<1> USE DEF ProtectionInv, ProtectionRestored
<1>1. CASE UNCHANGED vars
  BY <1>1 DEF vars
<1>2. CASE Step
  <2>1. UNCHANGED <<write_protect, copy>>
    BY <1>2 DEF Step, MW, LW, SW, PUSH, POP, LDA, JNZ, ALU, INB, OUTB,
                CrashStep, Dies, UNCHANGED_IO
  <2>2. QED BY <2>1
<1>3. CASE Load
  <2>1. ASSUME NEW img \in Images, NEW addr \in LoadAddrs,
               LoadOpen(img, addr)
        PROVE  copy'.active /\ copy'.wp
    BY <2>1 DEF LoadOpen, Idle
  <2>2. CASE LoadByte
    <3>1. copy \in Copying
      BY <2>2 DEF LoadByte, TypeOK, CopyOK, NoCopy
    <3>2. copy'.active = copy.active /\ copy'.wp = copy.wp
      BY <2>2, <3>1 DEF LoadByte, Copying
    <3>3. QED BY <2>2, <3>2 DEF LoadByte
  <2>3. CASE LoadCrash
    BY <2>3 DEF LoadCrash, Dies
  <2>4. CASE LoadDone
    BY <2>4 DEF LoadDone, NoCopy
  <2>5. QED BY <1>3, <2>1, <2>2, <2>3, <2>4 DEF Load
<1>4. CASE Command
  <2>1. UNCHANGED <<write_protect, copy>>
    BY <1>4 DEF Command, SetRegister, SetSpecial, PokeCommand, OutCommand,
                Unhalt
  <2>2. QED BY <2>1
<1>5. QED BY <1>1, <1>2, <1>3, <1>4 DEF Next

(* load() switches ROM protection off; whenever it is not running, the     *)
(* protection is on again.                                                 *)
THEOREM ProtectionAlwaysRestored == Spec => []ProtectionRestored
<1>1. ProtectionInv => ProtectionRestored
  BY DEF ProtectionInv
<1>2. QED BY <1>1, ProtectionInvInit, ProtectionInvStep, PTL DEF Spec

(* With protection on, poke() leaves every byte of ROM as it is.           *)
LEMMA ProtectedPoke ==
  ASSUME NEW s, IsSpace(s), NEW a \in Word, NEW v
  PROVE  RomCells(Poke(s, TRUE, a, v).ram) = RomCells(s.ram)
<1>1. CASE a \in RomAddr
  BY <1>1, KindsOfAddress DEF Poke
<1>2. CASE a \notin RomAddr /\ IsSpecial(a)
  BY <1>2, KindsOfAddress DEF Poke, PokeSpecial, IsSpace
<1>3. CASE a \notin RomAddr /\ ~IsSpecial(a) /\ Banked(s, a)
  BY <1>3, KindsOfAddress DEF Poke, PokeBank, IsSpace
<1>4. CASE a \notin RomAddr /\ ~IsSpecial(a) /\ ~Banked(s, a)
  <2>1. Poke(s, TRUE, a, v).ram = Put(s.ram, a, v)
    BY <1>4 DEF Poke, IsSpace
  <2>2. RomCells(Put(s.ram, a, v)) = RomCells(s.ram)
    BY <1>4 DEF RomCells, Put, IsMemory, IsSpace
  <2>3. QED BY <2>1, <2>2
<1>5. QED BY <1>1, <1>2, <1>3, <1>4

LEMMA StepKeepsRom ==
  ProtectionInv /\ ~copy.active /\ Step
    => RomCells(space.ram)' = RomCells(space.ram)
<1> SUFFICES ASSUME ProtectionInv, ~copy.active, Step
             PROVE  RomCells(space'.ram) = RomCells(space.ram)
  OBVIOUS
<1>1. TypeOK /\ write_protect = TRUE
  BY DEF ProtectionInv, ProtectionRestored, TypeOK
<1>2. IsSpace(space) /\ IsSpace(Fetched) /\ Address \in Word
      /\ Fetched.ram = space.ram
  BY <1>1, OperandsOK DEF TypeOK, IsSpace, Fetched, Skip
<1>3. CASE SW
  BY <1>1, <1>2, <1>3, ProtectedPoke DEF SW
<1>4. CASE PUSH
  <2> DEFINE below == ToWord(Fetched.special[SP] - 1)
             moved == [Fetched EXCEPT !.special[SP] = below]
  <2>1. Fetched.special[SP] \in Word /\ space.special[SP] \in Word
    BY <1>2 DEF IsSpace
  <2>2. below \in Word
    BY <2>1, WordBounds, ToWordIsWord
  <2>3. IsSpace(moved) /\ moved.ram = space.ram
    BY <1>2, <2>2, SetSpecialIsSpace DEF IsSpace
  <2>4. PICK operand : space' = Poke(moved, TRUE, space.special[SP], operand)
    BY <1>1, <1>4 DEF PUSH
  <2>5. QED BY <2>1, <2>3, <2>4, ProtectedPoke
<1>5. CASE MW \/ LW \/ POP \/ LDA \/ JNZ \/ ALU \/ INB \/ OUTB \/ CrashStep
  <2>1. space'.ram = space.ram
    BY <1>2, <1>5 DEF MW, LW, POP, LDA, JNZ, ALU, INB, OUTB, CrashStep, Dies,
                      IsSpace
  <2>2. QED BY <2>1
<1>6. QED BY <1>3, <1>4, <1>5 DEF Step

(* ROM changes only while load() copies a file: no instruction, no stack   *)
(* that walks down into ROM and no POKE changes it.                        *)
THEOREM RomIsStable == Spec => RomStable
<1> DEFINE Same == RomCells(space.ram)' = RomCells(space.ram)
<1>1. ProtectionInv /\ [Next]_vars => [~copy.active => Same]_vars
  <2> SUFFICES ASSUME ProtectionInv, Next, ~copy.active PROVE Same
    OBVIOUS
  <2>1. CASE Step
    BY <2>1, StepKeepsRom
  <2>2. CASE Load
    BY <2>2 DEF Load, LoadOpen, LoadByte, LoadCrash, LoadDone
  <2>3. CASE Command
    <3>1. ASSUME NEW a \in UserWords, NEW v \in UserBytes, PokeCommand(a, v)
          PROVE  Same
      <4>1. IsSpace(space) /\ write_protect = TRUE /\ a \in Word
        BY ConstantsAssumption DEF ProtectionInv, ProtectionRestored, TypeOK
      <4>2. RomCells(Poke(space, TRUE, a, v).ram) = RomCells(space.ram)
        BY <4>1, ProtectedPoke
      <4>3. QED BY <3>1, <4>1, <4>2 DEF PokeCommand
    <3>2. ASSUME NEW i \in {MB, SP, PC}, NEW w \in UserWords,
                 SetSpecial(i, w)
          PROVE  Same
      BY <3>2 DEF SetSpecial, ProtectionInv, TypeOK, IsSpace
    <3>3. QED
      BY <2>3, <3>1, <3>2 DEF Command, SetRegister, OutCommand, Unhalt
  <2>4. QED BY <2>1, <2>2, <2>3 DEF Next
<1>2. QED BY <1>1, ProtectionInvInit, ProtectionInvStep, PTL DEF Spec, RomStable
-----------------------------------------------------------------------------
(* Writes reach the storage MB selects. Selective relates a space to what  *)
(* one write may make of it.                                               *)
Selective(s, t) ==
  /\ \A b \in Banks : t.banks[b] # s.banks[b] => s.special[MB] = b
  /\ WindowCells(t.ram) # WindowCells(s.ram) => s.special[MB] = 0

LEMMA SelectivePoke ==
  ASSUME NEW s, IsSpace(s), NEW wp \in BOOLEAN, NEW a \in Word, NEW v
  PROVE  Selective(s, Poke(s, wp, a, v))
<1>1. CASE wp /\ a \in RomAddr
  BY <1>1, KindsOfAddress DEF Poke, Selective
<1> DEFINE open == ~(wp /\ a \in RomAddr)
<1>2. CASE open /\ IsSpecial(a)
  <2>1. Poke(s, wp, a, v) = PokeSpecial(s, a, v)
    BY <1>2, KindsOfAddress DEF Poke
  <2>2. PokeSpecial(s, a, v).banks = s.banks /\ PokeSpecial(s, a, v).ram = s.ram
    BY DEF PokeSpecial, IsSpace
  <2>3. QED BY <2>1, <2>2 DEF Selective
<1>3. CASE open /\ ~IsSpecial(a) /\ Banked(s, a)
  <2>1. Poke(s, wp, a, v) = PokeBank(s, a, v)
    BY <1>3, KindsOfAddress DEF Poke
  <2>2. PokeBank(s, a, v).ram = s.ram
    BY DEF PokeBank, IsSpace
  <2>3. \A b \in Banks : b # s.special[MB]
                           => PokeBank(s, a, v).banks[b] = s.banks[b]
    BY DEF PokeBank, IsSpace
  <2>4. QED BY <2>1, <2>2, <2>3 DEF Selective
<1>4. CASE open /\ ~IsSpecial(a) /\ ~Banked(s, a)
  <2>1. /\ Poke(s, wp, a, v).ram = Put(s.ram, a, v)
        /\ Poke(s, wp, a, v).banks = s.banks
    BY <1>4 DEF Poke, IsSpace
  <2>2. CASE a \in BankAddr
    BY <1>4, <2>1, <2>2 DEF Selective, Banked
  <2>3. CASE a \notin BankAddr
    <3>1. WindowCells(Put(s.ram, a, v)) = WindowCells(s.ram)
      BY <2>3 DEF WindowCells, Put, IsMemory, IsSpace
    <3>2. QED BY <2>1, <3>1 DEF Selective
  <2>4. QED BY <2>2, <2>3
<1>5. QED BY <1>1, <1>2, <1>3, <1>4

LEMMA StepIsSelective ==
  TypeOK /\ Step => Selective(space, space')
<1> SUFFICES ASSUME TypeOK, Step PROVE Selective(space, space')
  OBVIOUS
<1>1. write_protect \in BOOLEAN
  BY DEF TypeOK
<1>2. /\ IsSpace(space) /\ IsSpace(Fetched) /\ Address \in Word
      /\ Fetched.ram = space.ram /\ Fetched.banks = space.banks
      /\ Fetched.special[MB] = space.special[MB]
  BY OperandsOK DEF TypeOK, IsSpace, Fetched, Skip, MB, PC
<1>3. CASE SW
  <2>1. Selective(Fetched, Poke(Fetched, write_protect, Address, regs[Z]))
    BY <1>1, <1>2, SelectivePoke
  <2>2. QED BY <1>2, <1>3, <2>1 DEF SW, Selective
<1>4. CASE PUSH
  <2> DEFINE below == ToWord(Fetched.special[SP] - 1)
             moved == [Fetched EXCEPT !.special[SP] = below]
  <2>1. Fetched.special[SP] \in Word /\ space.special[SP] \in Word
    BY <1>2 DEF IsSpace
  <2>2. below \in Word
    BY <2>1, WordBounds, ToWordIsWord
  <2>3. /\ IsSpace(moved)
        /\ moved.ram = space.ram /\ moved.banks = space.banks
        /\ moved.special[MB] = space.special[MB]
    BY <1>2, <2>2, SetSpecialIsSpace DEF IsSpace, MB, SP
  <2>4. PICK operand :
          space' = Poke(moved, write_protect, space.special[SP], operand)
    BY <1>4 DEF PUSH
  <2> HIDE DEF moved
  <2>5. Selective(moved, space')
    BY <1>1, <2>1, <2>3, <2>4, SelectivePoke
  <2>6. QED BY <2>3, <2>5 DEF Selective
<1>5. CASE MW \/ LW \/ POP \/ LDA \/ JNZ \/ ALU \/ INB \/ OUTB \/ CrashStep
  <2>1. space'.ram = space.ram /\ space'.banks = space.banks
    BY <1>2, <1>5 DEF MW, LW, POP, LDA, JNZ, ALU, INB, OUTB, CrashStep, Dies,
                      IsSpace
  <2>2. QED BY <2>1 DEF Selective
<1>6. QED BY <1>3, <1>4, <1>5 DEF Step

(* Between 0x8000 and 0xBFFF an instruction, a command and each byte of a  *)
(* load write the bank that MB selects at that moment and nothing else.    *)
THEOREM StorageIsSelected == Spec => StorageSelected
<1> DEFINE Selected ==
             /\ \A b \in Banks :
                  space'.banks[b] # space.banks[b] => space.special[MB] = b
             /\ WindowCells(space.ram)' # WindowCells(space.ram)
                  => space.special[MB] = 0
<1>1. TypeOK /\ [Next]_vars => [Selected]_vars
  <2> SUFFICES ASSUME TypeOK, Next PROVE Selective(space, space')
    BY DEF Selective
  <2>1. IsSpace(space) /\ write_protect \in BOOLEAN
    BY DEF TypeOK
  <2>2. CASE Step
    BY <2>2, StepIsSelective
  <2>3. CASE LoadByte
    <3>1. copy \in Copying
      BY <2>3 DEF LoadByte, TypeOK, CopyOK, NoCopy
    <3>2. copy.dest \in Word /\ copy.i \in Nat
      BY <3>1, ConstantsAssumption DEF Copying
    <3>3. ToWord(copy.dest + copy.i) \in Word
      BY <3>2, WordBounds, ToWordIsWord
    <3>4. QED BY <2>1, <2>3, <3>3, SelectivePoke DEF LoadByte
  <2>4. CASE Load /\ ~LoadByte
    BY <2>4 DEF Load, LoadOpen, LoadCrash, LoadDone, Dies, Selective
  <2>5. CASE Command
    <3>1. ASSUME NEW a \in UserWords, NEW v \in UserBytes, PokeCommand(a, v)
          PROVE  Selective(space, space')
      <4>1. Selective(space, Poke(space, write_protect, a, v))
        BY <2>1, ConstantsAssumption, SelectivePoke
      <4>2. QED BY <3>1, <4>1 DEF PokeCommand, Selective
    <3>2. ASSUME NEW i \in {MB, SP, PC}, NEW w \in UserWords,
                 SetSpecial(i, w)
          PROVE  Selective(space, space')
      BY <2>1, <3>2 DEF SetSpecial, IsSpace, Selective
    <3>3. QED
      BY <2>5, <3>1, <3>2 DEF Command, SetRegister, OutCommand, Unhalt, Selective
  <2>6. QED BY <2>2, <2>3, <2>4, <2>5 DEF Next, Load
<1>2. QED BY <1>1, TypeCorrect, PTL DEF Spec, StorageSelected
-----------------------------------------------------------------------------
(* The stack. A program that keeps it to a region Low .. Top of the RAM    *)
(* above the window, as SPEC.txt recommends, has a stack of bytes: those    *)
(* from Top down to the one above SP, oldest first.                        *)
CONSTANTS Low, Top

StackBytes ==
  IF space.special[SP] \in Low - 1 .. Top
  THEN [k \in 1 .. Top - space.special[SP] |-> Peek(space, Top + 1 - k)]
  ELSE << >>
Lifo == INSTANCE LifoStack WITH
  stack <- StackBytes, registers <- regs

(* The program pushes and pops within the region, and stores neither there *)
(* nor into the two cells of SP.                                           *)
KeepsToRegion ==
  /\ Op = I_PUSH => space.special[SP] \in Low .. Top
  /\ Op = I_POP => space.special[SP] \in Low - 1 .. Top - 1
  /\ Op = I_SW => Address \notin (Low .. Top) \cup {ADDR_MB + 2, ADDR_MB + 3}

IsRegion ==
  Low \in Nat /\ Top \in Nat /\ ADDR_RAM <= Low /\ Low <= Top /\ Top < ADDR_MB

LEMMA RegionIsRam ==
  ASSUME IsRegion, NEW a \in Low .. Top
  PROVE  /\ a \in Word /\ ~IsSpecial(a) /\ a \notin RomAddr
         /\ \A s : ~Banked(s, a) /\ Peek(s, a) = Get(s.ram, a)
<1>1. a \in Nat /\ 49152 <= a /\ a < 65530
  BY DEF IsRegion, ADDR_RAM, ADDR_MB
<1>2. a \in Word /\ ~IsSpecial(a)
  BY <1>1, WordBounds DEF IsSpecial, ADDR_MB
<1>3. a \notin RomAddr /\ a \notin BankAddr
  <2> DEFINE rom == ADDR_BANK - 1
             last == ADDR_RAM - 1
  <2>1. rom \in Int /\ last \in Int /\ rom < a /\ last < a
    BY <1>1 DEF ADDR_BANK, ADDR_RAM
  <2> HIDE DEF rom, last
  <2>2. RomAddr = 0 .. rom /\ BankAddr = ADDR_BANK .. last
    BY DEF RomAddr, BankAddr, rom, last
  <2>3. ADDR_BANK \in Int
    BY DEF ADDR_BANK
  <2>4. QED BY <2>1, <2>2, <2>3
<1>4. QED BY <1>2, <1>3 DEF Banked, Peek

LEMMA GetPut ==
  ASSUME NEW m, NEW addrs, IsMemory(m, addrs), NEW a, NEW b, NEW v
  PROVE  Get(Put(m, a, v), b) = IF b = a THEN v ELSE Get(m, b)
<1> DEFINE c == [x \in DOMAIN m.cells \cup {a} |->
                   IF x = a THEN v ELSE m.cells[x]]
<1>1. Put(m, a, v) = [fill |-> m.fill, cells |-> c]
  BY DEF Put, IsMemory
<1>2. DOMAIN c = DOMAIN m.cells \cup {a} /\ c[a] = v
      /\ \A x \in DOMAIN m.cells : x # a => c[x] = m.cells[x]
  OBVIOUS
<1> HIDE DEF c
<1>3. QED BY <1>1, <1>2 DEF Get

(* A stack is the same if SP is, and the RAM of the region.                *)
LEMMA SameStack ==
  ASSUME IsRegion, TypeOK, TypeOK',
         space'.special[SP] = space.special[SP],
         \A a \in Low .. Top : Get(space'.ram, a) = Get(space.ram, a)
  PROVE  StackBytes' = StackBytes
<1> DEFINE sp == space.special[SP]
<1>1. sp \in Nat
  BY WordBounds DEF TypeOK, IsSpace
<1>2. CASE sp \in Low - 1 .. Top
  <2>1. \A k \in 1 .. Top - sp : Top + 1 - k \in Low .. Top
    BY <1>1, <1>2 DEF IsRegion
  <2>2. \A k \in 1 .. Top - sp : Peek(space', Top + 1 - k) = Peek(space, Top + 1 - k)
    BY <2>1, RegionIsRam
  <2> HIDE DEF sp
  <2>3. /\ StackBytes = [k \in 1 .. Top - sp |-> Peek(space, Top + 1 - k)]
        /\ StackBytes' = [k \in 1 .. Top - sp |-> Peek(space', Top + 1 - k)]
    BY <1>2 DEF StackBytes, sp
  <2>4. QED BY <2>2, <2>3
<1>3. CASE sp \notin Low - 1 .. Top
  BY <1>3 DEF StackBytes
<1>4. QED BY <1>2, <1>3

LEMMA PushIsPush ==
  ASSUME IsRegion, TypeOK, PUSH,
         KeepsToRegion
  PROVE  Lifo!Push
<1> DEFINE sp == space.special[SP]
           moved == [Fetched EXCEPT !.special[SP] = ToWord(@ - 1)]
           stack == StackBytes
<1>1. sp \in Low .. Top /\ sp \in Nat /\ sp >= 1 /\ sp \in Word
      /\ Low \in Nat /\ Top \in Nat /\ Top - sp \in Nat
  <2>1. sp \in Low .. Top
    BY DEF PUSH, Executes, KeepsToRegion
  <2>2. QED BY <2>1, WordBounds DEF IsRegion, ADDR_RAM, ADDR_MB
<1>2. /\ IsSpace(Fetched) /\ Fetched.ram = space.ram
      /\ Fetched.special[SP] = sp
  BY OperandsOK DEF TypeOK, IsSpace, Fetched, Skip, SP, PC, MB
<1>3. ToWord(sp - 1) = sp - 1 /\ sp - 1 \in Word
  BY <1>1, WordBounds DEF ToWord
<1>4. /\ IsSpace(moved) /\ moved.ram = space.ram
      /\ moved.special[SP] = sp - 1
  BY <1>2, <1>3, SetSpecialIsSpace DEF IsSpace
<1>5. PICK v \in Byte : space' = Poke(moved, write_protect, sp, v)
  <2> DEFINE early == [Skip(2) EXCEPT !.special[SP] = ToWord(@ - 1)]
             late == Peek(early, ToWord(pc + 1))
  <2>1. PICK operand \in {IMM8_PC0_REG, IF Y THEN regs[Z] ELSE late} :
          space' = Poke(moved, write_protect, sp, operand)
    BY DEF PUSH
  <2>2. IsSpace(Skip(2)) /\ Skip(2).special[SP] \in Word
    BY SkipIsSpace DEF IsSpace
  <2>3. IsSpace(early)
    <3>1. ToWord(Skip(2).special[SP] - 1) \in Word
      BY <2>2, WordBounds, ToWordIsWord
    <3>2. QED BY <2>2, <3>1, SetSpecialIsSpace
  <2>4. ToWord(pc + 1) \in Word
    BY WordBounds, ToWordIsWord DEF TypeOK, IsSpace, pc
  <2> HIDE DEF early
  <2>5. late \in Byte
    BY <2>3, <2>4, PeekIsByte
  <2>6. IMM8_PC0_REG \in Byte /\ regs[Z] \in Byte
    BY OperandsOK DEF TypeOK
  <2>7. operand \in Byte
    BY <2>1, <2>5, <2>6
  <2>8. QED BY <2>1, <2>7
<1> HIDE DEF moved
<1>6. space' = [moved EXCEPT !.ram = Put(space.ram, sp, v)]
  BY <1>1, <1>4, <1>5, RegionIsRam DEF Poke
<1>7. space'.special[SP] = sp - 1 /\ space'.ram = Put(space.ram, sp, v)
  BY <1>4, <1>6 DEF IsSpace
<1>8. \A a \in Low .. Top :
        Get(space'.ram, a) = IF a = sp THEN v ELSE Get(space.ram, a)
  BY <1>7, GetPut DEF TypeOK, IsSpace
<1>9. stack = [k \in 1 .. Top - sp |-> Peek(space, Top + 1 - k)]
  <2>1. sp \in Low - 1 .. Top
    BY <1>1
  <2>2. QED BY <2>1 DEF StackBytes
<1>10. stack' = [k \in 1 .. Top - sp + 1 |-> Peek(space', Top + 1 - k)]
  <2>1. sp - 1 \in Low - 1 .. Top /\ Top - (sp - 1) = Top - sp + 1
    BY <1>1
  <2>2. QED BY <1>7, <2>1 DEF StackBytes
<1>11. \A k \in 1 .. Top - sp + 1 :
         /\ Top + 1 - k \in Low .. Top
         /\ Top + 1 - k = sp <=> k = Top - sp + 1
  BY <1>1
<1>12. \A k \in 1 .. Top - sp + 1 :
         Peek(space', Top + 1 - k)
           = IF k = Top - sp + 1 THEN v ELSE Peek(space, Top + 1 - k)
  BY <1>8, <1>11, RegionIsRam
<1> HIDE DEF sp, stack
<1> DEFINE n == Top - sp
<1>13. n \in Nat /\ stack = [k \in 1 .. n |-> Peek(space, Top + 1 - k)]
       /\ stack' = [k \in 1 .. n + 1 |->
                      IF k = n + 1 THEN v ELSE Peek(space, Top + 1 - k)]
  BY <1>1, <1>9, <1>10, <1>12
<1> HIDE DEF n
<1>14. stack' = Append(stack, v)
  BY <1>13
<1>15. v \in 0 .. 255
  BY DEF Byte, ByteMax
<1>16. regs' = regs
  BY DEF PUSH
<1>17. QED BY <1>14, <1>15, <1>16 DEF Lifo!Push, stack

LEMMA PopIsPop ==
  ASSUME IsRegion, TypeOK, POP,
         KeepsToRegion
  PROVE  Lifo!Pop
<1> DEFINE sp == space.special[SP]
           stack == StackBytes
<1>1. sp \in Low - 1 .. Top - 1 /\ sp \in Nat /\ Low \in Nat /\ Top \in Nat
      /\ Top - sp \in Nat /\ Top - sp > 0 /\ sp + 1 \in Low .. Top /\ sp + 1 <= 65535
  <2>1. sp \in Low - 1 .. Top - 1
    BY DEF POP, Executes, KeepsToRegion
  <2>2. QED BY <2>1 DEF IsRegion, ADDR_RAM, ADDR_MB
<1>2. /\ IsSpace(Fetched) /\ Fetched.ram = space.ram
      /\ Fetched.special[SP] = sp
  BY OperandsOK DEF TypeOK, IsSpace, Fetched, Skip, SP, PC, MB
<1>3. ToWord(sp + 1) = sp + 1 /\ sp + 1 \in Word
  BY <1>1, WordBounds DEF ToWord
<1>4. /\ space' = [Fetched EXCEPT !.special[SP] = sp + 1]
      /\ regs' = [regs EXCEPT ![Z] = Peek(space', space'.special[SP])]
  BY <1>2, <1>3 DEF POP
<1>5. space'.special[SP] = sp + 1 /\ space'.ram = space.ram
  BY <1>2, <1>4 DEF IsSpace
<1>6. \A a \in Low .. Top : Peek(space', a) = Peek(space, a)
  BY <1>5, RegionIsRam
<1>7. stack = [k \in 1 .. Top - sp |-> Peek(space, Top + 1 - k)]
  <2>1. sp \in Low - 1 .. Top
    BY <1>1
  <2>2. QED BY <2>1 DEF StackBytes
<1>8. stack' = [k \in 1 .. Top - sp - 1 |-> Peek(space, Top + 1 - k)]
  <2>1. sp + 1 \in Low - 1 .. Top /\ Top - (sp + 1) = Top - sp - 1
    BY <1>1
  <2>2. stack' = [k \in 1 .. Top - sp - 1 |-> Peek(space', Top + 1 - k)]
    BY <1>5, <2>1 DEF StackBytes
  <2>3. \A k \in 1 .. Top - sp - 1 : Top + 1 - k \in Low .. Top
    BY <1>1
  <2>4. QED BY <1>6, <2>2, <2>3
<1>9. regs' = [regs EXCEPT ![Z] = Peek(space, Top + 1 - (Top - sp))]
  <2>1. Top + 1 - (Top - sp) = sp + 1
    BY <1>1
  <2>2. Peek(space', space'.special[SP]) = Peek(space, sp + 1)
    BY <1>1, <1>5, <1>6
  <2>3. QED BY <1>4, <2>1, <2>2
<1> HIDE DEF sp, stack
<1> DEFINE n == Top - sp
           byte(k) == Peek(space, Top + 1 - k)
<1>10. n \in Nat /\ n > 0 /\ stack = [k \in 1 .. n |-> byte(k)]
       /\ stack' = [k \in 1 .. n - 1 |-> byte(k)]
       /\ regs' = [regs EXCEPT ![Z] = byte(n)]
  BY <1>1, <1>7, <1>8, <1>9
<1> HIDE DEF n, byte
<1>11. Len(stack) = n /\ stack # << >> /\ stack[n] = byte(n)
  BY <1>10
<1>12. stack' = SubSeq(stack, 1, n - 1)
  BY <1>10
<1>13. Z \in DOMAIN regs
  BY OperandsOK DEF TypeOK
<1>14. QED BY <1>10, <1>11, <1>12, <1>13
         DEF Lifo!Pop, Lifo!Front, Lifo!Last, stack

LEMMA StoreKeepsStack ==
  ASSUME IsRegion, NEW s, IsSpace(s),
         NEW wp \in BOOLEAN, NEW a \in Word, NEW v,
         a \notin (Low .. Top) \cup {ADDR_MB + 2, ADDR_MB + 3}
  PROVE  /\ Poke(s, wp, a, v).special[SP] = s.special[SP]
         /\ \A b \in Low .. Top : Get(Poke(s, wp, a, v).ram, b) = Get(s.ram, b)
<1>1. CASE wp /\ a \in RomAddr
  BY <1>1, KindsOfAddress DEF Poke
<1> DEFINE open == ~(wp /\ a \in RomAddr)
<1>2. CASE open /\ IsSpecial(a)
  <2>1. Poke(s, wp, a, v) = PokeSpecial(s, a, v)
    BY <1>2, KindsOfAddress DEF Poke
  <2>2. (a - ADDR_MB) \div 2 # SP
    <3>1. a \in Nat /\ a >= 65530 /\ a # 65532 /\ a # 65533
      BY <1>2, WordBounds DEF IsSpecial, ADDR_MB
    <3>2. QED BY <3>1 DEF SP, ADDR_MB
  <2>3. /\ PokeSpecial(s, a, v).special[SP] = s.special[SP]
        /\ PokeSpecial(s, a, v).ram = s.ram
    BY <2>2 DEF PokeSpecial, IsSpace
  <2>4. QED BY <2>1, <2>3
<1>3. CASE open /\ ~IsSpecial(a) /\ Banked(s, a)
  <2>1. Poke(s, wp, a, v) = PokeBank(s, a, v)
    BY <1>3, KindsOfAddress DEF Poke
  <2>2. PokeBank(s, a, v).ram = s.ram /\ PokeBank(s, a, v).special = s.special
    BY DEF PokeBank, IsSpace
  <2>3. QED BY <2>1, <2>2
<1>4. CASE open /\ ~IsSpecial(a) /\ ~Banked(s, a)
  <2>1. /\ Poke(s, wp, a, v).ram = Put(s.ram, a, v)
        /\ Poke(s, wp, a, v).special = s.special
    BY <1>4 DEF Poke, IsSpace
  <2>2. \A b \in Low .. Top : b # a
    OBVIOUS
  <2>3. QED BY <2>1, <2>2, GetPut DEF IsSpace
<1>5. QED BY <1>1, <1>2, <1>3, <1>4

LEMMA StepIsLifo ==
  ASSUME IsRegion, TypeOK, TypeOK', Step,
         KeepsToRegion
  PROVE  Lifo!Next
<1>1. /\ IsSpace(space) /\ IsSpace(Fetched) /\ Address \in Word /\ HL \in Word
      /\ write_protect \in BOOLEAN
      /\ Fetched.ram = space.ram
      /\ Fetched.special[SP] = space.special[SP]
  BY OperandsOK DEF TypeOK, IsSpace, Fetched, Skip, MB, PC, SP
<1>2. CASE PUSH
  BY <1>2, PushIsPush DEF Lifo!Next
<1>3. CASE POP
  BY <1>3, PopIsPop DEF Lifo!Next
<1>4. CASE SW
  <2>1. Address \notin (Low .. Top) \cup {ADDR_MB + 2, ADDR_MB + 3}
    BY <1>4 DEF SW, Executes, KeepsToRegion
  <2>2. space' = Poke(Fetched, write_protect, Address, regs[Z])
    BY <1>4 DEF SW
  <2>3. /\ space'.special[SP] = Fetched.special[SP]
        /\ \A b \in Low .. Top : Get(space'.ram, b) = Get(Fetched.ram, b)
    BY <1>1, <2>1, <2>2, StoreKeepsStack
  <2>4. StackBytes' = StackBytes
    BY <1>1, <2>3, SameStack
  <2>5. QED BY <2>4 DEF Lifo!Next, Lifo!Compute
<1>5. CASE MW \/ LW \/ LDA \/ JNZ \/ ALU \/ INB \/ OUTB \/ CrashStep
  <2>1. space'.ram = space.ram /\ space'.special[SP] = space.special[SP]
    BY <1>1, <1>5 DEF MW, LW, LDA, JNZ, ALU, INB, OUTB, CrashStep, Dies, IsSpace,
                      MB, SP, PC
  <2>2. StackBytes' = StackBytes
    BY <2>1, SameStack
  <2>3. QED BY <2>2 DEF Lifo!Next, Lifo!Compute
<1>6. QED BY <1>2, <1>3, <1>4, <1>5 DEF Step

(* PUSH and POP are a last-in first-out stack for every program that keeps *)
(* to its region, wherever above the window that lies and whatever the     *)
(* other instructions do to memory, MB and PC.                             *)
THEOREM StackIsLifo ==
  ASSUME IsRegion
  PROVE  Spec => [][Step /\ KeepsToRegion => Lifo!Next]_vars
<1>1. TypeOK /\ TypeOK' /\ [Next]_vars =>
        [Step /\ KeepsToRegion => Lifo!Next]_vars
  BY StepIsLifo
<1>2. QED BY <1>1, TypeCorrect, PTL DEF Spec
=============================================================================
