--------------------------- MODULE LibraryProofs ---------------------------
(***************************************************************************)
(* Proofs about the libraries programs are written with, for all register  *)
(* files and operands.                                                     *)
(* The macros: every macro keeps registers within a byte, the bitwise      *)
(* macros are those functions of bits, 16-bit addition and decrement are   *)
(* exact, words stay in memory, conditional jumps other than JGE are       *)
(* right, and calls return to where they came from.                        *)
(* The routines of the operating system: what each computes, what it does  *)
(* to memory, and that it keeps every other register and the stack.        *)
(***************************************************************************)
EXTENDS Macros, OsLib, SequenceTheorems, TLAPS
-----------------------------------------------------------------------------
(* Arithmetic of bytes and words. The bounds are lemmas so that no proof   *)
(* unfolds a range of 65536 numbers.                                       *)
LEMMA ByteRange == \A n : n \in Byte <=> n \in Int /\ 0 <= n /\ n <= ByteMax
<1>1. ByteMax \in Int
  BY DEF ByteMax
<1>2. QED BY <1>1 DEF Byte

LEMMA ByteBounds == \A n : n \in Byte <=> n \in Int /\ 0 <= n /\ n <= 255
<1>1. ByteMax = 255
  BY DEF ByteMax
<1>2. QED BY <1>1, ByteRange

LEMMA WordRange == \A n : n \in Word <=> n \in Int /\ 0 <= n /\ n <= WordMax
<1>1. WordMax \in Int
  BY DEF WordMax
<1>2. QED BY <1>1 DEF Word

LEMMA WordBounds == \A n : n \in Word <=> n \in Int /\ 0 <= n /\ n <= 65535
<1>1. WordMax = 65535
  BY DEF WordMax
<1>2. QED BY <1>1, WordRange

LEMMA BitAtIs01 ==
  ASSUME NEW n \in Nat, NEW w \in {1, 2, 4, 8, 16, 32, 64, 128}
  PROVE  BitAt(n, w) \in {0, 1}
BY DEF BitAt

LEMMA HalvesAreBytes ==
  ASSUME NEW w \in Word
  PROVE  Lo(w) \in Byte /\ Hi(w) \in Byte
<1>1. w \in Nat /\ w <= 65535
  BY WordBounds
<1>2. w \div 256 <= 255 /\ w \div 256 \in Nat
  BY <1>1
<1>3. w % 256 \in Int /\ 0 <= w % 256 /\ w % 256 <= 255
  BY <1>1
<1>4. QED BY <1>2, <1>3, ByteBounds DEF Lo, Hi

LEMMA PairIsWord ==
  ASSUME NEW lo \in Byte, NEW hi \in Byte
  PROVE  Pair(lo, hi) \in Word
BY ByteBounds, WordBounds DEF Pair

LEMMA ToWordIsWord == \A n \in Int : ToWord(n) \in Word
BY WordBounds DEF ToWord

LEMMA ToByteIsByte == \A n \in Int : ToByte(n) \in Byte
BY ByteBounds DEF ToByte

LEMMA EightBits ==
  ASSUME NEW b1 \in {0, 1}, NEW b2 \in {0, 1}, NEW b4 \in {0, 1},
         NEW b8 \in {0, 1}, NEW b16 \in {0, 1}, NEW b32 \in {0, 1},
         NEW b64 \in {0, 1}, NEW b128 \in {0, 1}
  PROVE  b1 + 2 * b2 + 4 * b4 + 8 * b8 + 16 * b16 + 32 * b32 + 64 * b64
         + 128 * b128 \in Byte
<1> DEFINE n == b1 + 2 * b2 + 4 * b4 + 8 * b8 + 16 * b16 + 32 * b32 + 64 * b64
                + 128 * b128
<1>1. n \in Int /\ 0 <= n /\ n <= 255
  OBVIOUS
<1> HIDE DEF n
<1>2. n \in Byte
  BY <1>1, ByteBounds
<1>3. QED BY <1>2 DEF n

LEMMA AndIsByte ==
  ASSUME NEW a \in Byte, NEW b \in Byte
  PROVE  And(a, b) \in Byte
<1> DEFINE bit(w) == BitAnd(BitAt(a, w), BitAt(b, w))
<1>1. \A w \in {1, 2, 4, 8, 16, 32, 64, 128} : bit(w) \in {0, 1}
  BY DEF BitAnd
<1>2. And(a, b) = bit(1) + 2 * bit(2) + 4 * bit(4) + 8 * bit(8) + 16 * bit(16)
                  + 32 * bit(32) + 64 * bit(64) + 128 * bit(128)
  BY DEF And, Bitwise
<1> HIDE DEF bit
<1>3. QED BY <1>1, <1>2, EightBits

LEMMA OrIsByte ==
  ASSUME NEW a \in Byte, NEW b \in Byte
  PROVE  Or(a, b) \in Byte
<1> DEFINE bit(w) == BitOr(BitAt(a, w), BitAt(b, w))
<1>1. \A w \in {1, 2, 4, 8, 16, 32, 64, 128} : bit(w) \in {0, 1}
  BY DEF BitOr
<1>2. Or(a, b) = bit(1) + 2 * bit(2) + 4 * bit(4) + 8 * bit(8) + 16 * bit(16)
                 + 32 * bit(32) + 64 * bit(64) + 128 * bit(128)
  BY DEF Or, Bitwise
<1> HIDE DEF bit
<1>3. QED BY <1>1, <1>2, EightBits

LEMMA AluValueIsByte ==
  ASSUME NEW op \in AluOps, NEW a \in Byte, NEW b \in Byte, NEW f \in Byte
  PROVE  AluValue(op, a, b, f) \in Byte
<1>1. BitAt(f, F_CARRY) \in {0, 1} /\ BitAt(f, F_BORROW) \in {0, 1}
  BY BitAtIs01, ByteBounds DEF F_CARRY, F_BORROW
<1>2. And(a, b) \in Byte /\ Or(a, b) \in Byte
  BY AndIsByte, OrIsByte
<1>3. Nor(a, b) \in Byte
  BY <1>2, ByteBounds DEF Nor
<1>4. /\ ToByte(a + b) \in Byte
      /\ ToByte(a + b + BitAt(f, F_CARRY)) \in Byte
      /\ ToByte(a - b - BitAt(f, F_BORROW)) \in Byte
  BY <1>1, ToByteIsByte, ByteBounds
<1>5. QED
  BY <1>2, <1>3, <1>4 DEF AluValue, AluOps, I_ADD, I_ADC, I_AND, I_OR, I_NOR, I_CMP,
                    I_SBB

LEMMA FlagsAreByte ==
  ASSUME NEW a \in Byte, NEW b \in Byte
  PROVE  FlagsOf(a, b) \in Byte
<1> DEFINE less == If01(a < b)
           equal == If01(a = b)
           carry == If01(a + b > 255)
           borrow == If01(b > a)
<1>1. /\ less \in {0, 1} /\ equal \in {0, 1}
      /\ carry \in {0, 1} /\ borrow \in {0, 1}
  BY DEF If01
<1>2. FlagsOf(a, b) = less + 2 * equal + 4 * carry + 8 * borrow
  BY <1>1 DEF FlagsOf, F_LESS, F_EQUAL, F_CARRY, F_BORROW
<1> HIDE DEF less, equal, carry, borrow
<1>3. QED BY <1>1, <1>2, ByteBounds
-----------------------------------------------------------------------------
(* Single bits of the flags, and masking with one or two of them.          *)
LEMMA BitOfFlags ==
  ASSUME NEW l \in {0, 1}, NEW e \in {0, 1}, NEW c \in {0, 1}, NEW w \in {0, 1}
  PROVE  LET f == l + 2 * e + 4 * c + 8 * w
         IN  /\ BitAt(f, 1) = l /\ BitAt(f, 2) = e
             /\ BitAt(f, 4) = c /\ BitAt(f, 8) = w
             /\ f \in 0 .. 15
BY DEF BitAt

LEMMA FlagBits ==
  ASSUME NEW a \in Byte, NEW b \in Byte
  PROVE  /\ BitAt(FlagsOf(a, b), F_LESS) = If01(a < b)
         /\ BitAt(FlagsOf(a, b), F_EQUAL) = If01(a = b)
         /\ BitAt(FlagsOf(a, b), F_CARRY) = If01(a + b > 255)
         /\ BitAt(FlagsOf(a, b), F_BORROW) = If01(b > a)
         /\ FlagsOf(a, b) \in 0 .. 15
<1> DEFINE less == If01(a < b)
           equal == If01(a = b)
           carry == If01(a + b > 255)
           borrow == If01(b > a)
<1>1. /\ less \in {0, 1} /\ equal \in {0, 1}
      /\ carry \in {0, 1} /\ borrow \in {0, 1}
  BY DEF If01
<1>2. FlagsOf(a, b) = less + 2 * equal + 4 * carry + 8 * borrow
  BY <1>1 DEF FlagsOf, F_LESS, F_EQUAL, F_CARRY, F_BORROW
<1> HIDE DEF less, equal, carry, borrow
<1>3. /\ BitAt(FlagsOf(a, b), 1) = less /\ BitAt(FlagsOf(a, b), 2) = equal
      /\ BitAt(FlagsOf(a, b), 4) = carry /\ BitAt(FlagsOf(a, b), 8) = borrow
      /\ FlagsOf(a, b) \in 0 .. 15
  BY <1>1, <1>2, BitOfFlags
<1>4. QED BY <1>3 DEF F_LESS, F_EQUAL, F_CARRY, F_BORROW, less, equal, carry,
                      borrow

LEMMA MaskOne ==
  ASSUME NEW f \in Byte
  PROVE  And(f, 1) = BitAt(f, 1) /\ And(f, 2) = 2 * BitAt(f, 2)
         /\ And(f, 3) = BitAt(f, 1) + 2 * BitAt(f, 2)
         /\ And(f, 4) = 4 * BitAt(f, 4) /\ And(f, 8) = 8 * BitAt(f, 8)
<1>1. \A w \in {1, 2, 4, 8, 16, 32, 64, 128} : BitAt(f, w) \in {0, 1}
  BY BitAtIs01, ByteBounds
<1>2. \A w \in {2, 4, 8, 16, 32, 64, 128} : BitAt(1, w) = 0
  BY DEF BitAt
<1>3. \A w \in {1, 4, 8, 16, 32, 64, 128} : BitAt(2, w) = 0
  BY DEF BitAt
<1>4. \A w \in {4, 8, 16, 32, 64, 128} : BitAt(3, w) = 0
  BY DEF BitAt
<1>5. \A w \in {1, 2, 8, 16, 32, 64, 128} : BitAt(4, w) = 0
  BY DEF BitAt
<1>6. \A w \in {1, 2, 4, 16, 32, 64, 128} : BitAt(8, w) = 0
  BY DEF BitAt
<1>7. BitAt(1, 1) = 1 /\ BitAt(2, 2) = 1 /\ BitAt(3, 1) = 1 /\ BitAt(3, 2) = 1
      /\ BitAt(4, 4) = 1 /\ BitAt(8, 8) = 1
  BY DEF BitAt
<1>8. And(f, 1) = BitAt(f, 1)
  BY <1>1, <1>2, <1>7 DEF And, Bitwise, BitAnd
<1>9. And(f, 2) = 2 * BitAt(f, 2)
  BY <1>1, <1>3, <1>7 DEF And, Bitwise, BitAnd
<1>10. And(f, 3) = BitAt(f, 1) + 2 * BitAt(f, 2)
  BY <1>1, <1>4, <1>7 DEF And, Bitwise, BitAnd
<1>11. And(f, 4) = 4 * BitAt(f, 4)
  BY <1>1, <1>5, <1>7 DEF And, Bitwise, BitAnd
<1>12. And(f, 8) = 8 * BitAt(f, 8)
  BY <1>1, <1>6, <1>7 DEF And, Bitwise, BitAnd
<1>13. QED BY <1>8, <1>9, <1>10, <1>11, <1>12

(* Inverting the flags inverts each of them.                               *)
LEMMA InvertedFlags ==
  ASSUME NEW f \in 0 .. 15
  PROVE  Nor(f, f) = 255 - f /\ BitAt(255 - f, 2) = 1 - BitAt(f, 2)
         /\ BitAt(255 - f, 4) = 1 - BitAt(f, 4)
         /\ BitAt(255 - f, 8) = 1 - BitAt(f, 8)
<1>1. \A w \in {16, 32, 64, 128} : BitAt(f, w) = 0
  BY DEF BitAt
<1>2. f = BitAt(f, 1) + 2 * BitAt(f, 2) + 4 * BitAt(f, 4) + 8 * BitAt(f, 8)
  BY DEF BitAt
<1>3. \A w \in {1, 2, 4, 8} : BitAt(f, w) \in {0, 1}
  BY BitAtIs01
<1>4. Or(f, f) = f
  BY <1>1, <1>2, <1>3 DEF Or, Bitwise, BitOr
<1>5. /\ BitAt(255 - f, 2) = 1 - BitAt(f, 2)
      /\ BitAt(255 - f, 4) = 1 - BitAt(f, 4)
      /\ BitAt(255 - f, 8) = 1 - BitAt(f, 8)
  BY DEF BitAt
<1>6. QED BY <1>4, <1>5 DEF Nor
-----------------------------------------------------------------------------
(* 16-bit arithmetic by its two halves.                                    *)
LEMMA WrapByte ==
  ASSUME NEW n \in Int, NEW k \in Int, 0 <= n - 256 * k, n - 256 * k <= 255
  PROVE  n % 256 = n - 256 * k
OBVIOUS

LEMMA WrapWord ==
  ASSUME NEW n \in Int, NEW k \in Int, 0 <= n - 65536 * k, n - 65536 * k <= 65535
  PROVE  n % 65536 = n - 65536 * k
OBVIOUS

LEMMA SumByHalves ==
  ASSUME NEW lo \in Byte, NEW hi \in Byte, NEW bl \in Byte, NEW bh \in Byte
  PROVE  Pair(ToByte(lo + bl), ToByte(hi + bh + If01(lo + bl > 255)))
           = ToWord(Pair(lo, hi) + Pair(bl, bh))
<1> DEFINE c == If01(lo + bl > 255)
           k == If01(hi + bh + c > 255)
<1>1. /\ lo \in Int /\ 0 <= lo /\ lo <= 255 /\ hi \in Int /\ 0 <= hi /\ hi <= 255
      /\ bl \in Int /\ 0 <= bl /\ bl <= 255 /\ bh \in Int /\ 0 <= bh /\ bh <= 255
  BY ByteBounds
<1>2. c \in {0, 1} /\ 0 <= lo + bl - 256 * c /\ lo + bl - 256 * c <= 255
  BY <1>1 DEF If01
<1>3. k \in {0, 1} /\ 0 <= hi + bh + c - 256 * k /\ hi + bh + c - 256 * k <= 255
  BY <1>1, <1>2 DEF If01
<1> HIDE DEF c, k
<1>4. ToByte(lo + bl) = lo + bl - 256 * c
  BY <1>1, <1>2, WrapByte DEF ToByte
<1>5. ToByte(hi + bh + c) = hi + bh + c - 256 * k
  BY <1>1, <1>2, <1>3, WrapByte DEF ToByte
<1> DEFINE sum == lo + 256 * hi + (bl + 256 * bh)
<1>6. sum \in Int /\ 0 <= sum - 65536 * k /\ sum - 65536 * k <= 65535
  BY <1>1, <1>2, <1>3
<1>7. sum % 65536 = sum - 65536 * k
  <2> HIDE DEF sum
  <2>1. QED BY <1>3, <1>6, WrapWord
<1>8. lo + bl - 256 * c + 256 * (hi + bh + c - 256 * k) = sum - 65536 * k
  BY <1>1, <1>2, <1>3
<1>9. Pair(ToByte(lo + bl), ToByte(hi + bh + c)) = ToWord(sum)
  BY <1>4, <1>5, <1>7, <1>8 DEF Pair, ToWord
<1>10. QED BY <1>9 DEF Pair, c

LEMMA DifferenceByHalves ==
  ASSUME NEW lo \in Byte, NEW hi \in Byte, NEW bl \in Byte, NEW bh \in Byte
  PROVE  Pair(ToByte(lo - bl), ToByte(hi - bh - If01(bl > lo)))
           = ToWord(Pair(lo, hi) - Pair(bl, bh))
<1> DEFINE c == If01(bl > lo)
           k == If01(bh + c > hi)
<1>1. /\ lo \in Int /\ 0 <= lo /\ lo <= 255 /\ hi \in Int /\ 0 <= hi /\ hi <= 255
      /\ bl \in Int /\ 0 <= bl /\ bl <= 255 /\ bh \in Int /\ 0 <= bh /\ bh <= 255
  BY ByteBounds
<1>2. c \in {0, 1} /\ 0 <= lo - bl + 256 * c /\ lo - bl + 256 * c <= 255
  BY <1>1 DEF If01
<1>3. k \in {0, 1} /\ 0 <= hi - bh - c + 256 * k /\ hi - bh - c + 256 * k <= 255
  BY <1>1, <1>2 DEF If01
<1> HIDE DEF c, k
<1>4. ToByte(lo - bl) = lo - bl + 256 * c
  <2>1. -c \in Int /\ lo - bl - 256 * (-c) = lo - bl + 256 * c /\ lo - bl \in Int
    BY <1>1, <1>2
  <2>2. QED BY ZenonT(40), <1>2, <2>1, WrapByte DEF ToByte
<1>5. ToByte(hi - bh - c) = hi - bh - c + 256 * k
  <2>1. /\ -k \in Int /\ hi - bh - c \in Int
        /\ hi - bh - c - 256 * (-k) = hi - bh - c + 256 * k
    BY <1>1, <1>2, <1>3
  <2>2. QED BY ZenonT(40), <1>3, <2>1, WrapByte DEF ToByte
<1> DEFINE diff == lo + 256 * hi - (bl + 256 * bh)
<1>6. /\ diff \in Int /\ -k \in Int /\ diff - 65536 * (-k) = diff + 65536 * k
      /\ 0 <= diff + 65536 * k /\ diff + 65536 * k <= 65535
  BY <1>1, <1>2, <1>3
<1>7. diff % 65536 = diff + 65536 * k
  <2> HIDE DEF diff
  <2> DEFINE j == -k
  <2>1. j \in Int /\ 0 <= diff - 65536 * j /\ diff - 65536 * j <= 65535
    BY <1>6
  <2> HIDE DEF j
  <2>2. diff % 65536 = diff - 65536 * j
    BY <1>6, <2>1, WrapWord
  <2>3. QED BY <1>6, <2>2 DEF j
<1>8. lo - bl + 256 * c + 256 * (hi - bh - c + 256 * k) = diff + 65536 * k
  BY <1>1, <1>2, <1>3
<1>9. Pair(ToByte(lo - bl), ToByte(hi - bh - c)) = ToWord(diff)
  BY <1>4, <1>5, <1>7, <1>8 DEF Pair, ToWord
<1>10. Pair(lo, hi) - Pair(bl, bh) = diff
  BY <1>1 DEF Pair
<1> HIDE DEF diff
<1>11. QED BY <1>9, <1>10 DEF c

(* A borrow that comes in is subtracted too, and gets lost when it meets    *)
(* equal low halves, where the flags know nothing of it.                   *)
LEMMA BorrowByHalves ==
  ASSUME NEW lo \in Byte, NEW hi \in Byte, NEW bl \in Byte, NEW bh \in Byte,
         NEW b \in {0, 1}, b = 0 \/ bl # lo
  PROVE  Pair(ToByte(lo - bl - b), ToByte(hi - bh - If01(bl > lo)))
           = ToWord(Pair(lo, hi) - Pair(bl, bh) - b)
<1> DEFINE c == If01(bl > lo)
           k == If01(bh + c > hi)
<1>1. /\ lo \in Int /\ 0 <= lo /\ lo <= 255 /\ hi \in Int /\ 0 <= hi /\ hi <= 255
      /\ bl \in Int /\ 0 <= bl /\ bl <= 255 /\ bh \in Int /\ 0 <= bh /\ bh <= 255
  BY ByteBounds
<1>2. c \in {0, 1} /\ 0 <= lo - bl - b + 256 * c /\ lo - bl - b + 256 * c <= 255
  BY <1>1 DEF If01
<1>3. k \in {0, 1} /\ 0 <= hi - bh - c + 256 * k /\ hi - bh - c + 256 * k <= 255
  BY <1>1, <1>2 DEF If01
<1> HIDE DEF c, k
<1>4. ToByte(lo - bl - b) = lo - bl - b + 256 * c
  <2>1. -c \in Int /\ lo - bl - b - 256 * (-c) = lo - bl - b + 256 * c
        /\ lo - bl - b \in Int
    BY <1>1, <1>2
  <2>2. QED BY ZenonT(40), <1>2, <2>1, WrapByte DEF ToByte
<1>5. ToByte(hi - bh - c) = hi - bh - c + 256 * k
  <2>1. /\ -k \in Int /\ hi - bh - c \in Int
        /\ hi - bh - c - 256 * (-k) = hi - bh - c + 256 * k
    BY <1>1, <1>2, <1>3
  <2>2. QED BY ZenonT(40), <1>3, <2>1, WrapByte DEF ToByte
<1> DEFINE diff == lo + 256 * hi - (bl + 256 * bh) - b
<1>6. /\ diff \in Int /\ -k \in Int /\ diff - 65536 * (-k) = diff + 65536 * k
      /\ 0 <= diff + 65536 * k /\ diff + 65536 * k <= 65535
  BY <1>1, <1>2, <1>3
<1>7. diff % 65536 = diff + 65536 * k
  <2> HIDE DEF diff
  <2> DEFINE j == -k
  <2>1. j \in Int /\ 0 <= diff - 65536 * j /\ diff - 65536 * j <= 65535
    BY <1>6
  <2> HIDE DEF j
  <2>2. diff % 65536 = diff - 65536 * j
    BY <1>6, <2>1, WrapWord
  <2>3. QED BY <1>6, <2>2 DEF j
<1>8. lo - bl - b + 256 * c + 256 * (hi - bh - c + 256 * k) = diff + 65536 * k
  BY <1>1, <1>2, <1>3
<1>9. Pair(ToByte(lo - bl - b), ToByte(hi - bh - c)) = ToWord(diff)
  BY <1>4, <1>5, <1>7, <1>8 DEF Pair, ToWord
<1>10. Pair(lo, hi) - Pair(bl, bh) - b = diff
  BY <1>1 DEF Pair
<1> HIDE DEF diff
<1>11. QED BY <1>9, <1>10 DEF c

LEMMA HalvesMakeWord == \A w \in Word : Pair(Lo(w), Hi(w)) = w
BY WordBounds DEF Pair, Lo, Hi

LEMMA ByteIsShortWord == \A b \in Byte : Pair(b, 0) = b
BY ByteBounds DEF Pair

(* AND with all bits but 8, the mask of CLB, clears the borrow.            *)
LEMMA BorrowCleared ==
  ASSUME NEW f \in Byte
  PROVE  BitAt(And(f, 247), 8) = 0
<1> DEFINE b(w) == BitAt(f, w)
<1>1. \A w \in {1, 2, 4, 8, 16, 32, 64, 128} : b(w) \in {0, 1}
  BY BitAtIs01, ByteBounds
<1>2. /\ \A w \in {1, 2, 4, 16, 32, 64, 128} : BitAt(247, w) = 1
      /\ BitAt(247, 8) = 0
  BY DEF BitAt
<1> HIDE DEF b
<1>3. And(f, 247) = b(1) + 2 * b(2) + 4 * b(4) + 16 * b(16) + 32 * b(32)
                    + 64 * b(64) + 128 * b(128)
  BY <1>1, <1>2 DEF And, Bitwise, BitAnd, b
<1> DEFINE n == b(1) + 2 * b(2) + 4 * b(4)
           m == b(16) + 2 * b(32) + 4 * b(64) + 8 * b(128)
<1>4. n \in 0 .. 7 /\ m \in 0 .. 15 /\ And(f, 247) = n + 16 * m
  BY <1>1, <1>3
<1> HIDE DEF n, m
<1>5. (n + 16 * m) \div 8 = 2 * m
  BY <1>4
<1>6. QED BY <1>4, <1>5 DEF BitAt
-----------------------------------------------------------------------------
(* A byte is its eight bits: what a bitwise operation does to each of them *)
(* says what it does to the byte.                                          *)
Weights == {1, 2, 4, 8, 16, 32, 64, 128}

LEMMA BitsOfSum ==
  ASSUME NEW b1 \in {0, 1}, NEW b2 \in {0, 1}, NEW b4 \in {0, 1},
         NEW b8 \in {0, 1}, NEW b16 \in {0, 1}, NEW b32 \in {0, 1},
         NEW b64 \in {0, 1}, NEW b128 \in {0, 1}
  PROVE  LET n == b1 + 2 * b2 + 4 * b4 + 8 * b8 + 16 * b16 + 32 * b32 + 64 * b64
                  + 128 * b128
         IN  /\ BitAt(n, 1) = b1 /\ BitAt(n, 2) = b2 /\ BitAt(n, 4) = b4
             /\ BitAt(n, 8) = b8 /\ BitAt(n, 16) = b16 /\ BitAt(n, 32) = b32
             /\ BitAt(n, 64) = b64 /\ BitAt(n, 128) = b128
<1> DEFINE h64 == b64 + 2 * b128
           h32 == b32 + 2 * h64
           h16 == b16 + 2 * h32
           h8 == b8 + 2 * h16
           h4 == b4 + 2 * h8
           h2 == b2 + 2 * h4
           n == b1 + 2 * b2 + 4 * b4 + 8 * b8 + 16 * b16 + 32 * b32 + 64 * b64
                + 128 * b128
<1>1. /\ h64 \in Nat /\ h32 \in Nat /\ h16 \in Nat /\ h8 \in Nat
      /\ h4 \in Nat /\ h2 \in Nat /\ n \in Nat
  OBVIOUS
<1>2. /\ n = b1 + 2 * h2 /\ n = b1 + 2 * b2 + 4 * h4
      /\ n = b1 + 2 * b2 + 4 * b4 + 8 * h8
      /\ n = b1 + 2 * b2 + 4 * b4 + 8 * b8 + 16 * h16
      /\ n = b1 + 2 * b2 + 4 * b4 + 8 * b8 + 16 * b16 + 32 * h32
      /\ n = b1 + 2 * b2 + 4 * b4 + 8 * b8 + 16 * b16 + 32 * b32 + 64 * h64
      /\ n = b1 + 2 * b2 + 4 * b4 + 8 * b8 + 16 * b16 + 32 * b32 + 64 * b64
              + 128 * b128
  OBVIOUS
<1>3. /\ h2 = b2 + 2 * h4 /\ h4 = b4 + 2 * h8 /\ h8 = b8 + 2 * h16
      /\ h16 = b16 + 2 * h32 /\ h32 = b32 + 2 * h64 /\ h64 = b64 + 2 * b128
  OBVIOUS
<1> HIDE DEF h64, h32, h16, h8, h4, h2, n
<1>4. /\ n \div 1 = n /\ n \div 2 = h2 /\ n \div 4 = h4 /\ n \div 8 = h8
      /\ n \div 16 = h16 /\ n \div 32 = h32 /\ n \div 64 = h64
      /\ n \div 128 = b128
  BY <1>1, <1>2
<1>5. /\ n % 2 = b1 /\ h2 % 2 = b2 /\ h4 % 2 = b4 /\ h8 % 2 = b8
      /\ h16 % 2 = b16 /\ h32 % 2 = b32 /\ h64 % 2 = b64 /\ b128 % 2 = b128
  BY <1>1, <1>2, <1>3
<1>6. QED BY <1>4, <1>5 DEF BitAt, n

LEMMA SumOfBits ==
  ASSUME NEW n \in Byte
  PROVE  n = BitAt(n, 1) + 2 * BitAt(n, 2) + 4 * BitAt(n, 4) + 8 * BitAt(n, 8)
             + 16 * BitAt(n, 16) + 32 * BitAt(n, 32) + 64 * BitAt(n, 64)
             + 128 * BitAt(n, 128)
<1> DEFINE q(w) == n \div w
<1>1. n \in Nat /\ n <= 255
  BY ByteBounds
<1>2. /\ n \div 1 = n /\ n \div 2 = n \div 2
      /\ n \div 4 = (n \div 2) \div 2 /\ n \div 8 = (n \div 4) \div 2
      /\ n \div 16 = (n \div 8) \div 2 /\ n \div 32 = (n \div 16) \div 2
      /\ n \div 64 = (n \div 32) \div 2 /\ n \div 128 = (n \div 64) \div 2
      /\ n \div 128 \in {0, 1}
  BY <1>1
<1>3. \A m \in Nat : m = (m % 2) + 2 * (m \div 2)
  OBVIOUS
<1>4. \A w \in Weights : n \div w \in Nat
  BY <1>1 DEF Weights
<1>5. (n \div 128) % 2 = n \div 128
  BY <1>2
<1>6. /\ n = BitAt(n, 1) + 2 * q(2) /\ q(2) = BitAt(n, 2) + 2 * q(4)
      /\ q(4) = BitAt(n, 4) + 2 * q(8) /\ q(8) = BitAt(n, 8) + 2 * q(16)
      /\ q(16) = BitAt(n, 16) + 2 * q(32) /\ q(32) = BitAt(n, 32) + 2 * q(64)
      /\ q(64) = BitAt(n, 64) + 2 * q(128) /\ q(128) = BitAt(n, 128)
  BY <1>1, <1>2, <1>3, <1>4, <1>5 DEF BitAt, Weights
<1>7. \A w \in Weights : BitAt(n, w) \in Int /\ q(w) \in Int
  BY <1>1, <1>4, BitAtIs01 DEF Weights
<1>8. /\ BitAt(n, 1) \in Int /\ BitAt(n, 2) \in Int /\ BitAt(n, 4) \in Int
      /\ BitAt(n, 8) \in Int /\ BitAt(n, 16) \in Int /\ BitAt(n, 32) \in Int
      /\ BitAt(n, 64) \in Int /\ BitAt(n, 128) \in Int
      /\ q(2) \in Int /\ q(4) \in Int /\ q(8) \in Int /\ q(16) \in Int
      /\ q(32) \in Int /\ q(64) \in Int /\ q(128) \in Int
  BY <1>7 DEF Weights
<1> HIDE DEF q
<1>9. q(32) = BitAt(n, 32) + 2 * BitAt(n, 64) + 4 * BitAt(n, 128)
  BY <1>6, <1>8
<1>10. q(8) = BitAt(n, 8) + 2 * BitAt(n, 16) + 4 * q(32)
  BY <1>6, <1>8
<1>11. q(2) = BitAt(n, 2) + 2 * BitAt(n, 4) + 4 * q(8)
  BY <1>6, <1>8
<1>12. n = BitAt(n, 1) + 2 * q(2)
  BY <1>6
<1>13. QED BY <1>8, <1>9, <1>10, <1>11, <1>12

LEMMA SameBits ==
  ASSUME NEW m \in Byte, NEW n \in Byte,
         \A w \in Weights : BitAt(m, w) = BitAt(n, w)
  PROVE  m = n
<1>1. /\ BitAt(m, 1) = BitAt(n, 1) /\ BitAt(m, 2) = BitAt(n, 2)
      /\ BitAt(m, 4) = BitAt(n, 4) /\ BitAt(m, 8) = BitAt(n, 8)
      /\ BitAt(m, 16) = BitAt(n, 16) /\ BitAt(m, 32) = BitAt(n, 32)
      /\ BitAt(m, 64) = BitAt(n, 64) /\ BitAt(m, 128) = BitAt(n, 128)
  BY DEF Weights
<1>2. QED BY ZenonT(40), <1>1, SumOfBits

LEMMA BitsAre01 == \A n \in Byte, w \in Weights : BitAt(n, w) \in {0, 1}
BY BitAtIs01, ByteBounds DEF Weights

LEMMA AndBits ==
  ASSUME NEW a \in Byte, NEW b \in Byte, NEW w \in Weights
  PROVE  BitAt(And(a, b), w) = BitAnd(BitAt(a, w), BitAt(b, w))
<1> DEFINE bit(v) == BitAnd(BitAt(a, v), BitAt(b, v))
<1>1. \A v \in Weights : bit(v) \in {0, 1}
  BY DEF BitAnd
<1>2. And(a, b) = bit(1) + 2 * bit(2) + 4 * bit(4) + 8 * bit(8) + 16 * bit(16)
                  + 32 * bit(32) + 64 * bit(64) + 128 * bit(128)
  BY DEF And, Bitwise
<1> HIDE DEF bit
<1>3. /\ bit(1) \in {0, 1} /\ bit(2) \in {0, 1} /\ bit(4) \in {0, 1}
      /\ bit(8) \in {0, 1} /\ bit(16) \in {0, 1} /\ bit(32) \in {0, 1}
      /\ bit(64) \in {0, 1} /\ bit(128) \in {0, 1}
  BY <1>1 DEF Weights
<1>4. BitAt(And(a, b), w) = bit(w)
  BY <1>2, <1>3, BitsOfSum DEF Weights
<1>5. QED BY <1>4 DEF bit

LEMMA OrBits ==
  ASSUME NEW a \in Byte, NEW b \in Byte, NEW w \in Weights
  PROVE  BitAt(Or(a, b), w) = BitOr(BitAt(a, w), BitAt(b, w))
<1> DEFINE bit(v) == BitOr(BitAt(a, v), BitAt(b, v))
<1>1. \A v \in Weights : bit(v) \in {0, 1}
  BY DEF BitOr
<1>2. Or(a, b) = bit(1) + 2 * bit(2) + 4 * bit(4) + 8 * bit(8) + 16 * bit(16)
                 + 32 * bit(32) + 64 * bit(64) + 128 * bit(128)
  BY DEF Or, Bitwise
<1> HIDE DEF bit
<1>3. /\ bit(1) \in {0, 1} /\ bit(2) \in {0, 1} /\ bit(4) \in {0, 1}
      /\ bit(8) \in {0, 1} /\ bit(16) \in {0, 1} /\ bit(32) \in {0, 1}
      /\ bit(64) \in {0, 1} /\ bit(128) \in {0, 1}
  BY <1>1 DEF Weights
<1>4. BitAt(Or(a, b), w) = bit(w)
  BY <1>2, <1>3, BitsOfSum DEF Weights
<1>5. QED BY <1>4 DEF bit

LEMMA InvertedBits ==
  ASSUME NEW n \in Byte, NEW w \in Weights
  PROVE  255 - n \in Byte /\ BitAt(255 - n, w) = 1 - BitAt(n, w)
<1> DEFINE flip(v) == 1 - BitAt(n, v)
<1>1. 255 - n \in Byte /\ \A v \in Weights : BitAt(n, v) \in {0, 1}
  BY ByteBounds, BitsAre01
<1>2. \A v \in Weights : flip(v) \in {0, 1}
  BY <1>1
<1>3. 255 - n = flip(1) + 2 * flip(2) + 4 * flip(4) + 8 * flip(8) + 16 * flip(16)
                + 32 * flip(32) + 64 * flip(64) + 128 * flip(128)
  <2>1. /\ BitAt(n, 1) \in Int /\ BitAt(n, 2) \in Int /\ BitAt(n, 4) \in Int
        /\ BitAt(n, 8) \in Int /\ BitAt(n, 16) \in Int /\ BitAt(n, 32) \in Int
        /\ BitAt(n, 64) \in Int /\ BitAt(n, 128) \in Int /\ n \in Int
    BY <1>1, ByteBounds DEF Weights
  <2>2. QED BY <2>1, SumOfBits
<1> HIDE DEF flip
<1>4. /\ flip(1) \in {0, 1} /\ flip(2) \in {0, 1} /\ flip(4) \in {0, 1}
      /\ flip(8) \in {0, 1} /\ flip(16) \in {0, 1} /\ flip(32) \in {0, 1}
      /\ flip(64) \in {0, 1} /\ flip(128) \in {0, 1}
  BY <1>2 DEF Weights
<1>5. BitAt(255 - n, w) = flip(w)
  BY <1>3, <1>4, BitsOfSum DEF Weights
<1>6. QED BY <1>1, <1>5 DEF flip
-----------------------------------------------------------------------------
(* Registers and operands.                                                 *)
Files == [Register -> Byte]
AnyOperand == {Reg(d) : d \in Register} \cup {Imm(n) : n \in Byte}

LEMMA Registers ==
  /\ Register = {A, B, C, D, L, H, Z, F}
  /\ A = 0 /\ B = 1 /\ C = 2 /\ D = 3 /\ L = 4 /\ H = 5 /\ Z = 6 /\ F = 7
BY DEF Register, A, B, C, D, L, H, Z, F

LEMMA SmallBytes == {0, 1, 2, 3, 4, 8, 247} \subseteq Byte
BY ByteBounds

LEMMA RegOperand == \A d \in Register : Reg(d) \in AnyOperand
BY DEF AnyOperand

LEMMA ImmOperand == \A n \in Byte : Imm(n) \in AnyOperand
BY DEF AnyOperand

LEMMA OperandsAreOperands == Operands \subseteq AnyOperand
BY ConstantsAssumption DEF Operands, AnyOperand

LEMMA ValOfReg == \A r, d : Val(r, Reg(d)) = r[d]
BY DEF Val, Reg

LEMMA ValOfImm == \A r, n : Val(r, Imm(n)) = n
BY DEF Val, Imm

LEMMA ValIsByte ==
  ASSUME NEW r \in Files, NEW x \in AnyOperand
  PROVE  Val(r, x) \in Byte
<1>1. CASE \E d \in Register : x = Reg(d)
  BY <1>1, ValOfReg DEF Files
<1>2. CASE \E n \in Byte : x = Imm(n)
  BY <1>2, ValOfImm
<1>3. QED BY <1>1, <1>2 DEF AnyOperand

LEMMA MwIsFile ==
  ASSUME NEW r \in Files, NEW d \in Register, NEW x \in AnyOperand
  PROVE  mw(r, d, x) \in Files
BY ValIsByte DEF mw, Files

LEMMA LdaIsFile ==
  ASSUME NEW r \in Files, NEW w \in Word
  PROVE  lda(r, w) \in Files
BY HalvesAreBytes, Registers DEF lda, Files

LEMMA AluIsFile ==
  ASSUME NEW op \in AluOps, NEW r \in Files, NEW d \in Register, NEW x \in AnyOperand
  PROVE  alu(op, r, d, x) \in Files
<1> DEFINE b == Val(r, x)
           v == AluValue(op, r[d], b, r[F])
           f == FlagsOf(r[d], b)
           stored == [r EXCEPT ![d] = v]
<1>1. r[d] \in Byte /\ r[F] \in Byte /\ b \in Byte
  BY ValIsByte, Registers DEF Files
<1>2. v \in Byte /\ f \in Byte
  BY <1>1, AluValueIsByte, FlagsAreByte
<1> HIDE DEF b, v, f
<1>3. stored \in Files
  BY <1>2 DEF Files
<1>4. [stored EXCEPT ![F] = f] \in Files
  BY <1>2, <1>3, Registers DEF Files
<1>5. alu(op, r, d, x) = IF op \in LoadsFlags THEN [stored EXCEPT ![F] = f] ELSE stored
  BY DEF alu, b, v, f
<1>6. QED BY <1>3, <1>4, <1>5

LEMMA InstructionsAreFiles ==
  ASSUME NEW r \in Files, NEW d \in Register, NEW x \in AnyOperand
  PROVE  /\ add(r, d, x) \in Files /\ adc(r, d, x) \in Files
         /\ sbb(r, d, x) \in Files /\ and(r, d, x) \in Files
         /\ or(r, d, x) \in Files /\ nor(r, d, x) \in Files
         /\ cmp(r, d, x) \in Files
<1>1. {I_ADD, I_ADC, I_SBB, I_AND, I_OR, I_NOR, I_CMP} \subseteq AluOps
  BY DEF AluOps
<1>2. QED BY <1>1, AluIsFile DEF add, adc, sbb, and, or, nor, cmp
-----------------------------------------------------------------------------
(* Every macro on registers maps files to files.                           *)
LEMMA ByteMacrosAreFiles ==
  ASSUME NEW r \in Files, NEW d \in Register, NEW x \in AnyOperand
  PROVE  /\ clb(r) \in Files /\ sub(r, d, x) \in Files /\ inc(r, d) \in Files
         /\ fdec(r, d) \in Files /\ dec(r, d) \in Files
         /\ not(r, d) \in Files /\ nand(r, d, x) \in Files
         /\ xor(r, d, x) \in Files /\ xnor(r, d, x) \in Files
<1>1. /\ F \in Register /\ Reg(F) \in AnyOperand /\ Reg(d) \in AnyOperand
      /\ Imm(1) \in AnyOperand /\ Imm(247) \in AnyOperand
  BY Registers, RegOperand, ImmOperand, SmallBytes
<1>2. clb(r) \in Files
  BY <1>1, InstructionsAreFiles DEF clb
<1>3. sub(r, d, x) \in Files /\ dec(r, d) \in Files
  BY <1>1, <1>2, InstructionsAreFiles DEF sub, dec
<1>4. inc(r, d) \in Files /\ fdec(r, d) \in Files
  BY <1>1, InstructionsAreFiles DEF inc, fdec
<1>5. \A s \in Files : not(s, d) \in Files
  BY <1>1, InstructionsAreFiles DEF not
<1>6. \A s \in Files : nand(s, d, x) \in Files
  BY <1>5, InstructionsAreFiles DEF nand
<1>7. xnor(r, d, x) \in Files
  <2> DEFINE f == mw(r, F, Reg(d))
             g == and(nor(f, d, x), F, x)
  <2>1. f \in Files
    BY <1>1, MwIsFile
  <2> HIDE DEF f
  <2>2. g \in Files
    BY <1>1, <2>1, InstructionsAreFiles
  <2> HIDE DEF g
  <2>3. or(g, d, Reg(F)) \in Files
    BY <1>1, <2>2, InstructionsAreFiles
  <2>4. QED BY <2>3 DEF xnor, f, g
<1>8. xor(r, d, x) \in Files
  <2> DEFINE f == or(mw(r, F, x), F, Reg(d))
  <2>1. f \in Files
    BY <1>1, MwIsFile, InstructionsAreFiles
  <2> HIDE DEF f
  <2>2. and(nand(f, d, x), d, Reg(F)) \in Files
    BY <1>1, <1>6, <2>1, InstructionsAreFiles
  <2>3. QED BY <2>2 DEF xor, f
<1>9. QED BY <1>2, <1>3, <1>4, <1>5, <1>6, <1>7, <1>8

LEMMA WordMacrosAreFiles ==
  ASSUME NEW r \in Files, NEW p \in Register \X Register,
         NEW x \in AnyOperand, NEW y \in AnyOperand
  PROVE  /\ inc16(r, p) \in Files /\ dec16(r, p) \in Files
         /\ add16b(r, p, x) \in Files /\ sub16b(r, p, x) \in Files
         /\ add16(r, p, y, x) \in Files /\ sub16(r, p, y, x) \in Files
         /\ eq16(r, p, y, x) \in Files /\ ldaPair(r, p) \in Files
<1>1. /\ p[1] \in Register /\ p[2] \in Register /\ {F, H, L} \subseteq Register
      /\ Reg(F) \in AnyOperand /\ Reg(H) \in AnyOperand
      /\ Reg(p[1]) \in AnyOperand /\ Reg(p[2]) \in AnyOperand
      /\ Imm(0) \in AnyOperand /\ Imm(1) \in AnyOperand /\ Imm(2) \in AnyOperand
  BY Registers, RegOperand, ImmOperand, SmallBytes
<1>2. inc16(r, p) \in Files
  BY Zenon, <1>1, InstructionsAreFiles DEF inc16
<1>3. dec16(r, p) \in Files
  BY Zenon, <1>1, InstructionsAreFiles, ByteMacrosAreFiles DEF dec16
<1>4. add16b(r, p, x) \in Files /\ sub16b(r, p, x) \in Files
  BY Zenon, <1>1, InstructionsAreFiles DEF add16b, sub16b
<1>5. add16(r, p, y, x) \in Files /\ sub16(r, p, y, x) \in Files
  BY Zenon, <1>1, InstructionsAreFiles DEF add16, sub16
<1>6. eq16(r, p, y, x) \in Files
  <2> DEFINE high == mw(cmp(r, p[1], y), H, Reg(F))
  <2>1. high \in Files
    BY Zenon, <1>1, InstructionsAreFiles, MwIsFile
  <2> HIDE DEF high
  <2>2. and(cmp(high, p[2], x), F, Reg(H)) \in Files
    BY Zenon, <1>1, <2>1, InstructionsAreFiles
  <2>3. and(and(cmp(high, p[2], x), F, Reg(H)), F, Imm(2)) \in Files
    BY <1>1, <2>2, InstructionsAreFiles
  <2>4. QED BY <2>3 DEF eq16, high
<1>7. ldaPair(r, p) \in Files
  BY <1>1, MwIsFile DEF ldaPair
<1>8. QED BY <1>2, <1>3, <1>4, <1>5, <1>6, <1>7

LEMMA TestsAreFiles ==
  ASSUME NEW r \in Files, NEW c \in FlagJumps
  PROVE  test(c, r) \in Files
<1>1. F \in Register /\ \A n \in {0, 1, 2, 3, 4, 8} : Imm(n) \in AnyOperand
  BY Registers, ImmOperand, SmallBytes
<1>2. \A s \in Files, n \in {1, 2, 3, 4, 8} : mask(s, n) \in Files
  BY Zenon, <1>1, InstructionsAreFiles DEF mask
<1>3. \A s \in Files : not(s, F) \in Files /\ nand(s, F, Imm(1)) \in Files
  BY <1>1, ByteMacrosAreFiles
<1>4. \A s \in Files : isZero(s, F) \in Files
  BY <1>1, <1>2, InstructionsAreFiles DEF isZero
<1>5. QED BY <1>2, <1>3, <1>4 DEF test, FlagJumps, Comparisons
-----------------------------------------------------------------------------
(* What the instructions with carry and borrow do, for a register but F.   *)
LEMMA AluKinds ==
  /\ {I_ADD, I_ADC, I_SBB, I_CMP} \subseteq LoadsFlags
  /\ I_AND \notin LoadsFlags /\ I_OR \notin LoadsFlags /\ I_NOR \notin LoadsFlags
BY DEF LoadsFlags, I_ADD, I_ADC, I_AND, I_OR, I_NOR, I_CMP, I_SBB

LEMMA AluValues ==
  \A a, b, f : /\ AluValue(I_ADD, a, b, f) = ToByte(a + b)
              /\ AluValue(I_ADC, a, b, f) = ToByte(a + b + BitAt(f, F_CARRY))
              /\ AluValue(I_SBB, a, b, f) = ToByte(a - b - BitAt(f, F_BORROW))
              /\ AluValue(I_AND, a, b, f) = And(a, b)
              /\ AluValue(I_OR, a, b, f) = Or(a, b)
              /\ AluValue(I_NOR, a, b, f) = Nor(a, b)
              /\ AluValue(I_CMP, a, b, f) = a
BY DEF AluValue, I_ADD, I_ADC, I_AND, I_OR, I_NOR, I_CMP, I_SBB

LEMMA AddEffect ==
  ASSUME NEW r \in Files, NEW d \in Register \ {F}, NEW x \in AnyOperand
  PROVE  add(r, d, x) = [r EXCEPT ![d] = ToByte(r[d] + Val(r, x)),
                                  ![F] = FlagsOf(r[d], Val(r, x))]
<1>1. /\ I_ADD \in LoadsFlags
      /\ AluValue(I_ADD, r[d], Val(r, x), r[F])
         = ToByte(r[d] + Val(r, x))
  BY AluKinds, AluValues
<1>2. QED BY <1>1 DEF add, alu

LEMMA AdcEffect ==
  ASSUME NEW r \in Files, NEW d \in Register \ {F}, NEW x \in AnyOperand
  PROVE  adc(r, d, x) = [r EXCEPT ![d] = ToByte(r[d] + Val(r, x) + BitAt(r[F], F_CARRY)),
                                  ![F] = FlagsOf(r[d], Val(r, x))]
<1>1. /\ I_ADC \in LoadsFlags
      /\ AluValue(I_ADC, r[d], Val(r, x), r[F])
         = ToByte(r[d] + Val(r, x) + BitAt(r[F], F_CARRY))
  BY AluKinds, AluValues
<1>2. QED BY <1>1 DEF adc, alu

LEMMA SbbEffect ==
  ASSUME NEW r \in Files, NEW d \in Register \ {F}, NEW x \in AnyOperand
  PROVE  sbb(r, d, x) = [r EXCEPT ![d] = ToByte(r[d] - Val(r, x) - BitAt(r[F], F_BORROW)),
                                  ![F] = FlagsOf(r[d], Val(r, x))]
<1>1. /\ I_SBB \in LoadsFlags
      /\ AluValue(I_SBB, r[d], Val(r, x), r[F])
         = ToByte(r[d] - Val(r, x) - BitAt(r[F], F_BORROW))
  BY AluKinds, AluValues
<1>2. QED BY <1>1 DEF sbb, alu

LEMMA AndEffect ==
  ASSUME NEW r \in Files, NEW d \in Register, NEW x \in AnyOperand
  PROVE  and(r, d, x) = [r EXCEPT ![d] = And(r[d], Val(r, x))]
BY Zenon, AluKinds, AluValues DEF and, alu

(* An operand that names neither register an instruction changed.          *)
LEMMA ValKept ==
  ASSUME NEW r \in Files, NEW d \in Register, NEW v, NEW f,
         NEW x \in AnyOperand, x # Reg(d), x # Reg(F)
  PROVE  Val([r EXCEPT ![d] = v, ![F] = f], x) = Val(r, x)
<1>1. CASE \E n \in Byte : x = Imm(n)
  BY <1>1, ValOfImm
<1>2. CASE \E e \in Register : x = Reg(e)
  <2>1. PICK e \in Register : x = Reg(e)
    BY <1>2
  <2>2. e # d /\ e # F
    BY <2>1
  <2>3. QED BY Zenon, <2>1, <2>2, ValOfReg DEF Files
<1>3. QED BY <1>1, <1>2 DEF AnyOperand

(* The chain ADD, ADC adds the word whose halves the operands are.         *)
LEMMA Add16Effect ==
  ASSUME NEW r \in Files, NEW p \in (Register \ {F}) \X (Register \ {F}),
         p[1] # p[2], NEW x \in AnyOperand, NEW y \in AnyOperand,
         y # Reg(p[2]), y # Reg(F)
  PROVE  LET t == add16(r, p, y, x)
         IN  /\ WordIn(t, p) = ToWord(WordIn(r, p) + Pair(Val(r, x), Val(r, y)))
             /\ \A e \in Register \ {p[1], p[2], F} : t[e] = r[e]
<1> DEFINE lo == r[p[2]]
           hi == r[p[1]]
           bl == Val(r, x)
           bh == Val(r, y)
           c == If01(lo + bl > 255)
           s == add(r, p[2], x)
           t == add16(r, p, y, x)
<1>1. /\ p[1] \in Register \ {F} /\ p[2] \in Register \ {F} /\ F \in Register
      /\ lo \in Byte /\ hi \in Byte /\ bl \in Byte /\ bh \in Byte
  BY ValIsByte, Registers DEF Files
<1>2. s = [r EXCEPT ![p[2]] = ToByte(lo + bl), ![F] = FlagsOf(lo, bl)]
  BY <1>1, AddEffect
<1>3. Val(s, y) = bh
  <2>1. \A v, f : Val([r EXCEPT ![p[2]] = v, ![F] = f], y) = Val(r, y)
    BY <1>1, ValKept
  <2> HIDE DEF s
  <2>2. QED BY Zenon, <1>2, <2>1
<1>4. s \in Files
  BY <1>1, InstructionsAreFiles
<1>5. s[p[1]] = hi /\ s[p[2]] = ToByte(lo + bl) /\ s[F] = FlagsOf(lo, bl)
  BY <1>1, <1>2 DEF Files
<1>6. BitAt(s[F], F_CARRY) = c
  BY <1>1, <1>5, FlagBits
<1>7. t = [s EXCEPT ![p[1]] = ToByte(hi + bh + c), ![F] = FlagsOf(hi, bh)]
  BY <1>1, <1>3, <1>4, <1>5, <1>6, AdcEffect DEF add16
<1>8. t[p[1]] = ToByte(hi + bh + c) /\ t[p[2]] = ToByte(lo + bl)
  BY <1>1, <1>4, <1>5, <1>7 DEF Files
<1>9. \A e \in Register \ {p[1], p[2], F} : t[e] = r[e]
  BY <1>1, <1>2, <1>4, <1>7 DEF Files
<1> HIDE DEF lo, hi, bl, bh, t
<1>10. Pair(t[p[2]], t[p[1]]) = ToWord(Pair(lo, hi) + Pair(bl, bh))
  BY <1>1, <1>8, SumByHalves
<1>11. QED BY <1>9, <1>10 DEF WordIn, lo, hi, bl, bh, t

LEMMA Dec16Effect ==
  ASSUME NEW r \in Files, NEW p \in (Register \ {F}) \X (Register \ {F}),
         p[1] # p[2]
  PROVE  LET t == dec16(r, p)
         IN  /\ WordIn(t, p) = ToWord(WordIn(r, p) - 1)
             /\ \A e \in Register \ {p[1], p[2], F} : t[e] = r[e]
<1> DEFINE lo == r[p[2]]
           hi == r[p[1]]
           c == If01(1 > lo)
           q == clb(r)
           s == sbb(q, p[2], Imm(1))
           t == dec16(r, p)
<1>1. /\ p[1] \in Register \ {F} /\ p[2] \in Register \ {F} /\ F \in Register
      /\ lo \in Byte /\ hi \in Byte /\ r[F] \in Byte
      /\ Imm(1) \in AnyOperand /\ Imm(0) \in AnyOperand /\ Imm(247) \in AnyOperand
      /\ 0 \in Byte /\ 1 \in Byte
  BY ImmOperand, SmallBytes, Registers DEF Files
<1>2. q = [r EXCEPT ![F] = And(r[F], 247)]
  BY <1>1, ValOfImm, AndEffect DEF clb
<1>3. BitAt(And(r[F], 247), F_BORROW) = 0
  BY <1>1, BorrowCleared DEF F_BORROW
<1>4. q \in Files /\ q[F] = And(r[F], 247) /\ q[p[1]] = hi /\ q[p[2]] = lo
  BY <1>1, <1>2, AndIsByte, SmallBytes DEF Files
<1>5. s = [q EXCEPT ![p[2]] = ToByte(lo - 1), ![F] = FlagsOf(lo, 1)]
  <2>1. s = [q EXCEPT ![p[2]] = ToByte(lo - 1 - 0), ![F] = FlagsOf(lo, 1)]
    BY <1>1, <1>3, <1>4, ValOfImm, SbbEffect
  <2>2. lo - 1 - 0 = lo - 1
    BY <1>1, ByteBounds
  <2>3. QED BY <2>1, <2>2
<1>6. s \in Files
  BY <1>1, <1>4, InstructionsAreFiles
<1>7. s[p[1]] = hi /\ s[p[2]] = ToByte(lo - 1) /\ s[F] = FlagsOf(lo, 1)
  BY <1>1, <1>4, <1>5 DEF Files
<1>8. BitAt(s[F], F_BORROW) = c
  BY <1>1, <1>7, FlagBits
<1>9. t = [s EXCEPT ![p[1]] = ToByte(hi - 0 - c), ![F] = FlagsOf(hi, 0)]
  BY <1>1, <1>6, <1>7, <1>8, ValOfImm, SbbEffect DEF dec16
<1>10. t[p[1]] = ToByte(hi - 0 - c) /\ t[p[2]] = ToByte(lo - 1)
  BY <1>1, <1>6, <1>7, <1>9 DEF Files
<1>11. \A e \in Register \ {p[1], p[2], F} : t[e] = r[e]
  BY ZenonT(40), <1>1, <1>2, <1>4, <1>5, <1>6, <1>9 DEF Files
<1> HIDE DEF lo, hi, t
<1>12. Pair(t[p[2]], t[p[1]]) = ToWord(Pair(lo, hi) - Pair(1, 0))
  BY <1>1, <1>10, DifferenceByHalves
<1>13. Pair(1, 0) = 1
  BY <1>1, ByteIsShortWord
<1>14. QED BY <1>11, <1>12, <1>13 DEF WordIn, lo, hi, t
-----------------------------------------------------------------------------
LEMMA PairsOfRegisters ==
  ASSUME NEW p \in Pairs
  PROVE  p \in (Register \ {F}) \X (Register \ {F}) /\ p[1] # p[2]
BY ConstantsAssumption DEF Pairs

LEMMA ImmIsNotReg == \A n, d : Imm(n) # Reg(d)
BY DEF Imm, Reg

LEMMA RegsDiffer == \A d, e : d # e => Reg(d) # Reg(e)
BY DEF Reg

LEMMA WordsRight == regs \in Files => WordArithmetic
<1> SUFFICES ASSUME regs \in Files, NEW p \in Pairs
             PROVE  LET n == WordIn(regs, p) IN
    /\ Becomes(inc16(regs, p), p, n + 1)
    /\ Becomes(dec16(regs, p), p, n - 1)
    /\ \A d \in Work : Becomes(add16b(regs, p, Reg(d)), p, n + regs[d])
    /\ \A q \in Pairs : q[1] # p[2] =>
         Becomes(add16(regs, p, Reg(q[1]), Reg(q[2])), p, n + WordIn(regs, q))
    /\ \A w \in Words : Becomes(add16(regs, p, Imm(Hi(w)), Imm(Lo(w))), p, n + w)
  BY DEF WordArithmetic
<1> DEFINE n == WordIn(regs, p)
<1>1. p \in (Register \ {F}) \X (Register \ {F}) /\ p[1] # p[2]
  BY PairsOfRegisters
<1>2. 0 \in Byte /\ 1 \in Byte /\ Imm(0) \in AnyOperand /\ Imm(1) \in AnyOperand
  BY SmallBytes, ImmOperand
<1>3. ASSUME NEW x \in AnyOperand, NEW y \in AnyOperand,
             y # Reg(p[2]), y # Reg(F)
      PROVE  Becomes(add16(regs, p, y, x), p,
                     n + Pair(Val(regs, x), Val(regs, y)))
  <2>1. /\ WordIn(add16(regs, p, y, x), p)
            = ToWord(n + Pair(Val(regs, x), Val(regs, y)))
        /\ \A e \in Register \ {p[1], p[2], F} :
             add16(regs, p, y, x)[e] = regs[e]
    BY <1>1, <1>3, Add16Effect
  <2>2. QED BY <2>1 DEF Becomes, Keeps
<1>4. Becomes(inc16(regs, p), p, n + 1)
  <2>1. inc16(regs, p) = add16(regs, p, Imm(0), Imm(1))
    BY DEF inc16, add16
  <2>2. Pair(Val(regs, Imm(1)), Val(regs, Imm(0))) = 1
    BY <1>2, ValOfImm, ByteIsShortWord
  <2> HIDE DEF n
  <2>3. QED BY <1>2, <1>3, <2>1, <2>2, ImmIsNotReg
<1>5. Becomes(dec16(regs, p), p, n - 1)
  <2>1. /\ WordIn(dec16(regs, p), p) = ToWord(n - 1)
        /\ \A e \in Register \ {p[1], p[2], F} : dec16(regs, p)[e] = regs[e]
    BY <1>1, Dec16Effect
  <2>2. QED BY <2>1 DEF Becomes, Keeps
<1>6. ASSUME NEW d \in Work
      PROVE  Becomes(add16b(regs, p, Reg(d)), p, n + regs[d])
  <2>1. add16b(regs, p, Reg(d)) = add16(regs, p, Imm(0), Reg(d))
    BY DEF add16b, add16
  <2>2. Reg(d) \in AnyOperand /\ regs[d] \in Byte
    BY ConstantsAssumption, RegOperand DEF Files
  <2>3. Pair(Val(regs, Reg(d)), Val(regs, Imm(0))) = regs[d]
    BY <2>2, ValOfImm, ValOfReg, ByteIsShortWord
  <2> HIDE DEF n
  <2>4. QED BY <1>2, <1>3, <2>1, <2>2, <2>3, ImmIsNotReg
<1>7. ASSUME NEW q \in Pairs, q[1] # p[2]
      PROVE  Becomes(add16(regs, p, Reg(q[1]), Reg(q[2])), p, n + WordIn(regs, q))
  <2>1. Reg(q[1]) \in AnyOperand /\ Reg(q[2]) \in AnyOperand
        /\ q[1] # F
    BY PairsOfRegisters, RegOperand
  <2>2. Reg(q[1]) # Reg(p[2]) /\ Reg(q[1]) # Reg(F)
    BY <1>7, <2>1, RegsDiffer
  <2>3. Pair(Val(regs, Reg(q[2])), Val(regs, Reg(q[1]))) = WordIn(regs, q)
    BY ValOfReg DEF WordIn
  <2> HIDE DEF n
  <2>4. QED BY <1>3, <2>1, <2>2, <2>3
<1>8. ASSUME NEW w \in Words
      PROVE  Becomes(add16(regs, p, Imm(Hi(w)), Imm(Lo(w))), p, n + w)
  <2>1. w \in Word /\ Hi(w) \in Byte /\ Lo(w) \in Byte
    BY ConstantsAssumption, HalvesAreBytes
  <2>2. Imm(Hi(w)) \in AnyOperand /\ Imm(Lo(w)) \in AnyOperand
    BY <2>1, ImmOperand
  <2>3. Pair(Val(regs, Imm(Lo(w))), Val(regs, Imm(Hi(w)))) = w
    BY <2>1, ValOfImm, HalvesMakeWord
  <2> HIDE DEF n
  <2>4. QED BY <1>3, <2>2, <2>3, ImmIsNotReg
<1>9. QED BY <1>4, <1>5, <1>6, <1>7, <1>8
-----------------------------------------------------------------------------
(* Conditional jumps.                                                      *)
LEMMA CmpEffect ==
  ASSUME NEW r \in Files, NEW d \in Register, NEW x \in AnyOperand
  PROVE  cmp(r, d, x) = [r EXCEPT ![F] = FlagsOf(r[d], Val(r, x))]
<1>1. r[d] \in Byte /\ F \in Register
  BY Registers DEF Files
<1>2. cmp(r, d, x) = [[r EXCEPT ![d] = r[d]] EXCEPT ![F] = FlagsOf(r[d], Val(r, x))]
  BY Zenon, AluKinds, AluValues DEF cmp, alu
<1>3. [r EXCEPT ![d] = r[d]] = r
  BY DEF Files
<1>4. QED BY Zenon, <1>2, <1>3

LEMMA MaskEffect ==
  ASSUME NEW r \in Files, NEW n \in {1, 2, 3, 4, 8}
  PROVE  mask(r, n) = [r EXCEPT ![F] = And(r[F], n)]
<1>1. F \in Register /\ Imm(n) \in AnyOperand
  BY Registers, ImmOperand, SmallBytes
<1>2. QED BY <1>1, AndEffect, ValOfImm DEF mask

LEMMA NotEffect ==
  ASSUME NEW r \in Files
  PROVE  not(r, F) = [r EXCEPT ![F] = Nor(r[F], r[F])]
<1>1. not(r, F) = [r EXCEPT ![F] = AluValue(I_NOR, r[F], Val(r, Reg(F)), r[F])]
  BY DEF not, nor, alu, LoadsFlags, I_ADD, I_ADC, I_NOR, I_CMP, I_SBB
<1>2. \A x, y, z : AluValue(I_NOR, x, y, z) = Nor(x, y)
  BY DEF AluValue, I_ADD, I_ADC, I_AND, I_OR, I_NOR, I_CMP, I_SBB
<1>3. AluValue(I_NOR, r[F], Val(r, Reg(F)), r[F]) = Nor(r[F], r[F])
  BY <1>2, ValOfReg
<1>4. QED BY <1>1, <1>3

(* Where F has the flags of a and b, a conditional jump other than JGE is  *)
(* taken exactly if its condition holds of a and b, and changes F only.    *)
LEMMA TestDecides ==
  ASSUME NEW r \in Files, NEW a \in Byte, NEW b \in Byte,
         r[F] = FlagsOf(a, b), NEW c \in Sound
  PROVE  (Taken(c, r) <=> Holds(c, a, b)) /\ \E v : test(c, r) = [r EXCEPT ![F] = v]
<1> DEFINE f == r[F]
<1>1. /\ a \in Int /\ 0 <= a /\ a <= 255 /\ b \in Int /\ 0 <= b /\ b <= 255
      /\ F \in Register /\ f \in Byte
  BY Registers, ByteBounds DEF Files
<1>2. /\ BitAt(f, 1) = If01(a < b) /\ BitAt(f, 2) = If01(a = b)
      /\ BitAt(f, 4) = If01(a + b > 255) /\ BitAt(f, 8) = If01(b > a)
      /\ f \in 0 .. 15
  BY FlagBits DEF F_LESS, F_EQUAL, F_CARRY, F_BORROW
<1>3. /\ And(f, 1) = If01(a < b) /\ And(f, 2) = 2 * If01(a = b)
      /\ And(f, 3) = If01(a < b) + 2 * If01(a = b)
      /\ And(f, 4) = 4 * If01(a + b > 255) /\ And(f, 8) = 8 * If01(b > a)
  BY <1>1, <1>2, MaskOne
<1>4. 255 - f \in Byte /\ Nor(f, f) = 255 - f
  BY <1>1, <1>2, InvertedFlags, ByteBounds
<1>5. /\ And(255 - f, 2) = 2 * (1 - If01(a = b))
      /\ And(255 - f, 4) = 4 * (1 - If01(a + b > 255))
      /\ And(255 - f, 8) = 8 * (1 - If01(b > a))
  BY <1>2, <1>4, MaskOne, InvertedFlags
<1>6. \A n \in {1, 2, 3, 4, 8} : mask(r, n) = [r EXCEPT ![F] = And(f, n)]
  BY MaskEffect
<1>7. not(r, F) = [r EXCEPT ![F] = 255 - f] /\ not(r, F) \in Files
      /\ not(r, F)[F] = 255 - f
  BY <1>1, <1>4, NotEffect DEF Files
<1>8. \A n \in {2, 4, 8} : mask(not(r, F), n) = [r EXCEPT ![F] = And(255 - f, n)]
  <2> DEFINE s == not(r, F)
  <2>1. \A n \in {2, 4, 8} : mask(s, n) = [s EXCEPT ![F] = And(s[F], n)]
    BY ZenonT(40), <1>7, MaskEffect
  <2> HIDE DEF s
  <2>2. s = [r EXCEPT ![F] = 255 - f] /\ s[F] = 255 - f
    BY <1>7 DEF s
  <2>3. \A v, w : [[r EXCEPT ![F] = v] EXCEPT ![F] = w] = [r EXCEPT ![F] = w]
    BY Zenon DEF Files
  <2>4. ASSUME NEW n \in {2, 4, 8}
        PROVE  mask(s, n) = [r EXCEPT ![F] = And(255 - f, n)]
    <3>1. mask(s, n) = [s EXCEPT ![F] = And(s[F], n)]
      BY <2>1
    <3>2. [s EXCEPT ![F] = And(s[F], n)]
            = [[r EXCEPT ![F] = 255 - f] EXCEPT ![F] = And(255 - f, n)]
      BY ONLY <2>2, Zenon
    <3>3. [[r EXCEPT ![F] = 255 - f] EXCEPT ![F] = And(255 - f, n)]
            = [r EXCEPT ![F] = And(255 - f, n)]
      BY <2>3, Zenon
    <3>4. QED BY <3>1, <3>2, <3>3, Zenon
  <2>5. QED BY <2>4 DEF s
<1>9. isZero(mask(r, 3), F) = [r EXCEPT ![F] = And(FlagsOf(And(f, 3), 0), 2)]
  <2>1. And(f, 3) \in Byte /\ 0 \in Byte /\ 3 \in Byte /\ Imm(0) \in AnyOperand
    BY Zenon, <1>1, AndIsByte, SmallBytes, ImmOperand
  <2>2. mask(r, 3) \in Files /\ mask(r, 3)[F] = And(f, 3)
        /\ mask(r, 3) = [r EXCEPT ![F] = And(f, 3)]
    BY <1>1, <1>6, <2>1 DEF Files
  <2>3. cmp(mask(r, 3), F, Imm(0)) = [r EXCEPT ![F] = FlagsOf(And(f, 3), 0)]
    BY <1>1, <2>1, <2>2, CmpEffect, ValOfImm DEF Files
  <2>4. FlagsOf(And(f, 3), 0) \in Byte
    BY <2>1, FlagsAreByte
  <2>5. cmp(mask(r, 3), F, Imm(0)) \in Files
        /\ cmp(mask(r, 3), F, Imm(0))[F] = FlagsOf(And(f, 3), 0)
    BY <1>1, <2>3, <2>4 DEF Files
  <2>6. QED BY <1>1, <2>3, <2>5, MaskEffect DEF isZero, Files
<1>10. And(FlagsOf(And(f, 3), 0), 2) = 2 * If01(And(f, 3) = 0)
  <2>1. And(f, 3) \in Byte /\ 0 \in Byte /\ 3 \in Byte
    BY Zenon, <1>1, AndIsByte, SmallBytes
  <2>2. FlagsOf(And(f, 3), 0) \in Byte
        /\ BitAt(FlagsOf(And(f, 3), 0), 2) = If01(And(f, 3) = 0)
    BY <2>1, FlagsAreByte, FlagBits DEF F_EQUAL
  <2>3. QED BY <2>2, MaskOne
<1>11. \A v : [r EXCEPT ![F] = v][F] = v
  BY <1>1 DEF Files
<1>12. ASSUME NEW v, test(c, r) = [r EXCEPT ![F] = v], v # 0 <=> Holds(c, a, b)
       PROVE  (Taken(c, r) <=> Holds(c, a, b))
              /\ \E w : test(c, r) = [r EXCEPT ![F] = w]
  BY Zenon, <1>11, <1>12 DEF Taken
<1>13. CASE c = "JLT"
  <2>1. test(c, r) = [r EXCEPT ![F] = And(f, 1)]
    BY <1>6, <1>13 DEF test
  <2>2. QED BY <1>3, <1>12, <1>13, <2>1 DEF Holds, If01
<1>14. CASE c = "JLE"
  <2>1. test(c, r) = [r EXCEPT ![F] = And(f, 3)]
    BY <1>6, <1>14 DEF test
  <2>2. And(f, 3) # 0 <=> Holds(c, a, b)
    BY <1>1, <1>3, <1>14 DEF Holds, If01
  <2>3. QED BY Zenon, <1>12, <2>1, <2>2
<1>15. CASE c = "JEQ"
  <2>1. test(c, r) = [r EXCEPT ![F] = And(f, 2)]
    BY <1>6, <1>15 DEF test
  <2>2. QED BY <1>3, <1>12, <1>15, <2>1 DEF Holds, If01
<1>16. CASE c = "JNE"
  <2>1. test(c, r) = [r EXCEPT ![F] = And(255 - f, 2)]
    BY <1>8, <1>16 DEF test
  <2>2. QED BY <1>5, <1>12, <1>16, <2>1 DEF Holds, If01
<1>17. CASE c = "JGT"
  <2>1. test(c, r) = [r EXCEPT ![F] = 2 * If01(And(f, 3) = 0)]
    BY <1>9, <1>10, <1>17 DEF test
  <2>2. And(f, 3) = 0 <=> Holds(c, a, b)
    BY <1>1, <1>3, <1>17 DEF Holds, If01
  <2>3. 2 * If01(And(f, 3) = 0) # 0 <=> Holds(c, a, b)
    BY <2>2 DEF If01
  <2>4. QED BY Zenon, <1>12, <2>1, <2>3
<1>18. CASE c = "JC"
  <2>1. test(c, r) = [r EXCEPT ![F] = And(f, 4)]
    BY <1>6, <1>18 DEF test
  <2>2. QED BY <1>3, <1>12, <1>18, <2>1 DEF Holds, If01, ByteMax
<1>19. CASE c = "JNC"
  <2>1. test(c, r) = [r EXCEPT ![F] = And(255 - f, 4)]
    BY <1>8, <1>19 DEF test
  <2>2. And(255 - f, 4) # 0 <=> Holds(c, a, b)
    BY <1>1, <1>5, <1>19 DEF Holds, If01, ByteMax
  <2>3. QED BY Zenon, <1>12, <2>1, <2>2
<1>20. CASE c = "JB"
  <2>1. test(c, r) = [r EXCEPT ![F] = And(f, 8)]
    BY <1>6, <1>20 DEF test
  <2>2. QED BY <1>3, <1>12, <1>20, <2>1 DEF Holds, If01
<1>21. CASE c = "JNB"
  <2>1. test(c, r) = [r EXCEPT ![F] = And(255 - f, 8)]
    BY <1>8, <1>21 DEF test
  <2>2. And(255 - f, 8) # 0 <=> Holds(c, a, b)
    BY <1>1, <1>5, <1>21 DEF Holds, If01
  <2>3. QED BY Zenon, <1>12, <2>1, <2>2
<1>22. QED BY <1>13, <1>14, <1>15, <1>16, <1>17, <1>18, <1>19, <1>20, <1>21
            DEF Sound, FlagJumps, Comparisons

LEMMA JumpsDecide == regs \in Files => JumpsRight /\ FlagJumpsRight
<1> SUFFICES ASSUME regs \in Files PROVE JumpsRight /\ FlagJumpsRight
  OBVIOUS
<1>1. JumpsRight
  <2> SUFFICES ASSUME NEW c \in Sound \cap Comparisons, NEW d \in Work,
                      NEW x \in Operands
               PROVE  LET r == cmp(regs, d, x) IN
                      /\ Taken(c, r) <=> Holds(c, regs[d], Val(regs, x))
                      /\ Keeps(test(c, r), {F})
    BY DEF JumpsRight
  <2> DEFINE r == cmp(regs, d, x)
  <2>1. d \in Register /\ F \in Register /\ x \in AnyOperand
    BY ConstantsAssumption, OperandsAreOperands, Registers
  <2>2. regs[d] \in Byte /\ Val(regs, x) \in Byte
    BY <2>1, ValIsByte DEF Files
  <2>3. r = [regs EXCEPT ![F] = FlagsOf(regs[d], Val(regs, x))]
    BY <2>1, CmpEffect
  <2>4. r \in Files
    BY <2>1, InstructionsAreFiles
  <2>5. r[F] = FlagsOf(regs[d], Val(regs, x))
    BY <2>1, <2>3 DEF Files
  <2> HIDE DEF r
  <2>6. /\ Taken(c, r) <=> Holds(c, regs[d], Val(regs, x))
        /\ \E v : test(c, r) = [r EXCEPT ![F] = v]
    BY <2>2, <2>4, <2>5, TestDecides
  <2>7. Keeps(test(c, r), {F})
    BY Zenon, <2>3, <2>4, <2>6 DEF Keeps, Files
  <2>8. QED BY <2>6, <2>7 DEF r
<1>2. FlagJumpsRight
  BY ConstantsAssumption, TestDecides DEF FlagJumpsRight
<1>3. QED BY <1>1, <1>2
-----------------------------------------------------------------------------
(* Bytes and their bits: what the macros for NOT, XOR and XNOR make of the *)
(* operations the machine has.                                             *)
LEMMA OrSelf == \A n \in Byte : Or(n, n) = n
<1> SUFFICES ASSUME NEW n \in Byte PROVE Or(n, n) = n
  OBVIOUS
<1>1. \A w \in Weights : BitAt(Or(n, n), w) = BitAt(n, w)
  BY OrBits, BitsAre01 DEF BitOr
<1>2. QED BY <1>1, OrIsByte, SameBits

LEMMA XorBits ==
  ASSUME NEW a \in Byte, NEW b \in Byte
  PROVE  LET x == Bitwise(BitXor, a, b)
         IN  /\ x \in Byte
             /\ \A w \in Weights : BitAt(x, w) = BitXor(BitAt(a, w), BitAt(b, w))
<1> DEFINE bit(v) == BitXor(BitAt(a, v), BitAt(b, v))
           x == Bitwise(BitXor, a, b)
<1>1. \A v \in Weights : bit(v) \in {0, 1}
  BY DEF BitXor
<1>2. x = bit(1) + 2 * bit(2) + 4 * bit(4) + 8 * bit(8) + 16 * bit(16)
          + 32 * bit(32) + 64 * bit(64) + 128 * bit(128)
  BY DEF Bitwise
<1> HIDE DEF bit
<1>3. /\ bit(1) \in {0, 1} /\ bit(2) \in {0, 1} /\ bit(4) \in {0, 1}
      /\ bit(8) \in {0, 1} /\ bit(16) \in {0, 1} /\ bit(32) \in {0, 1}
      /\ bit(64) \in {0, 1} /\ bit(128) \in {0, 1}
  BY <1>1 DEF Weights
<1> HIDE DEF x
<1>4. x \in Byte
  BY <1>2, <1>3, EightBits
<1>5. \A w \in Weights : BitAt(x, w) = bit(w)
  BY <1>2, <1>3, BitsOfSum DEF Weights
<1>6. QED BY Zenon, <1>4, <1>5 DEF bit, x

LEMMA XorOfAndOr ==
  ASSUME NEW a \in Byte, NEW b \in Byte
  PROVE  And(255 - And(a, b), Or(b, a)) = Bitwise(BitXor, a, b)
<1> DEFINE x == Bitwise(BitXor, a, b)
           m == 255 - And(a, b)
           n == Or(b, a)
<1>1. And(a, b) \in Byte /\ n \in Byte /\ m \in Byte
  BY AndIsByte, OrIsByte, ByteBounds
<1>2. x \in Byte /\ \A w \in Weights : BitAt(x, w) = BitXor(BitAt(a, w), BitAt(b, w))
  BY Zenon, XorBits
<1>3. \A w \in Weights : /\ BitAt(m, w) = 1 - BitAnd(BitAt(a, w), BitAt(b, w))
                         /\ BitAt(n, w) = BitOr(BitAt(b, w), BitAt(a, w))
  BY <1>1, InvertedBits, AndBits, OrBits
<1> HIDE DEF x, m, n
<1>4. And(m, n) \in Byte
  BY <1>1, AndIsByte
<1>5. \A w \in Weights : BitAt(And(m, n), w) = BitAnd(BitAt(m, w), BitAt(n, w))
  BY <1>1, AndBits
<1>6. \A w \in Weights : BitAt(And(m, n), w) = BitAt(x, w)
  BY <1>2, <1>3, <1>5, BitsAre01 DEF BitXor, BitAnd, BitOr
<1>7. And(m, n) = x
  BY <1>2, <1>4, <1>6, SameBits
<1>8. QED BY <1>7 DEF x, m, n

LEMMA XnorOfNorAnd ==
  ASSUME NEW a \in Byte, NEW b \in Byte
  PROVE  Or(Nor(a, b), And(a, b)) = 255 - Bitwise(BitXor, a, b)
<1> DEFINE x == Bitwise(BitXor, a, b)
           m == Nor(a, b)
           n == And(a, b)
<1>1. n \in Byte /\ Or(a, b) \in Byte /\ m \in Byte
  BY AndIsByte, OrIsByte, ByteBounds DEF Nor
<1>2. x \in Byte /\ \A w \in Weights : BitAt(x, w) = BitXor(BitAt(a, w), BitAt(b, w))
  BY Zenon, XorBits
<1>3. \A w \in Weights : /\ BitAt(m, w) = 1 - BitOr(BitAt(a, w), BitAt(b, w))
                         /\ BitAt(n, w) = BitAnd(BitAt(a, w), BitAt(b, w))
  BY <1>1, InvertedBits, AndBits, OrBits DEF Nor
<1> HIDE DEF x, m, n
<1>4. Or(m, n) \in Byte /\ 255 - x \in Byte
  BY <1>1, <1>2, OrIsByte, ByteBounds
<1>5. \A w \in Weights : /\ BitAt(Or(m, n), w) = BitOr(BitAt(m, w), BitAt(n, w))
                         /\ BitAt(255 - x, w) = 1 - BitAt(x, w)
  BY <1>1, <1>2, OrBits, InvertedBits
<1>6. \A w \in Weights : BitAt(Or(m, n), w) = BitAt(255 - x, w)
  BY <1>2, <1>3, <1>5, BitsAre01 DEF BitXor, BitAnd, BitOr
<1>7. Or(m, n) = 255 - x
  BY <1>4, <1>6, SameBits
<1>8. QED BY <1>7 DEF x, m, n

LEMMA OrEffect ==
  ASSUME NEW r \in Files, NEW d \in Register, NEW x \in AnyOperand
  PROVE  or(r, d, x) = [r EXCEPT ![d] = Or(r[d], Val(r, x))]
BY Zenon, AluKinds, AluValues DEF or, alu

LEMMA NorEffect ==
  ASSUME NEW r \in Files, NEW d \in Register, NEW x \in AnyOperand
  PROVE  nor(r, d, x) = [r EXCEPT ![d] = Nor(r[d], Val(r, x))]
BY Zenon, AluKinds, AluValues DEF nor, alu

LEMMA NotInverts ==
  ASSUME NEW r \in Files, NEW d \in Register
  PROVE  not(r, d) = [r EXCEPT ![d] = 255 - r[d]]
<1>1. r[d] \in Byte /\ Reg(d) \in AnyOperand
  BY RegOperand DEF Files
<1>2. not(r, d) = [r EXCEPT ![d] = Nor(r[d], Val(r, Reg(d)))]
  BY <1>1, NorEffect DEF not
<1>3. Nor(r[d], Val(r, Reg(d))) = 255 - r[d]
  BY <1>1, ValOfReg, OrSelf DEF Nor
<1>4. QED BY <1>2, <1>3

LEMMA NandEffect ==
  ASSUME NEW r \in Files, NEW d \in Register, NEW x \in AnyOperand
  PROVE  nand(r, d, x) = [r EXCEPT ![d] = 255 - And(r[d], Val(r, x))]
<1> DEFINE s == and(r, d, x)
           v == And(r[d], Val(r, x))
<1>1. s = [r EXCEPT ![d] = v] /\ s \in Files
  BY Zenon, AndEffect, InstructionsAreFiles
<1>2. s[d] = v
  BY <1>1 DEF Files
<1> HIDE DEF s, v
<1>3. not(s, d) = [s EXCEPT ![d] = 255 - v]
  <2>1. not(s, d) = [s EXCEPT ![d] = 255 - s[d]]
    <3>1. s \in Files
      BY <1>1
    <3>2. QED BY <3>1, NotInverts
  <2>2. QED BY <1>2, <2>1
<1>4. [s EXCEPT ![d] = 255 - v] = [r EXCEPT ![d] = 255 - v]
  BY Zenon, <1>1 DEF Files
<1>5. QED BY <1>3, <1>4 DEF nand, s, v

(* The macros on bytes, on a register and an operand other than F.         *)
LEMMA SubEffect ==
  ASSUME NEW r \in Files, NEW d \in Register \ {F}, NEW x \in AnyOperand,
         x # Reg(F)
  PROVE  LET t == sbb(clb(r), d, x)
         IN  /\ t[d] = ToByte(r[d] - Val(r, x))
             /\ \A e \in Register \ {d, F} : t[e] = r[e]
<1> DEFINE q == clb(r)
           b == Val(r, x)
           t == sbb(q, d, x)
<1>1. /\ d \in Register /\ d # F /\ F \in Register /\ r[F] \in Byte /\ r[d] \in Byte
      /\ b \in Byte /\ Imm(247) \in AnyOperand /\ 247 \in Byte
  BY ValIsByte, ImmOperand, SmallBytes, Registers DEF Files
<1>2. q = [r EXCEPT ![F] = And(r[F], 247)]
  BY <1>1, ValOfImm, AndEffect DEF clb
<1>3. q \in Files
  BY <1>1, ByteMacrosAreFiles
<1>4. q[d] = r[d] /\ BitAt(q[F], F_BORROW) = 0
  <2>1. q[d] = r[d] /\ q[F] = And(r[F], 247)
    BY <1>1, <1>2 DEF Files
  <2>2. QED BY <1>1, <2>1, BorrowCleared DEF F_BORROW
<1>5. Val(q, x) = b
  <2>1. CASE \E n \in Byte : x = Imm(n)
    BY <2>1, ValOfImm
  <2>2. CASE \E e \in Register : x = Reg(e)
    <3>1. PICK e \in Register : x = Reg(e)
      BY <2>2
    <3>2. e # F
      BY <3>1
    <3>3. q[e] = r[e]
      BY <1>2, <3>2 DEF Files
    <3>4. QED BY <3>1, <3>3, ValOfReg
  <2>3. QED BY <2>1, <2>2 DEF AnyOperand
<1> HIDE DEF q, b
<1>6. t = [q EXCEPT ![d] = ToByte(q[d] - Val(q, x) - BitAt(q[F], F_BORROW)),
                    ![F] = FlagsOf(q[d], Val(q, x))]
  BY <1>1, <1>3, SbbEffect
<1>7. t[d] = ToByte(r[d] - b - 0)
  BY <1>1, <1>3, <1>4, <1>5, <1>6 DEF Files
<1>8. r[d] - b - 0 = r[d] - b
  BY <1>1, ByteBounds
<1>9. \A e \in Register \ {d, F} : t[e] = r[e]
  BY Zenon, <1>1, <1>2, <1>3, <1>6 DEF Files, q
<1>10. QED BY <1>7, <1>8, <1>9 DEF q, b

LEMMA XorEffect ==
  ASSUME NEW r \in Files, NEW d \in Register \ {F}, NEW x \in AnyOperand,
         x # Reg(F)
  PROVE  LET t == xor(r, d, x)
         IN  /\ t[d] = Bitwise(BitXor, r[d], Val(r, x))
             /\ \A e \in Register \ {d, F} : t[e] = r[e]
<1> DEFINE a == r[d]
           b == Val(r, x)
           m == mw(r, F, x)
           f == or(m, F, Reg(d))
           g == nand(f, d, x)
           t == and(g, d, Reg(F))
<1>1. /\ d \in Register /\ d # F /\ F \in Register /\ a \in Byte /\ b \in Byte
      /\ Reg(d) \in AnyOperand /\ Reg(F) \in AnyOperand
  BY ValIsByte, RegOperand, Registers DEF Files
<1>2. m = [r EXCEPT ![F] = b] /\ m \in Files
  BY <1>1, MwIsFile DEF mw
<1>3. m[F] = b /\ m[d] = a
  BY <1>1, <1>2 DEF Files
<1> HIDE DEF m
<1>4. f = [m EXCEPT ![F] = Or(b, a)] /\ f \in Files
  <2>1. m \in Files
    BY <1>2
  <2>2. f = [m EXCEPT ![F] = Or(m[F], Val(m, Reg(d)))]
    BY <1>1, <2>1, OrEffect
  <2>3. f \in Files
    BY <1>1, <2>1, InstructionsAreFiles
  <2>4. Val(m, Reg(d)) = m[d]
    BY <1>1, ValOfReg
  <2>5. QED BY <1>3, <2>2, <2>3, <2>4, Zenon
<1>5. f[F] = Or(b, a) /\ \A e \in Register \ {F} : f[e] = r[e]
  BY Zenon, <1>1, <1>2, <1>4 DEF Files
<1> HIDE DEF f
<1>6. Val(f, x) = b
  <2>1. CASE \E n \in Byte : x = Imm(n)
    BY <2>1, ValOfImm
  <2>2. CASE \E e \in Register : x = Reg(e)
    BY <1>5, <2>2, ValOfReg
  <2>3. QED BY <2>1, <2>2 DEF AnyOperand
<1>7. g = [f EXCEPT ![d] = 255 - And(a, b)] /\ g \in Files
  <2>1. f \in Files
    BY <1>4
  <2>2. g = [f EXCEPT ![d] = 255 - And(f[d], Val(f, x))]
    BY <1>1, <2>1, NandEffect
  <2>3. f[d] = a
    BY <1>1, <1>5
  <2>4. g \in Files
    BY Zenon, <1>1, <2>1, ByteMacrosAreFiles
  <2>5. QED BY <1>6, <2>2, <2>3, <2>4
<1>8. /\ g[d] = 255 - And(a, b) /\ g[F] = Or(b, a)
      /\ \A e \in Register \ {d, F} : g[e] = r[e]
  BY ZenonT(40), <1>1, <1>4, <1>5, <1>7 DEF Files
<1> HIDE DEF g
<1>9. t = [g EXCEPT ![d] = And(255 - And(a, b), Or(b, a))]
  <2>1. g \in Files
    BY <1>7
  <2>2. t = [g EXCEPT ![d] = And(g[d], Val(g, Reg(F)))]
    BY <1>1, <2>1, AndEffect
  <2>3. QED BY Zenon, <1>8, <2>2, ValOfReg
<1> HIDE DEF t
<1>10. t[d] = And(255 - And(a, b), Or(b, a))
  BY <1>1, <1>7, <1>9 DEF Files
<1>11. \A e \in Register \ {d, F} : t[e] = r[e]
  BY <1>1, <1>7, <1>8, <1>9 DEF Files
<1>12. t[d] = Bitwise(BitXor, a, b)
  <2> HIDE DEF a, b
  <2>1. QED BY <1>1, <1>10, XorOfAndOr
<1>13. xor(r, d, x) = t
  BY DEF xor, m, f, g, t
<1>14. QED BY <1>11, <1>12, <1>13

LEMMA XnorEffect ==
  ASSUME NEW r \in Files, NEW d \in Register \ {F}, NEW x \in AnyOperand,
         x # Reg(F), x # Reg(d)
  PROVE  LET t == xnor(r, d, x)
         IN  /\ t[d] = 255 - Bitwise(BitXor, r[d], Val(r, x))
             /\ \A e \in Register \ {d, F} : t[e] = r[e]
<1> DEFINE a == r[d]
           b == Val(r, x)
           m == mw(r, F, Reg(d))
           f == nor(m, d, x)
           g == and(f, F, x)
           t == or(g, d, Reg(F))
<1>1. /\ d \in Register /\ d # F /\ F \in Register /\ a \in Byte /\ b \in Byte
      /\ Reg(d) \in AnyOperand /\ Reg(F) \in AnyOperand
  BY ValIsByte, RegOperand, Registers DEF Files
<1>2. m = [r EXCEPT ![F] = a] /\ m \in Files
  BY Zenon, <1>1, ValOfReg, MwIsFile DEF mw
<1>3. m[F] = a /\ \A e \in Register \ {F} : m[e] = r[e]
  BY <1>1, <1>2 DEF Files
<1>4. \A s \in Files : (\A e \in Register \ {d, F} : s[e] = r[e]) => Val(s, x) = b
  <2>1. CASE \E n \in Byte : x = Imm(n)
    BY <2>1, ValOfImm
  <2>2. CASE \E e \in Register : x = Reg(e)
    <3>1. PICK e \in Register : x = Reg(e)
      BY <2>2
    <3>2. e # d /\ e # F
      BY <3>1
    <3>3. QED BY <3>1, <3>2, ValOfReg
  <2>3. QED BY <2>1, <2>2 DEF AnyOperand
<1> HIDE DEF m
<1>5. f = [m EXCEPT ![d] = Nor(a, b)] /\ f \in Files
  <2>1. m \in Files
    BY <1>2
  <2>2. f = [m EXCEPT ![d] = Nor(m[d], Val(m, x))]
    BY <1>1, <2>1, NorEffect
  <2>3. m[d] = a /\ Val(m, x) = b
    BY <1>1, <1>3, <1>4, <2>1
  <2>4. f \in Files
    BY <1>1, <2>1, InstructionsAreFiles
  <2>5. QED BY <2>2, <2>3, <2>4
<1>6. /\ f[d] = Nor(a, b) /\ f[F] = a
      /\ \A e \in Register \ {d, F} : f[e] = r[e]
  BY Zenon, <1>1, <1>2, <1>3, <1>5 DEF Files
<1> HIDE DEF f
<1>7. g = [f EXCEPT ![F] = And(a, b)] /\ g \in Files
  <2>1. f \in Files
    BY <1>5
  <2>2. g = [f EXCEPT ![F] = And(f[F], Val(f, x))]
    BY <1>1, <2>1, AndEffect
  <2>3. f[F] = a /\ Val(f, x) = b
    BY <1>4, <1>6, <2>1
  <2>4. g \in Files
    BY <1>1, <2>1, InstructionsAreFiles
  <2>5. QED BY <2>2, <2>3, <2>4
<1>8. /\ g[d] = Nor(a, b) /\ g[F] = And(a, b)
      /\ \A e \in Register \ {d, F} : g[e] = r[e]
  BY Zenon, <1>1, <1>5, <1>6, <1>7 DEF Files
<1> HIDE DEF g
<1>9. t = [g EXCEPT ![d] = Or(Nor(a, b), And(a, b))]
  <2>1. g \in Files
    BY <1>7
  <2>2. t = [g EXCEPT ![d] = Or(g[d], Val(g, Reg(F)))]
    BY <1>1, <2>1, OrEffect
  <2>3. QED BY Zenon, <1>8, <2>2, ValOfReg
<1> HIDE DEF t
<1>10. t[d] = Or(Nor(a, b), And(a, b))
  BY <1>1, <1>7, <1>9 DEF Files
<1>11. \A e \in Register \ {d, F} : t[e] = r[e]
  BY <1>1, <1>7, <1>8, <1>9 DEF Files
<1>12. t[d] = 255 - Bitwise(BitXor, a, b)
  <2> HIDE DEF a, b
  <2>1. QED BY <1>1, <1>10, XnorOfNorAnd
<1>13. xnor(r, d, x) = t
  BY DEF xnor, m, f, g, t
<1>14. QED BY <1>11, <1>12, <1>13

LEMMA BytesRight == regs \in Files => ByteResults
<1> SUFFICES ASSUME regs \in Files, NEW d \in Work
             PROVE  LET a == regs[d] IN
    /\ Leaves(dec(regs, d), d, ToByte(a - 1))
    /\ Leaves(not(regs, d), d, ByteMax - a)
    /\ \A x \in Operands : LET b == Val(regs, x) IN
         /\ Leaves(sub(regs, d, x), d, ToByte(a - b))
         /\ Leaves(nand(regs, d, x), d, ByteMax - And(a, b))
         /\ Leaves(xor(regs, d, x), d, Bitwise(BitXor, a, b))
         /\ x # Reg(d) => Leaves(xnor(regs, d, x), d,
                                 ByteMax - Bitwise(BitXor, a, b))
  BY DEF ByteResults
<1>1. d \in Register \ {F} /\ d \in Register /\ ByteMax = 255
  BY ConstantsAssumption DEF ByteMax
<1>2. Leaves(dec(regs, d), d, ToByte(regs[d] - 1))
  <2>1. Imm(1) \in AnyOperand /\ Imm(1) # Reg(F) /\ Val(regs, Imm(1)) = 1
    BY ImmOperand, SmallBytes, ImmIsNotReg, ValOfImm
  <2>2. /\ dec(regs, d)[d] = ToByte(regs[d] - Val(regs, Imm(1)))
        /\ \A e \in Register \ {d, F} : dec(regs, d)[e] = regs[e]
    BY <1>1, <2>1, SubEffect DEF dec
  <2>3. QED BY <2>1, <2>2 DEF Leaves, Keeps
<1>3. Leaves(not(regs, d), d, ByteMax - regs[d])
  <2>1. not(regs, d) = [regs EXCEPT ![d] = 255 - regs[d]]
    BY <1>1, NotInverts
  <2>2. QED BY <1>1, <2>1 DEF Leaves, Keeps, Files
<1>4. ASSUME NEW x \in Operands
      PROVE  LET a == regs[d]
                 b == Val(regs, x)
             IN  /\ Leaves(sub(regs, d, x), d, ToByte(a - b))
                 /\ Leaves(nand(regs, d, x), d, ByteMax - And(a, b))
                 /\ Leaves(xor(regs, d, x), d, Bitwise(BitXor, a, b))
                 /\ x # Reg(d) => Leaves(xnor(regs, d, x), d,
                                         ByteMax - Bitwise(BitXor, a, b))
  <2>1. x \in AnyOperand /\ x # Reg(F)
    <3>1. \A e \in Work : e # F
      BY ConstantsAssumption
    <3>2. x # Reg(F)
      BY <3>1, ImmIsNotReg, RegsDiffer DEF Operands
    <3>3. QED BY <3>2, OperandsAreOperands
  <2>2. Leaves(sub(regs, d, x), d, ToByte(regs[d] - Val(regs, x)))
    BY <1>1, <2>1, SubEffect DEF sub, Leaves, Keeps
  <2>3. Leaves(nand(regs, d, x), d, ByteMax - And(regs[d], Val(regs, x)))
    <3>1. nand(regs, d, x) = [regs EXCEPT ![d] = 255 - And(regs[d], Val(regs, x))]
      BY <1>1, <2>1, NandEffect
    <3>2. QED BY <1>1, <3>1 DEF Leaves, Keeps, Files
  <2>4. Leaves(xor(regs, d, x), d, Bitwise(BitXor, regs[d], Val(regs, x)))
    <3>1. /\ xor(regs, d, x)[d] = Bitwise(BitXor, regs[d], Val(regs, x))
          /\ \A e \in Register \ {d, F} : xor(regs, d, x)[e] = regs[e]
      BY <1>1, <2>1, XorEffect
    <3>2. QED BY <3>1 DEF Leaves, Keeps
  <2>5. ASSUME x # Reg(d)
        PROVE  Leaves(xnor(regs, d, x), d,
                      ByteMax - Bitwise(BitXor, regs[d], Val(regs, x)))
    <3>1. /\ xnor(regs, d, x)[d] = 255 - Bitwise(BitXor, regs[d], Val(regs, x))
          /\ \A e \in Register \ {d, F} : xnor(regs, d, x)[e] = regs[e]
      BY <1>1, <2>1, <2>5, XnorEffect
    <3>2. QED BY <1>1, <3>1 DEF Leaves, Keeps
  <2>6. QED BY <2>2, <2>3, <2>4, <2>5
<1>5. QED BY <1>2, <1>3, <1>4
-----------------------------------------------------------------------------
(* The inductive invariant: RET and POPA read the stack, so registers stay *)
(* bytes only because the stack has what the frames say.                   *)
IInv == TypeOK /\ FramesOnStack

LEMMA BudgetSpent == ASSUME TypeOK, Runs PROVE budget' \in 0 .. MaxMacros
BY ConstantsAssumption DEF TypeOK, Runs

LEMMA HlIsWord == \A r \in Files : HL(r) \in Word
BY PairIsWord, Registers DEF HL, Files

LEMMA FramesKept ==
  ASSUME FramesOnStack, UNCHANGED <<stack, frames>>
  PROVE  FramesOnStack'
BY Zenon DEF FramesOnStack, Over

LEMMA ComputeKeeps ==
  ASSUME IInv, NEW r \in Files, Compute(r)
  PROVE  IInv'
<1>1. TypeOK'
  BY BudgetSpent DEF IInv, TypeOK, Compute, Files
<1>2. FramesOnStack'
  BY FramesKept DEF IInv, Compute
<1>3. QED BY <1>1, <1>2 DEF IInv

LEMMA JnzKeeps ==
  ASSUME IInv, NEW r \in Files, NEW x, NEW to \in Word, JNZ(r, x, to)
  PROVE  IInv'
<1>1. lda(r, to) \in Files
  BY LdaIsFile
<1>2. TypeOK'
  BY <1>1, BudgetSpent DEF IInv, TypeOK, JNZ, Files
<1>3. FramesOnStack'
  BY FramesKept DEF IInv, JNZ
<1>4. QED BY <1>2, <1>3 DEF IInv

LEMMA StoreKeeps ==
  ASSUME IInv, NEW r \in Files, NEW a, NEW lo \in Byte, NEW b, NEW hi \in Byte,
         Store(r, a, lo, b, hi)
  PROVE  IInv'
<1>1. TypeOK'
  BY BudgetSpent DEF IInv, TypeOK, Store, Files
<1>2. FramesOnStack'
  BY FramesKept DEF IInv, Store
<1>3. QED BY <1>1, <1>2 DEF IInv

LEMMA BytesOfFrame ==
  ASSUME NEW f \in Frame
  PROVE  BytesOf(f) \in Seq(Byte) /\ f.rest \in Seq(Byte)
<1>1. CASE f \in [kind : {"call"}, to : Word, rest : Seq(Byte)]
  <2>1. Lo(f.to) \in Byte /\ Hi(f.to) \in Byte
    BY <1>1, HalvesAreBytes
  <2>2. QED BY <1>1, <2>1 DEF BytesOf
<1>2. CASE f \in [kind : {"saved"}, regs : [Register -> Byte], rest : Seq(Byte)]
  BY <1>2, Registers DEF BytesOf
<1>3. QED BY <1>1, <1>2 DEF Frame

LEMMA FramePushed ==
  ASSUME IInv, NEW f \in Frame, f.rest = stack,
         frames' = <<f>> \o frames, stack' = BytesOf(f) \o stack
  PROVE  /\ FramesOnStack'
         /\ stack' \in Seq(Byte) /\ frames' \in Seq(Frame)
<1>1. /\ frames \in Seq(Frame) /\ stack \in Seq(Byte) /\ <<f>> \in Seq(Frame)
      /\ Len(<<f>>) = 1 /\ <<f>>[1] = f
  BY DEF IInv, TypeOK
<1>2. /\ frames' \in Seq(Frame) /\ Len(frames') = Len(frames) + 1
      /\ \A i \in 1 .. 1 + Len(frames) :
           frames'[i] = IF i <= 1 THEN f ELSE frames[i - 1]
  BY <1>1, ConcatProperties
<1>3. stack' \in Seq(Byte)
  BY <1>1, BytesOfFrame, ConcatProperties
<1>4. ASSUME NEW i \in 1 .. Len(frames')
      PROVE  Over(i)' = BytesOf(frames'[i]) \o frames'[i].rest
  <2>1. CASE i = 1
    <3>1. frames'[i] = f /\ Over(i)' = stack'
      BY <1>1, <1>2, <2>1 DEF Over
    <3>2. QED BY Zenon, <3>1
  <2>2. CASE i # 1
    <3>1. /\ i - 1 \in 1 .. Len(frames) /\ frames'[i] = frames[i - 1]
          /\ i \in 1 .. 1 + Len(frames)
      BY <1>1, <1>2, <2>2
    <3>2. Over(i)' = Over(i - 1)
      <4>1. CASE i = 2
        BY <1>1, <1>2, <4>1 DEF Over
      <4>2. CASE i # 2
        <5>1. /\ i - 1 \in 1 .. 1 + Len(frames) /\ ~(i - 1 <= 1)
              /\ i - 1 # 1
          BY <1>1, <3>1, <2>2, <4>2
        <5>2. frames'[i - 1] = frames[i - 1 - 1]
          BY <1>2, <5>1
        <5>3. QED BY <2>2, <5>1, <5>2 DEF Over
      <4>3. QED BY <4>1, <4>2
    <3>3. Over(i - 1) = BytesOf(frames[i - 1]) \o frames[i - 1].rest
      BY Zenon, <3>1 DEF IInv, FramesOnStack
    <3>4. QED BY Zenon, <3>1, <3>2, <3>3
  <2>3. QED BY Zenon, <2>1, <2>2
<1>5. FramesOnStack'
  BY Zenon, <1>4 DEF FramesOnStack
<1>6. QED BY <1>2, <1>3, <1>5

LEMMA LatestFrame ==
  ASSUME IInv, frames # << >>
  PROVE  /\ Head(frames) \in Frame /\ Head(frames) = frames[1]
         /\ stack = BytesOf(Head(frames)) \o Head(frames).rest
<1>1. frames \in Seq(Frame) /\ 1 \in 1 .. Len(frames) /\ Head(frames) = frames[1]
  BY DEF IInv, TypeOK
<1>2. Over(1) = BytesOf(frames[1]) \o frames[1].rest
  BY Zenon, <1>1 DEF IInv, FramesOnStack
<1>3. Over(1) = stack
  BY DEF Over
<1>4. frames[1] \in Frame
  BY <1>1
<1>5. QED BY Zenon, <1>1, <1>2, <1>3, <1>4

LEMMA FramePopped ==
  ASSUME IInv, frames # << >>, frames' = Tail(frames),
         stack' = Head(frames).rest
  PROVE  /\ FramesOnStack'
         /\ stack' \in Seq(Byte) /\ frames' \in Seq(Frame)
<1>1. /\ frames \in Seq(Frame) /\ Head(frames) = frames[1]
      /\ Head(frames) \in Frame
  BY LatestFrame DEF IInv, TypeOK
<1>2. /\ frames' \in Seq(Frame) /\ Len(frames') = Len(frames) - 1
      /\ \A i \in 1 .. Len(frames') : frames'[i] = frames[i + 1]
  BY <1>1, HeadTailProperties
<1>3. stack' \in Seq(Byte)
  BY <1>1, BytesOfFrame
<1>4. ASSUME NEW i \in 1 .. Len(frames')
      PROVE  Over(i)' = BytesOf(frames'[i]) \o frames'[i].rest
  <2>1. i + 1 \in 1 .. Len(frames) /\ frames'[i] = frames[i + 1] /\ i + 1 # 1
    BY <1>1, <1>2
  <2>2. Over(i)' = Over(i + 1)
    <3>1. Over(i + 1) = frames[i].rest
      BY <2>1 DEF Over
    <3>2. CASE i = 1
      BY <1>1, <3>1, <3>2 DEF Over
    <3>3. CASE i # 1
      <4>1. i - 1 \in 1 .. Len(frames') /\ i - 1 + 1 = i
        BY <1>2, <3>3
      <4>2. frames'[i - 1] = frames[i]
        BY <1>2, <4>1
      <4>3. QED BY <3>1, <3>3, <4>2 DEF Over
    <3>4. QED BY <3>2, <3>3
  <2>3. Over(i + 1) = BytesOf(frames[i + 1]) \o frames[i + 1].rest
    BY Zenon, <2>1 DEF IInv, FramesOnStack
  <2>4. QED BY Zenon, <2>1, <2>2, <2>3
<1>5. FramesOnStack'
  BY Zenon, <1>4 DEF FramesOnStack
<1>6. QED BY <1>2, <1>3, <1>5

(* What RET and POPA find on the stack.                                    *)
LEMMA PopBytes ==
  ASSUME NEW bytes \in Seq(Byte), NEW rest \in Seq(Byte), Len(bytes) > 0
  PROVE  LET s == bytes \o rest IN
         /\ \A i \in 1 .. Len(bytes) : s[i] = bytes[i]
         /\ SubSeq(s, Len(bytes) + 1, Len(s)) = rest
<1> DEFINE s == bytes \o rest
<1>1. /\ s \in Seq(Byte) /\ Len(s) = Len(bytes) + Len(rest)
      /\ Len(bytes) \in Nat /\ Len(rest) \in Nat
      /\ \A i \in 1 .. Len(bytes) + Len(rest) :
           s[i] = IF i <= Len(bytes) THEN bytes[i] ELSE rest[i - Len(bytes)]
  BY ConcatProperties
<1>2. \A i \in 1 .. Len(bytes) : s[i] = bytes[i]
  BY <1>1
<1>3. CASE Len(rest) = 0
  <2>1. rest = << >>
    BY <1>3
  <2>2. SubSeq(s, Len(bytes) + 1, Len(s)) = << >>
    BY <1>1, <1>3, SubSeqEmpty
  <2>3. QED BY <1>2, <2>1, <2>2
<1>4. CASE Len(rest) # 0
  <2>1. /\ Len(bytes) + 1 \in Len(bytes) + 1 .. Len(bytes) + Len(rest)
        /\ Len(s) \in Len(bytes) + 1 .. Len(bytes) + Len(rest)
        /\ Len(bytes) + 1 - Len(bytes) = 1 /\ Len(s) - Len(bytes) = Len(rest)
    BY <1>1, <1>4
  <2>2. SubSeq(s, Len(bytes) + 1, Len(s))
          = SubSeq(rest, Len(bytes) + 1 - Len(bytes), Len(s) - Len(bytes))
    BY <2>1, SubSeqOfConcat2
  <2>3. SubSeq(rest, 1, Len(rest)) = rest
    BY SubSeqFull
  <2>4. QED BY <1>2, <2>1, <2>2, <2>3
<1>5. QED BY <1>3, <1>4

LEMMA ReturnFound ==
  ASSUME IInv, frames # << >>, Head(frames).kind = "call"
  PROVE  /\ Head(frames).to \in Word
         /\ stack[1] = Lo(Head(frames).to) /\ stack[2] = Hi(Head(frames).to)
         /\ SubSeq(stack, 3, Len(stack)) = Head(frames).rest
<1> DEFINE f == Head(frames)
<1>1. f \in Frame /\ stack = BytesOf(f) \o f.rest
  BY Zenon, LatestFrame
<1>2. f.to \in Word
  BY <1>1 DEF Frame
<1>3. BytesOf(f) = <<Lo(f.to), Hi(f.to)>> /\ Len(BytesOf(f)) = 2
  BY DEF BytesOf
<1>4. BytesOf(f) \in Seq(Byte) /\ f.rest \in Seq(Byte)
  BY <1>1, BytesOfFrame
<1> HIDE DEF f
<1>5. /\ \A i \in 1 .. 2 : stack[i] = BytesOf(f)[i]
      /\ SubSeq(stack, 2 + 1, Len(stack)) = f.rest
  BY <1>1, <1>3, <1>4, PopBytes
<1>6. QED BY <1>2, <1>3, <1>5 DEF f

LEMMA SavedFound ==
  ASSUME IInv, frames # << >>, Head(frames).kind = "saved"
  PROVE  /\ Head(frames).regs \in Files
         /\ stack[1] = Head(frames).regs[Z] /\ stack[2] = Head(frames).regs[D]
         /\ stack[3] = Head(frames).regs[C] /\ stack[4] = Head(frames).regs[B]
         /\ stack[5] = Head(frames).regs[A]
         /\ SubSeq(stack, 6, Len(stack)) = Head(frames).rest
<1> DEFINE f == Head(frames)
<1>1. f \in Frame /\ stack = BytesOf(f) \o f.rest
  BY Zenon, LatestFrame
<1>2. f.regs \in Files
  BY <1>1 DEF Frame, Files
<1>3. BytesOf(f) = <<f.regs[Z], f.regs[D], f.regs[C], f.regs[B], f.regs[A]>>
      /\ Len(BytesOf(f)) = 5
  BY DEF BytesOf
<1>4. BytesOf(f) \in Seq(Byte) /\ f.rest \in Seq(Byte)
  BY <1>1, BytesOfFrame
<1> HIDE DEF f
<1>5. /\ \A i \in 1 .. 5 : stack[i] = BytesOf(f)[i]
      /\ SubSeq(stack, 5 + 1, Len(stack)) = f.rest
  BY <1>1, <1>3, <1>4, PopBytes
<1>6. QED BY <1>2, <1>3, <1>5 DEF f

LEMMA EnterKeeps ==
  ASSUME IInv, NEW r \in Files, NEW ret \in Word, NEW hi, NEW lo,
         hi = Hi(ret), lo = Lo(ret), Enter(r, hi, lo, ret)
  PROVE  IInv'
<1> DEFINE f == Return(ret)
<1>1. f \in Frame /\ f.rest = stack /\ BytesOf(f) = <<lo, hi>>
  BY DEF IInv, TypeOK, Frame, Return, BytesOf
<1>2. frames' = <<f>> \o frames /\ stack' = BytesOf(f) \o stack
  BY <1>1 DEF Enter
<1> HIDE DEF f
<1>3. FramesOnStack' /\ stack' \in Seq(Byte) /\ frames' \in Seq(Frame)
  BY Zenon, <1>1, <1>2, FramePushed
<1>4. HL(r) \in Word
  BY HlIsWord
<1>5. TypeOK'
  BY <1>3, <1>4, BudgetSpent DEF IInv, TypeOK, Enter, Files
<1>6. QED BY <1>3, <1>5 DEF IInv

LEMMA RetKeeps == IInv /\ RET => IInv' /\ goto' = Head(frames).to
<1> SUFFICES ASSUME IInv, RET PROVE IInv' /\ goto' = Head(frames).to
  OBVIOUS
<1> DEFINE to == Head(frames).to
<1>1. /\ to \in Word /\ stack[1] = Lo(to) /\ stack[2] = Hi(to)
      /\ SubSeq(stack, 3, Len(stack)) = Head(frames).rest
  BY ReturnFound DEF RET
<1>2. FramesOnStack' /\ stack' \in Seq(Byte) /\ frames' \in Seq(Frame)
  BY <1>1, FramePopped DEF RET
<1>3. Lo(to) \in Byte /\ Hi(to) \in Byte
  BY <1>1, HalvesAreBytes
<1> HIDE DEF to
<1>4. regs' = [regs EXCEPT ![L] = Lo(to), ![H] = Hi(to)] /\ regs \in Files
  BY <1>1 DEF RET, IInv, TypeOK, Files
<1>5. regs' \in Files /\ regs'[L] = Lo(to) /\ regs'[H] = Hi(to)
  BY <1>3, <1>4, Registers DEF Files
<1>6. goto' = to
  BY <1>1, <1>5, HalvesMakeWord DEF RET, HL
<1>7. TypeOK'
  BY Zenon, <1>1, <1>2, <1>5, <1>6, BudgetSpent DEF IInv, TypeOK, RET, Files
<1>8. QED BY <1>2, <1>6, <1>7 DEF IInv, to

LEMMA PushaKeeps == IInv /\ PUSHA => IInv'
<1> SUFFICES ASSUME IInv, PUSHA PROVE IInv'
  OBVIOUS
<1> DEFINE f == Saved(regs)
<1>1. /\ f \in Frame /\ f.rest = stack
      /\ BytesOf(f) = <<regs[Z], regs[D], regs[C], regs[B], regs[A]>>
  BY DEF IInv, TypeOK, Frame, Saved, BytesOf
<1>2. frames' = <<f>> \o frames /\ stack' = BytesOf(f) \o stack
  BY <1>1 DEF PUSHA
<1> HIDE DEF f
<1>3. FramesOnStack' /\ stack' \in Seq(Byte) /\ frames' \in Seq(Frame)
  BY Zenon, <1>1, <1>2, FramePushed
<1>4. TypeOK'
  BY <1>3, BudgetSpent DEF IInv, TypeOK, PUSHA
<1>5. QED BY <1>3, <1>4 DEF IInv

LEMMA PopaKeeps ==
  IInv /\ POPA =>
    IInv' /\ \A d \in {A, B, C, D, Z} : regs'[d] = Head(frames).regs[d]
<1> SUFFICES ASSUME IInv, POPA
             PROVE IInv' /\ \A d \in {A, B, C, D, Z} : regs'[d] = Head(frames).regs[d]
  OBVIOUS
<1> DEFINE saved == Head(frames).regs
<1>1. /\ saved \in Files
      /\ stack[1] = saved[Z] /\ stack[2] = saved[D] /\ stack[3] = saved[C]
      /\ stack[4] = saved[B] /\ stack[5] = saved[A]
      /\ SubSeq(stack, 6, Len(stack)) = Head(frames).rest
  BY SavedFound DEF POPA
<1>2. FramesOnStack' /\ stack' \in Seq(Byte) /\ frames' \in Seq(Frame)
  BY <1>1, FramePopped DEF POPA
<1> HIDE DEF saved
<1>3. /\ regs' = [regs EXCEPT ![Z] = saved[Z], ![D] = saved[D], ![C] = saved[C],
                              ![B] = saved[B], ![A] = saved[A]]
      /\ regs \in Files
  BY <1>1 DEF POPA, IInv, TypeOK, Files
<1>4. regs' \in Files /\ \A d \in {A, B, C, D, Z} : regs'[d] = saved[d]
  BY <1>1, <1>3, Registers DEF Files
<1>5. TypeOK'
  BY Zenon, <1>2, <1>4, BudgetSpent DEF IInv, TypeOK, POPA, Files
<1>6. QED BY <1>2, <1>4, <1>5 DEF IInv, saved
-----------------------------------------------------------------------------
LEMMA InitIInv == Init => IInv
<1> SUFFICES ASSUME Init PROVE IInv
  OBVIOUS
<1>1. regs \in Files
  <2>1. PICK f \in Flags, v \in [Work -> Values] :
          regs = [d \in Register |->
                    CASE d = F -> f [] d \in Work -> v[d] [] OTHER -> 0]
    BY DEF Init
  <2>2. f \in Byte /\ 0 \in Byte /\ \A d \in Work : v[d] \in Byte
    BY ConstantsAssumption, SmallBytes
  <2>3. \A d \in Register :
          (CASE d = F -> f [] d \in Work -> v[d] [] OTHER -> 0) \in Byte
    BY <2>2
  <2>4. QED BY <2>1, <2>3 DEF Files
<1>2. mem \in [Cells -> Byte]
  BY SmallBytes DEF Init
<1>3. /\ stack \in Seq(Byte) /\ goto = On /\ frames \in Seq(Frame)
      /\ budget \in 0 .. MaxMacros /\ frames = << >>
  BY ConstantsAssumption DEF Init
<1>4. FramesOnStack
  BY <1>3 DEF FramesOnStack
<1>5. QED BY <1>1, <1>2, <1>3, <1>4 DEF IInv, TypeOK, Files

LEMMA WorkRegisters ==
  /\ Work \subseteq Register
  /\ \A d \in Work : Reg(d) \in AnyOperand
  /\ \A p \in Pairs : /\ p \in Register \X Register
                      /\ p[1] \in Register /\ p[2] \in Register
                      /\ Reg(p[1]) \in AnyOperand /\ Reg(p[2]) \in AnyOperand
<1>1. \A p \in Pairs : p \in Register \X Register
  BY ConstantsAssumption DEF Pairs
<1>2. QED BY <1>1, ConstantsAssumption, RegOperand

LEMMA HalvesAreOperands ==
  \A w \in Words : /\ Imm(Hi(w)) \in AnyOperand /\ Imm(Lo(w)) \in AnyOperand
                   /\ Hi(w) \in Byte /\ Lo(w) \in Byte
BY ConstantsAssumption, HalvesAreBytes, ImmOperand

LEMMA ByteStepKeeps ==
  ASSUME IInv, NEW d \in Work, NEW x \in Operands,
         \/ CMP(d, x) \/ SUB(d, x) \/ NAND(d, x) \/ XNOR(d, x) \/ XOR(d, x)
         \/ INC(d) \/ FDEC(d) \/ DEC(d) \/ NOT(d)
  PROVE  IInv'
<1>1. regs \in Files /\ d \in Register /\ x \in AnyOperand
  BY WorkRegisters, OperandsAreOperands DEF IInv, TypeOK, Files
<1>2. PICK r \in Files : Compute(r)
  <2>1. /\ cmp(regs, d, x) \in Files /\ sub(regs, d, x) \in Files
        /\ nand(regs, d, x) \in Files /\ xnor(regs, d, x) \in Files
        /\ xor(regs, d, x) \in Files /\ inc(regs, d) \in Files
        /\ fdec(regs, d) \in Files /\ dec(regs, d) \in Files
        /\ not(regs, d) \in Files
    BY Zenon, <1>1, InstructionsAreFiles, ByteMacrosAreFiles
  <2>2. QED BY <2>1 DEF CMP, SUB, NAND, XNOR, XOR, INC, FDEC, DEC, NOT
<1>3. QED BY <1>2, ComputeKeeps

(* INC, FDEC, DEC and NOT have no second operand; any will do.             *)
LEMMA UnaryStepKeeps ==
  ASSUME IInv, NEW d \in Work, INC(d) \/ FDEC(d) \/ DEC(d) \/ NOT(d)
  PROVE  IInv'
<1>1. Reg(d) \in Operands
  BY DEF Operands
<1>2. QED BY <1>1, ByteStepKeeps

LEMMA FlagStepKeeps ==
  ASSUME IInv, CLF \/ \E n \in FlagWeights : ST(n) \/ CL(n)
  PROVE  IInv'
<1>1. regs \in Files /\ F \in Register /\ Imm(0) \in AnyOperand
  BY Registers, ImmOperand, SmallBytes DEF IInv, TypeOK, Files
<1>2. clf(regs) \in Files
  BY <1>1, MwIsFile DEF clf
<1>3. ASSUME NEW n \in FlagWeights, ST(n) \/ CL(n) PROVE IInv'
  <2>1. n \in Byte /\ ByteMax - n \in Byte
    BY ByteBounds DEF FlagWeights, F_LESS, F_EQUAL, F_CARRY, F_BORROW, ByteMax
  <2>2. stFlag(regs, n) \in Files /\ clFlag(regs, n) \in Files
    BY <1>1, <2>1, ImmOperand, InstructionsAreFiles DEF stFlag, clFlag
  <2>3. QED BY <1>3, <2>2, ComputeKeeps DEF ST, CL
<1>4. QED BY <1>2, <1>3, ComputeKeeps DEF CLF

LEMMA WordStepKeeps ==
  ASSUME IInv, NEW p \in Pairs,
         \/ INC16(p) \/ DEC16(p) \/ LDA(p)
         \/ \E d \in Work : ADD16b(p, Reg(d)) \/ SUB16b(p, Reg(d))
         \/ \E q \in Pairs : ADD16r(p, q) \/ SUB16r(p, q) \/ EQ16r(p, q)
         \/ \E w \in Words : ADD16i(p, w) \/ SUB16i(p, w) \/ EQ16i(p, w)
  PROVE  IInv'
<1>1. regs \in Files /\ p \in Register \X Register /\ Imm(0) \in AnyOperand
  BY WorkRegisters, ImmOperand, SmallBytes DEF IInv, TypeOK, Files
<1>2. CASE INC16(p) \/ DEC16(p) \/ LDA(p)
  <2>1. /\ inc16(regs, p) \in Files /\ dec16(regs, p) \in Files
        /\ ldaPair(regs, p) \in Files
    BY <1>1, WordMacrosAreFiles
  <2>2. QED BY <1>2, <2>1, ComputeKeeps DEF INC16, DEC16, LDA
<1>3. ASSUME NEW d \in Work, ADD16b(p, Reg(d)) \/ SUB16b(p, Reg(d))
      PROVE  IInv'
  <2>1. add16b(regs, p, Reg(d)) \in Files /\ sub16b(regs, p, Reg(d)) \in Files
    BY <1>1, WorkRegisters, WordMacrosAreFiles
  <2>2. QED BY <1>3, <2>1, ComputeKeeps DEF ADD16b, SUB16b
<1>4. ASSUME NEW x \in AnyOperand, NEW y \in AnyOperand
      PROVE  /\ add16(regs, p, y, x) \in Files /\ sub16(regs, p, y, x) \in Files
             /\ eq16(regs, p, y, x) \in Files
  BY <1>1, WordMacrosAreFiles
<1>5. ASSUME NEW q \in Pairs, ADD16r(p, q) \/ SUB16r(p, q) \/ EQ16r(p, q)
      PROVE  IInv'
  BY <1>4, <1>5, WorkRegisters, ComputeKeeps DEF ADD16r, SUB16r, EQ16r
<1>6. ASSUME NEW w \in Words, ADD16i(p, w) \/ SUB16i(p, w) \/ EQ16i(p, w)
      PROVE  IInv'
  BY <1>4, <1>6, HalvesAreOperands, ComputeKeeps DEF ADD16i, SUB16i, EQ16i
<1>7. QED BY <1>2, <1>3, <1>5, <1>6

LEMMA JumpStepKeeps ==
  ASSUME IInv, NEW to \in Targets,
         \/ \E c \in Comparisons, d \in Work, x \in Operands : Jcc(c, d, x, to)
         \/ \E c \in FlagJumps : JccF(c, to)
         \/ \E d \in Work : JZ(d, to)
         \/ \E d \in Work, x \in Operands : JMS(d, x, to) \/ JMN(d, x, to)
  PROVE  IInv'
<1>1. regs \in Files /\ to \in Word /\ F \in Register /\ Imm(0) \in AnyOperand
  BY ConstantsAssumption, Registers, ImmOperand, SmallBytes
     DEF IInv, TypeOK, Files
<1>2. ASSUME NEW d \in Work, NEW x \in Operands
      PROVE  d \in Register /\ x \in AnyOperand /\ Reg(d) \in AnyOperand
  BY <1>2, WorkRegisters, OperandsAreOperands
<1>3. ASSUME NEW c \in Comparisons, NEW d \in Work, NEW x \in Operands,
             Jcc(c, d, x, to)
      PROVE  IInv'
  <2>1. cmp(regs, d, x) \in Files
    BY <1>1, <1>2, InstructionsAreFiles
  <2>2. test(c, cmp(regs, d, x)) \in Files
    BY <2>1, TestsAreFiles DEF FlagJumps
  <2>3. QED BY <1>1, <1>3, <2>2, JnzKeeps DEF Jcc
<1>4. ASSUME NEW c \in FlagJumps, JccF(c, to) PROVE IInv'
  <2>1. test(c, regs) \in Files
    BY <1>1, TestsAreFiles
  <2>2. QED BY <1>1, <1>4, <2>1, JnzKeeps DEF JccF
<1>5. ASSUME NEW d \in Work, JZ(d, to) PROVE IInv'
  <2>1. cmp(regs, d, Imm(0)) \in Files /\ Imm(2) \in AnyOperand
    BY <1>1, WorkRegisters, InstructionsAreFiles, ImmOperand, SmallBytes
  <2>2. isZero(regs, d) \in Files
    BY <1>1, <2>1, InstructionsAreFiles DEF isZero, mask
  <2>3. QED BY <1>1, <1>5, <2>2, JnzKeeps DEF JZ
<1>6. ASSUME NEW d \in Work, NEW x \in Operands, JMS(d, x, to) \/ JMN(d, x, to)
      PROVE  IInv'
  <2>1. mw(regs, F, Reg(d)) \in Files
    BY <1>1, <1>2, MwIsFile
  <2>2. not(mw(regs, F, Reg(d)), F) \in Files
    BY Zenon, <1>1, <1>2, <2>1, ByteMacrosAreFiles
  <2>3. /\ and(mw(regs, F, Reg(d)), F, x) \in Files
        /\ and(not(mw(regs, F, Reg(d)), F), F, x) \in Files
    BY <1>1, <1>2, <2>1, <2>2, InstructionsAreFiles
  <2>4. QED BY <1>1, <1>6, <2>3, JnzKeeps DEF JMS, JMN
<1>7. QED BY <1>3, <1>4, <1>5, <1>6

LEMMA MemoryStepKeeps ==
  ASSUME IInv,
         \/ \E p \in Pairs, a \in Cells : LW16(p, a) \/ SW16(a, p)
         \/ \E a \in Cells, w \in Words : SW16i(a, w)
         \/ \E p \in Pairs : LW16HL(p) \/ SW16HL(p)
         \/ \E w \in Cells : LDAi(w)
  PROVE  IInv'
<1>1. /\ regs \in Files /\ mem \in [Cells -> Byte]
      /\ \A d \in Register : regs[d] \in Byte
      /\ F \in Register /\ hlPair \in Register \X Register /\ Imm(0) \in AnyOperand
  BY Registers, ImmOperand, SmallBytes DEF IInv, TypeOK, Files, hlPair
<1>2. \A r \in Files : inc16(r, hlPair) \in Files
  BY <1>1, WordMacrosAreFiles
<1>3. ASSUME NEW p \in Pairs, NEW a \in Cells, LW16(p, a) PROVE IInv'
  <2>1. mem[a] \in Byte /\ mem[a + 1] \in Byte
    BY <1>1, <1>3 DEF LW16
  <2>2. [regs EXCEPT ![p[2]] = mem[a], ![p[1]] = mem[a + 1]] \in Files
    BY Zenon, <1>1, <2>1 DEF Files
  <2>3. QED BY <1>3, <2>2, ComputeKeeps DEF LW16
<1>4. ASSUME NEW p \in Pairs, NEW a \in Cells, SW16(a, p) PROVE IInv'
  <2>1. regs[p[1]] \in Byte /\ regs[p[2]] \in Byte
    BY <1>1, WorkRegisters
  <2>2. QED BY <1>1, <1>4, <2>1, StoreKeeps DEF SW16
<1>5. ASSUME NEW a \in Cells, NEW w \in Words, SW16i(a, w) PROVE IInv'
  <2>1. mw(regs, F, Imm(Hi(w))) \in Files /\ Hi(w) \in Byte /\ Lo(w) \in Byte
    BY <1>1, HalvesAreOperands, MwIsFile
  <2>2. QED BY <1>5, <2>1, StoreKeeps DEF SW16i
<1>6. ASSUME NEW p \in Pairs, LW16HL(p) PROVE IInv'
  <2> DEFINE low == [regs EXCEPT ![p[2]] = mem[HL(regs)]]
             next == inc16(low, hlPair)
  <2>1. HL(regs) \in Cells /\ HL(next) \in Cells
        /\ Compute([next EXCEPT ![p[1]] = mem[HL(next)]])
    BY <1>6 DEF LW16HL
  <2>2. mem[HL(regs)] \in Byte
    BY <1>1, <2>1
  <2>3. low \in Files
    BY Zenon, <1>1, <2>2 DEF Files
  <2> HIDE DEF low
  <2>4. next \in Files
    BY <1>2, <2>3
  <2> HIDE DEF next
  <2>5. mem[HL(next)] \in Byte
    BY <1>1, <2>1
  <2>6. [next EXCEPT ![p[1]] = mem[HL(next)]] \in Files
    BY Zenon, <2>4, <2>5 DEF Files
  <2>7. QED BY <2>1, <2>6, ComputeKeeps
<1>7. ASSUME NEW p \in Pairs, SW16HL(p) PROVE IInv'
  <2> DEFINE next == inc16(regs, hlPair)
  <2>1. next \in Files
    BY <1>1, <1>2
  <2>2. Store(next, HL(regs), regs[p[2]], HL(next), next[p[1]])
    BY <1>7 DEF SW16HL
  <2> HIDE DEF next
  <2>3. regs[p[2]] \in Byte /\ next[p[1]] \in Byte
    BY <1>1, <2>1, WorkRegisters DEF Files
  <2>4. QED BY <2>1, <2>2, <2>3, StoreKeeps
<1>8. ASSUME NEW w \in Cells, LDAi(w) PROVE IInv'
  <2>1. lda(regs, w) \in Files
    BY <1>1, ConstantsAssumption, LdaIsFile
  <2>2. QED BY <1>8, <2>1, ComputeKeeps DEF LDAi
<1>9. QED BY <1>3, <1>4, <1>5, <1>6, <1>7, <1>8

LEMMA CallStepKeeps ==
  ASSUME IInv, NEW site \in Sites,
         \/ \E to \in Targets : CALL(site, to)
         \/ \E p \in Pairs : CALLr(site, p)
  PROVE  IInv'
<1>1. site \in Nat /\ site + 10 \in Word
  BY ConstantsAssumption
<1>2. /\ site + 9 \in Word /\ site + 2 + 7 = site + 9 /\ site + 2 + 8 = site + 10
  BY <1>1, WordBounds
<1>3. regs \in Files
  BY DEF IInv, TypeOK, Files
<1>4. ASSUME NEW to \in Targets, CALL(site, to) PROVE IInv'
  <2>1. lda(regs, to) \in Files
    BY <1>3, ConstantsAssumption, LdaIsFile
  <2>2. Lo(site + 2 + 7) = Lo(site + 9)
    BY <1>2
  <2>3. QED BY <1>2, <1>4, <2>1, <2>2, EnterKeeps DEF CALL
<1>5. ASSUME NEW p \in Pairs, CALLr(site, p) PROVE IInv'
  <2>1. Imm(0) \in AnyOperand
    BY ImmOperand, SmallBytes
  <2>2. ldaPair(regs, p) \in Files
    BY <1>3, <2>1, WorkRegisters, WordMacrosAreFiles
  <2>3. Lo(site + 2 + 8) = Lo(site + 10)
    BY <1>2
  <2>4. QED BY <1>1, <1>5, <2>2, <2>3, EnterKeeps DEF CALLr
<1>6. QED BY <1>4, <1>5

LEMMA NextKeeps == IInv /\ [Next]_vars => IInv'
<1> SUFFICES ASSUME IInv, [Next]_vars PROVE IInv'
  OBVIOUS
<1>1. CASE \E d \in Work, x \in Operands :
             CMP(d, x) \/ SUB(d, x) \/ NAND(d, x) \/ XNOR(d, x) \/ XOR(d, x)
  BY <1>1, ByteStepKeeps
<1>2. CASE \E d \in Work : INC(d) \/ FDEC(d) \/ DEC(d) \/ NOT(d)
  BY <1>2, UnaryStepKeeps
<1>3. CASE \E p \in Pairs :
             \/ INC16(p) \/ DEC16(p) \/ LDA(p)
             \/ \E d \in Work : ADD16b(p, Reg(d)) \/ SUB16b(p, Reg(d))
             \/ \E q \in Pairs : ADD16r(p, q) \/ SUB16r(p, q) \/ EQ16r(p, q)
             \/ \E w \in Words : ADD16i(p, w) \/ SUB16i(p, w) \/ EQ16i(p, w)
  BY <1>3, WordStepKeeps
<1>4. CASE \E to \in Targets :
             \/ \E c \in Comparisons, d \in Work, x \in Operands : Jcc(c, d, x, to)
             \/ \E c \in FlagJumps : JccF(c, to)
             \/ \E d \in Work : JZ(d, to)
             \/ \E d \in Work, x \in Operands : JMS(d, x, to) \/ JMN(d, x, to)
  BY <1>4, JumpStepKeeps
<1>5. CASE \/ \E p \in Pairs, a \in Cells : LW16(p, a) \/ SW16(a, p)
           \/ \E a \in Cells, w \in Words : SW16i(a, w)
           \/ \E p \in Pairs : LW16HL(p) \/ SW16HL(p)
           \/ \E w \in Cells : LDAi(w)
  BY <1>5, MemoryStepKeeps
<1>6. CASE \E site \in Sites : \/ \E to \in Targets : CALL(site, to)
                             \/ \E p \in Pairs : CALLr(site, p)
  BY <1>6, CallStepKeeps
<1>7. CASE RET \/ PUSHA \/ POPA
  BY <1>7, RetKeeps, PushaKeeps, PopaKeeps
<1>8. CASE CLF \/ \E n \in FlagWeights : ST(n) \/ CL(n)
  BY <1>8, FlagStepKeeps
<1>9. CASE UNCHANGED vars
  BY <1>9, FramesKept DEF vars, IInv, TypeOK
<1>10. QED
  BY <1>1, <1>2, <1>3, <1>4, <1>5, <1>6, <1>7, <1>8, <1>9 DEF Next

LEMMA Inductive == Spec => []IInv
BY InitIInv, NextKeeps, PTL DEF Spec
-----------------------------------------------------------------------------
(* Words in memory.                                                        *)
LEMMA NextAddress ==
  ASSUME NEW r \in Files
  PROVE  LET t == inc16(r, hlPair)
         IN  /\ HL(t) = ToWord(HL(r) + 1)
             /\ \A e \in Register \ {H, L, F} : t[e] = r[e]
<1>1. /\ hlPair \in (Register \ {F}) \X (Register \ {F}) /\ hlPair[1] # hlPair[2]
      /\ hlPair[1] = H /\ hlPair[2] = L
  BY Registers DEF hlPair
<1>2. Imm(0) \in AnyOperand /\ Imm(1) \in AnyOperand /\ 1 \in Byte
  BY SmallBytes, ImmOperand
<1>3. Imm(0) # Reg(hlPair[2]) /\ Imm(0) # Reg(F)
  BY ImmIsNotReg
<1> DEFINE t == add16(r, hlPair, Imm(0), Imm(1))
<1>4. /\ WordIn(t, hlPair) = ToWord(WordIn(r, hlPair) + Pair(Val(r, Imm(1)), Val(r, Imm(0))))
      /\ \A e \in Register \ {hlPair[1], hlPair[2], F} : t[e] = r[e]
  BY <1>1, <1>2, <1>3, Add16Effect
<1>5. Pair(Val(r, Imm(1)), Val(r, Imm(0))) = 1
  BY <1>2, ValOfImm, ByteIsShortWord
<1>6. inc16(r, hlPair) = t
  BY DEF inc16, add16
<1> HIDE DEF t
<1>7. WordIn(t, hlPair) = HL(t) /\ WordIn(r, hlPair) = HL(r)
  BY <1>1 DEF WordIn, HL
<1>8. QED BY <1>1, <1>4, <1>5, <1>6, <1>7

LEMMA SecondCell ==
  ASSUME NEW a \in Word
  PROVE  /\ ToWord(a + 1) # a
         /\ a + 1 \in Word => ToWord(a + 1) = a + 1
BY WordBounds DEF ToWord

LEMMA WordOperands ==
  ASSUME NEW p \in Pairs
  PROVE  /\ p[1] \in Register \ {H, L, F} /\ p[2] \in Register \ {H, L, F}
         /\ p[1] \in Register /\ p[2] \in Register /\ p[1] # p[2]
BY ConstantsAssumption DEF Pairs

LEMMA WordStored ==
  ASSUME IInv, NEW r, NEW a, NEW lo, NEW b, NEW hi, Store(r, a, lo, b, hi),
         b = ToWord(a + 1)
  PROVE  WordAt(mem', a) = Pair(lo, hi)
<1>1. /\ a \in Cells /\ b \in Cells /\ mem' = [mem EXCEPT ![a] = lo, ![b] = hi]
      /\ mem \in [Cells -> Byte]
  BY DEF Store, IInv, TypeOK
<1>2. a # b
  BY <1>1, ConstantsAssumption, SecondCell
<1>3. mem'[a] = lo /\ mem'[b] = hi
  BY <1>1, <1>2
<1>4. QED BY <1>3 DEF WordAt

LEMMA WordsKept ==
  ASSUME IInv, NEW p \in Pairs
  PROVE  /\ SW16HL(p) => /\ WordAt(mem', HL(regs)) = WordIn(regs, p)
                         /\ HL(regs') = ToWord(HL(regs) + 1)
         /\ LW16HL(p) => WordIn(regs', p) = WordAt(mem, HL(regs))
         /\ \A b \in Cells :
              /\ SW16(b, p) => WordAt(mem', b) = WordIn(regs, p)
              /\ LW16(p, b) => WordIn(regs', p) = WordAt(mem, b)
<1>1. regs \in Files /\ mem \in [Cells -> Byte] /\ {H, L} \subseteq Register
  BY Registers DEF IInv, TypeOK, Files
<1>2. /\ p[1] \in Register \ {H, L, F} /\ p[2] \in Register \ {H, L, F}
      /\ p[1] \in Register /\ p[2] \in Register /\ p[1] # p[2]
  BY WordOperands
<1>3. ASSUME SW16HL(p)
      PROVE  /\ WordAt(mem', HL(regs)) = WordIn(regs, p)
             /\ HL(regs') = ToWord(HL(regs) + 1)
  <2> DEFINE next == inc16(regs, hlPair)
  <2>1. Store(next, HL(regs), regs[p[2]], HL(next), next[p[1]])
    BY <1>3 DEF SW16HL
  <2>2. HL(next) = ToWord(HL(regs) + 1) /\ next[p[1]] = regs[p[1]]
    BY <1>1, <1>2, NextAddress
  <2> HIDE DEF next
  <2>3. WordAt(mem', HL(regs)) = Pair(regs[p[2]], next[p[1]])
    BY <2>1, <2>2, WordStored
  <2>4. regs' = next
    BY <2>1 DEF Store
  <2>5. QED BY <2>2, <2>3, <2>4 DEF WordIn
<1>4. ASSUME LW16HL(p) PROVE WordIn(regs', p) = WordAt(mem, HL(regs))
  <2> DEFINE low == [regs EXCEPT ![p[2]] = mem[HL(regs)]]
             next == inc16(low, hlPair)
  <2>1. /\ HL(regs) \in Cells /\ HL(next) \in Cells
        /\ regs' = [next EXCEPT ![p[1]] = mem[HL(next)]]
    BY <1>4 DEF LW16HL, Compute
  <2>2. mem[HL(regs)] \in Byte
    BY <1>1, <2>1
  <2>3. low \in Files
    BY Zenon, <1>1, <2>2 DEF Files
  <2>4. low[p[2]] = mem[HL(regs)] /\ low[H] = regs[H] /\ low[L] = regs[L]
    BY <1>1, <1>2 DEF Files
  <2>5. HL(low) = HL(regs)
    BY <2>4 DEF HL
  <2> HIDE DEF low
  <2>6. HL(next) = ToWord(HL(regs) + 1) /\ next[p[2]] = mem[HL(regs)]
    BY <1>2, <2>3, <2>4, <2>5, NextAddress
  <2>7. next \in Files
    <3>1. hlPair \in Register \X Register /\ Imm(0) \in AnyOperand
      BY Registers, ImmOperand, SmallBytes DEF hlPair
    <3>2. QED BY <2>3, <3>1, WordMacrosAreFiles
  <2> HIDE DEF next
  <2>8. regs'[p[1]] = mem[HL(next)] /\ regs'[p[2]] = mem[HL(regs)]
    BY <1>2, <2>1, <2>6, <2>7 DEF Files
  <2>9. QED BY <2>6, <2>8 DEF WordIn, WordAt
<1>5. ASSUME NEW b \in Cells, SW16(b, p)
      PROVE  WordAt(mem', b) = WordIn(regs, p)
  <2>1. Store(regs, b, regs[p[2]], b + 1, regs[p[1]])
    BY <1>5 DEF SW16
  <2>2. b + 1 = ToWord(b + 1)
    BY <2>1, ConstantsAssumption, SecondCell DEF Store
  <2>3. WordAt(mem', b) = Pair(regs[p[2]], regs[p[1]])
    BY <2>1, <2>2, WordStored
  <2>4. QED BY <2>3 DEF WordIn
<1>6. ASSUME NEW b \in Cells, LW16(p, b)
      PROVE  WordIn(regs', p) = WordAt(mem, b)
  <2>1. /\ b + 1 \in Cells
        /\ regs' = [regs EXCEPT ![p[2]] = mem[b], ![p[1]] = mem[b + 1]]
    BY <1>6 DEF LW16, Compute
  <2>2. b + 1 = ToWord(b + 1)
    BY <2>1, ConstantsAssumption, SecondCell
  <2>3. regs'[p[2]] = mem[b] /\ regs'[p[1]] = mem[b + 1]
    BY <1>1, <1>2, <2>1 DEF Files
  <2>4. QED BY <2>2, <2>3 DEF WordIn, WordAt
<1>7. QED BY <1>3, <1>4, <1>5, <1>6
-----------------------------------------------------------------------------
(* Registers, memory and stack hold bytes, jumps go to 16-bit addresses,   *)
(* after every sequence of macros.                                         *)
THEOREM MacroTypes == Spec => []TypeOK
<1>1. IInv => TypeOK
  BY DEF IInv
<1>2. QED BY <1>1, Inductive, PTL

(* Whatever macros ran before, the next 16-bit addition or decrement is    *)
(* exact modulo 2^16 and changes nothing but its pair and F.               *)
THEOREM WordsAreExact == Spec => []WordArithmetic
<1>1. IInv => WordArithmetic
  BY WordsRight DEF IInv, TypeOK, Files
<1>2. QED BY <1>1, Inductive, PTL

(* The macros on bytes compute what they are named for, for all operands,  *)
(* although each of them has to make do with F beside them.                *)
THEOREM BytesAreExact == Spec => []ByteResults
<1>1. IInv => ByteResults
  BY BytesRight DEF IInv, TypeOK, Files
<1>2. QED BY <1>1, Inductive, PTL

(* Every conditional jump with operands, other than JGE, is taken exactly  *)
(* if its condition holds, for all bytes.                                  *)
THEOREM JumpsAreRight == Spec => []JumpsRight
<1>1. IInv => JumpsRight
  BY JumpsDecide DEF IInv, TypeOK, Files
<1>2. QED BY <1>1, Inductive, PTL

(* The same of the jumps that use the flags an instruction has left.       *)
THEOREM FlagJumpsAreRight == Spec => []FlagJumpsRight
<1>1. IInv => FlagJumpsRight
  BY JumpsDecide DEF IInv, TypeOK, Files
<1>2. QED BY <1>1, Inductive, PTL

(* At every depth of nesting the stack is made of what the pending calls   *)
(* and PUSHAs have pushed.                                                 *)
THEOREM StackHoldsFrames == Spec => []FramesOnStack
<1>1. IInv => FramesOnStack
  BY DEF IInv
<1>2. QED BY <1>1, Inductive, PTL

(* What SW16 stores, LW16 loads, through HL as by address, wherever in     *)
(* memory the word lies.                                                   *)
THEOREM WordsStayInMemory == Spec => MemoryWords
<1>1. IInv =>
        \A p \in Pairs :
          /\ SW16HL(p) => /\ WordAt(mem', HL(regs)) = WordIn(regs, p)
                          /\ HL(regs') = ToWord(HL(regs) + 1)
          /\ LW16HL(p) => WordIn(regs', p) = WordAt(mem, HL(regs))
          /\ \A b \in Cells :
               /\ SW16(b, p) => WordAt(mem', b) = WordIn(regs, p)
               /\ LW16(p, b) => WordIn(regs', p) = WordAt(mem, b)
  BY WordsKept
<1>2. QED BY <1>1, Inductive, PTL DEF MemoryWords

(* RET returns behind the CALL it belongs to and POPA restores what its    *)
(* PUSHA saved.                                                            *)
THEOREM CallsDoReturn == Spec => CallsReturn
<1>1. IInv /\ [Next]_vars =>
        [/\ RET => goto' = Head(frames).to
         /\ POPA => \A d \in {A, B, C, D, Z} :
                      regs'[d] = Head(frames).regs[d]]_vars
  BY RetKeeps, PopaKeeps
<1>2. QED BY <1>1, Inductive, PTL DEF Spec, CallsReturn

(* "subtracts 16-bit constant from 16-bit number" (macros.asm:91): SUB16   *)
(* does not clear the borrow first, so that one that an earlier comparison *)
(* or addition has left is subtracted too, unless the low halves are equal *)
(* (then the borrow gets lost between the halves).                         *)
THEOREM Sub16TakesBorrow ==
  ASSUME NEW r \in Files, NEW p \in (Register \ {F}) \X (Register \ {F}),
         p[1] # p[2], NEW w \in Word,
         BitAt(r[F], F_BORROW) = 0 \/ Lo(w) # r[p[2]]
  PROVE  WordIn(sub16(r, p, Imm(Hi(w)), Imm(Lo(w))), p)
           = ToWord(WordIn(r, p) - w - BitAt(r[F], F_BORROW))
<1> DEFINE lo == r[p[2]]
           hi == r[p[1]]
           bl == Lo(w)
           bh == Hi(w)
           b == BitAt(r[F], F_BORROW)
           s == sbb(r, p[2], Imm(bl))
           t == sub16(r, p, Imm(bh), Imm(bl))
<1>1. /\ p[1] \in Register \ {F} /\ p[2] \in Register \ {F} /\ F \in Register
      /\ lo \in Byte /\ hi \in Byte /\ bl \in Byte /\ bh \in Byte /\ r[F] \in Byte
      /\ Imm(bl) \in AnyOperand /\ Imm(bh) \in AnyOperand
  BY HalvesAreBytes, ImmOperand, Registers DEF Files
<1>2. b \in {0, 1}
  BY <1>1, BitAtIs01, ByteBounds DEF F_BORROW
<1>3. s = [r EXCEPT ![p[2]] = ToByte(lo - bl - b), ![F] = FlagsOf(lo, bl)]
  BY <1>1, ValOfImm, SbbEffect
<1>4. s \in Files
  BY <1>1, InstructionsAreFiles
<1>5. s[p[1]] = hi /\ s[p[2]] = ToByte(lo - bl - b) /\ s[F] = FlagsOf(lo, bl)
  BY <1>1, <1>3 DEF Files
<1>6. BitAt(s[F], F_BORROW) = If01(bl > lo)
  BY <1>1, <1>5, FlagBits
<1>7. t = [s EXCEPT ![p[1]] = ToByte(hi - bh - If01(bl > lo)), ![F] = FlagsOf(hi, bh)]
  BY <1>1, <1>4, <1>5, <1>6, ValOfImm, SbbEffect DEF sub16
<1>8. t[p[1]] = ToByte(hi - bh - If01(bl > lo)) /\ t[p[2]] = ToByte(lo - bl - b)
  BY <1>1, <1>4, <1>5, <1>7 DEF Files
<1> HIDE DEF lo, hi, bl, bh, b, t
<1>9. Pair(t[p[2]], t[p[1]]) = ToWord(Pair(lo, hi) - Pair(bl, bh) - b)
  <2>1. b = 0 \/ bl # lo
    BY DEF b, bl, lo
  <2>2. QED BY <1>1, <1>2, <1>8, <2>1, BorrowByHalves
<1>10. Pair(bl, bh) = w
  BY HalvesMakeWord DEF bl, bh
<1>11. QED BY <1>9, <1>10 DEF WordIn, lo, hi, b, bl, bh, t

(* "jump if greater than or equal" (macros.asm:360): the mask of JGE clears *)
(* no bit of F but the lowest before it inverts, so that the jump is taken *)
(* whatever has been compared.                                             *)
THEOREM JgeAlwaysTaken == \A r \in Files : Taken("JGE", r)
<1> SUFFICES ASSUME NEW r \in Files PROVE Taken("JGE", r)
  OBVIOUS
<1> DEFINE g == And(r[F], 1)
           s == [r EXCEPT ![F] = g]
<1>1. F \in Register /\ r[F] \in Byte /\ Imm(1) \in AnyOperand
  BY Registers, ImmOperand, SmallBytes DEF Files
<1>2. g \in {0, 1} /\ g \in Byte /\ g \in 0 .. 15
  BY <1>1, MaskOne, BitAtIs01, ByteBounds
<1>3. s \in Files /\ s[F] = g
  BY <1>1, <1>2 DEF Files
<1>4. nand(r, F, Imm(1)) = not(s, F)
  BY <1>1, AndEffect, ValOfImm DEF nand
<1>5. not(s, F) = [s EXCEPT ![F] = 255 - g]
  <2> HIDE DEF g, s
  <2>1. not(s, F) = [s EXCEPT ![F] = Nor(s[F], s[F])]
    BY <1>3, NotEffect
  <2>2. Nor(g, g) = 255 - g
    BY <1>2, InvertedFlags
  <2>3. QED BY <1>3, <2>1, <2>2
<1>6. 255 - g \in Byte /\ And(255 - g, 3) # 0
  <2>1. 255 - g \in Byte
    BY <1>2, ByteBounds
  <2>2. And(255 - g, 3) = BitAt(255 - g, 1) + 2 * BitAt(255 - g, 2)
    BY <2>1, MaskOne
  <2>3. CASE g = 0
    BY <2>1, <2>2, <2>3 DEF BitAt
  <2>4. CASE g = 1
    BY <2>1, <2>2, <2>4 DEF BitAt
  <2>5. QED BY <1>2, <2>1, <2>3, <2>4
<1>7. not(s, F) \in Files /\ not(s, F)[F] = 255 - g
  BY ZenonT(40), <1>1, <1>3, <1>5, <1>6 DEF Files
<1>8. test("JGE", r) = mask(not(s, F), 3)
  BY <1>4 DEF test
<1>9. mask(not(s, F), 3)[F] = And(255 - g, 3)
  BY ZenonT(40), <1>1, <1>7, MaskEffect DEF Files
<1>10. QED BY <1>6, <1>8, <1>9 DEF Taken
-----------------------------------------------------------------------------
(* The library of the operating system. The invariant says for each label  *)
(* of OsLib what the code before it has made of the registers the routine  *)
(* was entered with, what it has pushed, and what it has done to memory.   *)
General == {A, B, C, D, Z}

(* Who calls whom: the labels of a routine, and the routine called with a  *)
(* return label.                                                           *)
Inside(routine) ==
  {routine} \cup
  (CASE routine = "mul" -> {"mul.loop", "mul.done"}
     [] routine = "mul16_8" -> {"mul16_8.loop", "mul16_8.done"}
     [] routine = "mul16" -> {"mul16.loop", "mul16.done"}
     [] routine = "cmp16" -> {"cmp16.back"}
     [] routine = "shl" -> {"shl.shift", "shl.done"}
     [] routine = "shl16" -> {"shl16.shift", "shl16.done"}
     [] routine = "shr" -> {"shr.shift", "shr.done"}
     [] routine = "strlen" -> {"strlen.loop", "strlen.done"}
     [] routine = "memcpy" -> {"memcpy.loop", "memcpy.done"}
     [] routine = "memcpy16" -> {"memcpy16.loop", "memcpy16.back", "memcpy16.done"}
     [] routine = "memset" -> {"memset.loop", "memset.done"}
     [] routine = "set_pixel" -> {"set_pixel.line", "set_pixel.byte",
                                  "set_pixel.mask", "set_pixel.done"})
Backs == {"cmp16.back", "memcpy16.back", "memcpy16.done", "set_pixel.line",
          "set_pixel.byte", "set_pixel.mask"}
Called(back) ==
  CASE back \in {"cmp16.back", "set_pixel.byte"} -> "shr"
    [] back \in {"memcpy16.back", "memcpy16.done"} -> "memcpy"
    [] back = "set_pixel.line" -> "mul16_8"
    [] back = "set_pixel.mask" -> "shl"
Direct == <<"program">>
Via(back) == <<back, "program">>
Calling ==
  \/ calls = << >> /\ at = "program"
  \/ calls = Direct /\ at \in Inside(request.routine)
  \/ \E back \in Backs : /\ calls = Via(back) /\ back \in Inside(request.routine)
                         /\ at \in Inside(Called(back))

(* Flags of the halves of cmp16's operands; set_pixel's scan line.         *)
HighFlags == FlagsOf(Was(A), Was(C))
LowFlags == FlagsOf(Was(B), Was(D))
ScanLine == ADDR_BANK + SCANLINE_WIDTH_BYTES * Was(B)

(* What is in register d when the routine execution is in is entered, and  *)
(* what is on the stack then. (What memcpy16 calls memcpy with is said in  *)
(* MemcpyCalled.)                                                          *)
Entry(d) ==
  CASE calls = Direct -> Was(d)
    [] calls = Via("cmp16.back") -> IF d \in {A, B} THEN HighFlags ELSE Was(d)
    [] calls = Via("set_pixel.line") ->
         (CASE d = A -> 0 [] d = B -> Was(B) [] d = C -> SCANLINE_WIDTH_BYTES
            [] d = D -> Was(A) [] d = Z -> Was(C))
    [] calls = Via("set_pixel.byte") ->
         (CASE d = A -> Was(A) [] d = B -> 3 [] d = C -> SCANLINE_WIDTH_BYTES
            [] d = D -> Was(A) [] d = Z -> Was(C))
    [] calls = Via("set_pixel.mask") ->
         (CASE d = A -> 1 [] d = B -> Was(A) % 8 [] d = C -> Was(A) \div 2
            [] d = D -> Was(A) % 8 [] d = Z -> Was(C))
SavedAll == <<Was(Z), Was(D), Was(C), Was(B), Was(A)>>
Base ==
  CASE calls = Direct -> << >>
    [] calls = Via("cmp16.back") -> <<LowFlags, HighFlags, Was(B), Was(A)>>
    [] calls = Via("set_pixel.byte") -> <<Lo(ScanLine), Hi(ScanLine)>> \o SavedAll
    [] calls = Via("set_pixel.mask") -> <<Lo(Dot), Hi(Dot)>> \o SavedAll
    [] OTHER -> SavedAll
AsEntered(S) == \A d \in S : regs[d] = Entry(d)
-----------------------------------------------------------------------------
(* The claims, label by label.                                             *)
Fresh == stack = Base /\ AsEntered(General)

AtMulLoop ==
  /\ stack = <<Entry(C), Entry(B)>> \o Base /\ AsEntered({D, Z})
  /\ regs[B] = Was(A) /\ regs[C] \in 1 .. Was(B)
  /\ regs[A] = ToByte(Was(A) * (Was(B) - regs[C]))
AtMulDone ==
  /\ stack = <<Entry(C), Entry(B)>> \o Base /\ AsEntered({D, Z})
  /\ regs[A] = ToByte(Was(A) * Was(B))

Factor == Pair(Entry(B), Entry(A))
AtMul16by8Loop ==
  /\ stack = <<Entry(Z), Entry(D), Entry(C)>> \o Base
  /\ regs[D] = Entry(A) /\ regs[Z] = Entry(B) /\ regs[C] \in 1 .. Entry(C)
  /\ WordIn(regs, AB) = ToWord(Factor * (Entry(C) - regs[C]))
AtMul16by8Done ==
  /\ stack = <<Entry(Z), Entry(D), Entry(C)>> \o Base
  /\ WordIn(regs, AB) = ToWord(Factor * Entry(C))

AtMul16Loop ==
  /\ stack = <<Entry(Z), Entry(D), Entry(C)>> \o Base
  /\ mem[D0] = Was(B) /\ mem[D0 + 1] = Was(A)
  /\ WordIn(regs, CD) \in 1 .. WasCD
  /\ WordIn(regs, AB) = ToWord(WasAB * (WasCD - WordIn(regs, CD)))
AtMul16Done ==
  /\ stack = <<Entry(Z), Entry(D), Entry(C)>> \o Base
  /\ WordIn(regs, AB) = IF WasCD = 0 THEN WasAB ELSE ToWord(WasAB * WasCD)

AtCmp16Back ==
  /\ stack = <<LowFlags, HighFlags, Was(B), Was(A)>>
  /\ \A d \in {C, D, Z} : regs[d] = Was(d)
  /\ regs[A] = HighFlags \div 2

AtShlShift ==
  /\ stack = <<Entry(B)>> \o Base /\ AsEntered({C, D, Z})
  /\ regs[B] \in 1 .. Entry(B)
  /\ regs[A] = ToByte(Entry(A) * Power(Entry(B) - regs[B]))
AtShlDone ==
  /\ stack = <<Entry(B)>> \o Base /\ AsEntered({C, D, Z})
  /\ regs[A] = ToByte(Entry(A) * Power(Entry(B)))

AtShl16Shift ==
  /\ stack = <<Entry(C)>> \o Base /\ AsEntered({D, Z}) /\ regs[C] \in 1 .. Was(C)
  /\ WordIn(regs, AB) = ToWord(WasAB * Power(Was(C) - regs[C]))
AtShl16Done ==
  /\ stack = <<Entry(C)>> \o Base /\ AsEntered({D, Z})
  /\ WordIn(regs, AB) = ToWord(WasAB * Power(Was(C)))

(* The halves of shr and what is left of the number make the number; after *)
(* a pass less than 2 is left.                                             *)
AtShrShift ==
  /\ stack = <<Entry(C), Entry(B)>> \o Base /\ AsEntered({D, Z})
  /\ regs[B] \in 1 .. Entry(B)
  /\ 2 * regs[A] + regs[C] = Entry(A)
AtShrDone ==
  /\ stack = <<Entry(C), Entry(B)>> \o Base /\ AsEntered({D, Z})
  /\ regs[A] = IF Entry(B) = 0 THEN Entry(A) ELSE Entry(A) \div 2

(* The first n bytes are not zero, and Z has counted them.                 *)
Passed(n) == /\ regs[Z] = ToByte(n)
             /\ \A i \in 0 .. n - 1 : Start[ToWord(WasAB + i)] # 0
AtStrlenLoop ==
  /\ stack = <<Entry(C), Entry(B), Entry(A)>> \o Base /\ AsEntered({D})
  /\ \E n \in Word : WordIn(regs, AB) = ToWord(WasAB + n) /\ Passed(n)
AtStrlenDone ==
  /\ stack = <<Entry(C), Entry(B), Entry(A)>> \o Base /\ AsEntered({D})
  /\ \E n \in Word : Start[ToWord(WasAB + n)] = 0 /\ Passed(n)

(* The registers memcpy was called with: they are on the stack later.      *)
Asked(d) ==
  IF at = "memcpy" THEN regs[d]
  ELSE CASE d = A -> stack[5] [] d = B -> stack[4] [] d = C -> stack[3]
         [] d = D -> stack[2] [] d = Z -> stack[1]
AskedAB == Pair(Asked(B), Asked(A))
AskedCD == Pair(Asked(D), Asked(C))
Asking == <<Asked(Z), Asked(D), Asked(C), Asked(B), Asked(A)>>

(* What a copy must not meet for its promise, in one piece and in several. *)
MayCopy == Copies(WasCD, WasAB, Was(Z))
MayPiece == /\ Copies(WasCD, WasAB, request.d0)
            /\ Apart(WasCD, request.d0) /\ Apart(WasAB, request.d0)
Pieced(n) == Outside(mem) = Outside(Shifted(WasCD, WasAB, n))

(* The length memcpy16 has left. memcpy is called when n bytes have been   *)
(* moved, and moves the rest, or a piece of 255 bytes.                     *)
Rest == Pair(mem[D0], mem[D0 + 1])
MemcpyCalled(n) ==
  /\ \A d \in General : Asked(d) \in Byte
  /\ calls = Direct => n = 0 /\ \A d \in General : Asked(d) = Was(d)
  /\ calls # Direct /\ MayPiece =>
       /\ AskedAB = ToWord(WasAB + n) /\ AskedCD = ToWord(WasCD + n)
       /\ calls = Via("memcpy16.done") => n + Rest = request.d0 /\ Asked(Z) = Rest
       /\ calls = Via("memcpy16.back") => n + 255 + Rest = request.d0 /\ Asked(Z) = 255
Moved(n) ==
  /\ calls = Direct /\ MayCopy => mem = Shifted(WasCD, WasAB, n)
  /\ calls # Direct /\ MayPiece => Pieced(n)
AtMemcpy == stack = Base /\ \E n \in Word : MemcpyCalled(n) /\ Moved(n)
AtMemcpyLoop ==
  /\ stack = Asking \o Base
  /\ \E n \in Word, i \in Byte :
       /\ MemcpyCalled(n) /\ Moved(n + i)
       /\ i < Asked(Z) /\ regs[Z] = Asked(Z) - i
       /\ WordIn(regs, AB) = ToWord(AskedAB + i)
       /\ WordIn(regs, CD) = ToWord(AskedCD + i)
AtMemcpyDone ==
  /\ stack = Asking \o Base
  /\ \E n \in Word, i \in Byte : MemcpyCalled(n) /\ i = Asked(Z) /\ Moved(n + i)

Reached(n) == /\ WordIn(regs, AB) = ToWord(WasAB + n)
              /\ WordIn(regs, CD) = ToWord(WasCD + n)
AtMemcpy16Loop ==
  /\ stack = SavedAll
  /\ MayPiece => \E n \in Word : n + Rest = request.d0 /\ Reached(n) /\ Pieced(n)
AtMemcpy16Back ==
  /\ stack = SavedAll
  /\ MayPiece => \E n \in Word : /\ n + 255 + Rest = request.d0
                               /\ Reached(n) /\ Pieced(n + 255)
AtMemcpy16Done == stack = SavedAll /\ (MayPiece => Pieced(request.d0))

AtMemsetLoop ==
  /\ stack = SavedAll
  /\ regs[Z] = Was(Z) /\ WordIn(regs, CD) = ToWord(WasAB + WasCD)
  /\ \E k \in 0 .. WasCD : /\ WordIn(regs, AB) = ToWord(WasAB + k)
                           /\ mem = Filled(WasAB, k, Was(Z))
AtMemsetDone == stack = SavedAll /\ mem = Filled(WasAB, WasCD, Was(Z))

AtSetPixelLine ==
  /\ stack = SavedAll
  /\ WordIn(regs, AB) = SCANLINE_WIDTH_BYTES * Was(B)
  /\ regs[C] = SCANLINE_WIDTH_BYTES /\ regs[D] = Was(A) /\ regs[Z] = Was(C)
AtSetPixelByte ==
  /\ stack = <<Lo(ScanLine), Hi(ScanLine)>> \o SavedAll
  /\ regs[A] = Was(A) \div 2 /\ regs[D] = Was(A) /\ regs[Z] = Was(C)
AtSetPixelMask ==
  /\ stack = <<Lo(Dot), Hi(Dot)>> \o SavedAll
  /\ regs[A] = Mask /\ regs[Z] = Was(C)
AtSetPixelDone ==
  /\ stack = SavedAll
  /\ mem = [Start EXCEPT ![Dot] = IF Was(C) # 0 THEN Or(@, Mask)
                                  ELSE And(@, ByteMax - Mask)]
AtProgram == ProductsRight /\ OrderRight /\ MemoryRight /\ RegistersKept

Claims ==
  /\ at \in Routines \ {"memcpy"} => Fresh
  /\ at = "mul.loop" => AtMulLoop
  /\ at = "mul.done" => AtMulDone
  /\ at = "mul16_8.loop" => AtMul16by8Loop
  /\ at = "mul16_8.done" => AtMul16by8Done
  /\ at = "mul16.loop" => AtMul16Loop
  /\ at = "mul16.done" => AtMul16Done
  /\ at = "cmp16.back" => AtCmp16Back
  /\ at = "shl.shift" => AtShlShift
  /\ at = "shl.done" => AtShlDone
  /\ at = "shl16.shift" => AtShl16Shift
  /\ at = "shl16.done" => AtShl16Done
  /\ at = "shr.shift" => AtShrShift
  /\ at = "shr.done" => AtShrDone
  /\ at = "strlen.loop" => AtStrlenLoop
  /\ at = "strlen.done" => AtStrlenDone
  /\ at = "memcpy" => AtMemcpy
  /\ at = "memcpy.loop" => AtMemcpyLoop
  /\ at = "memcpy.done" => AtMemcpyDone
  /\ at = "memcpy16.loop" => AtMemcpy16Loop
  /\ at = "memcpy16.back" => AtMemcpy16Back
  /\ at = "memcpy16.done" => AtMemcpy16Done
  /\ at = "memset.loop" => AtMemsetLoop
  /\ at = "memset.done" => AtMemsetDone
  /\ at = "set_pixel.line" => AtSetPixelLine
  /\ at = "set_pixel.byte" => AtSetPixelByte
  /\ at = "set_pixel.mask" => AtSetPixelMask
  /\ at = "set_pixel.done" => AtSetPixelDone
  /\ at = "program" => AtProgram

(* Before the routine of the call has written to memory.                   *)
Unwritten ==
  /\ request.routine \notin {"mul16", "memcpy", "memcpy16", "memset"}
     /\ at \notin {"set_pixel.done", "program"} => mem = Start
  /\ request.routine = "mul16" => Outside(mem) = Outside(Start)
  /\ at \in {"memset", "memcpy16"} => mem = Start

LibShape ==
  /\ regs \in [Register -> Byte]
  /\ mem \in [DOMAIN Contents -> Byte]
  /\ request \in Requests
  /\ Calling
LibInv == LibShape /\ Unwritten /\ Claims

-----------------------------------------------------------------------------
(* Effects of code on the register file: s is r but for the registers in S. *)
Only(s, r, S) == s \in Files /\ \A d \in Register \ S : s[d] = r[d]

LEMMA OnlyTrans ==
  ASSUME NEW r, NEW s, NEW t, NEW S, NEW T, Only(s, r, S), Only(t, s, T)
  PROVE  Only(t, r, S \cup T)
BY DEF Only

LEMMA OnlyIsFile == \A s, r, S : Only(s, r, S) => s \in Files
BY DEF Only

LEMMA RegistersAre ==
  /\ {A, B, C, D, L, H, Z, F} = Register
  /\ {A, B, C, D, L, H, Z, F} \subseteq Register
  /\ General = {A, B, C, D, Z}
  /\ Imm(0) \in AnyOperand /\ Imm(1) \in AnyOperand /\ Imm(7) \in AnyOperand
  /\ Imm(2) \in AnyOperand
  /\ \A d \in Register : Reg(d) \in AnyOperand
<1>1. 0 \in Byte /\ 1 \in Byte /\ 7 \in Byte /\ 2 \in Byte
  BY ByteBounds
<1>2. QED BY <1>1, Registers, ImmOperand, RegOperand DEF General

LEMMA MwOnly ==
  ASSUME NEW r \in Files, NEW d \in Register, NEW x \in AnyOperand
  PROVE  Only(mw(r, d, x), r, {d}) /\ mw(r, d, x)[d] = Val(r, x)
<1>1. Val(r, x) \in Byte
  BY ValIsByte
<1>2. QED BY <1>1 DEF mw, Only, Files

LEMMA JumpedOnly ==
  ASSUME NEW r \in Files
  PROVE  Only(jumped(r), r, {H, L})
<1>1. jumped(r) \in Files
  BY OsLibAssumption, LdaIsFile DEF jumped
<1>2. QED BY <1>1 DEF jumped, lda, Only, Files

LEMMA JnzOnly ==
  ASSUME NEW r \in Files
  PROVE  Only(jnz(r), r, {H, L})
BY JumpedOnly DEF jnz

LEMMA AddOnly ==
  ASSUME NEW r \in Files, NEW d \in Register \ {F}, NEW x \in AnyOperand
  PROVE  /\ Only(add(r, d, x), r, {d, F})
         /\ add(r, d, x)[d] = ToByte(r[d] + Val(r, x))
<1>1. add(r, d, x) \in Files
  BY InstructionsAreFiles
<1>2. d \in Register /\ F \in Register /\ d # F
  BY RegistersAre
<1>3. QED BY <1>1, <1>2, AddEffect DEF Only, Files

LEMMA CmpOnly ==
  ASSUME NEW r \in Files, NEW d \in Register, NEW x \in AnyOperand
  PROVE  Only(cmp(r, d, x), r, {F}) /\ cmp(r, d, x)[F] = FlagsOf(r[d], Val(r, x))
<1>1. cmp(r, d, x) \in Files
  BY InstructionsAreFiles
<1>2. QED BY <1>1, CmpEffect, RegistersAre DEF Only, Files

LEMMA AndOnly ==
  ASSUME NEW r \in Files, NEW d \in Register, NEW x \in AnyOperand
  PROVE  Only(and(r, d, x), r, {d}) /\ and(r, d, x)[d] = And(r[d], Val(r, x))
<1>1. and(r, d, x) \in Files
  BY InstructionsAreFiles
<1>2. QED BY <1>1, AndEffect DEF Only, Files

LEMMA OrOnly ==
  ASSUME NEW r \in Files, NEW d \in Register, NEW x \in AnyOperand
  PROVE  Only(or(r, d, x), r, {d}) /\ or(r, d, x)[d] = Or(r[d], Val(r, x))
<1>1. or(r, d, x) \in Files
  BY InstructionsAreFiles
<1>2. QED BY <1>1, OrEffect DEF Only, Files

LEMMA NotOnly ==
  ASSUME NEW r \in Files, NEW d \in Register
  PROVE  Only(not(r, d), r, {d}) /\ not(r, d)[d] = 255 - r[d]
<1>1. not(r, d) \in Files
  BY ByteMacrosAreFiles, RegistersAre
<1>2. QED BY <1>1, NotInverts DEF Only, Files

LEMMA ClbOnly ==
  ASSUME NEW r \in Files
  PROVE  Only(clb(r), r, {F}) /\ BitAt(clb(r)[F], F_BORROW) = 0
<1>1. /\ F \in Register /\ Imm(247) \in AnyOperand /\ 247 \in Byte /\ r[F] \in Byte
  BY RegistersAre, ImmOperand, SmallBytes DEF Files
<1>2. /\ Only(and(r, F, Imm(247)), r, {F})
      /\ and(r, F, Imm(247))[F] = And(r[F], 247)
  BY <1>1, AndOnly, ValOfImm
<1>3. QED BY <1>1, <1>2, BorrowCleared DEF clb, F_BORROW

LEMMA DecOnly ==
  ASSUME NEW r \in Files, NEW d \in Register \ {F}
  PROVE  Only(dec(r, d), r, {d, F}) /\ dec(r, d)[d] = ToByte(r[d] - 1)
<1>1. /\ Imm(1) # Reg(F) /\ Val(r, Imm(1)) = 1
  BY ImmIsNotReg, ValOfImm
<1>2. dec(r, d) \in Files
  BY ByteMacrosAreFiles, RegistersAre
<1>3. QED BY <1>1, <1>2, RegistersAre, SubEffect DEF dec, Only

LEMMA SubOnly ==
  ASSUME NEW r \in Files, NEW d \in Register \ {F}, NEW n \in Byte
  PROVE  /\ Only(sub(r, d, Imm(n)), r, {d, F})
         /\ sub(r, d, Imm(n))[d] = ToByte(r[d] - n)
<1>1. Imm(n) # Reg(F) /\ Val(r, Imm(n)) = n /\ Imm(n) \in AnyOperand
  BY ImmIsNotReg, ValOfImm, ImmOperand
<1>2. sub(r, d, Imm(n)) \in Files
  BY Zenon, <1>1, ByteMacrosAreFiles
<1>3. QED BY <1>1, <1>2, SubEffect DEF sub, Only

(* Pairs of registers.                                                     *)
LEMMA PairsAre ==
  /\ \A p \in {AB, CD} : /\ p \in (Register \ {F}) \X (Register \ {F})
                         /\ p \in Register \X Register /\ p[1] # p[2]
  /\ AB[1] = A /\ AB[2] = B /\ CD[1] = C /\ CD[2] = D
BY RegistersAre, Registers DEF AB, CD

LEMMA Add16Only ==
  ASSUME NEW r \in Files, NEW p \in {AB, CD}, NEW x \in AnyOperand,
         NEW y \in AnyOperand, y # Reg(p[2]), y # Reg(F)
  PROVE  /\ Only(add16(r, p, y, x), r, {p[1], p[2], F})
         /\ WordIn(add16(r, p, y, x), p)
              = ToWord(WordIn(r, p) + Pair(Val(r, x), Val(r, y)))
<1>1. add16(r, p, y, x) \in Files
  BY Zenon, PairsAre, WordMacrosAreFiles
<1>2. QED BY <1>1, PairsAre, Add16Effect DEF Only

LEMMA AddWordOnly ==
  ASSUME NEW r \in Files, NEW p \in {AB, CD}, NEW lo \in Byte, NEW hi \in Byte
  PROVE  /\ Only(add16(r, p, Imm(hi), Imm(lo)), r, {p[1], p[2], F})
         /\ WordIn(add16(r, p, Imm(hi), Imm(lo)), p)
              = ToWord(WordIn(r, p) + Pair(lo, hi))
<1>1. /\ Imm(lo) \in AnyOperand /\ Imm(hi) \in AnyOperand
      /\ Imm(hi) # Reg(p[2]) /\ Imm(hi) # Reg(F)
      /\ Val(r, Imm(lo)) = lo /\ Val(r, Imm(hi)) = hi
  BY ImmOperand, ImmIsNotReg, ValOfImm
<1> DEFINE x == Imm(lo)
           y == Imm(hi)
<1>2. /\ x \in AnyOperand /\ y \in AnyOperand /\ y # Reg(p[2]) /\ y # Reg(F)
      /\ Val(r, x) = lo /\ Val(r, y) = hi
  BY <1>1
<1> HIDE DEF x, y
<1>3. /\ Only(add16(r, p, y, x), r, {p[1], p[2], F})
      /\ WordIn(add16(r, p, y, x), p)
           = ToWord(WordIn(r, p) + Pair(Val(r, x), Val(r, y)))
  BY Zenon, <1>2, Add16Only
<1>4. QED BY <1>2, <1>3 DEF x, y

LEMMA Add16bOnly ==
  ASSUME NEW r \in Files, NEW x \in AnyOperand
  PROVE  /\ Only(add16b(r, AB, x), r, {A, B, F})
         /\ WordIn(add16b(r, AB, x), AB) = ToWord(WordIn(r, AB) + Val(r, x))
<1>1. add16b(r, AB, x) = add16(r, AB, Imm(0), x)
  BY DEF add16b, add16
<1>2. /\ Imm(0) # Reg(AB[2]) /\ Imm(0) # Reg(F) /\ Val(r, Imm(0)) = 0
  BY ImmIsNotReg, ValOfImm
<1>3. Val(r, x) \in Byte /\ Pair(Val(r, x), 0) = Val(r, x)
  BY ValIsByte, ByteIsShortWord
<1> DEFINE y == Imm(0)
<1>4. y \in AnyOperand /\ y # Reg(AB[2]) /\ y # Reg(F) /\ Val(r, y) = 0
  BY <1>2, RegistersAre
<1> HIDE DEF y
<1>5. /\ Only(add16(r, AB, y, x), r, {AB[1], AB[2], F})
      /\ WordIn(add16(r, AB, y, x), AB)
           = ToWord(WordIn(r, AB) + Pair(Val(r, x), Val(r, y)))
  BY <1>4, Add16Only
<1>6. QED BY <1>1, <1>3, <1>4, <1>5, PairsAre DEF y

LEMMA Dec16Only ==
  ASSUME NEW r \in Files, NEW p \in {AB, CD}
  PROVE  /\ Only(dec16(r, p), r, {p[1], p[2], F})
         /\ WordIn(dec16(r, p), p) = ToWord(WordIn(r, p) - 1)
<1>1. dec16(r, p) \in Files
  BY Zenon, PairsAre, WordMacrosAreFiles, RegistersAre
<1>2. QED BY <1>1, PairsAre, Dec16Effect DEF Only

LEMMA LdaPairOnly ==
  ASSUME NEW r \in Files, NEW p \in {AB, CD}
  PROVE  Only(ldaPair(r, p), r, {H, L}) /\ HL(ldaPair(r, p)) = WordIn(r, p)
<1> DEFINE s == mw(r, H, Reg(p[1]))
<1>1. p[1] \in Register /\ p[2] \in Register /\ p[2] # H /\ p[1] \notin {H, L}
  BY PairsAre, Registers
<1> DEFINE x == Reg(p[1])
           y == Reg(p[2])
           t == mw(s, L, y)
<1>a. /\ x \in AnyOperand /\ Val(r, x) = r[p[1]]
      /\ y \in AnyOperand /\ Val(s, y) = s[p[2]]
      /\ H \in Register /\ L \in Register
  BY <1>1, RegOperand, ValOfReg, Registers
<1>b. Only(s, r, {H}) /\ s[H] = Val(r, x)
  <2> HIDE DEF x
  <2>1. QED BY <1>a, MwOnly DEF x
<1>2. Only(s, r, {H}) /\ s[H] = r[p[1]] /\ s[p[2]] = r[p[2]] /\ s \in Files
  BY <1>1, <1>a, <1>b DEF Only
<1>3. Only(t, s, {L}) /\ t[L] = s[p[2]]
  <2> HIDE DEF y, s
  <2>1. Only(mw(s, L, y), s, {L}) /\ mw(s, L, y)[L] = Val(s, y)
    BY <1>2, <1>a, MwOnly
  <2>2. QED BY <2>1, <1>a
<1>4. H # L
  BY Registers
<1>5. Only(ldaPair(r, p), r, {H, L})
  BY <1>2, <1>3 DEF ldaPair, Only
<1>6. ldaPair(r, p)[H] = r[p[1]] /\ ldaPair(r, p)[L] = r[p[2]]
  BY <1>2, <1>3, <1>4, RegistersAre DEF ldaPair, Only
<1>7. QED BY <1>5, <1>6 DEF HL, WordIn

-----------------------------------------------------------------------------
(* Several registers pushed and popped.                                    *)
LEMMA PushedAre ==
  ASSUME NEW r, NEW s
  PROVE  /\ \A x \in Register : pushed(r, s, <<x>>) = <<r[x]>> \o s
         /\ \A x, y \in Register : pushed(r, s, <<x, y>>) = <<r[y], r[x]>> \o s
         /\ \A x, y, z \in Register :
              pushed(r, s, <<x, y, z>>) = <<r[z], r[y], r[x]>> \o s
<1>1. ASSUME NEW x \in Register PROVE pushed(r, s, <<x>>) = <<r[x]>> \o s
  <2>1. Reverse([i \in DOMAIN <<x>> |-> r[<<x>>[i]]]) = <<r[x]>>
    BY DEF Reverse
  <2>2. QED BY Zenon, <2>1 DEF pushed
<1>2. ASSUME NEW x \in Register, NEW y \in Register
      PROVE  pushed(r, s, <<x, y>>) = <<r[y], r[x]>> \o s
  <2>1. Reverse([i \in DOMAIN <<x, y>> |-> r[<<x, y>>[i]]]) = <<r[y], r[x]>>
    BY DEF Reverse
  <2>2. QED BY Zenon, <2>1 DEF pushed
<1>3. ASSUME NEW x \in Register, NEW y \in Register, NEW z \in Register
      PROVE  pushed(r, s, <<x, y, z>>) = <<r[z], r[y], r[x]>> \o s
  <2>1. Reverse([i \in DOMAIN <<x, y, z>> |-> r[<<x, y, z>>[i]]]) = <<r[z], r[y], r[x]>>
    BY DEF Reverse
  <2>2. QED BY Zenon, <2>1 DEF pushed
<1>4. QED BY Zenon, <1>1, <1>2, <1>3

LEMMA PushedTwo ==
  ASSUME NEW r, NEW s, NEW x \in Register, NEW y \in Register
  PROVE  pushed(r, s, <<x, y>>) = <<r[y], r[x]>> \o s
BY Zenon, PushedAre

LEMMA PushedThree ==
  ASSUME NEW r, NEW s, NEW x \in Register, NEW y \in Register, NEW z \in Register
  PROVE  pushed(r, s, <<x, y, z>>) = <<r[z], r[y], r[x]>> \o s
BY ZenonT(40), PushedAre

LEMMA AllPushed ==
  ASSUME NEW r, NEW s
  PROVE  pushed(r, s, All) = <<r[Z], r[D], r[C], r[B], r[A]>> \o s
<1>1. Reverse([i \in DOMAIN All |-> r[All[i]]]) = <<r[Z], r[D], r[C], r[B], r[A]>>
  BY DEF Reverse, All
<1>2. QED BY Zenon, <1>1 DEF pushed

(* What is popped, off a stack on which saved was pushed last.             *)
OneToOne(list) == \A i, j \in 1 .. Len(list) : list[i] = list[j] => i = j
Restored(t, r, list, saved) ==
  /\ t \in Files
  /\ \A i \in 1 .. Len(list) : t[list[i]] = saved[i]
  /\ \A d \in Register : (\A i \in 1 .. Len(list) : list[i] # d) => t[d] = r[d]

LEMMA PoppedAre ==
  ASSUME NEW r \in Files, NEW list \in Seq(Register), NEW saved \in Seq(Byte),
         NEW base \in Seq(Byte), Len(saved) = Len(list), Len(saved) > 0,
         OneToOne(list)
  PROVE  /\ Restored(popped(r, saved \o base, list), r, list, saved)
         /\ dropped(saved \o base, list) = base
<1> DEFINE s == saved \o base
           I(d) == {i \in DOMAIN list : list[i] = d}
           v(d) == IF I(d) = {} THEN r[d] ELSE s[CHOOSE i \in I(d) : TRUE]
           t == [d \in Register |-> v(d)]
<1>1. /\ DOMAIN list = 1 .. Len(list) /\ DOMAIN saved = 1 .. Len(saved)
      /\ \A i \in 1 .. Len(saved) : s[i] = saved[i] /\ saved[i] \in Byte
      /\ SubSeq(s, Len(saved) + 1, Len(s)) = base
  BY PopBytes
<1>2. dropped(s, list) = base
  BY <1>1 DEF dropped
<1>3. ASSUME NEW i \in 1 .. Len(list)
      PROVE  list[i] \in Register /\ v(list[i]) = saved[i]
  <2>1. list[i] \in Register /\ I(list[i]) = {i}
    BY <1>1 DEF OneToOne
  <2>2. (CHOOSE j \in I(list[i]) : TRUE) = i
    BY <2>1
  <2>3. QED BY <1>1, <2>1, <2>2
<1>4. ASSUME NEW d \in Register, \A i \in 1 .. Len(list) : list[i] # d
      PROVE  v(d) = r[d]
  <2>1. I(d) = {}
    BY <1>1, <1>4
  <2>2. QED BY <2>1
<1>5. ASSUME NEW d \in Register PROVE v(d) \in Byte
  <2>1. CASE \E i \in 1 .. Len(list) : list[i] = d
    BY Zenon, <2>1, <1>1, <1>3
  <2>2. CASE \A i \in 1 .. Len(list) : list[i] # d
    BY <2>2, <1>4 DEF Files
  <2>3. QED BY <2>1, <2>2
<1> HIDE DEF v
<1>6. popped(r, s, list) = t
  BY DEF popped, v
<1>7. t \in Files /\ \A d \in Register : t[d] = v(d)
  BY <1>5 DEF Files
<1>8. QED BY <1>2, <1>3, <1>4, <1>6, <1>7 DEF Restored

LEMMA Lists ==
  /\ \A x \in Register : /\ <<x>> \in Seq(Register) /\ Len(<<x>>) = 1
  /\ \A x, y \in Register : <<x, y>> \in Seq(Register) /\ Len(<<x, y>>) = 2
  /\ \A x, y, z \in Register : <<x, y, z>> \in Seq(Register) /\ Len(<<x, y, z>>) = 3
  /\ Reverse(All) = <<Z, D, C, B, A>>
  /\ Reverse(All) \in Seq(Register) /\ Len(Reverse(All)) = 5
<1>1. Reverse(All) = <<Z, D, C, B, A>>
  BY DEF Reverse, All
<1>2. QED BY <1>1, RegistersAre

-----------------------------------------------------------------------------
(* POP of what was saved, and RET.                                         *)
LEMMA LeaveAny ==
  ASSUME NEW from, regs \in Files, NEW list, Leave(from, regs, list),
         popped(regs, stack, list) \in Files
  PROVE  /\ at = from /\ mem' = mem /\ request' = request
         /\ at' = Head(calls) /\ calls' = Tail(calls)
         /\ stack' = dropped(stack, list)
         /\ Only(regs', popped(regs, stack, list), {H, L})
         /\ regs' \in Files
BY Zenon, JumpedOnly, OnlyIsFile DEF Leave

LEMMA LeaveSaved ==
  ASSUME NEW from, regs \in Files, NEW list \in Seq(General), NEW saved \in Seq(Byte),
         NEW base \in Seq(Byte), Len(saved) = Len(list), Len(saved) > 0,
         OneToOne(list), stack = saved \o base, Leave(from, regs, list)
  PROVE  /\ at = from /\ mem' = mem /\ request' = request
         /\ at' = Head(calls) /\ calls' = Tail(calls) /\ stack' = base
         /\ regs' \in Files
         /\ \A i \in 1 .. Len(list) : list[i] \in General /\ regs'[list[i]] = saved[i]
         /\ \A d \in General : (\A i \in 1 .. Len(list) : list[i] # d) => regs'[d] = regs[d]
<1> DEFINE t == popped(regs, stack, list)
<1>1. General \subseteq Register /\ General \subseteq Register \ {H, L}
  BY RegistersAre, Registers DEF General
<1>2. list \in Seq(Register) /\ \A i \in 1 .. Len(list) : list[i] \in General
  BY <1>1
<1>3. Restored(t, regs, list, saved) /\ dropped(stack, list) = base
  BY <1>2, PoppedAre
<1>4. t \in Files
  BY <1>3 DEF Restored
<1>5. /\ at = from /\ mem' = mem /\ request' = request
      /\ at' = Head(calls) /\ calls' = Tail(calls) /\ stack' = base
      /\ Only(regs', t, {H, L}) /\ regs' \in Files
  BY Zenon, <1>3, <1>4, LeaveAny
<1> HIDE DEF t
<1>6. \A d \in General : regs'[d] = t[d]
  BY <1>1, <1>5 DEF Only
<1>7. QED BY Zenon, <1>1, <1>2, <1>3, <1>5, <1>6 DEF Restored

AllLeft(z, d, c, b, a, base) ==
  /\ mem' = mem /\ request' = request
  /\ at' = Head(calls) /\ calls' = Tail(calls) /\ stack' = base
  /\ regs' \in Files
  /\ regs'[Z] = z /\ regs'[D] = d /\ regs'[C] = c /\ regs'[B] = b /\ regs'[A] = a
LEMMA LeaveAll ==
  ASSUME NEW from, regs \in Files, NEW z \in Byte, NEW d \in Byte,
         NEW c \in Byte, NEW b \in Byte, NEW a \in Byte,
         NEW base \in Seq(Byte), stack = <<z, d, c, b, a>> \o base,
         Leave(from, regs, Reverse(All))
  PROVE  AllLeft(z, d, c, b, a, base)
<1> DEFINE list == Reverse(All)
           saved == <<z, d, c, b, a>>
<1>1. /\ list \in Seq(General) /\ Len(list) = 5
      /\ list[1] = Z /\ list[2] = D /\ list[3] = C /\ list[4] = B /\ list[5] = A
  BY Lists, Registers DEF General
<1>2. /\ saved \in Seq(Byte) /\ Len(saved) = 5
      /\ saved[1] = z /\ saved[2] = d /\ saved[3] = c /\ saved[4] = b /\ saved[5] = a
  OBVIOUS
<1>3. stack = saved \o base /\ Leave(from, regs, list)
  OBVIOUS
<1> HIDE DEF list, saved
<1>4. OneToOne(list) /\ Len(saved) = Len(list) /\ Len(saved) > 0
  BY <1>1, <1>2, Registers DEF OneToOne
<1>5. /\ at = from /\ mem' = mem /\ request' = request
      /\ at' = Head(calls) /\ calls' = Tail(calls) /\ stack' = base
      /\ regs' \in Files
      /\ \A i \in 1 .. Len(list) : list[i] \in General /\ regs'[list[i]] = saved[i]
      /\ \A e \in General : (\A i \in 1 .. Len(list) : list[i] # e) => regs'[e] = regs[e]
  BY Zenon, <1>1, <1>2, <1>3, <1>4, LeaveSaved
<1>6. QED BY <1>1, <1>2, <1>5 DEF AllLeft

-----------------------------------------------------------------------------
(* Masks: one bit of a byte, and the remainder by 8.                       *)
LEMMA WeightBits ==
  \A v, w \in Weights : /\ v \in Byte
                        /\ BitAt(w, v) = IF v = w THEN 1 ELSE 0
                        /\ BitAt(0, v) = 0
<1>1. \A v, w \in Weights : BitAt(w, v) = IF v = w THEN 1 ELSE 0
  <2> SUFFICES ASSUME NEW v \in Weights, NEW w \in Weights
               PROVE  BitAt(w, v) = IF v = w THEN 1 ELSE 0
    OBVIOUS
  <2>1. CASE w \in {1, 2, 4, 8}
    BY <2>1 DEF Weights, BitAt
  <2>2. CASE w \in {16, 32, 64, 128}
    BY <2>2 DEF Weights, BitAt
  <2>3. QED BY <2>1, <2>2 DEF Weights
<1>2. \A v \in Weights : v \in Byte /\ BitAt(0, v) = 0
  BY ByteBounds DEF Weights, BitAt
<1>3. QED BY <1>1, <1>2

LEMMA OneBit ==
  ASSUME NEW n \in Byte, NEW w \in Weights
  PROVE  And(n, w) # 0 <=> BitAt(n, w) = 1
<1>a. w \in Byte /\ And(n, w) \in Byte /\ 0 \in Byte
  BY WeightBits, AndIsByte, ByteBounds
<1>b. \A v \in Weights : BitAt(And(n, w), v) = BitAnd(BitAt(n, v), BitAt(w, v))
  BY <1>a, AndBits
<1>c. \A v \in Weights : BitAt(w, v) = IF v = w THEN 1 ELSE 0
  BY WeightBits
<1>d. \A v \in Weights : BitAt(0, v) = 0
  BY WeightBits
<1>e. \A v \in Weights : BitAt(n, v) \in {0, 1}
  BY BitsAre01
<1>1. /\ w \in Byte /\ And(n, w) \in Byte /\ 0 \in Byte
      /\ \A v \in Weights : /\ BitAt(And(n, w), v) = BitAnd(BitAt(n, v), BitAt(w, v))
                            /\ BitAt(w, v) = IF v = w THEN 1 ELSE 0
                            /\ BitAt(0, v) = 0 /\ BitAt(n, v) \in {0, 1}
  BY <1>a, <1>b, <1>c, <1>d, <1>e
<1>2. CASE BitAt(n, w) = 1
  <2>1. BitAt(And(n, w), w) = 1
    BY <1>1, <1>2 DEF BitAnd
  <2>2. QED BY <1>1, <1>2, <2>1
<1>3. CASE BitAt(n, w) = 0
  <2>1. \A v \in Weights : BitAt(And(n, w), v) = BitAt(0, v)
    BY <1>1, <1>3 DEF BitAnd
  <2>2. And(n, w) = 0
    BY <1>1, <2>1, SameBits
  <2>3. QED BY <1>3, <2>2
<1>4. QED BY <1>1, <1>2, <1>3

LEMMA Sevens ==
  ASSUME NEW n \in Byte
  PROVE  And(n, 7) = n % 8 /\ n % 8 \in 0 .. 7
<1>1. BitAt(7, 1) = 1 /\ BitAt(7, 2) = 1 /\ BitAt(7, 4) = 1 /\ BitAt(7, 8) = 0
      /\ BitAt(7, 16) = 0 /\ BitAt(7, 32) = 0 /\ BitAt(7, 64) = 0 /\ BitAt(7, 128) = 0
  BY DEF BitAt
<1> DEFINE b(w) == BitAt(n, w)
<1>2. /\ b(1) \in {0, 1} /\ b(2) \in {0, 1} /\ b(4) \in {0, 1} /\ b(8) \in {0, 1}
      /\ b(16) \in {0, 1} /\ b(32) \in {0, 1} /\ b(64) \in {0, 1} /\ b(128) \in {0, 1}
  BY BitsAre01 DEF Weights
<1>3. And(n, 7) = b(1) + 2 * b(2) + 4 * b(4)
  BY <1>1, <1>2 DEF And, Bitwise, BitAnd
<1>4. n = b(1) + 2 * b(2) + 4 * b(4) + 8 * b(8) + 16 * b(16) + 32 * b(32)
            + 64 * b(64) + 128 * b(128)
  BY SumOfBits
<1> HIDE DEF b
<1>5. n % 8 = b(1) + 2 * b(2) + 4 * b(4)
  <2> DEFINE q == b(8) + 2 * b(16) + 4 * b(32) + 8 * b(64) + 16 * b(128)
             m == b(1) + 2 * b(2) + 4 * b(4)
  <2>a. m \in 0 .. 7
    BY <1>2
  <2>b. q \in Int
    BY <1>2
  <2>c. n = 8 * q + m
    <3>1. /\ b(1) \in Int /\ b(2) \in Int /\ b(4) \in Int /\ b(8) \in Int
          /\ b(16) \in Int /\ b(32) \in Int /\ b(64) \in Int /\ b(128) \in Int
      BY <1>2
    <3>2. QED BY <3>1, <1>4
  <2>1. m \in 0 .. 7 /\ q \in Int /\ n = 8 * q + m
    BY <2>a, <2>b, <2>c
  <2> HIDE DEF q, m
  <2>2. (8 * q + m) % 8 = m
    BY <2>1
  <2>3. QED BY <2>1, <2>2 DEF m
<1>6. QED BY <1>2, <1>3, <1>5
-----------------------------------------------------------------------------
(* Jumps and comparisons, by what they leave in F.                         *)
LEMMA IsZeroOnly ==
  ASSUME NEW r \in Files, NEW d \in Register
  PROVE  Only(isZero(r, d), r, {F})
<1> DEFINE s == cmp(r, d, Imm(0))
<1>1. Only(s, r, {F})
  BY Zenon, CmpOnly, RegistersAre
<1>2. s \in Files
  BY <1>1 DEF Only
<1> HIDE DEF s
<1>3. Only(and(s, F, Imm(2)), s, {F})
  BY <1>2, AndOnly, RegistersAre
<1>4. QED BY <1>1, <1>3, OnlyTrans DEF isZero, mask, s

LEMMA JzOnly ==
  ASSUME NEW r \in Files, NEW d \in Register
  PROVE  Only(jz(r, d), r, {F, H, L})
<1> DEFINE s == isZero(r, d)
<1>1. Only(s, r, {F}) /\ s \in Files
  BY IsZeroOnly DEF Only
<1> HIDE DEF s
<1>2. Only(jumped(s), s, {H, L})
  BY <1>1, JumpedOnly
<1>3. QED BY <1>1, <1>2 DEF Only, jz, s

LEMMA EqualFlag ==
  ASSUME NEW a \in Byte, NEW b \in Byte
  PROVE  /\ FlagsOf(a, b) \in Byte
         /\ BitAt(FlagsOf(a, b), 2) = IF a = b THEN 1 ELSE 0
         /\ BitAt(FlagsOf(a, b), 1) = IF a < b THEN 1 ELSE 0
BY FlagBits, FlagsAreByte DEF F_EQUAL, F_LESS, If01

LEMMA WeightsAre == {1, 2, 4, 8, 16, 32, 64, 128} = Weights
BY DEF Weights

LEMMA JeqOnly ==
  ASSUME NEW r \in Files, NEW d \in Register, NEW n \in Byte
  PROVE  /\ Only(jcc("JEQ", r, d, Imm(n)), r, {F, H, L})
         /\ jcc("JEQ", r, d, Imm(n))[F] # 0 <=> r[d] = n
<1> DEFINE x == Imm(n)
           s == cmp(r, d, x)
           t == and(s, F, Imm(2))
<1>1. x \in AnyOperand /\ Val(r, x) = n /\ r[d] \in Byte /\ F \in Register
  BY ImmOperand, ValOfImm, RegistersAre DEF Files
<1> HIDE DEF x
<1>2. Only(s, r, {F}) /\ s[F] = FlagsOf(r[d], n) /\ s \in Files
  BY <1>1, CmpOnly DEF Only
<1> HIDE DEF s
<1>3. Only(t, s, {F}) /\ t[F] = And(s[F], 2) /\ t \in Files
  <2> DEFINE z == Imm(2)
  <2>1. z \in AnyOperand /\ Val(s, z) = 2
    BY RegistersAre, ValOfImm
  <2> HIDE DEF z
  <2>2. Only(and(s, F, z), s, {F}) /\ and(s, F, z)[F] = And(s[F], 2)
    BY <1>1, <1>2, <2>1, AndOnly
  <2>3. QED BY <2>2, OnlyIsFile DEF z
<1>4. And(s[F], 2) # 0 <=> r[d] = n
  BY <1>1, <1>2, EqualFlag, OneBit, WeightsAre
<1> HIDE DEF t
<1>5. Only(jumped(t), t, {H, L}) /\ F \notin {H, L}
  BY <1>3, JumpedOnly, Registers
<1>6. jumped(t)[F] = t[F] /\ Only(jumped(t), r, {F, H, L})
  BY <1>1, <1>2, <1>3, <1>5 DEF Only
<1>7. jcc("JEQ", r, d, x) = jumped(t)
  BY DEF jcc, test, mask, t, s
<1>8. QED BY <1>3, <1>4, <1>6, <1>7 DEF x

LEMMA Eq16Only ==
  ASSUME NEW r \in Files, NEW p \in {AB, CD}, NEW x \in AnyOperand,
         NEW y \in AnyOperand, x # Reg(F), x # Reg(H)
  PROVE  LET t == eq16(r, p, y, x)
         IN  /\ Only(t, r, {F, H}) /\ t[F] \in {0, 2}
             /\ t[F] # 0 <=> r[p[1]] = Val(r, y) /\ r[p[2]] = Val(r, x)
<1> DEFINE a == cmp(r, p[1], y)
           b == mw(a, H, Reg(F))
           c == cmp(b, p[2], x)
           d == and(c, F, Reg(H))
           e == and(d, F, Imm(2))
<1>1. /\ p[1] \in Register \ {F, H} /\ p[2] \in Register \ {F, H}
      /\ p[1] \in Register /\ p[2] \in Register
      /\ F \in Register /\ H \in Register /\ F # H
      /\ Reg(F) \in AnyOperand /\ Reg(H) \in AnyOperand /\ Imm(2) \in AnyOperand
      /\ \A s : Val(s, Reg(F)) = s[F] /\ Val(s, Reg(H)) = s[H] /\ Val(s, Imm(2)) = 2
  BY PairsAre, RegistersAre, Registers, ValOfReg, ValOfImm DEF AB, CD
<1>2. Val(r, x) \in Byte /\ Val(r, y) \in Byte
      /\ \A s \in Files, q \in Register : s[q] \in Byte
  BY ValIsByte DEF Files
<1>3. Only(a, r, {F}) /\ a[F] = FlagsOf(r[p[1]], Val(r, y)) /\ a \in Files
  BY Zenon, <1>1, CmpOnly DEF Only
<1> HIDE DEF a
<1>4. Only(b, a, {H}) /\ b[H] = a[F] /\ b \in Files
  <2> DEFINE z == Reg(F)
  <2>1. z \in AnyOperand /\ Val(a, z) = a[F]
    BY <1>1
  <2> HIDE DEF z
  <2>2. Only(mw(a, H, z), a, {H}) /\ mw(a, H, z)[H] = a[F]
    BY <1>1, <1>3, <2>1, MwOnly
  <2>3. QED BY <2>2, OnlyIsFile DEF z
<1> HIDE DEF b
<1>5. Val(b, x) = Val(r, x) /\ b[p[2]] = r[p[2]]
  <2>1. \A q \in Register \ {F, H} : b[q] = r[q]
    BY <1>3, <1>4 DEF Only
  <2>2. CASE \E n \in Byte : x = Imm(n)
    BY <2>2, <2>1, <1>1, ValOfImm
  <2>3. CASE \E q \in Register : x = Reg(q)
    BY <2>3, <2>1, <1>1, ValOfReg
  <2>4. QED BY <2>1, <2>2, <2>3, <1>1 DEF AnyOperand
<1>a. Only(c, b, {F}) /\ c[F] = FlagsOf(b[p[2]], Val(b, x))
  BY Zenon, <1>1, <1>4, CmpOnly
<1>6. /\ Only(c, b, {F}) /\ c[F] = FlagsOf(r[p[2]], Val(r, x)) /\ c \in Files
      /\ c[H] = a[F]
  <2> HIDE DEF c
  <2>1. QED BY <1>1, <1>4, <1>5, <1>a DEF Only
<1> HIDE DEF c
<1>7. Only(d, c, {F}) /\ d[F] = And(c[F], c[H]) /\ d \in Files
  <2> DEFINE z == Reg(H)
  <2>1. z \in AnyOperand /\ Val(c, z) = c[H]
    BY <1>1
  <2> HIDE DEF z
  <2>2. Only(and(c, F, z), c, {F}) /\ and(c, F, z)[F] = And(c[F], c[H])
    BY <1>1, <1>6, <2>1, AndOnly
  <2>3. QED BY <2>2, OnlyIsFile DEF z
<1> HIDE DEF d
<1>8. Only(e, d, {F}) /\ e[F] = And(d[F], 2)
  <2> DEFINE z == Imm(2)
  <2>1. z \in AnyOperand /\ Val(d, z) = 2
    BY <1>1
  <2> HIDE DEF z
  <2>2. Only(and(d, F, z), d, {F}) /\ and(d, F, z)[F] = And(d[F], 2)
    BY <1>1, <1>7, <2>1, AndOnly
  <2>3. QED BY <2>2 DEF z
<1>9. /\ c[F] \in Byte /\ c[H] \in Byte /\ d[F] \in Byte
      /\ BitAt(c[F], 2) = IF r[p[2]] = Val(r, x) THEN 1 ELSE 0
      /\ BitAt(c[H], 2) = IF r[p[1]] = Val(r, y) THEN 1 ELSE 0
  BY <1>1, <1>2, <1>3, <1>6, <1>7, EqualFlag
<1>10. BitAt(d[F], 2) = BitAnd(BitAt(c[F], 2), BitAt(c[H], 2))
  BY <1>7, <1>9, AndBits, WeightsAre
<1>11. e[F] = 2 * BitAt(d[F], 2)
  BY <1>8, <1>9, MaskOne
<1>12. Only(e, r, {F, H})
  BY <1>3, <1>4, <1>6, <1>7, <1>8 DEF Only
<1>13. e[F] \in {0, 2} /\ (e[F] # 0 <=> r[p[1]] = Val(r, y) /\ r[p[2]] = Val(r, x))
  BY <1>9, <1>10, <1>11 DEF BitAnd
<1>14. eq16(r, p, y, x) = e
  BY DEF eq16, a, b, c, d
<1> HIDE DEF e
<1>15. QED BY <1>12, <1>13, <1>14

LEMMA SamePair ==
  ASSUME NEW a \in Byte, NEW b \in Byte, NEW c \in Byte, NEW d \in Byte
  PROVE  Pair(a, b) = Pair(c, d) <=> a = c /\ b = d
BY ByteBounds DEF Pair

LEMMA Zero16Only ==
  ASSUME NEW r \in Files, NEW p \in {AB, CD}
  PROVE  /\ Only(zero16(r, p), r, {F, H}) /\ zero16(r, p)[F] \in {0, 2}
         /\ zero16(r, p)[F] # 0 <=> WordIn(r, p) = 0
<1> DEFINE x == Imm(0)
           t == eq16(r, p, x, x)
<1>1. x \in AnyOperand /\ x # Reg(F) /\ x # Reg(H) /\ Val(r, x) = 0
  BY RegistersAre, ImmIsNotReg, ValOfImm
<1> HIDE DEF x
<1>2. /\ Only(t, r, {F, H}) /\ t[F] \in {0, 2}
      /\ t[F] # 0 <=> r[p[1]] = 0 /\ r[p[2]] = 0
  BY Zenon, <1>1, Eq16Only
<1> HIDE DEF t
<1>3. r[p[1]] \in Byte /\ r[p[2]] \in Byte
  <2>1. p[1] \in Register /\ p[2] \in Register
    BY PairsAre
  <2>2. QED BY <2>1 DEF Files
<1>4. WordIn(r, p) = 0 <=> r[p[1]] = 0 /\ r[p[2]] = 0
  <2>1. WordIn(r, p) = r[p[2]] + 256 * r[p[1]]
    BY DEF WordIn, Pair
  <2>2. /\ r[p[1]] \in Int /\ r[p[1]] >= 0 /\ r[p[2]] \in Int /\ r[p[2]] >= 0
    BY <1>3, ByteBounds
  <2>3. QED BY <2>1, <2>2
<1>5. zero16(r, p) = t
  BY DEF zero16, t, x
<1>6. QED BY <1>2, <1>4, <1>5

(* JEQ and JNE after EQ16.                                                 *)
LEMMA TestOnly ==
  ASSUME NEW r \in Files, r[F] \in {0, 2}
  PROVE  /\ Only(test("JEQ", r), r, {F}) /\ (test("JEQ", r)[F] # 0 <=> r[F] # 0)
         /\ Only(test("JNE", r), r, {F}) /\ (test("JNE", r)[F] # 0 <=> r[F] = 0)
<1> DEFINE s == not(r, F)
           x == Imm(2)
<1>1. F \in Register /\ x \in AnyOperand /\ \A q : Val(q, x) = 2
  BY RegistersAre, ValOfImm
<1> HIDE DEF x
<1>2. Only(s, r, {F}) /\ s[F] = 255 - r[F] /\ s \in Files
  BY <1>1, NotOnly DEF Only
<1> HIDE DEF s
<1>3. /\ Only(and(r, F, x), r, {F}) /\ and(r, F, x)[F] = And(r[F], 2)
      /\ Only(and(s, F, x), s, {F}) /\ and(s, F, x)[F] = And(s[F], 2)
  BY <1>1, <1>2, AndOnly
<1>4. Only(and(s, F, x), r, {F})
  BY <1>2, <1>3 DEF Only
<1>5. /\ BitAt(0, 2) = 0 /\ BitAt(2, 2) = 1 /\ BitAt(255, 2) = 1 /\ BitAt(253, 2) = 0
  BY DEF BitAt
<1>6. r[F] \in Byte /\ s[F] \in Byte /\ s[F] \in {255, 253}
  BY <1>1, <1>2 DEF Files
<1>7. (And(r[F], 2) # 0 <=> r[F] # 0) /\ (And(s[F], 2) # 0 <=> r[F] = 0)
  BY <1>2, <1>5, <1>6, OneBit, WeightsAre
<1>8. test("JEQ", r) = and(r, F, x) /\ test("JNE", r) = and(s, F, x)
  BY DEF test, mask, x, s
<1>9. QED BY <1>3, <1>4, <1>7, <1>8

(* SUB16 of the length of a piece.                                         *)
LEMMA Sub16Only ==
  ASSUME NEW r \in Files, NEW n \in Byte
  PROVE  /\ Only(sub16(clb(r), AB, Imm(0), Imm(n)), r, {A, B, F})
         /\ WordIn(sub16(clb(r), AB, Imm(0), Imm(n)), AB) = ToWord(WordIn(r, AB) - n)
<1> DEFINE s == clb(r)
           t == sub16(s, AB, Imm(0), Imm(n))
           u == sbb(s, B, Imm(n))
<1>1. Only(s, r, {F}) /\ BitAt(s[F], F_BORROW) = 0 /\ s \in Files
  BY ClbOnly DEF Only
<1> HIDE DEF s
<1>2. /\ n \in Word /\ Hi(n) = 0 /\ Lo(n) = n
      /\ Imm(n) \in AnyOperand /\ Imm(0) \in AnyOperand
  BY ByteBounds, WordBounds, ImmOperand, RegistersAre DEF Hi, Lo
<1>3. WordIn(t, AB) = ToWord(WordIn(s, AB) - n - 0)
  BY <1>1, <1>2, PairsAre, Sub16TakesBorrow
<1>4. WordIn(s, AB) = WordIn(r, AB)
  BY <1>1, PairsAre, Registers DEF Only, WordIn
<1>5. WordIn(r, AB) \in Int
  BY PairsAre, ByteBounds DEF WordIn, Pair, Files
<1>6. u \in Files /\ t \in Files /\ t = sbb(u, A, Imm(0))
  BY Zenon, <1>1, <1>2, InstructionsAreFiles, RegistersAre, PairsAre DEF sub16
<1>7. A \in Register \ {F} /\ B \in Register \ {F}
  BY Registers
<1> DEFINE x == Imm(n)
           y == Imm(0)
<1>8. \A e \in Register \ {B, F} : u[e] = s[e]
  <2> HIDE DEF x
  <2>1. \E v, f : u = [s EXCEPT ![B] = v, ![F] = f]
    BY <1>1, <1>2, <1>7, SbbEffect DEF x
  <2>2. QED BY <2>1, <1>1 DEF Files
<1>9. \A e \in Register \ {A, F} : t[e] = u[e]
  <2> HIDE DEF u
  <2>1. \E v, f : t = [u EXCEPT ![A] = v, ![F] = f]
    BY <1>6, <1>2, <1>7, SbbEffect
  <2>2. QED BY <2>1, <1>6 DEF Files
<1> HIDE DEF t, u
<1>10. Only(t, r, {A, B, F})
  <2>1. \A e \in Register \ {F} : s[e] = r[e]
    BY <1>1 DEF Only
  <2>2. ASSUME NEW e \in Register \ {A, B, F} PROVE t[e] = r[e]
    <3>1. e \in Register \ {F} /\ e \in Register \ {A, F} /\ e \in Register \ {B, F}
      OBVIOUS
    <3>2. QED BY <3>1, <2>1, <1>8, <1>9
  <2>3. t \in Files
    BY <1>6
  <2>4. QED BY <2>2, <2>3 DEF Only
<1>11. WordIn(r, AB) - n - 0 = WordIn(r, AB) - n
  BY <1>5, ByteBounds
<1>12. QED BY <1>3, <1>4, <1>10, <1>11 DEF t, s
-----------------------------------------------------------------------------
(* shr: one bit of what is left of the number moves to its half.           *)
LEMMA BitLeft ==
  ASSUME NEW bit \in Weights, NEW c \in Byte, c < 2 * bit
  PROVE  BitAt(c, bit) = 1 <=> bit <= c
<1>1. c \in Nat /\ c <= 255
  BY ByteBounds
<1>2. QED BY <1>1 DEF BitAt, Weights

LEMMA TryHalves ==
  ASSUME NEW r \in Files, NEW bit \in Weights \ {1}, r[C] < 2 * bit,
         2 * r[A] + r[C] <= 255
  PROVE  LET t == Try(r, bit)
         IN  /\ Only(t, r, {A, C, F, H, L}) /\ t[C] < bit
             /\ 2 * t[A] + t[C] = 2 * r[A] + r[C]
<1> DEFINE x == Imm(bit)
           a == mw(r, F, Reg(C))
           b == not(a, F)
           c == and(b, F, x)
           t == jumped(c)
           half == bit \div 2
           y == Imm(half)
           u == add(t, A, y)
           v == sub(u, C, x)
<1>1. /\ bit \in Weights /\ bit \in Byte /\ half \in Byte /\ 2 * half = bit
      /\ \A q \in Files : q[A] \in Byte /\ q[C] \in Byte /\ q[F] \in Byte
  <2>1. \A q \in Files : q[A] \in Byte /\ q[C] \in Byte /\ q[F] \in Byte
    BY RegistersAre DEF Files
  <2>2. half \in 0 .. 64 /\ 2 * half = bit
    BY DEF Weights
  <2>3. QED BY <2>1, <2>2, WeightBits, ByteBounds
<1>2. /\ x \in AnyOperand /\ Val(b, x) = bit /\ y \in AnyOperand /\ Val(t, y) = half
      /\ Reg(C) \in AnyOperand /\ Val(r, Reg(C)) = r[C]
  BY <1>1, ImmOperand, ValOfImm, RegOperand, RegistersAre, ValOfReg
<1>3. Only(a, r, {F}) /\ a[F] = r[C] /\ a \in Files
  BY Zenon, <1>2, MwOnly, RegistersAre, OnlyIsFile
<1> HIDE DEF a
<1>4. Only(b, a, {F}) /\ b[F] = 255 - r[C] /\ b \in Files
  BY <1>3, NotOnly, RegistersAre, OnlyIsFile
<1> HIDE DEF b, x
<1>5. Only(c, b, {F}) /\ c[F] = And(255 - r[C], bit) /\ c \in Files
  BY <1>2, <1>4, AndOnly, RegistersAre DEF Only
<1> HIDE DEF c
<1>6. Only(t, c, {H, L}) /\ t \in Files
  BY <1>5, JumpedOnly DEF Only
<1>7. /\ Only(t, r, {F, H, L}) /\ t[F] = And(255 - r[C], bit)
      /\ t[A] = r[A] /\ t[C] = r[C]
  BY <1>3, <1>4, <1>5, <1>6, Registers DEF Only
<1>8. t[F] # 0 <=> r[C] < bit
  <2>1. 255 - r[C] \in Byte /\ BitAt(255 - r[C], bit) = 1 - BitAt(r[C], bit)
    BY <1>1, InvertedBits
  <2>2. t[F] # 0 <=> BitAt(255 - r[C], bit) = 1
    BY <1>1, <1>7, <2>1, OneBit
  <2>3. BitAt(r[C], bit) \in {0, 1} /\ (BitAt(r[C], bit) = 1 <=> bit <= r[C])
    BY <1>1, BitLeft, BitsAre01
  <2>4. QED BY <1>1, <2>1, <2>2, <2>3, ByteBounds
<1>9. Try(r, bit) = IF t[F] # 0 THEN t ELSE v
  BY DEF Try, jmn, t, c, b, a, x
<1> HIDE DEF t, half, y
<1>10. CASE t[F] # 0
  BY <1>7, <1>8, <1>9, <1>10 DEF Only
<1>11. CASE t[F] = 0
  <2>1. Only(u, t, {A, F}) /\ u[A] = ToByte(t[A] + half) /\ u \in Files
    <3>1. A \in Register \ {F}
      BY Registers
    <3>2. QED BY <3>1, <1>2, <1>6, AddOnly, OnlyIsFile
  <2> HIDE DEF u
  <2>2. u[C] = r[C] /\ A # C /\ C \in Register \ {F}
    BY <2>1, <1>7, Registers DEF Only
  <2>3. Only(v, u, {C, F}) /\ v[C] = ToByte(r[C] - bit)
    <3>1. Only(v, u, {C, F}) /\ v[C] = ToByte(u[C] - bit)
      BY Zenon, <2>1, <2>2, <1>1, SubOnly DEF x
    <3>2. QED BY <3>1, <2>2
  <2> HIDE DEF v
  <2>4. Only(v, r, {A, C, F, H, L}) /\ v[A] = u[A]
    BY <2>1, <2>2, <2>3, <1>7, RegistersAre, Registers DEF Only
  <2>5. bit <= r[C]
    BY <1>1, <1>8, <1>11, ByteBounds
  <2>6. ToByte(r[A] + half) = r[A] + half /\ ToByte(r[C] - bit) = r[C] - bit
    BY <1>1, <2>5, ByteBounds DEF ToByte
  <2>7. v[C] < bit /\ 2 * v[A] + v[C] = 2 * r[A] + r[C]
    BY <1>1, <1>7, <2>1, <2>3, <2>4, <2>6, ByteBounds
  <2>8. QED BY <1>9, <1>11, <2>4, <2>7
<1>12. QED BY <1>10, <1>11

-----------------------------------------------------------------------------
(* A pass of shr.                                                          *)
LEMMA HalvedRight ==
  ASSUME NEW r \in Files, 2 * r[A] + r[C] <= 255
  PROVE  /\ Only(halved(r), r, {A, C, F, H, L}) /\ halved(r)[C] \in {0, 1}
         /\ 2 * halved(r)[A] + halved(r)[C] = 2 * r[A] + r[C]
<1> DEFINE n == 2 * r[A] + r[C]
           Left(t, bit) == /\ Only(t, r, {A, C, F, H, L}) /\ t \in Files
                           /\ t[C] < bit /\ 2 * t[A] + t[C] = n
<1>1. ASSUME NEW t, NEW bit \in Weights \ {1}, Left(t, 2 * bit)
      PROVE  Left(Try(t, bit), bit)
  <2>1. /\ Only(Try(t, bit), t, {A, C, F, H, L}) /\ Try(t, bit)[C] < bit
        /\ 2 * Try(t, bit)[A] + Try(t, bit)[C] = n
    BY Zenon, <1>1, TryHalves
  <2>2. Only(Try(t, bit), r, {A, C, F, H, L})
    BY <1>1, <2>1 DEF Only
  <2>3. QED BY <2>1, <2>2, OnlyIsFile
<1>2. Left(r, 2 * 128)
  BY RegistersAre, ByteBounds DEF Only, Files
<1> HIDE DEF Left
<1>3. \A bit \in {128, 64, 32, 16, 8, 4, 2} : bit \in Weights \ {1}
  BY DEF Weights
<1> DEFINE a == Try(r, 128)
           b == Try(a, 64)
           c == Try(b, 32)
           d == Try(c, 16)
           e == Try(d, 8)
           f == Try(e, 4)
           g == Try(f, 2)
<1>4. Left(a, 2 * 64)
  BY <1>1, <1>2, <1>3
<1> HIDE DEF a
<1>5. Left(b, 2 * 32)
  BY <1>1, <1>3, <1>4
<1> HIDE DEF b
<1>6. Left(c, 2 * 16)
  BY <1>1, <1>3, <1>5
<1> HIDE DEF c
<1>7. Left(d, 2 * 8)
  BY <1>1, <1>3, <1>6
<1> HIDE DEF d
<1>8. Left(e, 2 * 4)
  BY <1>1, <1>3, <1>7
<1> HIDE DEF e
<1>9. Left(f, 2 * 2)
  BY <1>1, <1>3, <1>8
<1> HIDE DEF f
<1>10. Left(g, 2)
  BY <1>1, <1>3, <1>9
<1>11. halved(r) = g
  BY DEF halved, a, b, c, d, e, f
<1> HIDE DEF g
<1>12. g[C] \in Byte
  BY <1>10, RegistersAre DEF Left, Files
<1>13. QED BY <1>10, <1>11, <1>12, ByteBounds DEF Left
-----------------------------------------------------------------------------
(* Sums and products modulo 2^8 and 2^16.                                  *)
LEMMA ByteSums ==
  \A m, n \in Int : /\ ToByte(m) \in Int
                    /\ ToByte(ToByte(m) + n) = ToByte(m + n)
                    /\ ToByte(n + ToByte(m)) = ToByte(m + n)
BY DEF ToByte

LEMMA WordSums ==
  \A m, n \in Int : /\ ToWord(m) \in Int
                    /\ ToWord(ToWord(m) + n) = ToWord(m + n)
                    /\ ToWord(n + ToWord(m)) = ToWord(m + n)
BY DEF ToWord

LEMMA SmallResidues ==
  /\ \A n \in Byte : ToByte(n) = n
  /\ \A n \in Word : ToWord(n) = n
BY ByteBounds, WordBounds DEF ToByte, ToWord

LEMMA BytesAreWords == \A n \in Byte : n \in Word /\ n \in Nat /\ n \in Int
BY ByteBounds, WordBounds

LEMMA NextMultiple ==
  \A x, b, c \in Int : /\ x * (b - c) \in Int
                       /\ x * (b - c) + x = x * (b - (c - 1))
OBVIOUS

LEMMA CountedDown ==
  /\ \A n \in Byte : n # 0 => ToByte(n - 1) = n - 1 /\ n - 1 \in Byte
  /\ \A n \in Word : n # 0 => ToWord(n - 1) = n - 1 /\ n - 1 \in Word
BY ByteBounds, WordBounds DEF ToByte, ToWord

(* Powers of two, doubled one after the other.                             *)
LEMMA PowerValues ==
  /\ Power(0) = 1 /\ Power(1) = 2 /\ Power(2) = 4 /\ Power(3) = 8 /\ Power(4) = 16
  /\ Power(5) = 32 /\ Power(6) = 64 /\ Power(7) = 128 /\ Power(8) = 256
  /\ Power(9) = 512 /\ Power(10) = 1024 /\ Power(11) = 2048 /\ Power(12) = 4096
  /\ Power(13) = 8192 /\ Power(14) = 16384 /\ Power(15) = 32768
  /\ \A k \in Nat : k >= 16 => Power(k) = 0
BY DEF Power

LEMMA PowerStep ==
  ASSUME NEW k \in Nat
  PROVE  /\ Power(k) \in Nat
         /\ Power(k + 1) = 2 * Power(k) \/ (k = 15 /\ Power(k) = 32768 /\ Power(k + 1) = 0)
<1>1. CASE k \in {0, 1, 2, 3, 4, 5, 6, 7}
  BY <1>1, PowerValues
<1>2. CASE k \in {8, 9, 10, 11, 12, 13, 14, 15}
  BY <1>2, PowerValues
<1>3. CASE k >= 16
  BY <1>3, PowerValues
<1>4. QED BY <1>1, <1>2, <1>3

LEMMA Doubled ==
  ASSUME NEW k \in Nat, NEW x \in Nat
  PROVE  /\ x * Power(k) \in Nat
         /\ ToByte(x * Power(k + 1)) = ToByte(ToByte(x * Power(k)) + ToByte(x * Power(k)))
         /\ ToWord(x * Power(k + 1)) = ToWord(ToWord(x * Power(k)) + ToWord(x * Power(k)))
<1> DEFINE p == Power(k)
           q == Power(k + 1)
           n == x * p
<1>1. p \in Nat /\ (q = 2 * p \/ (p = 32768 /\ q = 0))
  BY PowerStep
<1> HIDE DEF p, q
<1>2. n \in Nat
  BY <1>1
<1>3. ToByte(x * q) = ToByte(n + n) /\ ToWord(x * q) = ToWord(n + n)
  <2>1. CASE q = 2 * p
    <3>1. x * (2 * p) = x * p + x * p
      BY <1>1
    <3>2. QED BY <2>1, <3>1
  <2>2. CASE p = 32768 /\ q = 0
    <3>1. x * q = 0 /\ n + n = 65536 * x
      BY <2>2
    <3>2. (65536 * x) % 65536 = 0 /\ (65536 * x) % 256 = 0 /\ 0 % 65536 = 0
          /\ 0 % 256 = 0
      OBVIOUS
    <3>3. QED BY <3>1, <3>2 DEF ToByte, ToWord
  <2>3. QED BY <1>1, <2>1, <2>2
<1> HIDE DEF n
<1>4. /\ ToByte(ToByte(n) + ToByte(n)) = ToByte(n + n)
      /\ ToWord(ToWord(n) + ToWord(n)) = ToWord(n + n)
  BY <1>2 DEF ToByte, ToWord
<1>5. QED BY <1>2, <1>3, <1>4 DEF n, p, q
-----------------------------------------------------------------------------
(* Who calls whom.                                                         *)
LEMMA CallsDiffer ==
  /\ Direct # << >> /\ Head(Direct) = "program" /\ Tail(Direct) = << >>
  /\ \A x : Via(x) # << >> /\ Via(x) # Direct /\ Head(Via(x)) = x
     /\ Tail(Via(x)) = Direct
  /\ \A x, y : Via(x) = Via(y) => x = y
  /\ \A x : <<x>> \o Direct = Via(x)
<1>1. \A x : Via(x)[1] = x /\ Len(Via(x)) = 2 /\ Len(Direct) = 1
  BY DEF Via, Direct
<1>2. ASSUME NEW x PROVE Head(Via(x)) = x /\ Tail(Via(x)) = Direct
  <2> DEFINE S == {x, "program"}
             s == Via(x)
  <2>1. s \in Seq(S) /\ s # << >> /\ s[1] = x /\ s[2] = "program" /\ Len(s) = 2
    BY DEF Via
  <2> HIDE DEF s, S
  <2>2. /\ Head(s) \in S /\ Tail(s) \in Seq(S) /\ Len(Tail(s)) = 1
        /\ Head(s) = s[1] /\ Tail(s)[1] = s[2]
    BY <2>1, HeadTailProperties
  <2>3. Direct \in Seq(S) /\ Len(Direct) = 1 /\ Direct[1] = "program"
    BY DEF Direct, S
  <2>4. Tail(s) = Direct
    <3> DEFINE t == Tail(s)
    <3>1. t \in Seq(S) /\ Len(t) = 1 /\ t[1] = Direct[1]
      BY Zenon, <2>1, <2>2, <2>3
    <3> HIDE DEF t
    <3>2. \A i \in 1 .. Len(t) : t[i] = Direct[i]
      BY <3>1
    <3>3. t = Direct
      BY <2>3, <3>1, <3>2, SeqEqual
    <3>4. QED BY <3>3 DEF t
  <2>5. QED BY <2>1, <2>2, <2>4 DEF s
<1>3. ASSUME NEW x PROVE <<x>> \o Direct = Via(x)
  <2> DEFINE S == {x, "program"}
             s == <<x>>
             c == s \o Direct
  <2>1. /\ s \in Seq(S) /\ Direct \in Seq(S) /\ Via(x) \in Seq(S)
        /\ Len(s) = 1 /\ Len(Direct) = 1 /\ Len(Via(x)) = 2 /\ s[1] = x
        /\ Direct[1] = "program" /\ Via(x)[1] = x /\ Via(x)[2] = "program"
    BY DEF Direct, Via
  <2> HIDE DEF s, S
  <2>2. /\ c \in Seq(S) /\ Len(c) = 2 /\ c[1] = x /\ c[2] = "program"
    BY <2>1, ConcatProperties
  <2> HIDE DEF c
  <2>3. \A i \in 1 .. Len(c) : c[i] = Via(x)[i]
    BY <2>1, <2>2
  <2>4. c = Via(x)
    BY <2>1, <2>2, <2>3, SeqEqual
  <2>5. QED BY <2>4 DEF c, s
<1>4. Direct # << >> /\ Head(Direct) = "program" /\ Tail(Direct) = << >>
  BY DEF Direct
<1>5. \A x : Via(x) # << >> /\ Via(x) # Direct
  BY <1>1
<1>6. \A x, y : Via(x) = Via(y) => x = y
  BY <1>1
<1>7. QED BY <1>2, <1>3, <1>4, <1>5, <1>6

LEMMA InsideIs ==
  /\ Inside("mul") = {"mul", "mul.loop", "mul.done"}
  /\ Inside("mul16_8") = {"mul16_8", "mul16_8.loop", "mul16_8.done"}
  /\ Inside("mul16") = {"mul16", "mul16.loop", "mul16.done"}
  /\ Inside("cmp16") = {"cmp16", "cmp16.back"}
  /\ Inside("shl") = {"shl", "shl.shift", "shl.done"}
  /\ Inside("shl16") = {"shl16", "shl16.shift", "shl16.done"}
  /\ Inside("shr") = {"shr", "shr.shift", "shr.done"}
  /\ Inside("strlen") = {"strlen", "strlen.loop", "strlen.done"}
  /\ Inside("memcpy") = {"memcpy", "memcpy.loop", "memcpy.done"}
  /\ Inside("memcpy16") = {"memcpy16", "memcpy16.loop", "memcpy16.back", "memcpy16.done"}
  /\ Inside("memset") = {"memset", "memset.loop", "memset.done"}
  /\ Inside("set_pixel") = {"set_pixel", "set_pixel.line", "set_pixel.byte",
                            "set_pixel.mask", "set_pixel.done"}
BY DEF Inside

LEMMA CalledIs ==
  /\ Called("cmp16.back") = "shr" /\ Called("set_pixel.byte") = "shr"
  /\ Called("memcpy16.back") = "memcpy" /\ Called("memcpy16.done") = "memcpy"
  /\ Called("set_pixel.line") = "mul16_8" /\ Called("set_pixel.mask") = "shl"
BY DEF Called

LEMMA InsideApart ==
  ASSUME NEW p \in Routines, NEW q \in Routines, NEW l, l \in Inside(p), l \in Inside(q)
  PROVE  p = q /\ l # "program"
<1>1. ASSUME NEW s \in Routines, l \in Inside(s)
      PROVE  /\ s = "mul" => l \in {"mul", "mul.loop", "mul.done"}
             /\ s = "mul16_8" => l \in {"mul16_8", "mul16_8.loop", "mul16_8.done"}
             /\ s = "mul16" => l \in {"mul16", "mul16.loop", "mul16.done"}
             /\ s = "cmp16" => l \in {"cmp16", "cmp16.back"}
             /\ s = "shl" => l \in {"shl", "shl.shift", "shl.done"}
             /\ s = "shl16" => l \in {"shl16", "shl16.shift", "shl16.done"}
             /\ s = "shr" => l \in {"shr", "shr.shift", "shr.done"}
             /\ s = "strlen" => l \in {"strlen", "strlen.loop", "strlen.done"}
             /\ s = "memcpy" => l \in {"memcpy", "memcpy.loop", "memcpy.done"}
             /\ s = "memcpy16" => l \in {"memcpy16", "memcpy16.loop",
                                         "memcpy16.back", "memcpy16.done"}
             /\ s = "memset" => l \in {"memset", "memset.loop", "memset.done"}
             /\ s = "set_pixel" => l \in {"set_pixel", "set_pixel.line", "set_pixel.byte",
                                          "set_pixel.mask", "set_pixel.done"}
  BY <1>1, InsideIs
<1>2. QED BY <1>1 DEF Routines

LEMMA CalledIsRoutine == \A b \in Backs : Called(b) \in Routines
BY CalledIs DEF Backs, Routines

LEMMA BacksCall ==
  \A b \in Backs : /\ Called(b) = "shr" => b \in {"cmp16.back", "set_pixel.byte"}
                   /\ Called(b) = "memcpy" => b \in {"memcpy16.back", "memcpy16.done"}
                   /\ Called(b) = "mul16_8" => b = "set_pixel.line"
                   /\ Called(b) = "shl" => b = "set_pixel.mask"
                   /\ Called(b) \in {"shr", "memcpy", "mul16_8", "shl"}
                   /\ b # "program"
BY CalledIs DEF Backs

LEMMA RoutineAsked ==
  ASSUME request \in Requests
  PROVE  /\ request.routine \in Routines /\ request.d0 \in Word
         /\ request.regs \in Files /\ \A d \in Register : Was(d) \in Byte
BY OsLibAssumption DEF Files, Was

(* Execution inside a routine: called by the program, or by whom it may be.*)
LEMMA WhoCalls ==
  ASSUME LibShape, NEW q \in Routines, at \in Inside(q)
  PROVE  /\ calls # << >> /\ at # "program"
         /\ calls = Direct =>
              /\ request.routine = q
              /\ \A b : calls # Via(b)
         /\ calls # Direct =>
              \E b \in Backs : /\ calls = Via(b) /\ Called(b) = q
                               /\ b \in Inside(request.routine)
<1>1. request.routine \in Routines /\ Calling
  BY RoutineAsked DEF LibShape
<1>2. at # "program"
  BY InsideApart
<1>3. CASE calls = Direct
  <2>1. at \in Inside(request.routine)
    BY <1>1, <1>2, <1>3, CallsDiffer DEF Calling
  <2>2. QED BY <1>1, <1>2, <1>3, <2>1, InsideApart, CallsDiffer
<1>4. ASSUME NEW b \in Backs, calls = Via(b), b \in Inside(request.routine),
             at \in Inside(Called(b))
      PROVE  Called(b) = q /\ calls # Direct /\ calls # << >>
  BY <1>4, CalledIsRoutine, InsideApart, CallsDiffer
<1>5. QED BY <1>1, <1>2, <1>3, <1>4 DEF Calling

LEMMA OnlyDirect ==
  ASSUME LibShape, NEW q \in Routines \ {"shr", "memcpy", "mul16_8", "shl"},
         at \in Inside(q)
  PROVE  calls = Direct /\ request.routine = q
BY WhoCalls, BacksCall
-----------------------------------------------------------------------------
(* Steps keep the shape, and memory unless they write to it.               *)
LEMMA StretchKeeps ==
  ASSUME LibShape, Unwritten, NEW q \in Routines, at \in Inside(q),
         at' \in Inside(q) \ {q}, at # "set_pixel.done",
         regs' \in Files, mem' = mem, calls' = calls, request' = request
  PROVE  LibShape' /\ Unwritten'
<1>1. at # "program" /\ at' # "program" /\ at' \notin {"memset", "memcpy16"}
  <2>1. at' \notin {"memset", "memcpy16"}
    BY InsideIs DEF Routines
  <2>2. QED BY <2>1, InsideApart
<1>2. Calling'
  <2>1. request.routine \in Routines
    BY RoutineAsked DEF LibShape
  <2>2. CASE calls = Direct
    BY <2>2, WhoCalls DEF Calling
  <2>3. CASE calls # Direct
    <3>1. PICK b \in Backs : calls = Via(b) /\ Called(b) = q /\ b \in Inside(request.routine)
      BY <2>3, WhoCalls
    <3>2. QED BY <3>1 DEF Calling
  <2>4. QED BY <2>2, <2>3
<1>3. LibShape'
  BY <1>2 DEF LibShape, Files
<1>4. Unwritten'
  BY <1>1 DEF Unwritten, Outside, Start
<1>5. QED BY <1>3, <1>4

LEMMA DirectReturn ==
  ASSUME LibShape, calls = Direct, at' = Head(calls), calls' = Tail(calls),
         regs' \in Files, mem' = mem, request' = request
  PROVE  LibShape' /\ at' = "program" /\ calls' = << >>
<1>1. at' = "program" /\ calls' = << >>
  BY CallsDiffer
<1>2. QED BY <1>1 DEF LibShape, Calling, Files

LEMMA ReturnUnwritten ==
  ASSUME Unwritten, at' = "program", mem' = mem, request' = request
  PROVE  Unwritten'
BY DEF Unwritten, Outside, Start

LEMMA ViaReturn ==
  ASSUME LibShape, Unwritten, NEW q \in Routines, at \in Inside(q), q # "set_pixel",
         NEW b \in Backs, calls = Via(b), at' = Head(calls), calls' = Tail(calls),
         regs' \in Files, mem' = mem, request' = request
  PROVE  LibShape' /\ Unwritten' /\ at' = b /\ calls' = Direct
<1>1. at' = b /\ calls' = Direct
  BY CallsDiffer
<1>2. b \in Inside(request.routine) /\ at # "program"
  BY WhoCalls, CallsDiffer
<1>3. at # "set_pixel.done"
  BY InsideIs, InsideApart DEF Routines
<1>4. LibShape'
  BY <1>1, <1>2 DEF LibShape, Calling, Files
<1>5. b \notin {"memset", "memcpy16"}
  BY DEF Backs
<1>6. Unwritten'
  BY <1>1, <1>2, <1>3, <1>5 DEF Unwritten, Outside, Start
<1>7. QED BY <1>1, <1>4, <1>6

-----------------------------------------------------------------------------
(* The entry to a routine, and what stays of it.                           *)
LEMMA RequestKept ==
  ASSUME request' = request
  PROVE  /\ \A d : Was(d)' = Was(d)
         /\ WasAB' = WasAB /\ WasCD' = WasCD /\ SavedAll' = SavedAll
         /\ HighFlags' = HighFlags /\ LowFlags' = LowFlags
         /\ ScanLine' = ScanLine /\ Dot' = Dot /\ Mask' = Mask /\ Start' = Start
BY DEF Was, WasAB, WasCD, SavedAll, HighFlags, LowFlags, ScanLine, Dot, Mask, Start

LEMMA EntryKept ==
  ASSUME request' = request, calls' = calls
  PROVE  Base' = Base /\ \A d : Entry(d)' = Entry(d)
<1>1. Base' = Base
  BY DEF Base, Direct, Via, Was, SavedAll, LowFlags, HighFlags, ScanLine, Dot
<1>2. ASSUME NEW d PROVE Entry(d)' = Entry(d)
  BY DEF Entry, Direct, Via, Was, HighFlags
<1>3. QED BY <1>1, <1>2

LEMMA EntryIs ==
  /\ calls = Direct => Base = << >> /\ \A d : Entry(d) = Was(d)
  /\ calls = Via("cmp16.back") =>
       /\ Base = <<LowFlags, HighFlags, Was(B), Was(A)>>
       /\ Entry(A) = HighFlags /\ Entry(B) = HighFlags
       /\ Entry(C) = Was(C) /\ Entry(D) = Was(D) /\ Entry(Z) = Was(Z)
  /\ calls = Via("set_pixel.line") =>
       /\ Base = SavedAll
       /\ Entry(A) = 0 /\ Entry(B) = Was(B) /\ Entry(C) = SCANLINE_WIDTH_BYTES
       /\ Entry(D) = Was(A) /\ Entry(Z) = Was(C)
  /\ calls = Via("set_pixel.byte") =>
       /\ Base = <<Lo(ScanLine), Hi(ScanLine)>> \o SavedAll
       /\ Entry(A) = Was(A) /\ Entry(B) = 3 /\ Entry(C) = SCANLINE_WIDTH_BYTES
       /\ Entry(D) = Was(A) /\ Entry(Z) = Was(C)
  /\ calls = Via("set_pixel.mask") =>
       /\ Base = <<Lo(Dot), Hi(Dot)>> \o SavedAll
       /\ Entry(A) = 1 /\ Entry(B) = Was(A) % 8 /\ Entry(C) = Was(A) \div 2
       /\ Entry(D) = Was(A) % 8 /\ Entry(Z) = Was(C)
  /\ calls \in {Via("memcpy16.back"), Via("memcpy16.done")} => Base = SavedAll
<1>1. /\ A # B /\ A # C /\ A # D /\ A # Z /\ B # C /\ B # D /\ B # Z /\ C # D
      /\ C # Z /\ D # Z
  BY Registers
<1>2. calls = Direct => Base = << >> /\ \A d : Entry(d) = Was(d)
  BY CallsDiffer DEF Base, Entry
<1>3. \A b, c \in Backs : b # c => Via(b) # Via(c)
  BY CallsDiffer
<1>4. \A b \in Backs : Via(b) # Direct
  BY CallsDiffer
<1>5. CASE calls = Via("cmp16.back")
  BY <1>1, <1>3, <1>4, <1>5 DEF Base, Entry, Backs
<1>6. CASE calls = Via("set_pixel.line")
  BY <1>1, <1>3, <1>4, <1>6 DEF Base, Entry, Backs
<1>7. CASE calls = Via("set_pixel.byte")
  BY <1>1, <1>3, <1>4, <1>7 DEF Base, Entry, Backs
<1>8. CASE calls = Via("set_pixel.mask")
  BY <1>1, <1>3, <1>4, <1>8 DEF Base, Entry, Backs
<1>9. CASE calls \in {Via("memcpy16.back"), Via("memcpy16.done")}
  BY <1>3, <1>4, <1>9 DEF Base, Backs
<1>10. QED BY <1>2, <1>5, <1>6, <1>7, <1>8, <1>9

LEMMA ScreenWords ==
  ASSUME request \in Requests
  PROVE  /\ ScanLine \in Word /\ Dot \in Word
         /\ HighFlags \in Byte /\ LowFlags \in Byte
         /\ Was(A) % 8 \in Byte /\ Was(A) \div 2 \in Byte
         /\ SCANLINE_WIDTH_BYTES \in Byte /\ 3 \in Byte /\ 1 \in Byte /\ 0 \in Byte
         /\ SavedAll \in Seq(Byte) /\ Len(SavedAll) = 5
<1>1. Was(A) \in Byte /\ Was(B) \in Byte /\ Was(C) \in Byte /\ Was(D) \in Byte
      /\ Was(Z) \in Byte
  BY RoutineAsked, RegistersAre
<1>2. HighFlags \in Byte /\ LowFlags \in Byte
  BY <1>1, FlagsAreByte DEF HighFlags, LowFlags
<1>3. /\ Was(A) \in Int /\ 0 <= Was(A) /\ Was(A) <= 255
      /\ Was(B) \in Int /\ 0 <= Was(B) /\ Was(B) <= 255
  BY <1>1, ByteBounds
<1>4. ScanLine \in Word /\ Dot \in Word
  BY <1>3, WordBounds
     DEF ScanLine, Dot, ADDR_BANK, SCANLINE_WIDTH_BYTES, SCANLINE_OFFSET_BYTES
<1>5. Was(A) % 8 \in Byte /\ Was(A) \div 2 \in Byte
  BY <1>3, ByteBounds
<1>6. SCANLINE_WIDTH_BYTES \in Byte /\ 3 \in Byte /\ 1 \in Byte /\ 0 \in Byte
  BY ByteBounds DEF SCANLINE_WIDTH_BYTES
<1>7. SavedAll \in Seq(Byte) /\ Len(SavedAll) = 5
  BY <1>1 DEF SavedAll
<1>8. QED BY <1>2, <1>4, <1>5, <1>6, <1>7

LEMMA Prefixed ==
  ASSUME NEW a \in Byte, NEW b \in Byte, NEW s \in Seq(Byte)
  PROVE  <<a, b>> \o s \in Seq(Byte)
<1>1. <<a, b>> \in Seq(Byte)
  OBVIOUS
<1>2. QED BY <1>1, ConcatProperties

LEMMA EntryBytes ==
  ASSUME LibShape, NEW q \in Routines, at \in Inside(q)
  PROVE  /\ Base \in Seq(Byte)
         /\ q # "memcpy" => /\ Entry(A) \in Byte /\ Entry(B) \in Byte /\ Entry(C) \in Byte
                            /\ Entry(D) \in Byte /\ Entry(Z) \in Byte
<1>1. request \in Requests /\ calls # << >>
  BY WhoCalls DEF LibShape
<1>2. /\ Was(A) \in Byte /\ Was(B) \in Byte /\ Was(C) \in Byte /\ Was(D) \in Byte
      /\ Was(Z) \in Byte
  BY <1>1, RoutineAsked, RegistersAre
<1>3. CASE calls = Direct
  <2>1. Base = << >> /\ \A d : Entry(d) = Was(d)
    BY <1>3, EntryIs
  <2>2. QED BY <1>2, <2>1
<1>4. CASE calls = Via("cmp16.back")
  <2>1. HighFlags \in Byte /\ LowFlags \in Byte
    BY <1>1, ScreenWords
  <2>2. Base \in Seq(Byte)
    <3>1. Base = <<LowFlags, HighFlags, Was(B), Was(A)>>
      BY <1>4, EntryIs
    <3>2. QED BY <1>2, <2>1, <3>1
  <2>3. QED BY <1>2, <1>4, <2>1, <2>2, EntryIs
<1>5. CASE calls = Via("set_pixel.line")
  BY <1>1, <1>2, <1>5, EntryIs, ScreenWords
<1>6. CASE calls = Via("set_pixel.byte")
  <2>1. /\ Lo(ScanLine) \in Byte /\ Hi(ScanLine) \in Byte /\ SavedAll \in Seq(Byte)
        /\ Was(A) % 8 \in Byte /\ Was(A) \div 2 \in Byte /\ 3 \in Byte
        /\ SCANLINE_WIDTH_BYTES \in Byte
    BY <1>1, ScreenWords, HalvesAreBytes
  <2>2. Base \in Seq(Byte)
    BY <1>6, <2>1, EntryIs, Prefixed
  <2>3. QED BY <1>2, <1>6, <2>1, <2>2, EntryIs
<1>7. CASE calls = Via("set_pixel.mask")
  <2>1. /\ Lo(Dot) \in Byte /\ Hi(Dot) \in Byte /\ SavedAll \in Seq(Byte)
        /\ Was(A) % 8 \in Byte /\ Was(A) \div 2 \in Byte /\ 1 \in Byte
    BY <1>1, ScreenWords, HalvesAreBytes
  <2>2. Base \in Seq(Byte)
    BY Zenon, <1>7, <2>1, EntryIs, Prefixed
  <2>3. QED BY <1>2, <1>7, <2>1, <2>2, EntryIs
<1>8. CASE calls \in {Via("memcpy16.back"), Via("memcpy16.done")}
  <2>1. Base \in Seq(Byte)
    BY <1>1, <1>8, EntryIs, ScreenWords
  <2>2. q = "memcpy"
    BY <1>8, WhoCalls, CallsDiffer, CalledIs
  <2>3. QED BY <2>1, <2>2
<1>9. calls = Direct \/ \E b \in Backs : calls = Via(b)
  BY <1>1, WhoCalls
<1>10. QED BY <1>3, <1>4, <1>5, <1>6, <1>7, <1>8, <1>9 DEF Backs

(* Only the claim of the label that is reached has to be shown.            *)
LEMMA ClaimThere ==
  /\ at' \in Routines \ {"memcpy"} /\ Fresh' => Claims'
  /\ at' = "mul.loop" /\ AtMulLoop' => Claims'
  /\ at' = "mul.done" /\ AtMulDone' => Claims'
  /\ at' = "mul16_8.loop" /\ AtMul16by8Loop' => Claims'
  /\ at' = "mul16_8.done" /\ AtMul16by8Done' => Claims'
  /\ at' = "mul16.loop" /\ AtMul16Loop' => Claims'
  /\ at' = "mul16.done" /\ AtMul16Done' => Claims'
  /\ at' = "cmp16.back" /\ AtCmp16Back' => Claims'
  /\ at' = "shl.shift" /\ AtShlShift' => Claims'
  /\ at' = "shl.done" /\ AtShlDone' => Claims'
  /\ at' = "shl16.shift" /\ AtShl16Shift' => Claims'
  /\ at' = "shl16.done" /\ AtShl16Done' => Claims'
  /\ at' = "shr.shift" /\ AtShrShift' => Claims'
  /\ at' = "shr.done" /\ AtShrDone' => Claims'
  /\ at' = "strlen.loop" /\ AtStrlenLoop' => Claims'
  /\ at' = "strlen.done" /\ AtStrlenDone' => Claims'
  /\ at' = "memcpy" /\ AtMemcpy' => Claims'
  /\ at' = "memcpy.loop" /\ AtMemcpyLoop' => Claims'
  /\ at' = "memcpy.done" /\ AtMemcpyDone' => Claims'
  /\ at' = "memcpy16.loop" /\ AtMemcpy16Loop' => Claims'
  /\ at' = "memcpy16.back" /\ AtMemcpy16Back' => Claims'
  /\ at' = "memcpy16.done" /\ AtMemcpy16Done' => Claims'
  /\ at' = "memset.loop" /\ AtMemsetLoop' => Claims'
  /\ at' = "memset.done" /\ AtMemsetDone' => Claims'
  /\ at' = "set_pixel.line" /\ AtSetPixelLine' => Claims'
  /\ at' = "set_pixel.byte" /\ AtSetPixelByte' => Claims'
  /\ at' = "set_pixel.mask" /\ AtSetPixelMask' => Claims'
  /\ at' = "set_pixel.done" /\ AtSetPixelDone' => Claims'
  /\ at' = "program" /\ AtProgram' => Claims'
BY DEF Claims, Routines

LEMMA ClaimHere ==
  ASSUME Claims
  PROVE  /\ at \in {"mul", "mul16_8", "mul16", "cmp16", "shl", "shl16", "shr",
                    "strlen", "memcpy16", "memset", "set_pixel"} => Fresh
         /\ at = "memcpy" => AtMemcpy
BY DEF Claims, Routines

(* A routine returns to the program: what is left to show is its result.   *)
Quiet == Routines \ {"memcpy", "memcpy16", "memset", "set_pixel", "mul16", "strlen"}
LEMMA KeptThere ==
  ASSUME request' = request, at' = "program", calls' = << >>, stack' = << >>,
         \A d \in General \ Results(request.routine) : regs'[d] = Was(d)
  PROVE  RegistersKept'
<1>1. \A d \in Register \ (Results(request.routine) \cup {F, H, L}) :
         d \in General \ Results(request.routine)
  BY RegistersAre
<1>2. QED BY <1>1 DEF RegistersKept, Was

LEMMA QuietMemory ==
  ASSUME request' = request, at' = "program", mem' = Start,
         request.routine \in Quiet
  PROVE  MemoryRight'
<1>1. mem' = Start'
  BY RequestKept
<1>2. request.routine \notin {"memcpy", "memcpy16", "memset", "set_pixel", "mul16", "strlen"}
  BY DEF Quiet
<1>3. QED BY <1>1, <1>2 DEF MemoryRight, Returned

LEMMA NoOrder ==
  ASSUME request' = request, request.routine # "cmp16"
  PROVE  OrderRight'
BY DEF OrderRight, Returned

LEMMA NoProduct ==
  ASSUME request' = request,
         request.routine \notin {"mul", "mul16_8", "mul16", "shl", "shl16"}
  PROVE  ProductsRight'
BY DEF ProductsRight, Returned

-----------------------------------------------------------------------------
(* The return from a routine, with what it saved restored.                 *)
LEMMA Here ==
  ASSUME LibInv
  PROVE  /\ LibShape /\ Unwritten /\ Claims /\ regs \in Files
         /\ request \in Requests
         /\ mem \in [DOMAIN Contents -> Byte]
         /\ regs[A] \in Byte /\ regs[B] \in Byte /\ regs[C] \in Byte
         /\ regs[D] \in Byte /\ regs[Z] \in Byte /\ regs[F] \in Byte
         /\ Was(A) \in Byte /\ Was(B) \in Byte /\ Was(C) \in Byte
         /\ Was(D) \in Byte /\ Was(Z) \in Byte
<1>1. /\ LibShape /\ Unwritten /\ Claims /\ regs \in Files /\ request \in Requests
      /\ mem \in [DOMAIN Contents -> Byte]
  BY DEF LibInv, LibShape, Files
<1>2. QED BY <1>1, RoutineAsked, RegistersAre DEF Files

LEMMA ReturnKeeps ==
  ASSUME LibShape, Unwritten, NEW q \in Routines, at \in Inside(q),
         calls = Direct \/ q # "set_pixel",
         at' = Head(calls), calls' = Tail(calls),
         regs' \in Files, mem' = mem, request' = request
  PROVE  /\ LibShape' /\ Unwritten'
         /\ calls = Direct => at' = "program" /\ calls' = << >>
         /\ calls # Direct => \E b \in Backs : /\ calls = Via(b) /\ Called(b) = q
                                               /\ at' = b /\ calls' = Direct
                                               /\ b \in Inside(request.routine)
<1>1. CASE calls = Direct
  BY <1>1, DirectReturn, ReturnUnwritten
<1>2. CASE calls # Direct
  <2>1. PICK b \in Backs : calls = Via(b) /\ Called(b) = q /\ b \in Inside(request.routine)
    BY <1>2, WhoCalls
  <2>2. LibShape' /\ Unwritten' /\ at' = b /\ calls' = Direct
    BY <1>2, <2>1, ViaReturn
  <2>3. QED BY <1>2, <2>1, <2>2
<1>3. QED BY <1>1, <1>2

Returning(q) ==
  /\ LibShape' /\ Unwritten' /\ request' = request /\ mem' = mem /\ stack' = Base
  /\ regs' \in Files
  /\ calls = Direct => /\ at' = "program" /\ calls' = << >> /\ stack' = << >>
                       /\ request.routine = q
  /\ calls # Direct => \E b \in Backs : /\ calls = Via(b) /\ Called(b) = q
                                        /\ at' = b /\ calls' = Direct
                                        /\ b \in Inside(request.routine)

(* ... and the registers in S as they were on entry.                       *)
Restoring(q, S) ==
  /\ Returning(q) /\ \A d \in S : regs'[d] = Entry(d)
  /\ \A d \in General \ S : regs'[d] = regs[d]

LEMMA SavedRestored ==
  ASSUME LibInv, NEW q \in Routines \ {"memcpy", "set_pixel"}, NEW from,
         at \in Inside(q),
         NEW list \in Seq(General), NEW saved \in Seq(Byte), Len(saved) = Len(list),
         Len(saved) > 0, OneToOne(list), stack = saved \o Base, Leave(from, regs, list)
  PROVE  /\ Returning(q)
         /\ \A i \in 1 .. Len(list) : list[i] \in General /\ regs'[list[i]] = saved[i]
         /\ \A d \in General : (\A i \in 1 .. Len(list) : list[i] # d) => regs'[d] = regs[d]
<1> DEFINE base == Base
<1>1. base \in Seq(Byte) /\ regs \in Files /\ stack = saved \o base
  BY Here, EntryBytes
<1> HIDE DEF base
<1>2. /\ mem' = mem /\ request' = request /\ at' = Head(calls) /\ calls' = Tail(calls)
      /\ stack' = base /\ regs' \in Files
      /\ \A i \in 1 .. Len(list) : list[i] \in General /\ regs'[list[i]] = saved[i]
      /\ \A d \in General : (\A i \in 1 .. Len(list) : list[i] # d) => regs'[d] = regs[d]
  BY Zenon, <1>1, LeaveSaved
<1>3. /\ LibShape' /\ Unwritten'
      /\ calls = Direct => at' = "program" /\ calls' = << >>
      /\ calls # Direct => \E r \in Backs : /\ calls = Via(r) /\ Called(r) = q
                                            /\ at' = r /\ calls' = Direct
                                            /\ r \in Inside(request.routine)
  BY <1>2, Here, ReturnKeeps
<1>4. calls = Direct => Base = << >> /\ request.routine = q
  BY Here, EntryIs, WhoCalls
<1>5. QED BY <1>2, <1>3, <1>4 DEF Returning, base

LEMMA OneRestored ==
  ASSUME LibInv, NEW q \in Routines \ {"memcpy", "set_pixel"}, NEW from,
         at \in Inside(q),
         NEW x \in General,
         stack = <<Entry(x)>> \o Base, Leave(from, regs, <<x>>)
  PROVE  Restoring(q, {x})
<1> DEFINE list == <<x>>
           saved == <<Entry(x)>>
<1>1. list \in Seq(General) /\ Len(list) = 1 /\ list[1] = x
  OBVIOUS
<1>2. \A d \in General : Entry(d) \in Byte
  BY Here, EntryBytes DEF General
<1>3. saved \in Seq(Byte) /\ Len(saved) = 1 /\ saved[1] = Entry(x)
  BY <1>2
<1>4. stack = saved \o Base /\ Leave(from, regs, list)
  OBVIOUS
<1> HIDE DEF list, saved
<1>5. OneToOne(list) /\ Len(saved) = Len(list) /\ Len(saved) > 0
  BY <1>1, <1>3 DEF OneToOne
<1>6. /\ Returning(q)
      /\ \A i \in 1 .. Len(list) : list[i] \in General /\ regs'[list[i]] = saved[i]
      /\ \A d \in General : (\A i \in 1 .. Len(list) : list[i] # d) => regs'[d] = regs[d]
  BY Zenon, <1>1, <1>3, <1>4, <1>5, SavedRestored
<1>7. QED BY <1>1, <1>3, <1>6 DEF Restoring

LEMMA TwoRestored ==
  ASSUME LibInv, NEW q \in Routines \ {"memcpy", "set_pixel"}, NEW from,
         at \in Inside(q),
         NEW x \in General, NEW y \in General, x # y,
         stack = <<Entry(x), Entry(y)>> \o Base, Leave(from, regs, <<x, y>>)
  PROVE  Restoring(q, {x, y})
<1> DEFINE list == <<x, y>>
           saved == <<Entry(x), Entry(y)>>
<1>1. list \in Seq(General) /\ Len(list) = 2 /\ list[1] = x /\ list[2] = y
  OBVIOUS
<1>2. \A d \in General : Entry(d) \in Byte
  BY Here, EntryBytes DEF General
<1>3. saved \in Seq(Byte) /\ Len(saved) = 2 /\ saved[1] = Entry(x)
      /\ saved[2] = Entry(y)
  BY <1>2
<1>4. stack = saved \o Base /\ Leave(from, regs, list)
  OBVIOUS
<1> HIDE DEF list, saved
<1>5. OneToOne(list) /\ Len(saved) = Len(list) /\ Len(saved) > 0
  BY <1>1, <1>3 DEF OneToOne
<1>6. /\ Returning(q)
      /\ \A i \in 1 .. Len(list) : list[i] \in General /\ regs'[list[i]] = saved[i]
      /\ \A d \in General : (\A i \in 1 .. Len(list) : list[i] # d) => regs'[d] = regs[d]
  BY Zenon, <1>1, <1>3, <1>4, <1>5, SavedRestored
<1>7. QED BY <1>1, <1>3, <1>6 DEF Restoring

LEMMA ThreeRestored ==
  ASSUME LibInv, NEW q \in Routines \ {"memcpy", "set_pixel"}, NEW from,
         at \in Inside(q),
         NEW x \in General, NEW y \in General, NEW z \in General, x # y, x # z, y # z,
         stack = <<Entry(x), Entry(y), Entry(z)>> \o Base, Leave(from, regs, <<x, y, z>>)
  PROVE  Restoring(q, {x, y, z})
<1> DEFINE list == <<x, y, z>>
           saved == <<Entry(x), Entry(y), Entry(z)>>
<1>1. list \in Seq(General) /\ Len(list) = 3 /\ list[1] = x /\ list[2] = y
      /\ list[3] = z
  OBVIOUS
<1>2. \A d \in General : Entry(d) \in Byte
  BY Here, EntryBytes DEF General
<1>3. saved \in Seq(Byte) /\ Len(saved) = 3 /\ saved[1] = Entry(x)
      /\ saved[2] = Entry(y) /\ saved[3] = Entry(z)
  BY <1>2
<1>4. stack = saved \o Base /\ Leave(from, regs, list)
  OBVIOUS
<1> HIDE DEF list, saved
<1>5. OneToOne(list) /\ Len(saved) = Len(list) /\ Len(saved) > 0
  BY <1>1, <1>3 DEF OneToOne
<1>6. /\ Returning(q)
      /\ \A i \in 1 .. Len(list) : list[i] \in General /\ regs'[list[i]] = saved[i]
      /\ \A d \in General : (\A i \in 1 .. Len(list) : list[i] # d) => regs'[d] = regs[d]
  BY Zenon, <1>1, <1>3, <1>4, <1>5, SavedRestored
<1>7. QED BY <1>1, <1>3, <1>6 DEF Restoring

LEMMA DirectlyReturned ==
  ASSUME LibInv, NEW q \in Quiet, Returning(q), calls = Direct, at # "set_pixel.done",
         at # "program", \A d \in General \ Results(q) : regs'[d] = Was(d),
         ProductsRight', OrderRight'
  PROVE  LibInv'
<1>1. /\ LibShape' /\ Unwritten' /\ request' = request /\ mem' = mem
      /\ at' = "program" /\ calls' = << >> /\ stack' = << >> /\ request.routine = q
  BY DEF Returning
<1>2. RegistersKept'
  BY <1>1, KeptThere
<1>3. MemoryRight'
  <2>1. mem = Start
    BY <1>1, Here DEF Unwritten, Quiet
  <2>2. QED BY <1>1, <2>1, QuietMemory
<1>4. AtProgram'
  BY <1>2, <1>3 DEF AtProgram
<1>5. QED BY <1>1, <1>4, ClaimThere DEF LibInv

-----------------------------------------------------------------------------
(* mul                                                                     *)
LEMMA MulKeeps == LibInv /\ Mul => LibInv'
<1> SUFFICES ASSUME LibInv, Mul PROVE LibInv'
  OBVIOUS
<1> DEFINE a == mw(regs, C, Reg(B))
           b == mw(a, B, Reg(A))
           c == mw(b, A, Imm(0))
           d == jz(c, C)
<1>1. /\ at = "mul" /\ regs' = d /\ stack' = pushed(regs, stack, <<B, C>>)
      /\ mem' = mem /\ at' = (IF c[C] = 0 THEN "mul.done" ELSE "mul.loop")
      /\ calls' = calls /\ request' = request
  BY DEF Mul, Save, Stretch
<1>2. /\ Reg(B) \in AnyOperand /\ Reg(A) \in AnyOperand /\ Imm(0) \in AnyOperand
      /\ A \in Register /\ B \in Register /\ C \in Register
      /\ \A s : Val(s, Reg(B)) = s[B] /\ Val(s, Reg(A)) = s[A] /\ Val(s, Imm(0)) = 0
  BY RegistersAre, ValOfReg, ValOfImm
<1>3. calls = Direct /\ request.routine = "mul"
  BY <1>1, Here, OnlyDirect, InsideIs DEF Routines
<1>4. /\ stack = Base /\ regs[A] = Was(A) /\ regs[B] = Was(B) /\ regs[C] = Was(C)
      /\ regs[D] = Was(D) /\ regs[Z] = Was(Z) /\ \A e \in General : Entry(e) = regs[e]
  BY <1>1, <1>3, Here, ClaimHere, EntryIs DEF Fresh, AsEntered, General
<1>5. Only(a, regs, {C}) /\ a[C] = regs[B] /\ a \in Files
  BY Zenon, <1>2, Here, MwOnly, OnlyIsFile
<1> HIDE DEF a
<1>6. Only(b, a, {B}) /\ b[B] = a[A] /\ b \in Files
  BY Zenon, <1>2, <1>5, MwOnly, OnlyIsFile
<1> HIDE DEF b
<1>7. Only(c, b, {A}) /\ c[A] = 0 /\ c \in Files
  BY Zenon, <1>2, <1>6, MwOnly, OnlyIsFile
<1> HIDE DEF c
<1>8. Only(d, c, {F, H, L}) /\ d \in Files
  BY Zenon, <1>2, <1>7, JzOnly, OnlyIsFile
<1> HIDE DEF d
<1>9. /\ d[A] = 0 /\ d[B] = Was(A) /\ d[C] = Was(B) /\ c[C] = Was(B)
      /\ d[D] = Was(D) /\ d[Z] = Was(Z)
  BY <1>4, <1>5, <1>6, <1>7, <1>8, Registers DEF Only
<1>10. stack' = (<<Entry(C), Entry(B)>> \o Base)'
  <2>1. pushed(regs, stack, <<B, C>>) = <<regs[C], regs[B]>> \o stack
    BY Zenon, <1>2, PushedTwo
  <2>2. Entry(C) = regs[C] /\ Entry(B) = regs[B]
    BY <1>4 DEF General
  <2>3. Base' = Base /\ Entry(C)' = Entry(C) /\ Entry(B)' = Entry(B)
    BY <1>1, EntryKept
  <2>4. QED BY Zenon, <1>1, <1>4, <2>1, <2>2, <2>3
<1>11. LibShape' /\ Unwritten'
  <2>1. at \in Inside("mul") /\ at' \in Inside("mul") \ {"mul"} /\ at # "set_pixel.done"
        /\ "mul" \in Routines
    BY <1>1, InsideIs DEF Routines
  <2>2. QED BY <1>1, <1>8, <2>1, Here, StretchKeeps
<1>12. AsEntered({D, Z})'
  BY <1>1, <1>3, <1>9, EntryIs, EntryKept DEF AsEntered
<1>13. Claims'
  <2>1. CASE c[C] = 0
    <3>1. ToByte(Was(A) * Was(B)) = 0
      BY <1>9, <2>1, Here, BytesAreWords DEF ToByte
    <3>2. AtMulDone'
      BY Zenon, <1>1, <1>9, <1>10, <1>12, <3>1, RequestKept DEF AtMulDone
    <3>3. QED BY <1>1, <2>1, <3>2, ClaimThere
  <2>2. CASE c[C] # 0
    <3>1. Was(B) \in 1 .. Was(B)
      BY <1>9, <2>2, Here, BytesAreWords
    <3>2. ToByte(Was(A) * (Was(B) - Was(B))) = 0
      BY Here, BytesAreWords DEF ToByte
    <3>3. AtMulLoop'
      BY Zenon, <1>1, <1>9, <1>10, <1>12, <3>1, <3>2, RequestKept DEF AtMulLoop
    <3>4. QED BY <1>1, <2>2, <3>3, ClaimThere
  <2>3. QED BY <2>1, <2>2
<1>14. QED BY <1>11, <1>13 DEF LibInv

LEMMA MulLoopKeeps == LibInv /\ MulLoop => LibInv'
<1> SUFFICES ASSUME LibInv, MulLoop PROVE LibInv'
  OBVIOUS
<1> DEFINE a == add(regs, A, Reg(B))
           b == dec(a, C)
           c == jnz(b)
<1>1. /\ at = "mul.loop" /\ regs' = c /\ stack' = stack
      /\ mem' = mem /\ at' = (IF b[C] # 0 THEN "mul.loop" ELSE "mul.done")
      /\ calls' = calls /\ request' = request
  BY DEF MulLoop, Run, Stretch
<1>2. /\ Reg(B) \in AnyOperand /\ A \in Register \ {F} /\ C \in Register \ {F}
      /\ \A s : Val(s, Reg(B)) = s[B]
  BY RegistersAre, Registers, ValOfReg
<1>3. AtMulLoop
  BY <1>1, Here DEF Claims
<1>4. Only(a, regs, {A, F}) /\ a[A] = ToByte(regs[A] + regs[B]) /\ a \in Files
  BY Zenon, <1>2, Here, AddOnly, OnlyIsFile
<1> HIDE DEF a
<1>5. Only(b, a, {C, F}) /\ b[C] = ToByte(a[C] - 1) /\ b \in Files
  BY <1>2, <1>4, DecOnly, OnlyIsFile
<1> HIDE DEF b
<1>6. Only(c, b, {H, L}) /\ c \in Files
  BY <1>5, JnzOnly, OnlyIsFile
<1> HIDE DEF c
<1>7. /\ c[A] = ToByte(regs[A] + regs[B]) /\ c[B] = regs[B]
      /\ c[C] = ToByte(regs[C] - 1)
      /\ b[C] = c[C] /\ c[D] = regs[D] /\ c[Z] = regs[Z]
  BY <1>4, <1>5, <1>6, Registers DEF Only
<1> DEFINE x == Was(A)
           n == Was(B)
           k == regs[C]
<1>8. /\ x \in Int /\ n \in Int /\ k \in Int /\ k \in 1 .. n /\ regs[B] = x
      /\ regs[A] = ToByte(x * (n - k)) /\ k \in Byte /\ k # 0
  <2>1. x \in Int /\ n \in Int /\ k \in Int /\ k \in Byte
    BY Here, BytesAreWords
  <2>2. QED BY <1>3, <2>1 DEF AtMulLoop
<1>9. c[C] = k - 1 /\ c[A] = ToByte(x * (n - (k - 1)))
  <2>1. c[C] = k - 1
    BY <1>7, <1>8, CountedDown
  <2>2. x * (n - k) \in Int /\ x * (n - k) + x = x * (n - (k - 1))
    BY <1>8, NextMultiple
  <2>3. ToByte(ToByte(x * (n - k)) + x) = ToByte(x * (n - k) + x)
    BY Zenon, <1>8, <2>2, ByteSums
  <2>4. QED BY <1>7, <1>8, <2>1, <2>2, <2>3
<1>10. LibShape' /\ Unwritten'
  <2>1. at \in Inside("mul") /\ at' \in Inside("mul") \ {"mul"} /\ at # "set_pixel.done"
        /\ "mul" \in Routines
    BY <1>1, InsideIs DEF Routines
  <2>2. QED BY <1>1, <1>6, <2>1, Here, StretchKeeps
<1>11. AsEntered({D, Z})' /\ stack' = (<<Entry(C), Entry(B)>> \o Base)'
  BY <1>1, <1>3, <1>7, EntryKept DEF AsEntered, AtMulLoop
<1>12. Claims'
  <2>1. CASE k - 1 = 0
    <3>1. x * (n - (k - 1)) = x * n
      BY <1>8, <2>1
    <3>2. AtMulDone'
      BY <1>1, <1>9, <1>11, <3>1, RequestKept DEF AtMulDone
    <3>3. QED BY <1>1, <1>7, <1>9, <2>1, <3>2, ClaimThere
  <2>2. CASE k - 1 # 0
    <3>1. k - 1 \in 1 .. n
      BY <1>8, <2>2
    <3>2. AtMulLoop'
      BY <1>1, <1>7, <1>8, <1>9, <1>11, <3>1, RequestKept DEF AtMulLoop
    <3>3. QED BY Zenon, <1>1, <1>7, <1>9, <2>2, <3>2, ClaimThere
  <2>3. QED BY <2>1, <2>2
<1>13. QED BY <1>10, <1>12 DEF LibInv

LEMMA MulDoneKeeps == LibInv /\ MulDone => LibInv'
<1> SUFFICES ASSUME LibInv, MulDone PROVE LibInv'
  OBVIOUS
<1>1. at = "mul.done" /\ Leave("mul.done", regs, <<C, B>>)
  BY DEF MulDone, Leave
<1>2. "mul" \in Routines \ {"memcpy", "set_pixel"} /\ at \in Inside("mul")
      /\ "mul" \in Quiet
  BY <1>1, InsideIs DEF Routines, Quiet
<1>3. calls = Direct
  BY <1>1, Here, OnlyDirect, InsideIs DEF Routines
<1>4. /\ C \in General /\ B \in General /\ C # B
      /\ stack = <<Entry(C), Entry(B)>> \o Base
      /\ regs[A] = ToByte(Was(A) * Was(B)) /\ AsEntered({D, Z})
  BY <1>1, Here, Registers DEF Claims, AtMulDone, General
<1>5. Restoring("mul", {C, B})
  BY Zenon, <1>1, <1>2, <1>4, TwoRestored
<1>6. /\ regs'[A] = ToByte(Was(A) * Was(B)) /\ regs'[C] = Was(C) /\ regs'[B] = Was(B)
      /\ regs'[D] = Was(D) /\ regs'[Z] = Was(Z)
  BY <1>3, <1>4, <1>5, EntryIs, Registers DEF AsEntered, General, Restoring
<1>7. Returning("mul") /\ request' = request /\ request.routine = "mul"
  BY <1>3, <1>5 DEF Returning, Restoring
<1>8. ProductsRight' /\ OrderRight'
  BY <1>6, <1>7, RequestKept, NoOrder DEF ProductsRight, Returned
<1>9. \A d \in General \ Results("mul") : regs'[d] = Was(d)
  BY <1>6 DEF General, Results
<1>10. QED BY <1>1, <1>2, <1>3, <1>7, <1>8, <1>9, DirectlyReturned

-----------------------------------------------------------------------------
(* What the steps of the routines have in common.                          *)
LEMMA OperandsAre ==
  /\ \A d \in {A, B, C, D, Z} : d \in Register /\ d \in Register \ {F}
  /\ A \in Register \ {F} /\ B \in Register \ {F} /\ C \in Register \ {F}
  /\ D \in Register \ {F} /\ Z \in Register \ {F} /\ H \in Register \ {F}
  /\ A \in Register /\ B \in Register /\ C \in Register /\ D \in Register
  /\ Z \in Register /\ F \in Register /\ H \in Register /\ L \in Register
  /\ Imm(0) \in AnyOperand /\ Imm(1) \in AnyOperand /\ Imm(7) \in AnyOperand
  /\ Imm(2) \in AnyOperand /\ Imm(3) \in AnyOperand
  /\ Reg(A) \in AnyOperand /\ Reg(B) \in AnyOperand /\ Reg(C) \in AnyOperand
  /\ Reg(D) \in AnyOperand /\ Reg(Z) \in AnyOperand /\ Reg(F) \in AnyOperand
  /\ Reg(H) \in AnyOperand /\ Reg(L) \in AnyOperand
  /\ \A s : /\ Val(s, Reg(A)) = s[A] /\ Val(s, Reg(B)) = s[B] /\ Val(s, Reg(C)) = s[C]
            /\ Val(s, Reg(D)) = s[D] /\ Val(s, Reg(Z)) = s[Z] /\ Val(s, Reg(F)) = s[F]
            /\ Val(s, Reg(H)) = s[H] /\ Val(s, Reg(L)) = s[L]
            /\ Val(s, Imm(0)) = 0 /\ Val(s, Imm(1)) = 1 /\ Val(s, Imm(2)) = 2
            /\ Val(s, Imm(3)) = 3 /\ Val(s, Imm(7)) = 7
  /\ \A s, n : Val(s, Imm(n)) = n
  /\ AB \in {AB, CD} /\ CD \in {AB, CD}
<1>1. 0 \in Byte /\ 1 \in Byte /\ 7 \in Byte /\ 2 \in Byte /\ 3 \in Byte
  BY ByteBounds
<1>2. \A n \in {0, 1, 2, 3, 7} : Imm(n) \in AnyOperand
  BY <1>1, ImmOperand
<1>3. \A d \in {A, B, C, D, Z} : d \in Register /\ d \in Register \ {F}
  BY Registers
<1>4. /\ A \in Register \ {F} /\ B \in Register \ {F} /\ C \in Register \ {F}
      /\ D \in Register \ {F} /\ Z \in Register \ {F} /\ H \in Register \ {F}
      /\ F \in Register /\ H \in Register /\ L \in Register
  BY Registers
<1>5. QED BY <1>2, <1>3, <1>4, RegOperand, ValOfReg, ValOfImm

LEMMA Members ==
  /\ A \in Register /\ B \in Register /\ C \in Register /\ D \in Register
  /\ Z \in Register /\ F \in Register /\ H \in Register /\ L \in Register
  /\ A \in Register \ {F} /\ B \in Register \ {F} /\ C \in Register \ {F}
  /\ D \in Register \ {F} /\ Z \in Register \ {F} /\ H \in Register \ {F}
  /\ 0 \in Byte /\ 1 \in Byte /\ 2 \in Byte /\ 3 \in Byte /\ 7 \in Byte /\ 255 \in Byte
  /\ AB \in {AB, CD} /\ CD \in {AB, CD}
<1>1. 0 \in Byte /\ 1 \in Byte /\ 2 \in Byte /\ 3 \in Byte /\ 7 \in Byte /\ 255 \in Byte
  BY ByteBounds
<1>2. QED BY <1>1, OperandsAre

(* The instructions with a register and with a byte.                       *)
LEMMA MwReg ==
  ASSUME NEW r \in Files, NEW d \in Register, NEW e \in Register
  PROVE  /\ Only(mw(r, d, Reg(e)), r, {d}) /\ mw(r, d, Reg(e))[d] = r[e]
         /\ mw(r, d, Reg(e)) \in Files
<1>1. Reg(e) \in AnyOperand /\ Val(r, Reg(e)) = r[e]
  BY RegOperand, ValOfReg
<1>2. Only(mw(r, d, Reg(e)), r, {d}) /\ mw(r, d, Reg(e))[d] = Val(r, Reg(e))
  BY <1>1, MwOnly
<1>3. QED BY <1>1, <1>2, OnlyIsFile

LEMMA MwImm ==
  ASSUME NEW r \in Files, NEW d \in Register, NEW n \in Byte
  PROVE  /\ Only(mw(r, d, Imm(n)), r, {d}) /\ mw(r, d, Imm(n))[d] = n
         /\ mw(r, d, Imm(n)) \in Files
<1>1. Imm(n) \in AnyOperand /\ Val(r, Imm(n)) = n
  BY ImmOperand, ValOfImm
<1>2. Only(mw(r, d, Imm(n)), r, {d}) /\ mw(r, d, Imm(n))[d] = Val(r, Imm(n))
  BY <1>1, MwOnly
<1>3. QED BY <1>1, <1>2, OnlyIsFile

LEMMA AddReg ==
  ASSUME NEW r \in Files, NEW d \in Register \ {F}, NEW e \in Register
  PROVE  /\ Only(add(r, d, Reg(e)), r, {d, F})
         /\ add(r, d, Reg(e))[d] = ToByte(r[d] + r[e])
         /\ add(r, d, Reg(e)) \in Files
<1>1. Reg(e) \in AnyOperand /\ Val(r, Reg(e)) = r[e]
  BY RegOperand, ValOfReg
<1>2. Only(add(r, d, Reg(e)), r, {d, F})
      /\ add(r, d, Reg(e))[d] = ToByte(r[d] + Val(r, Reg(e)))
  BY <1>1, AddOnly
<1>3. QED BY <1>1, <1>2, OnlyIsFile

LEMMA AddImm ==
  ASSUME NEW r \in Files, NEW d \in Register \ {F}, NEW n \in Byte
  PROVE  /\ Only(add(r, d, Imm(n)), r, {d, F})
         /\ add(r, d, Imm(n))[d] = ToByte(r[d] + n)
         /\ add(r, d, Imm(n)) \in Files
<1>1. Imm(n) \in AnyOperand /\ Val(r, Imm(n)) = n
  BY ImmOperand, ValOfImm
<1>2. Only(add(r, d, Imm(n)), r, {d, F})
      /\ add(r, d, Imm(n))[d] = ToByte(r[d] + Val(r, Imm(n)))
  BY <1>1, AddOnly
<1>3. QED BY <1>1, <1>2, OnlyIsFile

LEMMA CmpReg ==
  ASSUME NEW r \in Files, NEW d \in Register, NEW e \in Register
  PROVE  /\ Only(cmp(r, d, Reg(e)), r, {F})
         /\ cmp(r, d, Reg(e))[F] = FlagsOf(r[d], r[e])
         /\ cmp(r, d, Reg(e)) \in Files
<1>1. Reg(e) \in AnyOperand /\ Val(r, Reg(e)) = r[e]
  BY RegOperand, ValOfReg
<1>2. Only(cmp(r, d, Reg(e)), r, {F})
      /\ cmp(r, d, Reg(e))[F] = FlagsOf(r[d], Val(r, Reg(e)))
  BY <1>1, CmpOnly
<1>3. QED BY <1>1, <1>2, OnlyIsFile

LEMMA AndReg ==
  ASSUME NEW r \in Files, NEW d \in Register, NEW e \in Register
  PROVE  /\ Only(and(r, d, Reg(e)), r, {d}) /\ and(r, d, Reg(e))[d] = And(r[d], r[e])
         /\ and(r, d, Reg(e)) \in Files
<1>1. Reg(e) \in AnyOperand /\ Val(r, Reg(e)) = r[e]
  BY RegOperand, ValOfReg
<1>2. Only(and(r, d, Reg(e)), r, {d})
      /\ and(r, d, Reg(e))[d] = And(r[d], Val(r, Reg(e)))
  BY <1>1, AndOnly
<1>3. QED BY <1>1, <1>2, OnlyIsFile

LEMMA AndImm ==
  ASSUME NEW r \in Files, NEW d \in Register, NEW n \in Byte
  PROVE  /\ Only(and(r, d, Imm(n)), r, {d}) /\ and(r, d, Imm(n))[d] = And(r[d], n)
         /\ and(r, d, Imm(n)) \in Files
<1>1. Imm(n) \in AnyOperand /\ Val(r, Imm(n)) = n
  BY ImmOperand, ValOfImm
<1>2. Only(and(r, d, Imm(n)), r, {d})
      /\ and(r, d, Imm(n))[d] = And(r[d], Val(r, Imm(n)))
  BY <1>1, AndOnly
<1>3. QED BY <1>1, <1>2, OnlyIsFile

LEMMA OrReg ==
  ASSUME NEW r \in Files, NEW d \in Register, NEW e \in Register
  PROVE  /\ Only(or(r, d, Reg(e)), r, {d}) /\ or(r, d, Reg(e))[d] = Or(r[d], r[e])
         /\ or(r, d, Reg(e)) \in Files
<1>1. Reg(e) \in AnyOperand /\ Val(r, Reg(e)) = r[e]
  BY RegOperand, ValOfReg
<1>2. Only(or(r, d, Reg(e)), r, {d}) /\ or(r, d, Reg(e))[d] = Or(r[d], Val(r, Reg(e)))
  BY <1>1, OrOnly
<1>3. QED BY <1>1, <1>2, OnlyIsFile

LEMMA SavesOne ==
  ASSUME Fresh, request' = request, calls' = calls, NEW x \in General,
         stack' = pushed(regs, stack, <<x>>)
  PROVE  stack' = (<<Entry(x)>> \o Base)'
<1>1. stack' = <<regs[x]>> \o stack
  <2>1. x \in Register
    BY RegistersAre
  <2>2. QED BY Zenon, <2>1, PushedAre
<1>2. stack = Base /\ regs[x] = Entry(x)
  BY DEF Fresh, AsEntered
<1>3. Base' = Base /\ Entry(x)' = Entry(x)
  BY EntryKept
<1>4. QED BY <1>1, <1>2, <1>3

LEMMA SavesTwo ==
  ASSUME Fresh, request' = request, calls' = calls, NEW x \in General,
         NEW y \in General,
         stack' = pushed(regs, stack, <<x, y>>)
  PROVE  stack' = (<<Entry(y), Entry(x)>> \o Base)'
<1>1. stack' = <<regs[y], regs[x]>> \o stack
  <2>1. x \in Register /\ y \in Register
    BY RegistersAre
  <2>2. QED BY Zenon, <2>1, PushedAre
<1>2. stack = Base /\ regs[x] = Entry(x) /\ regs[y] = Entry(y)
  BY DEF Fresh, AsEntered
<1>3. Base' = Base /\ Entry(x)' = Entry(x) /\ Entry(y)' = Entry(y)
  BY EntryKept
<1>4. QED BY Zenon, <1>1, <1>2, <1>3

LEMMA SavesThree ==
  ASSUME Fresh, request' = request, calls' = calls, NEW x \in General,
         NEW y \in General,
         NEW z \in General, stack' = pushed(regs, stack, <<x, y, z>>)
  PROVE  stack' = (<<Entry(z), Entry(y), Entry(x)>> \o Base)'
<1>1. stack' = <<regs[z], regs[y], regs[x]>> \o stack
  <2>1. x \in Register /\ y \in Register /\ z \in Register
    BY RegistersAre
  <2>2. QED BY Zenon, <2>1, PushedThree
<1>2. stack = Base /\ regs[x] = Entry(x) /\ regs[y] = Entry(y) /\ regs[z] = Entry(z)
  BY DEF Fresh, AsEntered
<1>3. Base' = Base /\ Entry(x)' = Entry(x) /\ Entry(y)' = Entry(y)
      /\ Entry(z)' = Entry(z)
  BY EntryKept
<1>4. QED BY Zenon, <1>1, <1>2, <1>3

(* add16 and dec16 of the pairs AB and CD, as the routines use them.       *)
LEMMA FirstAdded ==
  ASSUME NEW r \in Files, NEW x \in AnyOperand, NEW y \in AnyOperand,
         y # Reg(B), y # Reg(F)
  PROVE  /\ Only(add16(r, AB, y, x), r, {A, B, F})
         /\ WordIn(add16(r, AB, y, x), AB) = ToWord(WordIn(r, AB) + Pair(Val(r, x), Val(r, y)))
<1>1. AB \in {AB, CD} /\ AB[1] = A /\ AB[2] = B
  BY PairsAre
<1>2. y # Reg(AB[2])
  BY <1>1
<1>3. /\ Only(add16(r, AB, y, x), r, {AB[1], AB[2], F})
      /\ WordIn(add16(r, AB, y, x), AB) = ToWord(WordIn(r, AB) + Pair(Val(r, x), Val(r, y)))
  BY Zenon, <1>1, <1>2, Add16Only
<1>4. QED BY <1>1, <1>3

LEMMA SecondAdded ==
  ASSUME NEW r \in Files, NEW x \in AnyOperand, NEW y \in AnyOperand,
         y # Reg(D), y # Reg(F)
  PROVE  /\ Only(add16(r, CD, y, x), r, {C, D, F})
         /\ WordIn(add16(r, CD, y, x), CD) = ToWord(WordIn(r, CD) + Pair(Val(r, x), Val(r, y)))
<1>1. CD \in {AB, CD} /\ CD[1] = C /\ CD[2] = D
  BY PairsAre
<1>2. y # Reg(CD[2])
  BY <1>1
<1>3. /\ Only(add16(r, CD, y, x), r, {CD[1], CD[2], F})
      /\ WordIn(add16(r, CD, y, x), CD) = ToWord(WordIn(r, CD) + Pair(Val(r, x), Val(r, y)))
  BY Zenon, <1>1, <1>2, Add16Only
<1>4. QED BY <1>1, <1>3

LEMMA Add16Of ==
  ASSUME NEW r \in Files
  PROVE  /\ Only(add16(r, AB, Reg(D), Reg(Z)), r, {A, B, F})
         /\ WordIn(add16(r, AB, Reg(D), Reg(Z)), AB) = ToWord(WordIn(r, AB) + Pair(r[Z], r[D]))
         /\ Only(add16(r, AB, Reg(Z), Reg(F)), r, {A, B, F})
         /\ WordIn(add16(r, AB, Reg(Z), Reg(F)), AB) = ToWord(WordIn(r, AB) + Pair(r[F], r[Z]))
         /\ Only(add16(r, CD, Reg(A), Reg(B)), r, {C, D, F})
         /\ WordIn(add16(r, CD, Reg(A), Reg(B)), CD) = ToWord(WordIn(r, CD) + Pair(r[B], r[A]))
         /\ Only(add16(r, AB, Reg(A), Reg(B)), r, {A, B, F})
         /\ WordIn(add16(r, AB, Reg(A), Reg(B)), AB) = ToWord(WordIn(r, AB) + Pair(r[B], r[A]))
<1>1. /\ Reg(D) # Reg(B) /\ Reg(D) # Reg(F) /\ Reg(Z) # Reg(B) /\ Reg(Z) # Reg(F)
      /\ Reg(A) # Reg(D) /\ Reg(A) # Reg(F) /\ Reg(A) # Reg(B)
  BY RegsDiffer, Registers
<1>2. /\ Only(add16(r, AB, Reg(D), Reg(Z)), r, {A, B, F})
      /\ WordIn(add16(r, AB, Reg(D), Reg(Z)), AB)
           = ToWord(WordIn(r, AB) + Pair(Val(r, Reg(Z)), Val(r, Reg(D))))
  BY Zenon, <1>1, OperandsAre, FirstAdded
<1>3. /\ Only(add16(r, AB, Reg(Z), Reg(F)), r, {A, B, F})
      /\ WordIn(add16(r, AB, Reg(Z), Reg(F)), AB)
           = ToWord(WordIn(r, AB) + Pair(Val(r, Reg(F)), Val(r, Reg(Z))))
  BY Zenon, <1>1, OperandsAre, FirstAdded
<1>4. /\ Only(add16(r, CD, Reg(A), Reg(B)), r, {C, D, F})
      /\ WordIn(add16(r, CD, Reg(A), Reg(B)), CD)
           = ToWord(WordIn(r, CD) + Pair(Val(r, Reg(B)), Val(r, Reg(A))))
  BY Zenon, <1>1, OperandsAre, SecondAdded
<1>5. /\ Only(add16(r, AB, Reg(A), Reg(B)), r, {A, B, F})
      /\ WordIn(add16(r, AB, Reg(A), Reg(B)), AB)
           = ToWord(WordIn(r, AB) + Pair(Val(r, Reg(B)), Val(r, Reg(A))))
  BY Zenon, <1>1, OperandsAre, FirstAdded
<1>6. QED BY <1>2, <1>3, <1>4, <1>5, ValOfReg

LEMMA Dec16Of ==
  ASSUME NEW r \in Files
  PROVE  /\ Only(dec16(r, CD), r, {C, D, F})
         /\ WordIn(dec16(r, CD), CD) = ToWord(WordIn(r, CD) - 1)
<1>1. CD \in {AB, CD} /\ CD[1] = C /\ CD[2] = D
  BY PairsAre
<1>2. QED BY <1>1, Dec16Only

LEMMA WordParts ==
  ASSUME NEW r \in Files
  PROVE  /\ WordIn(r, AB) = Pair(r[B], r[A]) /\ WordIn(r, CD) = Pair(r[D], r[C])
         /\ WordIn(r, AB) \in Word /\ WordIn(r, CD) \in Word
<1>1. r[A] \in Byte /\ r[B] \in Byte /\ r[C] \in Byte /\ r[D] \in Byte
  BY RegistersAre DEF Files
<1>2. WordIn(r, AB) = Pair(r[B], r[A]) /\ WordIn(r, CD) = Pair(r[D], r[C])
  BY PairsAre DEF WordIn
<1>3. QED BY <1>1, <1>2, PairIsWord

(* A multiple of a word with a count that goes down by one.                *)
LEMMA OneMore ==
  ASSUME NEW x \in Int, NEW n \in Int, NEW k \in Int
  PROVE  ToWord(ToWord(x * (n - k)) + x) = ToWord(x * (n - (k - 1)))
<1>1. x * (n - k) \in Int /\ x * (n - k) + x = x * (n - (k - 1))
  BY NextMultiple
<1> DEFINE m == x * (n - k)
<1> HIDE DEF m
<1>2. m \in Int /\ ToWord(x * (n - k)) = ToWord(m) /\ m + x = x * (n - (k - 1))
  BY <1>1 DEF m
<1>3. ToWord(ToWord(m) + x) = ToWord(m + x)
  BY <1>2, WordSums
<1>4. QED BY <1>2, <1>3

-----------------------------------------------------------------------------
(* mul16_8                                                                 *)
LEMMA Mul16by8Keeps == LibInv /\ Mul16by8 => LibInv'
<1> SUFFICES ASSUME LibInv, Mul16by8 PROVE LibInv'
  OBVIOUS
<1> DEFINE a == mw(regs, D, Reg(A))
           b == mw(a, Z, Reg(B))
           c == mw(b, A, Imm(0))
           d == mw(c, B, Imm(0))
           e == jz(d, C)
<1>1. /\ at = "mul16_8" /\ regs' = e /\ stack' = pushed(regs, stack, <<C, D, Z>>)
      /\ mem' = mem /\ at' = (IF d[C] = 0 THEN "mul16_8.done" ELSE "mul16_8.loop")
      /\ calls' = calls /\ request' = request
  BY DEF Mul16by8, Save, Stretch
<1>2. /\ at \in Inside("mul16_8") /\ at' \in Inside("mul16_8") \ {"mul16_8"}
      /\ at # "set_pixel.done"
      /\ "mul16_8" \in Routines
  BY <1>1, InsideIs DEF Routines
<1>3. /\ Fresh /\ regs[A] = Entry(A) /\ regs[B] = Entry(B) /\ regs[C] = Entry(C)
      /\ Entry(A) \in Byte /\ Entry(B) \in Byte /\ Entry(C) \in Byte
  BY <1>1, Here, ClaimHere DEF Fresh, AsEntered, General
<1>4. Only(a, regs, {D}) /\ a[D] = regs[A] /\ a \in Files
  BY Here, Members, MwReg
<1> HIDE DEF a
<1>5. Only(b, a, {Z}) /\ b[Z] = a[B] /\ b \in Files
  BY Zenon, <1>4, Members, MwReg
<1> HIDE DEF b
<1>6. Only(c, b, {A}) /\ c[A] = 0 /\ c \in Files
  BY <1>5, Members, MwImm
<1> HIDE DEF c
<1>7. Only(d, c, {B}) /\ d[B] = 0 /\ d \in Files
  BY <1>6, Members, MwImm
<1> HIDE DEF d
<1>8. Only(e, d, {F, H, L}) /\ e \in Files
  <2>1. Only(e, d, {F, H, L})
    BY <1>7, Members, JzOnly
  <2>2. QED BY <2>1, OnlyIsFile
<1> HIDE DEF e
<1>9. /\ e[A] = 0 /\ e[B] = 0 /\ e[D] = Entry(A) /\ e[Z] = Entry(B)
      /\ e[C] = Entry(C) /\ d[C] = Entry(C)
  <2>1. d[D] = Entry(A) /\ d[Z] = a[B] /\ a[B] = regs[B]
    BY <1>3, <1>4, <1>5, <1>6, <1>7, Registers DEF Only
  <2>2. d[C] = Entry(C)
    BY <1>3, <1>4, <1>5, <1>6, <1>7, Registers DEF Only
  <2>3. d[A] = 0 /\ d[B] = 0
    BY <1>6, <1>7, Registers DEF Only
  <2>4. /\ e[A] = d[A] /\ e[B] = d[B] /\ e[C] = d[C] /\ e[D] = d[D]
        /\ e[Z] = d[Z]
    BY <1>8, Registers DEF Only
  <2>5. QED BY <1>3, <2>1, <2>2, <2>3, <2>4
<1>10. stack' = (<<Entry(Z), Entry(D), Entry(C)>> \o Base)'
  BY <1>1, <1>3, SavesThree, Zenon DEF General
<1>11. LibShape' /\ Unwritten'
  BY <1>1, <1>2, <1>8, Here, StretchKeeps
<1>12. /\ WordIn(e, AB) = 0 /\ Factor \in Int /\ Entry(C) \in Nat
       /\ Entry(C)' = Entry(C) /\ Entry(A)' = Entry(A) /\ Entry(B)' = Entry(B)
       /\ Factor' = Factor
  <2>1. Factor \in Word
    BY <1>3, PairIsWord DEF Factor
  <2>2. Entry(A)' = Entry(A) /\ Entry(B)' = Entry(B) /\ Entry(C)' = Entry(C)
    BY <1>1, EntryKept
  <2>3. WordIn(e, AB) = Pair(0, 0) /\ Pair(0, 0) = 0
    BY <1>8, <1>9, WordParts DEF Pair
  <2>4. QED BY <1>3, <2>1, <2>2, <2>3, BytesAreWords, WordBounds DEF Factor
<1>13. Claims'
  <2>1. CASE d[C] = 0
    <3>1. ToWord(Factor * Entry(C)) = 0
      BY <1>9, <1>12, <2>1 DEF ToWord
    <3>2. AtMul16by8Done'
      BY Zenon, <1>1, <1>9, <1>10, <1>12, <3>1 DEF AtMul16by8Done
    <3>3. QED BY <1>1, <2>1, <3>2, ClaimThere
  <2>2. CASE d[C] # 0
    <3>1. Entry(C) \in 1 .. Entry(C)
      BY <1>9, <1>12, <2>2
    <3>2. ToWord(Factor * (Entry(C) - Entry(C))) = 0
      BY <1>12 DEF ToWord
    <3>3. AtMul16by8Loop'
      BY Zenon, <1>1, <1>9, <1>10, <1>12, <3>1, <3>2 DEF AtMul16by8Loop
    <3>4. QED BY <1>1, <2>2, <3>3, ClaimThere
  <2>3. QED BY <2>1, <2>2
<1>14. QED BY <1>11, <1>13 DEF LibInv

LEMMA Mul16by8LoopKeeps == LibInv /\ Mul16by8Loop => LibInv'
<1> SUFFICES ASSUME LibInv, Mul16by8Loop PROVE LibInv'
  OBVIOUS
<1> DEFINE a == add16(regs, AB, Reg(D), Reg(Z))
           b == dec(a, C)
           c == jnz(b)
<1>1. /\ at = "mul16_8.loop" /\ regs' = c /\ stack' = stack
      /\ mem' = mem /\ at' = (IF b[C] # 0 THEN "mul16_8.loop" ELSE "mul16_8.done")
      /\ calls' = calls /\ request' = request
  BY DEF Mul16by8Loop, Run, Stretch
<1>2. /\ at \in Inside("mul16_8") /\ at' \in Inside("mul16_8") \ {"mul16_8"}
      /\ at # "set_pixel.done"
      /\ "mul16_8" \in Routines
  BY <1>1, InsideIs DEF Routines
<1>3. AtMul16by8Loop
  BY <1>1, Here DEF Claims
<1>4. Only(a, regs, {A, B, F})
      /\ WordIn(a, AB) = ToWord(WordIn(regs, AB) + Pair(regs[Z], regs[D]))
      /\ a \in Files
  BY Zenon, Here, Members, Add16Of, OnlyIsFile
<1> HIDE DEF a
<1>5. Only(b, a, {C, F}) /\ b[C] = ToByte(a[C] - 1) /\ b \in Files
  BY Zenon, <1>4, Members, DecOnly, OnlyIsFile
<1> HIDE DEF b
<1>6. Only(c, b, {H, L}) /\ c \in Files
  BY <1>5, Members, JnzOnly, OnlyIsFile
<1> HIDE DEF c
<1>7. /\ WordIn(c, AB) = ToWord(WordIn(regs, AB) + Pair(regs[Z], regs[D]))
      /\ c[C] = ToByte(regs[C] - 1) /\ b[C] = c[C] /\ c[D] = regs[D] /\ c[Z] = regs[Z]
  <2>1. /\ c[A] = a[A] /\ c[B] = a[B] /\ c[C] = b[C] /\ a[C] = regs[C]
        /\ c[D] = regs[D] /\ c[Z] = regs[Z]
    BY <1>4, <1>5, <1>6, Registers DEF Only
  <2>2. WordIn(c, AB) = WordIn(a, AB)
    BY <1>4, <1>6, <2>1, WordParts
  <2>3. QED BY <1>4, <1>5, <2>1, <2>2
<1> DEFINE x == Factor
           n == Entry(C)
           k == regs[C]
<1>8. /\ Entry(A)' = Entry(A) /\ Entry(B)' = Entry(B) /\ n' = n /\ x' = x
      /\ Entry(Z)' = Entry(Z) /\ Entry(D)' = Entry(D) /\ Base' = Base
  BY <1>1, EntryKept DEF Factor
<1>9. /\ x \in Int /\ n \in Int /\ k \in Int /\ k \in 1 .. n /\ k \in Byte /\ k # 0
      /\ Pair(regs[Z], regs[D]) = x /\ WordIn(regs, AB) = ToWord(x * (n - k))
  <2>1. Entry(A) \in Byte /\ Entry(B) \in Byte /\ n \in Byte /\ k \in Byte
    BY <1>2, Here, EntryBytes
  <2>2. n \in Int /\ k \in Int /\ x \in Int
    BY <2>1, BytesAreWords, PairIsWord, WordBounds DEF Factor
  <2>3. k \in 1 .. n /\ regs[D] = Entry(A) /\ regs[Z] = Entry(B)
    BY <1>3 DEF AtMul16by8Loop
  <2>4. QED BY <1>3, <2>1, <2>2, <2>3 DEF AtMul16by8Loop, Factor
<1>10. c[C] = k - 1 /\ WordIn(c, AB) = ToWord(x * (n - (k - 1)))
  <2>1. c[C] = k - 1
    BY <1>7, <1>9, CountedDown
  <2>2. ToWord(ToWord(x * (n - k)) + x) = ToWord(x * (n - (k - 1)))
    BY Zenon, <1>9, OneMore
  <2>3. QED BY <1>7, <1>9, <2>1, <2>2
<1>11. LibShape' /\ Unwritten'
  BY <1>1, <1>2, <1>6, Here, StretchKeeps
<1>12. stack' = (<<Entry(Z), Entry(D), Entry(C)>> \o Base)'
  BY <1>1, <1>3, <1>8 DEF AtMul16by8Loop
<1>13. Claims'
  <2>1. CASE k - 1 = 0
    <3>1. x * (n - (k - 1)) = x * n
      BY <1>9, <2>1
    <3>2. AtMul16by8Done'
      BY <1>1, <1>10, <1>12, <1>8, <3>1 DEF AtMul16by8Done
    <3>3. QED BY <1>1, <1>7, <1>10, <2>1, <3>2, ClaimThere
  <2>2. CASE k - 1 # 0
    <3>1. k - 1 \in 1 .. n
      BY <1>9, <2>2
    <3>2. c[D] = Entry(A) /\ c[Z] = Entry(B)
      BY <1>3, <1>7 DEF AtMul16by8Loop
    <3>3. AtMul16by8Loop'
      BY <1>1, <1>10, <1>12, <1>8, <3>1, <3>2 DEF AtMul16by8Loop
    <3>4. QED BY Zenon, <1>1, <1>7, <1>10, <2>2, <3>3, ClaimThere
  <2>3. QED BY <2>1, <2>2
<1>14. QED BY <1>11, <1>13 DEF LibInv

LEMMA Mul16by8DoneKeeps == LibInv /\ Mul16by8Done => LibInv'
<1> SUFFICES ASSUME LibInv, Mul16by8Done PROVE LibInv'
  OBVIOUS
<1>1. at = "mul16_8.done" /\ Leave("mul16_8.done", regs, <<Z, D, C>>)
  BY DEF Mul16by8Done, Leave
<1>2. /\ "mul16_8" \in Routines \ {"memcpy", "set_pixel"} /\ at \in Inside("mul16_8")
      /\ "mul16_8" \in Quiet /\ at # "program" /\ at # "set_pixel.done"
  BY <1>1, InsideIs DEF Routines, Quiet
<1>3. /\ Z \in General /\ D \in General /\ C \in General /\ Z # D /\ Z # C /\ D # C
      /\ stack = <<Entry(Z), Entry(D), Entry(C)>> \o Base
      /\ WordIn(regs, AB) = ToWord(Factor * Entry(C))
  BY <1>1, Here, Registers DEF Claims, AtMul16by8Done, General
<1>4. Restoring("mul16_8", {Z, D, C})
  BY <1>1, <1>2, <1>3, ThreeRestored
<1>5. /\ regs'[A] = regs[A] /\ regs'[B] = regs[B]
      /\ regs'[C] = Entry(C) /\ regs'[D] = Entry(D) /\ regs'[Z] = Entry(Z)
      /\ Returning("mul16_8") /\ request' = request /\ regs' \in Files
  BY <1>4, Registers DEF Restoring, General, Returning
<1>6. WordIn(regs', AB) = ToWord(Factor * Entry(C))
  <2>1. WordIn(regs', AB) = WordIn(regs, AB)
    BY <1>5, Here, WordParts
  <2>2. QED BY <1>3, <2>1
<1>7. CASE calls = Direct
  <2>1. \A d : Entry(d) = Was(d)
    BY <1>7, EntryIs
  <2>2. Factor = WasAB
    <3>1. request.regs \in Files
      BY Here, RoutineAsked
    <3>2. WasAB = Pair(Was(B), Was(A))
      BY <3>1, WordParts DEF WasAB, Was
    <3>3. QED BY <2>1, <3>2 DEF Factor
  <2>3. request.routine = "mul16_8"
    BY <1>7, <1>5 DEF Returning
  <2>4. ProductsRight' /\ OrderRight'
    BY <1>5, <1>6, <2>1, <2>2, <2>3, RequestKept, NoOrder DEF ProductsRight, Returned
  <2>5. \A d \in General \ Results("mul16_8") : regs'[d] = Was(d)
    BY <1>5, <2>1 DEF General, Results
  <2>6. QED BY <1>7, <1>2, <1>5, <2>4, <2>5, DirectlyReturned
<1>8. CASE calls # Direct
  <2>1. /\ calls = Via("set_pixel.line") /\ at' = "set_pixel.line"
        /\ LibShape' /\ Unwritten' /\ stack' = Base
    BY <1>8, <1>5, BacksCall DEF Returning
  <2>2. /\ Base = SavedAll /\ Entry(A) = 0 /\ Entry(B) = Was(B)
        /\ Entry(C) = SCANLINE_WIDTH_BYTES /\ Entry(D) = Was(A) /\ Entry(Z) = Was(C)
    BY <2>1, EntryIs
  <2>3. ToWord(Factor * Entry(C)) = SCANLINE_WIDTH_BYTES * Was(B)
    <3>1. Factor = Was(B) /\ Was(B) \in Byte
      BY <2>2, Here, BytesAreWords DEF Factor, Pair
    <3>2. QED BY <2>2, <3>1, ByteBounds DEF ToWord, SCANLINE_WIDTH_BYTES
  <2>4. SavedAll' = SavedAll /\ \A d : Was(d)' = Was(d)
    BY <1>5, RequestKept
  <2>5. AtSetPixelLine'
    BY <1>5, <1>6, <2>1, <2>2, <2>3, <2>4 DEF AtSetPixelLine
  <2>6. QED BY <2>1, <2>5, ClaimThere DEF LibInv
<1>9. QED BY <1>7, <1>8

-----------------------------------------------------------------------------
(* mul16                                                                   *)
LEMMA ShapeKeeps ==
  ASSUME LibShape, NEW q \in Routines, at \in Inside(q), at' \in Inside(q),
         regs' \in Files, mem' \in [DOMAIN Contents -> Byte],
         calls' = calls, request' = request
  PROVE  LibShape'
<1>1. regs' \in [Register -> Byte] /\ request' \in Requests
  BY DEF LibShape, Files
<1>2. Calling'
  <2>1. at # "program"
    BY WhoCalls
  <2>2. CASE calls = Direct /\ at \in Inside(request.routine)
    <3>1. request.routine = q
      BY WhoCalls, <2>2
    <3>2. QED BY <2>2, <3>1, CallsDiffer DEF Calling
  <2>3. CASE \E b \in Backs : /\ calls = Via(b) /\ b \in Inside(request.routine)
                              /\ at \in Inside(Called(b))
    <3>1. PICK b \in Backs : /\ calls = Via(b) /\ b \in Inside(request.routine)
                             /\ at \in Inside(Called(b))
      BY <2>3
    <3>2. Called(b) = q
      BY <3>1, CalledIsRoutine, InsideApart
    <3>3. QED BY <3>1, <3>2 DEF Calling
  <2>4. QED BY <2>1, <2>2, <2>3 DEF LibShape, Calling
<1>3. QED BY <1>1, <1>2 DEF LibShape

LEMMA ScratchWord ==
  /\ D0 = 64768 /\ D0 + 1 = 64769 /\ D0 # D0 + 1
  /\ D0 \in DOMAIN Contents /\ D0 + 1 \in DOMAIN Contents
  /\ DOMAIN Contents \subseteq Word
<1>1. D0 = 64768 /\ D0 + 1 = 64769
  BY DEF D0
<1>2. QED BY <1>1, OsLibAssumption

LEMMA SameOutside ==
  ASSUME NEW m, NEW n, \A a \in DOMAIN Contents \ {D0, D0 + 1} : n[a] = m[a]
  PROVE  Outside(n) = Outside(m)
BY DEF Outside

LEMMA StartIs ==
  ASSUME request \in Requests
  PROVE  /\ Start \in [DOMAIN Contents -> Byte]
         /\ \A a \in DOMAIN Contents : Start[a] \in Byte
         /\ Pair(Start[D0], Start[D0 + 1]) = request.d0
         /\ request.d0 \in Word
<1>1. request.d0 \in Word
  BY RoutineAsked
<1>2. Lo(request.d0) \in Byte /\ Hi(request.d0) \in Byte
  BY <1>1, HalvesAreBytes
<1>3. Contents \in [DOMAIN Contents -> Byte]
  BY OsLibAssumption
<1>4. Start \in [DOMAIN Contents -> Byte] /\ Start[D0] = Lo(request.d0)
      /\ Start[D0 + 1] = Hi(request.d0)
  BY <1>2, <1>3, ScratchWord DEF Start
<1>5. QED BY <1>1, <1>4, HalvesMakeWord

LEMMA DirectlyEnds ==
  ASSUME NEW q, Returning(q), calls = Direct,
         \A d \in General \ Results(q) : regs'[d] = Was(d),
         ProductsRight', OrderRight', MemoryRight'
  PROVE  LibInv'
<1>1. /\ LibShape' /\ Unwritten' /\ request' = request /\ mem' = mem
      /\ at' = "program" /\ calls' = << >> /\ stack' = << >> /\ request.routine = q
  BY DEF Returning
<1>2. RegistersKept'
  BY <1>1, KeptThere
<1>3. QED BY <1>1, <1>2, ClaimThere DEF LibInv, AtProgram

LEMMA Mul16Keeps == LibInv /\ Mul16 => LibInv'
<1> SUFFICES ASSUME LibInv, Mul16 PROVE LibInv'
  OBVIOUS
<1> DEFINE z == zero16(regs, CD)
           t == test("JEQ", z)
           r == jumped(t)
           a == mw(r, A, Imm(0))
           b == mw(a, B, Imm(0))
           none == r[F] # 0
<1>1. /\ at = "mul16" /\ regs' = (IF none THEN r ELSE b)
      /\ stack' = pushed(regs, stack, <<C, D, Z>>)
      /\ mem' = (IF none THEN mem ELSE [mem EXCEPT ![D0] = r[B], ![D0 + 1] = r[A]])
      /\ at' = (IF none THEN "mul16.done" ELSE "mul16.loop")
      /\ calls' = calls /\ request' = request
  BY DEF Mul16, Stretch, Save
<1>2. /\ at \in Inside("mul16") /\ at' \in Inside("mul16") \ {"mul16"}
      /\ "mul16" \in Routines
  BY <1>1, InsideIs DEF Routines
<1>3. calls = Direct /\ request.routine = "mul16"
  BY <1>2, Here, OnlyDirect DEF Routines
<1>4. Fresh /\ regs[A] = Was(A) /\ regs[B] = Was(B) /\ regs[C] = Was(C)
      /\ regs[D] = Was(D)
  BY <1>1, <1>3, Here, ClaimHere, EntryIs DEF Fresh, AsEntered, General
<1>5. Only(z, regs, {F, H}) /\ z[F] \in {0, 2}
      /\ (z[F] # 0 <=> WordIn(regs, CD) = 0) /\ z \in Files
  BY Zenon, Here, Members, Zero16Only, OnlyIsFile
<1> HIDE DEF z
<1>6. Only(t, z, {F}) /\ (t[F] # 0 <=> z[F] # 0) /\ t \in Files
  BY Zenon, <1>5, TestOnly, OnlyIsFile
<1> HIDE DEF t
<1>7. Only(r, t, {H, L}) /\ r \in Files
  BY <1>6, Members, JumpedOnly, OnlyIsFile
<1> HIDE DEF r
<1>8. Only(a, r, {A}) /\ a[A] = 0 /\ a \in Files
  BY <1>7, Members, MwImm
<1> HIDE DEF a
<1>9. Only(b, a, {B}) /\ b[B] = 0 /\ b \in Files
  BY <1>8, Members, MwImm
<1> HIDE DEF b
<1>10. /\ r[A] = Was(A) /\ r[B] = Was(B) /\ r[C] = Was(C) /\ r[D] = Was(D)
       /\ b[A] = 0 /\ b[B] = 0 /\ b[C] = Was(C) /\ b[D] = Was(D)
       /\ (none <=> WordIn(regs, CD) = 0)
  BY <1>4, <1>5, <1>6, <1>7, <1>8, <1>9, Registers DEF Only
<1>11. /\ WordIn(regs, CD) = WasCD /\ WordIn(r, AB) = WasAB /\ WordIn(b, CD) = WasCD
       /\ WordIn(b, AB) = 0 /\ WasCD \in Nat /\ WasAB \in Int
  <2>1. request.regs \in Files
    BY Here, RoutineAsked
  <2>2. /\ WasCD = Pair(Was(D), Was(C)) /\ WasAB = Pair(Was(B), Was(A))
        /\ WasCD \in Word /\ WasAB \in Word
    BY <2>1, WordParts DEF WasCD, WasAB, Was
  <2>3. /\ WordIn(regs, CD) = Pair(regs[D], regs[C]) /\ WordIn(r, AB) = Pair(r[B], r[A])
        /\ WordIn(b, CD) = Pair(b[D], b[C]) /\ WordIn(b, AB) = Pair(b[B], b[A])
    BY Here, <1>7, <1>9, WordParts
  <2>4. Pair(0, 0) = 0
    BY DEF Pair
  <2>5. QED BY <1>4, <1>10, <2>2, <2>3, <2>4, WordBounds
<1>12. /\ mem' \in [DOMAIN Contents -> Byte]
       /\ ~none => mem'[D0] = Was(B) /\ mem'[D0 + 1] = Was(A)
       /\ \A c \in DOMAIN Contents \ {D0, D0 + 1} : mem'[c] = mem[c]
  <2>1. CASE none
    BY <1>1, <2>1, Here
  <2>2. CASE ~none
    <3>1. r[A] \in Byte /\ r[B] \in Byte /\ mem \in [DOMAIN Contents -> Byte]
      BY <1>10, Here
    <3>2. mem' = [mem EXCEPT ![D0] = r[B], ![D0 + 1] = r[A]]
      BY <1>1, <2>2
    <3>3. /\ mem' \in [DOMAIN Contents -> Byte] /\ mem'[D0] = r[B]
          /\ mem'[D0 + 1] = r[A]
          /\ \A c \in DOMAIN Contents \ {D0, D0 + 1} : mem'[c] = mem[c]
      BY <3>1, <3>2, ScratchWord
    <3>4. QED BY <1>10, <3>3
  <2>3. QED BY <2>1, <2>2
<1>13. LibShape'
  <2>1. regs' \in Files
    BY <1>1, <1>7, <1>9
  <2>2. calls' = calls /\ request' = request /\ at' \in Inside("mul16")
        /\ mem' \in [DOMAIN Contents -> Byte]
    BY <1>1, <1>2, <1>12
  <2>3. QED BY <1>2, <2>1, <2>2, Here, ShapeKeeps
<1>14. Unwritten'
  <2>1. Outside(mem) = Outside(Start)
    BY <1>1, <1>3, Here DEF Unwritten
  <2>2. Start' = Start
    BY <1>1, RequestKept
  <2>3. \A c \in DOMAIN Contents \ {D0, D0 + 1} : mem[c] = Start[c]
    BY <2>1 DEF Outside
  <2>4. Outside(mem') = Outside(Start)
    BY <1>12, <2>3, SameOutside
  <2>5. Outside(mem)' = Outside(Start)'
    <3>1. Outside(mem)' = Outside(mem')
      BY DEF Outside
    <3>2. Outside(Start)' = Outside(Start)
      BY <2>2 DEF Outside
    <3>3. QED BY <2>4, <3>1, <3>2
  <2>6. QED BY <1>1, <1>3, <2>5 DEF Unwritten
<1>15. stack' = (<<Entry(Z), Entry(D), Entry(C)>> \o Base)'
  BY <1>1, <1>4, SavesThree, Zenon DEF General
<1>16. Claims'
  <2>1. /\ WasAB' = WasAB /\ WasCD' = WasCD /\ Was(A)' = Was(A) /\ Was(B)' = Was(B)
    BY <1>1, RequestKept
  <2>2. CASE none
    <3>1. AtMul16Done'
      BY Zenon, <1>1, <1>10, <1>11, <1>15, <2>1, <2>2 DEF AtMul16Done
    <3>2. QED BY <1>1, <2>2, <3>1, ClaimThere
  <2>3. CASE ~none
    <3>1. WasCD \in 1 .. WasCD
      BY <1>10, <1>11, <2>3
    <3>2. ToWord(WasAB * (WasCD - WasCD)) = 0
      BY <1>11 DEF ToWord
    <3>3. /\ regs' = b /\ WordIn(b, CD) = WasCD /\ WordIn(b, AB) = 0
          /\ mem'[D0] = Was(B) /\ mem'[D0 + 1] = Was(A)
      BY <1>1, <1>11, <1>12, <2>3
    <3>4. AtMul16Loop'
      BY <1>15, <2>1, <3>1, <3>2, <3>3 DEF AtMul16Loop
    <3>5. QED BY <1>1, <2>3, <3>4, ClaimThere
  <2>4. QED BY <2>2, <2>3
<1>17. QED BY <1>13, <1>14, <1>16 DEF LibInv

LEMMA Mul16LoopKeeps == LibInv /\ Mul16Loop => LibInv'
<1> SUFFICES ASSUME LibInv, Mul16Loop PROVE LibInv'
  OBVIOUS
<1> DEFINE f == [regs EXCEPT ![F] = mem[D0], ![Z] = mem[D0 + 1]]
           a == add16(f, AB, Reg(Z), Reg(F))
           b == dec16(a, CD)
           z == zero16(b, CD)
           t == test("JNE", z)
           r == jumped(t)
<1>1. /\ at = "mul16.loop" /\ regs' = r /\ stack' = stack
      /\ mem' = mem /\ at' = (IF t[F] # 0 THEN "mul16.loop" ELSE "mul16.done")
      /\ calls' = calls /\ request' = request
  BY DEF Mul16Loop, Run, Stretch
<1>2. /\ at \in Inside("mul16") /\ at' \in Inside("mul16") \ {"mul16"}
      /\ at # "set_pixel.done"
      /\ "mul16" \in Routines
  BY <1>1, InsideIs DEF Routines
<1>3. calls = Direct /\ request.routine = "mul16"
  BY <1>2, Here, OnlyDirect DEF Routines
<1>4. AtMul16Loop
  BY <1>1, Here DEF Claims
<1>5. Only(f, regs, {F, Z}) /\ f[F] = mem[D0] /\ f[Z] = mem[D0 + 1] /\ f \in Files
  <2>1. mem[D0] \in Byte /\ mem[D0 + 1] \in Byte
    BY Here, ScratchWord
  <2>2. QED BY <2>1, Here, Registers DEF Only, Files
<1> HIDE DEF f
<1>6. Only(a, f, {A, B, F})
      /\ WordIn(a, AB) = ToWord(WordIn(f, AB) + Pair(f[F], f[Z])) /\ a \in Files
  BY Zenon, <1>5, Members, Add16Of, OnlyIsFile
<1> HIDE DEF a
<1>7. Only(b, a, {C, D, F})
      /\ WordIn(b, CD) = ToWord(WordIn(a, CD) - 1) /\ b \in Files
  BY Zenon, <1>6, Members, Dec16Of, OnlyIsFile
<1> HIDE DEF b
<1>8. Only(z, b, {F, H}) /\ z[F] \in {0, 2} /\ (z[F] # 0 <=> WordIn(b, CD) = 0)
      /\ z \in Files
  BY Zenon, <1>7, Members, Zero16Only, OnlyIsFile
<1> HIDE DEF z
<1>9. Only(t, z, {F}) /\ (t[F] # 0 <=> z[F] = 0) /\ t \in Files
  BY Zenon, <1>8, TestOnly, OnlyIsFile
<1> HIDE DEF t
<1>10. Only(r, t, {H, L}) /\ r \in Files
  BY <1>9, Members, JumpedOnly, OnlyIsFile
<1> HIDE DEF r
<1>11. /\ WordIn(r, AB) = ToWord(WordIn(regs, AB) + Pair(mem[D0], mem[D0 + 1]))
       /\ WordIn(r, CD) = ToWord(WordIn(regs, CD) - 1)
       /\ (t[F] # 0 <=> WordIn(r, CD) # 0)
  <2>1. /\ r[A] = a[A] /\ r[B] = a[B] /\ r[C] = b[C] /\ r[D] = b[D]
        /\ a[C] = regs[C] /\ a[D] = regs[D] /\ f[A] = regs[A] /\ f[B] = regs[B]
    BY <1>5, <1>6, <1>7, <1>8, <1>9, <1>10, Registers DEF Only
  <2>2. /\ WordIn(r, AB) = WordIn(a, AB) /\ WordIn(r, CD) = WordIn(b, CD)
        /\ WordIn(a, CD) = WordIn(regs, CD) /\ WordIn(f, AB) = WordIn(regs, AB)
    BY <1>5, <1>6, <1>7, <1>10, <2>1, Here, WordParts
  <2>3. QED BY <1>5, <1>6, <1>7, <1>8, <1>9, <2>2
<1> DEFINE x == WasAB
           n == WasCD
           k == WordIn(regs, CD)
<1>12. /\ x \in Int /\ n \in Int /\ k \in Int /\ k \in 1 .. n /\ k \in Word /\ k # 0
       /\ Pair(mem[D0], mem[D0 + 1]) = x /\ WordIn(regs, AB) = ToWord(x * (n - k))
       /\ mem[D0] = Was(B) /\ mem[D0 + 1] = Was(A)
  <2>1. request.regs \in Files
    BY Here, RoutineAsked
  <2>2. x = Pair(Was(B), Was(A)) /\ n \in Word /\ x \in Word
    BY <2>1, WordParts DEF WasCD, WasAB, Was
  <2>3. k \in Word
    BY Here, WordParts
  <2>4. n \in Int /\ k \in Int /\ x \in Int
    BY <2>2, <2>3, WordBounds
  <2>5. k \in 1 .. n
    BY <1>4 DEF AtMul16Loop
  <2>6. k # 0
    BY <2>4, <2>5
  <2>7. QED BY <1>4, <2>2, <2>3, <2>4, <2>5, <2>6 DEF AtMul16Loop
<1>13. WordIn(r, CD) = k - 1 /\ WordIn(r, AB) = ToWord(x * (n - (k - 1)))
  <2>1. WordIn(r, CD) = k - 1
    BY <1>11, <1>12, CountedDown
  <2>2. ToWord(ToWord(x * (n - k)) + x) = ToWord(x * (n - (k - 1)))
    BY Zenon, <1>12, OneMore
  <2>3. QED BY <1>11, <1>12, <2>1, <2>2
<1>14. LibShape' /\ Unwritten'
  BY <1>1, <1>2, <1>10, Here, StretchKeeps
<1>15. stack' = (<<Entry(Z), Entry(D), Entry(C)>> \o Base)'
  <2>1. Entry(Z)' = Entry(Z) /\ Entry(D)' = Entry(D) /\ Entry(C)' = Entry(C)
        /\ Base' = Base
    BY <1>1, EntryKept
  <2>2. QED BY <1>1, <1>4, <2>1 DEF AtMul16Loop
<1>16. Claims'
  <2>1. /\ x' = x /\ n' = n /\ Was(A)' = Was(A) /\ Was(B)' = Was(B)
    BY <1>1, RequestKept
  <2>2. CASE k - 1 = 0
    <3>1. x * (n - (k - 1)) = x * n /\ n # 0
      BY <1>12, <2>2
    <3>2. AtMul16Done'
      BY <1>1, <1>13, <1>15, <2>1, <3>1 DEF AtMul16Done
    <3>3. QED BY <1>1, <1>11, <1>13, <2>2, <3>2, ClaimThere
  <2>3. CASE k - 1 # 0
    <3>1. k - 1 \in 1 .. n
      BY <1>12, <2>3
    <3>2. AtMul16Loop'
      BY <1>1, <1>12, <1>13, <1>15, <2>1, <3>1 DEF AtMul16Loop
    <3>3. QED BY Zenon, <1>1, <1>11, <1>13, <2>3, <3>2, ClaimThere
  <2>4. QED BY <2>2, <2>3
<1>17. QED BY <1>14, <1>16 DEF LibInv

LEMMA Mul16DoneKeeps == LibInv /\ Mul16Done => LibInv'
<1> SUFFICES ASSUME LibInv, Mul16Done PROVE LibInv'
  OBVIOUS
<1>1. at = "mul16.done" /\ Leave("mul16.done", regs, <<Z, D, C>>)
  BY DEF Mul16Done, Leave
<1>2. "mul16" \in Routines \ {"memcpy", "set_pixel"} /\ at \in Inside("mul16")
  BY <1>1, InsideIs DEF Routines
<1>3. calls = Direct /\ request.routine = "mul16"
  BY <1>2, Here, OnlyDirect DEF Routines
<1>4. /\ Z \in General /\ D \in General /\ C \in General /\ Z # D /\ Z # C /\ D # C
      /\ stack = <<Entry(Z), Entry(D), Entry(C)>> \o Base
      /\ WordIn(regs, AB) = IF WasCD = 0 THEN WasAB ELSE ToWord(WasAB * WasCD)
  BY <1>1, Here, Registers DEF Claims, AtMul16Done, General
<1>5. Restoring("mul16", {Z, D, C})
  BY Zenon, <1>1, <1>2, <1>4, ThreeRestored
<1>6. /\ regs'[A] = regs[A] /\ regs'[B] = regs[B]
      /\ regs'[C] = Was(C) /\ regs'[D] = Was(D) /\ regs'[Z] = Was(Z)
      /\ Returning("mul16") /\ request' = request /\ mem' = mem /\ regs' \in Files
  BY <1>5, <1>3, EntryIs, Registers DEF Restoring, General, Returning
<1>7. WordIn(regs', AB) = WordIn(regs, AB)
  BY <1>6, Here, WordParts
<1>8. ProductsRight' /\ OrderRight'
  BY <1>6, <1>7, <1>4, <1>3, RequestKept, NoOrder DEF ProductsRight, Returned
<1>9. MemoryRight'
  <2>1. Outside(mem) = Outside(Start)
    BY <1>3, Here DEF Unwritten
  <2>2. Start' = Start
    BY <1>6, RequestKept
  <2>3. Outside(mem)' = Outside(Start)'
    BY <1>6, <2>1, <2>2 DEF Outside
  <2>4. QED BY <1>3, <1>6, <2>3 DEF MemoryRight, Returned
<1>10. \A d \in General \ Results("mul16") : regs'[d] = Was(d)
  BY <1>6 DEF General, Results
<1>11. QED BY <1>3, <1>6, <1>8, <1>9, <1>10, DirectlyEnds

-----------------------------------------------------------------------------
(* The shifts                                                              *)
LEMMA ShiftFirst ==
  ASSUME NEW x \in Nat, NEW n \in Int
  PROVE  x * Power(n - n) = x /\ x * Power(0) = x
<1>1. n - n = 0 /\ Power(0) = 1
  BY PowerValues
<1>2. x * 1 = x
  OBVIOUS
<1>3. Power(n - n) = 1
  BY <1>1
<1>4. QED BY <1>1, <1>2, <1>3

LEMMA ShiftNext ==
  ASSUME NEW x \in Nat, NEW n \in Int, NEW k \in Int, k <= n
  PROVE  /\ ToByte(x * Power(n - (k - 1)))
               = ToByte(ToByte(x * Power(n - k)) + ToByte(x * Power(n - k)))
         /\ ToWord(x * Power(n - (k - 1)))
               = ToWord(ToWord(x * Power(n - k)) + ToWord(x * Power(n - k)))
<1> DEFINE j == n - k
<1>1. j \in Nat /\ n - (k - 1) = j + 1
  OBVIOUS
<1> HIDE DEF j
<1>2. /\ ToByte(x * Power(j + 1)) = ToByte(ToByte(x * Power(j)) + ToByte(x * Power(j)))
      /\ ToWord(x * Power(j + 1)) = ToWord(ToWord(x * Power(j)) + ToWord(x * Power(j)))
  BY <1>1, Doubled
<1>3. n - k = j
  BY DEF j
<1>4. QED BY <1>1, <1>2, <1>3

LEMMA ShlKeeps == LibInv /\ Shl => LibInv'
<1> SUFFICES ASSUME LibInv, Shl PROVE LibInv'
  OBVIOUS
<1> DEFINE a == jz(regs, B)
           b == clb(a)
<1>1. /\ at = "shl" /\ regs' = (IF regs[B] = 0 THEN a ELSE b) /\ stack' = pushed(regs, stack, <<B>>)
      /\ mem' = mem /\ at' = (IF regs[B] = 0 THEN "shl.done" ELSE "shl.shift")
      /\ calls' = calls /\ request' = request
  BY DEF Shl, Save, Stretch
<1>2. /\ at \in Inside("shl") /\ at' \in Inside("shl") \ {"shl"}
      /\ at # "set_pixel.done"
      /\ "shl" \in Routines
  BY <1>1, InsideIs DEF Routines
<1>3. /\ Fresh /\ regs[A] = Entry(A) /\ regs[B] = Entry(B) /\ regs[C] = Entry(C)
      /\ regs[D] = Entry(D) /\ regs[Z] = Entry(Z)
      /\ Entry(A) \in Byte /\ Entry(B) \in Byte /\ Entry(C) \in Byte
  BY <1>1, Here, ClaimHere DEF Fresh, AsEntered, General
<1>4. Only(a, regs, {F, H, L}) /\ a \in Files
  BY Zenon, Here, Members, JzOnly, OnlyIsFile
<1> HIDE DEF a
<1>5. Only(b, a, {F}) /\ b \in Files
  BY Zenon, <1>4, Members, ClbOnly, OnlyIsFile
<1> HIDE DEF b
<1>6. /\ regs' \in Files
      /\ regs'[A] = Entry(A) /\ regs'[B] = Entry(B) /\ regs'[C] = Entry(C)
      /\ regs'[D] = Entry(D) /\ regs'[Z] = Entry(Z)
  <2>1. CASE regs[B] = 0
    BY <2>1, <1>1, <1>3, <1>4, Registers DEF Only
  <2>2. CASE regs[B] # 0
    BY <2>2, <1>1, <1>3, <1>4, <1>5, Registers DEF Only
  <2>3. QED BY <2>1, <2>2
<1>7. stack' = (<<Entry(B)>> \o Base)'
  BY Zenon, <1>1, <1>3, SavesOne DEF General
<1>8. LibShape' /\ Unwritten'
  BY <1>1, <1>2, <1>6, Here, StretchKeeps
<1>9. /\ Entry(A)' = Entry(A) /\ Entry(B)' = Entry(B) /\ Entry(C)' = Entry(C)
      /\ Entry(D)' = Entry(D) /\ Entry(Z)' = Entry(Z) /\ Base' = Base
  BY <1>1, EntryKept
<1>10. AsEntered({C, D, Z})'
  BY <1>6, <1>9 DEF AsEntered
<1>11. Entry(A) \in Nat /\ Entry(B) \in Int /\ ToByte(Entry(A)) = Entry(A)
  BY <1>3, BytesAreWords, SmallResidues
<1>12. Entry(A) * Power(Entry(B) - Entry(B)) = Entry(A)
       /\ Entry(A) * Power(0) = Entry(A)
  BY <1>11, ShiftFirst
<1>13. Claims'
  <2>1. CASE regs[B] = 0
    <3>1. AtShlDone'
      BY <1>3, <1>6, <1>7, <1>9, <1>10, <1>11, <1>12, <2>1 DEF AtShlDone
    <3>2. QED BY <1>1, <2>1, <3>1, ClaimThere
  <2>2. CASE regs[B] # 0
    <3>1. Entry(B) \in 1 .. Entry(B)
      BY <1>3, <2>2, BytesAreWords
    <3>2. AtShlShift'
      BY <1>6, <1>7, <1>9, <1>10, <1>11, <1>12, <3>1 DEF AtShlShift
    <3>3. QED BY <1>1, <2>2, <3>2, ClaimThere
  <2>3. QED BY <2>1, <2>2
<1>14. QED BY <1>8, <1>13 DEF LibInv

LEMMA ShlShiftKeeps == LibInv /\ ShlShift => LibInv'
<1> SUFFICES ASSUME LibInv, ShlShift PROVE LibInv'
  OBVIOUS
<1> DEFINE a == add(regs, A, Reg(A))
           b == dec(a, B)
           c == jnz(b)
<1>1. /\ at = "shl.shift" /\ regs' = c /\ stack' = stack
      /\ mem' = mem /\ at' = (IF b[B] # 0 THEN "shl.shift" ELSE "shl.done")
      /\ calls' = calls /\ request' = request
  BY DEF ShlShift, Run, Stretch
<1>2. /\ at \in Inside("shl") /\ at' \in Inside("shl") \ {"shl"}
      /\ at # "set_pixel.done"
      /\ "shl" \in Routines
  BY <1>1, InsideIs DEF Routines
<1>3. AtShlShift
  BY <1>1, Here DEF Claims
<1>4. Only(a, regs, {A, F}) /\ a[A] = ToByte(regs[A] + regs[A]) /\ a \in Files
  BY Zenon, Here, Members, AddReg
<1> HIDE DEF a
<1>5. Only(b, a, {B, F}) /\ b[B] = ToByte(a[B] - 1) /\ b \in Files
  BY <1>4, Members, DecOnly, OnlyIsFile
<1> HIDE DEF b
<1>6. Only(c, b, {H, L}) /\ c \in Files
  BY <1>5, Members, JnzOnly, OnlyIsFile
<1> HIDE DEF c
<1>7. /\ c[A] = ToByte(regs[A] + regs[A]) /\ c[B] = ToByte(regs[B] - 1) /\ b[B] = c[B]
      /\ c[C] = regs[C] /\ c[D] = regs[D] /\ c[Z] = regs[Z]
  BY <1>4, <1>5, <1>6, Registers DEF Only
<1> DEFINE x == Entry(A)
           n == Entry(B)
           k == regs[B]
<1>8. /\ Entry(A)' = Entry(A) /\ Entry(B)' = Entry(B) /\ Entry(C)' = Entry(C)
      /\ Entry(D)' = Entry(D) /\ Entry(Z)' = Entry(Z) /\ Base' = Base
  BY <1>1, EntryKept
<1>9. /\ x \in Nat /\ n \in Int /\ k \in Int /\ k \in 1 .. n /\ k \in Byte
      /\ k # 0 /\ k <= n
      /\ regs[A] = ToByte(x * Power(n - k))
  <2>1. x \in Byte /\ n \in Byte /\ k \in Byte
    BY <1>2, Here, EntryBytes
  <2>2. x \in Nat /\ n \in Int /\ k \in Int
    BY <2>1, BytesAreWords
  <2>3. k \in 1 .. n /\ regs[A] = ToByte(x * Power(n - k))
    BY <1>3 DEF AtShlShift
  <2>4. QED BY <2>1, <2>2, <2>3
<1>10. c[B] = k - 1 /\ c[A] = ToByte(x * Power(n - (k - 1)))
  <2>1. c[B] = k - 1
    BY <1>7, <1>9, CountedDown
  <2>2. ToByte(x * Power(n - (k - 1))) = ToByte(ToByte(x * Power(n - k)) + ToByte(x * Power(n - k)))
    BY Zenon, <1>9, ShiftNext
  <2>3. QED BY <1>7, <1>9, <2>1, <2>2
<1>11. LibShape' /\ Unwritten'
  BY <1>1, <1>2, <1>6, Here, StretchKeeps
<1>12. stack' = (<<Entry(B)>> \o Base)' /\ AsEntered({C, D, Z})'
  BY <1>1, <1>3, <1>7, <1>8 DEF AtShlShift, AsEntered
<1>13. Claims'
  <2>1. CASE k - 1 = 0
    <3>1. n - (k - 1) = n
      BY <1>9, <2>1
    <3>2. AtShlDone'
      BY <1>1, <1>10, <1>12, <1>8, <3>1 DEF AtShlDone
    <3>3. QED BY <1>1, <1>7, <1>10, <2>1, <3>2, ClaimThere
  <2>2. CASE k - 1 # 0
    <3>1. k - 1 \in 1 .. n
      BY <1>9, <2>2
    <3>2. AtShlShift'
      BY <1>1, <1>10, <1>12, <1>8, <3>1 DEF AtShlShift
    <3>3. QED BY Zenon, <1>1, <1>7, <1>10, <2>2, <3>2, ClaimThere
  <2>3. QED BY <2>1, <2>2
<1>14. QED BY <1>11, <1>13 DEF LibInv

LEMMA ShlDoneKeeps == LibInv /\ ShlDone => LibInv'
<1> SUFFICES ASSUME LibInv, ShlDone PROVE LibInv'
  OBVIOUS
<1>1. at = "shl.done" /\ Leave("shl.done", regs, <<B>>)
  BY DEF ShlDone, Leave
<1>2. /\ "shl" \in Routines \ {"memcpy", "set_pixel"} /\ at \in Inside("shl")
      /\ "shl" \in Quiet /\ at # "program" /\ at # "set_pixel.done"
  BY <1>1, InsideIs DEF Routines, Quiet
<1>3. /\ B \in General
      /\ stack = <<Entry(B)>> \o Base
      /\ regs[A] = ToByte(Entry(A) * Power(Entry(B))) /\ AsEntered({C, D, Z})
  BY <1>1, Here, Registers DEF Claims, AtShlDone, General
<1>4. Restoring("shl", {B})
  BY Zenon, <1>1, <1>2, <1>3, OneRestored
<1>5. /\ regs'[A] = ToByte(Entry(A) * Power(Entry(B))) /\ regs'[B] = Entry(B)
      /\ regs'[C] = Entry(C) /\ regs'[D] = Entry(D) /\ regs'[Z] = Entry(Z)
      /\ Returning("shl") /\ request' = request
  BY <1>3, <1>4, Registers DEF Restoring, General, Returning, AsEntered
<1>6. CASE calls = Direct
  <2>1. (\A d : Entry(d) = Was(d)) /\ request.routine = "shl"
    BY <1>6, <1>5, EntryIs DEF Returning
  <2>2. ProductsRight' /\ OrderRight'
    BY <1>5, <2>1, RequestKept, NoOrder DEF ProductsRight, Returned
  <2>3. \A d \in General \ Results("shl") : regs'[d] = Was(d)
    BY <1>5, <2>1 DEF General, Results
  <2>4. QED BY <1>6, <1>2, <1>5, <2>2, <2>3, DirectlyReturned
<1>7. CASE calls # Direct
  <2>1. /\ calls = Via("set_pixel.mask") /\ at' = "set_pixel.mask"
        /\ LibShape' /\ Unwritten' /\ stack' = Base
    BY <1>7, <1>5, BacksCall DEF Returning
  <2>2. /\ Base = <<Lo(Dot), Hi(Dot)>> \o SavedAll
        /\ Entry(A) = 1 /\ Entry(B) = Was(A) % 8 /\ Entry(Z) = Was(C)
    BY <2>1, EntryIs
  <2>3. ToByte(1 * Power(Was(A) % 8)) = Mask
    <3>1. Was(A) % 8 \in 0 .. 7
      BY Here, BytesAreWords
    <3>2. Power(Was(A) % 8) \in {1, 2, 4, 8, 16, 32, 64, 128}
      BY <3>1, PowerValues
    <3>3. QED BY <3>2 DEF ToByte, Mask
  <2>4. SavedAll' = SavedAll /\ Dot' = Dot /\ Mask' = Mask /\ Was(C)' = Was(C)
    BY <1>5, RequestKept
  <2>5. AtSetPixelMask'
    BY <1>5, <2>1, <2>2, <2>3, <2>4 DEF AtSetPixelMask
  <2>6. QED BY <2>1, <2>5, ClaimThere DEF LibInv
<1>8. QED BY <1>6, <1>7

LEMMA Shl16Keeps == LibInv /\ Shl16 => LibInv'
<1> SUFFICES ASSUME LibInv, Shl16 PROVE LibInv'
  OBVIOUS
<1> DEFINE a == jz(regs, C)
           b == clb(a)
<1>1. /\ at = "shl16" /\ regs' = (IF regs[C] = 0 THEN a ELSE b) /\ stack' = pushed(regs, stack, <<C>>)
      /\ mem' = mem /\ at' = (IF regs[C] = 0 THEN "shl16.done" ELSE "shl16.shift")
      /\ calls' = calls /\ request' = request
  BY DEF Shl16, Save, Stretch
<1>2. /\ at \in Inside("shl16") /\ at' \in Inside("shl16") \ {"shl16"}
      /\ at # "set_pixel.done"
      /\ "shl16" \in Routines
  BY <1>1, InsideIs DEF Routines
<1>3. /\ Fresh /\ regs[A] = Entry(A) /\ regs[B] = Entry(B) /\ regs[C] = Entry(C)
      /\ regs[D] = Entry(D) /\ regs[Z] = Entry(Z)
      /\ Entry(A) \in Byte /\ Entry(B) \in Byte /\ Entry(C) \in Byte
  BY <1>1, Here, ClaimHere DEF Fresh, AsEntered, General
<1>4. calls = Direct /\ \A d : Entry(d) = Was(d)
  BY <1>2, Here, OnlyDirect, EntryIs DEF Routines
<1>5. Only(a, regs, {F, H, L}) /\ a \in Files
  BY Zenon, Here, Members, JzOnly, OnlyIsFile
<1> HIDE DEF a
<1>6. Only(b, a, {F}) /\ b \in Files
  BY Zenon, <1>5, Members, ClbOnly, OnlyIsFile
<1> HIDE DEF b
<1>7. /\ regs' \in Files
      /\ regs'[A] = Entry(A) /\ regs'[B] = Entry(B) /\ regs'[C] = Entry(C)
      /\ regs'[D] = Entry(D) /\ regs'[Z] = Entry(Z)
  <2>1. CASE regs[C] = 0
    BY <2>1, <1>1, <1>3, <1>5, Registers DEF Only
  <2>2. CASE regs[C] # 0
    BY <2>2, <1>1, <1>3, <1>5, <1>6, Registers DEF Only
  <2>3. QED BY <2>1, <2>2
<1>8. stack' = (<<Entry(C)>> \o Base)'
  BY Zenon, <1>1, <1>3, SavesOne DEF General
<1>9. LibShape' /\ Unwritten'
  BY <1>1, <1>2, <1>7, Here, StretchKeeps
<1>10. /\ Entry(A)' = Entry(A) /\ Entry(B)' = Entry(B) /\ Entry(C)' = Entry(C)
       /\ Entry(D)' = Entry(D) /\ Entry(Z)' = Entry(Z) /\ Base' = Base
  BY <1>1, EntryKept
<1>11. AsEntered({D, Z})'
  BY <1>7, <1>10 DEF AsEntered
<1>12. /\ WasAB \in Nat /\ Was(C) \in Int /\ ToWord(WasAB) = WasAB
       /\ WordIn(regs', AB) = WasAB /\ Was(C)' = Was(C) /\ WasAB' = WasAB
  <2>1. request.regs \in Files
    BY Here, RoutineAsked
  <2>2. WasAB = Pair(Was(B), Was(A)) /\ WasAB \in Word
    BY <2>1, WordParts DEF WasAB, Was
  <2>3. WordIn(regs', AB) = Pair(regs'[B], regs'[A])
    BY <1>7, WordParts
  <2>4. WasAB \in Nat /\ ToWord(WasAB) = WasAB
    BY <2>2, WordBounds, SmallResidues
  <2>5. QED BY <1>1, <1>7, <1>4, <2>2, <2>3, <2>4, Here, BytesAreWords, RequestKept
<1>13. WasAB * Power(Was(C) - Was(C)) = WasAB /\ WasAB * Power(0) = WasAB
  BY <1>12, ShiftFirst
<1>14. Claims'
  <2>1. CASE regs[C] = 0
    <3>1. AtShl16Done'
      BY Zenon, <1>3, <1>4, <1>8, <1>11, <1>12, <1>13, <2>1 DEF AtShl16Done
    <3>2. QED BY <1>1, <2>1, <3>1, ClaimThere
  <2>2. CASE regs[C] # 0
    <3>1. Was(C) \in 1 .. Was(C) /\ regs'[C] = Was(C)
      BY <1>3, <1>4, <1>7, <2>2, BytesAreWords
    <3>2. AtShl16Shift'
      BY <1>8, <1>11, <1>12, <1>13, <3>1 DEF AtShl16Shift
    <3>3. QED BY <1>1, <2>2, <3>2, ClaimThere
  <2>3. QED BY <2>1, <2>2
<1>15. QED BY <1>9, <1>14 DEF LibInv

LEMMA Shl16ShiftKeeps == LibInv /\ Shl16Shift => LibInv'
<1> SUFFICES ASSUME LibInv, Shl16Shift PROVE LibInv'
  OBVIOUS
<1> DEFINE a == add16(regs, AB, Reg(A), Reg(B))
           b == dec(a, C)
           c == jnz(b)
<1>1. /\ at = "shl16.shift" /\ regs' = c /\ stack' = stack
      /\ mem' = mem /\ at' = (IF b[C] # 0 THEN "shl16.shift" ELSE "shl16.done")
      /\ calls' = calls /\ request' = request
  BY DEF Shl16Shift, Run, Stretch
<1>2. /\ at \in Inside("shl16") /\ at' \in Inside("shl16") \ {"shl16"}
      /\ at # "set_pixel.done"
      /\ "shl16" \in Routines
  BY <1>1, InsideIs DEF Routines
<1>3. AtShl16Shift
  BY <1>1, Here DEF Claims
<1>4. Only(a, regs, {A, B, F})
      /\ WordIn(a, AB) = ToWord(WordIn(regs, AB) + Pair(regs[B], regs[A]))
      /\ a \in Files
  BY Zenon, Here, Members, Add16Of, OnlyIsFile
<1> HIDE DEF a
<1>5. Only(b, a, {C, F}) /\ b[C] = ToByte(a[C] - 1) /\ b \in Files
  BY Zenon, <1>4, Members, DecOnly, OnlyIsFile
<1> HIDE DEF b
<1>6. Only(c, b, {H, L}) /\ c \in Files
  BY <1>5, Members, JnzOnly, OnlyIsFile
<1> HIDE DEF c
<1>7. /\ WordIn(c, AB) = ToWord(WordIn(regs, AB) + WordIn(regs, AB))
      /\ c[C] = ToByte(regs[C] - 1) /\ b[C] = c[C] /\ c[D] = regs[D] /\ c[Z] = regs[Z]
  <2>1. /\ c[A] = a[A] /\ c[B] = a[B] /\ c[C] = b[C] /\ a[C] = regs[C]
        /\ c[D] = regs[D] /\ c[Z] = regs[Z]
    BY <1>4, <1>5, <1>6, Registers DEF Only
  <2>2. WordIn(c, AB) = WordIn(a, AB) /\ WordIn(regs, AB) = Pair(regs[B], regs[A])
    BY <1>4, <1>6, <2>1, Here, WordParts
  <2>3. QED BY <1>4, <1>5, <2>1, <2>2
<1> DEFINE x == WasAB
           n == Was(C)
           k == regs[C]
<1>8. /\ Entry(A)' = Entry(A) /\ Entry(B)' = Entry(B) /\ Entry(C)' = Entry(C)
      /\ Entry(D)' = Entry(D) /\ Entry(Z)' = Entry(Z) /\ Base' = Base
  BY <1>1, EntryKept
<1>9. /\ x \in Nat /\ n \in Int /\ k \in Int /\ k \in 1 .. n /\ k \in Byte
      /\ k # 0 /\ k <= n
      /\ WordIn(regs, AB) = ToWord(x * Power(n - k)) /\ n' = n /\ x' = x
  <2>1. request.regs \in Files /\ n \in Byte /\ k \in Byte
    BY Here, RoutineAsked
  <2>2. x \in Word
    BY <2>1, WordParts DEF WasAB
  <2>3. x \in Nat /\ n \in Int /\ k \in Int
    BY <2>1, <2>2, BytesAreWords, WordBounds
  <2>4. k \in 1 .. n /\ WordIn(regs, AB) = ToWord(x * Power(n - k))
    BY <1>3 DEF AtShl16Shift
  <2>5. n' = n /\ x' = x
    BY <1>1, RequestKept
  <2>6. QED BY <2>1, <2>3, <2>4, <2>5
<1>10. c[C] = k - 1 /\ WordIn(c, AB) = ToWord(x * Power(n - (k - 1)))
  <2>1. c[C] = k - 1
    BY <1>7, <1>9, CountedDown
  <2>2. ToWord(x * Power(n - (k - 1))) = ToWord(ToWord(x * Power(n - k)) + ToWord(x * Power(n - k)))
    BY Zenon, <1>9, ShiftNext
  <2>3. QED BY <1>7, <1>9, <2>1, <2>2
<1>11. LibShape' /\ Unwritten'
  BY <1>1, <1>2, <1>6, Here, StretchKeeps
<1>12. stack' = (<<Entry(C)>> \o Base)' /\ AsEntered({D, Z})'
  BY <1>1, <1>3, <1>7, <1>8 DEF AtShl16Shift, AsEntered
<1>13. Claims'
  <2>1. CASE k - 1 = 0
    <3>1. n - (k - 1) = n
      BY <1>9, <2>1
    <3>2. AtShl16Done'
      BY <1>1, <1>9, <1>10, <1>12, <3>1 DEF AtShl16Done
    <3>3. QED BY <1>1, <1>7, <1>10, <2>1, <3>2, ClaimThere
  <2>2. CASE k - 1 # 0
    <3>1. k - 1 \in 1 .. n
      BY <1>9, <2>2
    <3>2. AtShl16Shift'
      BY <1>1, <1>9, <1>10, <1>12, <3>1 DEF AtShl16Shift
    <3>3. QED BY Zenon, <1>1, <1>7, <1>10, <2>2, <3>2, ClaimThere
  <2>3. QED BY <2>1, <2>2
<1>14. QED BY <1>11, <1>13 DEF LibInv

LEMMA Shl16DoneKeeps == LibInv /\ Shl16Done => LibInv'
<1> SUFFICES ASSUME LibInv, Shl16Done PROVE LibInv'
  OBVIOUS
<1>1. at = "shl16.done" /\ Leave("shl16.done", regs, <<C>>)
  BY DEF Shl16Done, Leave
<1>2. /\ "shl16" \in Routines \ {"memcpy", "set_pixel"} /\ at \in Inside("shl16")
      /\ "shl16" \in Quiet /\ at # "program" /\ at # "set_pixel.done"
  BY <1>1, InsideIs DEF Routines, Quiet
<1>3. /\ C \in General
      /\ stack = <<Entry(C)>> \o Base
      /\ WordIn(regs, AB) = ToWord(WasAB * Power(Was(C))) /\ AsEntered({D, Z})
  BY <1>1, Here, Registers DEF Claims, AtShl16Done, General
<1>4. Restoring("shl16", {C})
  BY Zenon, <1>1, <1>2, <1>3, OneRestored
<1>5. calls = Direct /\ request.routine = "shl16" /\ \A d : Entry(d) = Was(d)
  BY <1>2, Here, OnlyDirect, EntryIs DEF Routines
<1>6. /\ regs'[A] = regs[A] /\ regs'[B] = regs[B] /\ regs' \in Files
      /\ regs'[C] = Was(C) /\ regs'[D] = Was(D) /\ regs'[Z] = Was(Z)
      /\ Returning("shl16") /\ request' = request
  BY <1>3, <1>4, <1>5, Registers DEF Restoring, General, Returning, AsEntered
<1>7. WordIn(regs', AB) = WordIn(regs, AB)
  BY <1>6, Here, WordParts
<1>8. ProductsRight' /\ OrderRight'
  BY <1>6, <1>7, <1>3, <1>5, RequestKept, NoOrder DEF ProductsRight, Returned
<1>9. \A d \in General \ Results("shl16") : regs'[d] = Was(d)
  BY <1>6 DEF General, Results
<1>10. QED BY <1>2, <1>5, <1>6, <1>8, <1>9, DirectlyReturned

-----------------------------------------------------------------------------
(* shr                                                                     *)
LEMMA ShrKeeps == LibInv /\ Shr => LibInv'
<1> SUFFICES ASSUME LibInv, Shr PROVE LibInv'
  OBVIOUS
<1> DEFINE a == jz(regs, B)
           b == mw(a, C, Reg(A))
           c == mw(b, A, Imm(0))
<1>1. /\ at = "shr" /\ regs' = (IF regs[B] = 0 THEN a ELSE c) /\ stack' = pushed(regs, stack, <<B, C>>)
      /\ mem' = mem /\ at' = (IF regs[B] = 0 THEN "shr.done" ELSE "shr.shift")
      /\ calls' = calls /\ request' = request
  BY DEF Shr, Save, Stretch
<1>2. /\ at \in Inside("shr") /\ at' \in Inside("shr") \ {"shr"}
      /\ at # "set_pixel.done"
      /\ "shr" \in Routines
  BY <1>1, InsideIs DEF Routines
<1>3. /\ Fresh /\ regs[A] = Entry(A) /\ regs[B] = Entry(B) /\ regs[C] = Entry(C)
      /\ regs[D] = Entry(D) /\ regs[Z] = Entry(Z)
      /\ Entry(A) \in Byte /\ Entry(B) \in Byte /\ Entry(C) \in Byte
  BY <1>1, Here, ClaimHere DEF Fresh, AsEntered, General
<1>4. Only(a, regs, {F, H, L}) /\ a \in Files
  BY Zenon, Here, Members, JzOnly, OnlyIsFile
<1> HIDE DEF a
<1>5. Only(b, a, {C}) /\ b[C] = a[A] /\ b \in Files
  BY Zenon, <1>4, Members, MwReg
<1> HIDE DEF b
<1>6. Only(c, b, {A}) /\ c[A] = 0 /\ c \in Files
  BY <1>5, Members, MwImm
<1> HIDE DEF c
<1>7. /\ regs' \in Files
      /\ regs'[B] = Entry(B) /\ regs'[D] = Entry(D) /\ regs'[Z] = Entry(Z)
      /\ regs[B] = 0 => regs'[A] = Entry(A)
      /\ regs[B] # 0 => regs'[A] = 0 /\ regs'[C] = Entry(A)
  <2>1. CASE regs[B] = 0
    BY <2>1, <1>1, <1>3, <1>4, Registers DEF Only
  <2>2. CASE regs[B] # 0
    BY <2>2, <1>1, <1>3, <1>4, <1>5, <1>6, Registers DEF Only
  <2>3. QED BY <2>1, <2>2
<1>8. stack' = (<<Entry(C), Entry(B)>> \o Base)'
  BY Zenon, <1>1, <1>3, SavesTwo DEF General
<1>9. LibShape' /\ Unwritten'
  BY <1>1, <1>2, <1>7, Here, StretchKeeps
<1>10. /\ Entry(A)' = Entry(A) /\ Entry(B)' = Entry(B) /\ Entry(C)' = Entry(C)
       /\ Entry(D)' = Entry(D) /\ Entry(Z)' = Entry(Z) /\ Base' = Base
  BY <1>1, EntryKept
<1>11. AsEntered({D, Z})'
  BY <1>7, <1>10 DEF AsEntered
<1>12. Claims'
  <2>1. CASE regs[B] = 0
    <3>1. AtShrDone'
      BY <1>3, <1>7, <1>8, <1>10, <1>11, <2>1 DEF AtShrDone
    <3>2. QED BY <1>1, <2>1, <3>1, ClaimThere
  <2>2. CASE regs[B] # 0
    <3>1. Entry(B) \in 1 .. Entry(B) /\ 2 * 0 + Entry(A) = Entry(A)
      BY <1>3, <2>2, BytesAreWords
    <3>2. AtShrShift'
      BY <1>7, <1>8, <1>10, <1>11, <2>2, <3>1 DEF AtShrShift
    <3>3. QED BY <1>1, <2>2, <3>2, ClaimThere
  <2>3. QED BY <2>1, <2>2
<1>13. QED BY <1>9, <1>12 DEF LibInv

LEMMA ShrShiftKeeps == LibInv /\ ShrShift => LibInv'
<1> SUFFICES ASSUME LibInv, ShrShift PROVE LibInv'
  OBVIOUS
<1> DEFINE a == halved(regs)
           b == dec(a, B)
           c == jnz(b)
<1>1. /\ at = "shr.shift" /\ regs' = c /\ stack' = stack
      /\ mem' = mem /\ at' = (IF b[B] # 0 THEN "shr.shift" ELSE "shr.done")
      /\ calls' = calls /\ request' = request
  BY DEF ShrShift, Run, Stretch
<1>2. /\ at \in Inside("shr") /\ at' \in Inside("shr") \ {"shr"}
      /\ at # "set_pixel.done"
      /\ "shr" \in Routines
  BY <1>1, InsideIs DEF Routines
<1>3. AtShrShift
  BY <1>1, Here DEF Claims
<1>4. /\ 2 * regs[A] + regs[C] = Entry(A) /\ Entry(A) \in Byte /\ Entry(A) \in Nat
      /\ 2 * regs[A] + regs[C] <= 255
  <2>1. Entry(A) \in Byte
    BY <1>2, Here, EntryBytes
  <2>2. 2 * regs[A] + regs[C] = Entry(A)
    BY <1>3 DEF AtShrShift
  <2>3. QED BY <2>1, <2>2, ByteBounds, BytesAreWords
<1>5. /\ Only(a, regs, {A, C, F, H, L}) /\ a[C] \in {0, 1} /\ a \in Files
      /\ 2 * a[A] + a[C] = 2 * regs[A] + regs[C]
  BY Zenon, <1>4, Here, HalvedRight, OnlyIsFile
<1> HIDE DEF a
<1>6. Only(b, a, {B, F}) /\ b[B] = ToByte(a[B] - 1) /\ b \in Files
  BY <1>5, Members, DecOnly, OnlyIsFile
<1> HIDE DEF b
<1>7. Only(c, b, {H, L}) /\ c \in Files
  BY <1>6, Members, JnzOnly, OnlyIsFile
<1> HIDE DEF c
<1>8. /\ c[A] = a[A] /\ c[C] = a[C] /\ c[B] = ToByte(regs[B] - 1) /\ b[B] = c[B]
      /\ c[D] = regs[D] /\ c[Z] = regs[Z]
  BY <1>5, <1>6, <1>7, Registers DEF Only
<1> DEFINE n == Entry(B)
           k == regs[B]
<1>9. /\ Entry(A)' = Entry(A) /\ Entry(B)' = Entry(B) /\ Entry(C)' = Entry(C)
      /\ Entry(D)' = Entry(D) /\ Entry(Z)' = Entry(Z) /\ Base' = Base
  BY <1>1, EntryKept
<1>10. /\ n \in Int /\ k \in Int /\ k \in 1 .. n /\ k \in Byte /\ k # 0
  <2>1. n \in Byte /\ k \in Byte
    BY <1>2, Here, EntryBytes
  <2>2. k \in 1 .. n
    BY <1>3 DEF AtShrShift
  <2>3. QED BY <2>1, <2>2, BytesAreWords
<1>11. c[B] = k - 1 /\ 2 * c[A] + c[C] = Entry(A) /\ c[C] \in {0, 1}
       /\ c[A] = Entry(A) \div 2
  <2>1. c[B] = k - 1
    BY <1>8, <1>10, CountedDown
  <2>2. 2 * c[A] + c[C] = Entry(A) /\ c[C] \in {0, 1}
    BY <1>8, <1>5, <1>4
  <2>3. c[A] \in Nat
    BY <1>7, RegistersAre, BytesAreWords DEF Files
  <2>4. QED BY <1>4, <2>1, <2>2, <2>3
<1>12. LibShape' /\ Unwritten'
  BY <1>1, <1>2, <1>7, Here, StretchKeeps
<1>13. stack' = (<<Entry(C), Entry(B)>> \o Base)' /\ AsEntered({D, Z})'
  BY <1>1, <1>3, <1>8, <1>9 DEF AtShrShift, AsEntered
<1>14. Claims'
  <2>1. CASE k - 1 = 0
    <3>1. n # 0
      BY <1>10
    <3>2. AtShrDone'
      BY <1>1, <1>11, <1>13, <1>9, <3>1 DEF AtShrDone
    <3>3. QED BY <1>1, <1>8, <1>11, <2>1, <3>2, ClaimThere
  <2>2. CASE k - 1 # 0
    <3>1. k - 1 \in 1 .. n
      BY <1>10, <2>2
    <3>2. AtShrShift'
      BY <1>1, <1>11, <1>13, <1>9, <3>1 DEF AtShrShift
    <3>3. QED BY Zenon, <1>1, <1>8, <1>11, <2>2, <3>2, ClaimThere
  <2>3. QED BY <2>1, <2>2
<1>15. QED BY <1>12, <1>14 DEF LibInv

LEMMA ShrDoneKeeps == LibInv /\ ShrDone => LibInv'
<1> SUFFICES ASSUME LibInv, ShrDone PROVE LibInv'
  OBVIOUS
<1>1. at = "shr.done" /\ Leave("shr.done", regs, <<C, B>>)
  BY DEF ShrDone, Leave
<1>2. /\ "shr" \in Routines \ {"memcpy", "set_pixel"} /\ at \in Inside("shr")
      /\ "shr" \in Quiet /\ at # "program" /\ at # "set_pixel.done"
  BY <1>1, InsideIs DEF Routines, Quiet
<1>3. /\ C \in General /\ B \in General /\ C # B
      /\ stack = <<Entry(C), Entry(B)>> \o Base
      /\ regs[A] = (IF Entry(B) = 0 THEN Entry(A) ELSE Entry(A) \div 2) /\ AsEntered({D, Z})
  BY <1>1, Here, Registers DEF Claims, AtShrDone, General
<1>4. Restoring("shr", {C, B})
  BY Zenon, <1>1, <1>2, <1>3, TwoRestored
<1>5. /\ regs'[A] = (IF Entry(B) = 0 THEN Entry(A) ELSE Entry(A) \div 2) /\ regs'[B] = Entry(B)
      /\ regs'[C] = Entry(C) /\ regs'[D] = Entry(D) /\ regs'[Z] = Entry(Z)
      /\ Returning("shr") /\ request' = request
  BY <1>3, <1>4, Registers DEF Restoring, General, Returning, AsEntered
<1>6. /\ SavedAll' = SavedAll /\ HighFlags' = HighFlags /\ LowFlags' = LowFlags
      /\ ScanLine' = ScanLine /\ \A d : Was(d)' = Was(d)
  BY <1>5, RequestKept
<1>7. CASE calls = Direct
  <2>1. (\A d : Entry(d) = Was(d)) /\ request.routine = "shr"
    BY <1>7, <1>5, EntryIs DEF Returning
  <2>2. ProductsRight' /\ OrderRight'
    BY <1>5, <2>1, NoProduct, NoOrder
  <2>3. \A d \in General \ Results("shr") : regs'[d] = Was(d)
    BY <1>5, <2>1 DEF General, Results
  <2>4. QED BY <1>7, <1>2, <1>5, <2>2, <2>3, DirectlyReturned
<1>8. CASE calls # Direct
  <2>1. PICK b \in {"cmp16.back", "set_pixel.byte"} : /\ calls = Via(b) /\ at' = b
                                                    /\ LibShape' /\ Unwritten'
                                                    /\ stack' = Base
    BY <1>8, <1>5, BacksCall DEF Returning
  <2>2. CASE b = "cmp16.back"
    <3>1. /\ Base = <<LowFlags, HighFlags, Was(B), Was(A)>>
          /\ Entry(A) = HighFlags /\ Entry(B) = HighFlags
          /\ Entry(C) = Was(C) /\ Entry(D) = Was(D) /\ Entry(Z) = Was(Z)
      BY <2>1, <2>2, EntryIs
    <3>2. regs'[A] = HighFlags \div 2
      <4>1. 0 \div 2 = 0
        OBVIOUS
      <4>2. QED BY <1>5, <3>1, <4>1
    <3>3. AtCmp16Back'
      BY <1>5, <1>6, <2>1, <3>1, <3>2 DEF AtCmp16Back
    <3>4. QED BY <2>1, <2>2, <3>3, ClaimThere DEF LibInv
  <2>3. CASE b = "set_pixel.byte"
    <3>1. /\ Base = <<Lo(ScanLine), Hi(ScanLine)>> \o SavedAll
          /\ Entry(A) = Was(A) /\ Entry(B) = 3 /\ Entry(D) = Was(A) /\ Entry(Z) = Was(C)
      BY <2>1, <2>3, EntryIs
    <3>2. AtSetPixelByte'
      BY <1>5, <1>6, <2>1, <3>1 DEF AtSetPixelByte
    <3>3. QED BY <2>1, <2>3, <3>2, ClaimThere DEF LibInv
  <2>4. QED BY <2>1, <2>2, <2>3
<1>9. QED BY <1>7, <1>8

-----------------------------------------------------------------------------
(* A call of one routine by another.                                       *)
LEMMA EntryThere ==
  ASSUME request' = request
  PROVE  /\ calls' = Via("cmp16.back") =>
              /\ Base' = <<LowFlags, HighFlags, Was(B), Was(A)>>
              /\ Entry(A)' = HighFlags /\ Entry(B)' = HighFlags
              /\ Entry(C)' = Was(C) /\ Entry(D)' = Was(D) /\ Entry(Z)' = Was(Z)
         /\ calls' = Via("set_pixel.line") =>
              /\ Base' = SavedAll
              /\ Entry(A)' = 0 /\ Entry(B)' = Was(B) /\ Entry(C)' = SCANLINE_WIDTH_BYTES
              /\ Entry(D)' = Was(A) /\ Entry(Z)' = Was(C)
         /\ calls' = Via("set_pixel.byte") =>
              /\ Base' = <<Lo(ScanLine), Hi(ScanLine)>> \o SavedAll
              /\ Entry(A)' = Was(A) /\ Entry(B)' = 3 /\ Entry(C)' = SCANLINE_WIDTH_BYTES
              /\ Entry(D)' = Was(A) /\ Entry(Z)' = Was(C)
         /\ calls' = Via("set_pixel.mask") =>
              /\ Base' = <<Lo(Dot), Hi(Dot)>> \o SavedAll
              /\ Entry(A)' = 1 /\ Entry(B)' = Was(A) % 8 /\ Entry(C)' = Was(A) \div 2
              /\ Entry(D)' = Was(A) % 8 /\ Entry(Z)' = Was(C)
         /\ calls' \in {Via("memcpy16.back"), Via("memcpy16.done")} => Base' = SavedAll
<1>1. /\ A # B /\ A # C /\ A # D /\ A # Z /\ B # C /\ B # D /\ B # Z /\ C # D
      /\ C # Z /\ D # Z
  BY Registers
<1>2. \A x : Via(x) # Direct
  BY CallsDiffer
<1>3. \A x, y : Via(x) = Via(y) => x = y
  BY CallsDiffer
<1>4. /\ SavedAll' = SavedAll /\ HighFlags' = HighFlags /\ LowFlags' = LowFlags
      /\ ScanLine' = ScanLine /\ Dot' = Dot /\ \A d : Was(d)' = Was(d)
  BY RequestKept
<1>5. ASSUME calls' = Via("cmp16.back")
      PROVE  /\ Base' = <<LowFlags, HighFlags, Was(B), Was(A)>>
             /\ Entry(A)' = HighFlags /\ Entry(B)' = HighFlags
             /\ Entry(C)' = Was(C) /\ Entry(D)' = Was(D) /\ Entry(Z)' = Was(Z)
  <2>a. /\ calls' # Direct /\ calls' # Via("set_pixel.line")
        /\ calls' # Via("set_pixel.byte")
        /\ calls' # Via("set_pixel.mask")
    BY <1>2, <1>3, <1>5
  <2>1. Base' = <<LowFlags', HighFlags', Was(B)', Was(A)'>>
    BY <1>5, <2>a DEF Base
  <2>2. /\ Entry(A)' = HighFlags' /\ Entry(B)' = HighFlags'
        /\ Entry(C)' = Was(C)' /\ Entry(D)' = Was(D)' /\ Entry(Z)' = Was(Z)'
    BY <1>1, <1>5, <2>a DEF Entry
  <2>3. QED BY <1>4, <2>1, <2>2
<1>6. ASSUME calls' = Via("set_pixel.line")
      PROVE  /\ Base' = SavedAll
             /\ Entry(A)' = 0 /\ Entry(B)' = Was(B) /\ Entry(C)' = SCANLINE_WIDTH_BYTES
             /\ Entry(D)' = Was(A) /\ Entry(Z)' = Was(C)
  <2>1. calls' # Direct /\ calls' # Via("cmp16.back")
        /\ calls' # Via("set_pixel.byte") /\ calls' # Via("set_pixel.mask")
    BY <1>2, <1>3, <1>6
  <2>2. Base' = SavedAll'
    BY <1>6, <2>1 DEF Base
  <2>3. /\ Entry(A)' = 0 /\ Entry(B)' = Was(B)' /\ Entry(C)' = SCANLINE_WIDTH_BYTES
        /\ Entry(D)' = Was(A)' /\ Entry(Z)' = Was(C)'
    BY <1>1, <1>6, <2>1 DEF Entry
  <2>4. QED BY <1>4, <2>2, <2>3
<1>7. ASSUME calls' = Via("set_pixel.byte")
      PROVE  /\ Base' = <<Lo(ScanLine), Hi(ScanLine)>> \o SavedAll
             /\ Entry(A)' = Was(A) /\ Entry(B)' = 3 /\ Entry(C)' = SCANLINE_WIDTH_BYTES
             /\ Entry(D)' = Was(A) /\ Entry(Z)' = Was(C)
  <2>1. calls' # Direct /\ calls' # Via("cmp16.back")
        /\ calls' # Via("set_pixel.line") /\ calls' # Via("set_pixel.mask")
    BY <1>2, <1>3, <1>7
  <2>2. Base' = <<Lo(ScanLine'), Hi(ScanLine')>> \o SavedAll'
    BY <1>7, <2>1 DEF Base
  <2>3. /\ Entry(A)' = Was(A)' /\ Entry(B)' = 3 /\ Entry(C)' = SCANLINE_WIDTH_BYTES
        /\ Entry(D)' = Was(A)' /\ Entry(Z)' = Was(C)'
    BY <1>1, <1>7, <2>1 DEF Entry
  <2>4. QED BY <1>4, <2>2, <2>3
<1>8. ASSUME calls' = Via("set_pixel.mask")
      PROVE  /\ Base' = <<Lo(Dot), Hi(Dot)>> \o SavedAll
             /\ Entry(A)' = 1 /\ Entry(B)' = Was(A) % 8 /\ Entry(C)' = Was(A) \div 2
             /\ Entry(D)' = Was(A) % 8 /\ Entry(Z)' = Was(C)
  <2>1. calls' # Direct /\ calls' # Via("cmp16.back")
        /\ calls' # Via("set_pixel.line") /\ calls' # Via("set_pixel.byte")
    BY <1>2, <1>3, <1>8
  <2>2. Base' = <<Lo(Dot'), Hi(Dot')>> \o SavedAll'
    BY <1>8, <2>1 DEF Base
  <2>3. /\ Entry(A)' = 1 /\ Entry(B)' = Was(A)' % 8 /\ Entry(C)' = Was(A)' \div 2
        /\ Entry(D)' = Was(A)' % 8 /\ Entry(Z)' = Was(C)'
    BY <1>1, <1>8, <2>1 DEF Entry
  <2>4. QED BY <1>4, <2>2, <2>3
<1>9. ASSUME calls' \in {Via("memcpy16.back"), Via("memcpy16.done")} PROVE Base' = SavedAll
  <2>1. calls' # Direct
        /\ \A b \in {"cmp16.back", "set_pixel.byte", "set_pixel.mask"} : calls' # Via(b)
    BY <1>2, <1>3, <1>9
  <2>2. Base' = SavedAll'
    BY <2>1 DEF Base
  <2>3. QED BY <1>4, <2>2
<1>10. QED BY <1>5, <1>6, <1>7, <1>8, <1>9

LEMMA CallKeeps ==
  ASSUME LibShape, calls = Direct, NEW b \in Backs, b \in Inside(request.routine),
         calls' = <<b>> \o calls, at' = Called(b),
         regs' \in Files, mem' \in [DOMAIN Contents -> Byte], request' = request
  PROVE  LibShape' /\ calls' = Via(b)
<1>1. calls' = Via(b)
  BY CallsDiffer
<1>2. Called(b) \in Inside(Called(b))
  BY CalledIsRoutine, InsideIs DEF Routines
<1>3. Calling'
  BY <1>1, <1>2 DEF Calling
<1>4. QED BY <1>1, <1>3 DEF LibShape, Files

LEMMA CallUnwritten ==
  ASSUME Unwritten, at \notin {"set_pixel.done", "program"}, mem' = mem,
         request' = request,
         at' \notin {"memset", "memcpy16"}
  PROVE  Unwritten'
<1>1. Start' = Start
  BY RequestKept
<1>2. QED BY <1>1 DEF Unwritten, Outside

-----------------------------------------------------------------------------
(* cmp16                                                                   *)
LEMMA ShortLists ==
  ASSUME NEW a \in Byte, NEW b \in Byte, NEW c \in Byte, NEW d \in Byte
  PROVE  /\ <<a, b>> \o << >> = <<a, b>> /\ <<a, b>> \o <<c, d>> = <<a, b, c, d>>
         /\ <<c, d>> \in Seq(Byte) /\ << >> \in Seq(Byte)
<1> DEFINE s == <<a, b>>
           t == <<c, d>>
           u == <<a, b, c, d>>
<1>1. s \in Seq(Byte) /\ t \in Seq(Byte) /\ u \in Seq(Byte) /\ << >> \in Seq(Byte)
  OBVIOUS
<1>2. /\ Len(s) = 2 /\ Len(t) = 2 /\ Len(u) = 4
      /\ s[1] = a /\ s[2] = b /\ t[1] = c /\ t[2] = d
      /\ u[1] = a /\ u[2] = b /\ u[3] = c /\ u[4] = d
  OBVIOUS
<1> HIDE DEF s, t, u
<1>3. s \o << >> = s
  BY <1>1, ConcatEmptySeq
<1>4. s \o t = u
  <2>1. /\ s \o t \in Seq(Byte) /\ Len(s \o t) = Len(s) + Len(t)
        /\ \A i \in 1 .. Len(s) + Len(t) :
             (s \o t)[i] = IF i <= Len(s) THEN s[i] ELSE t[i - Len(s)]
    BY <1>1, ConcatProperties, Zenon
  <2>2. /\ Len(s \o t) = 4
        /\ \A i \in 1 .. 4 : (s \o t)[i] = IF i <= 2 THEN s[i] ELSE t[i - 2]
    BY <1>2, <2>1
  <2>3. (s \o t)[1] = a /\ (s \o t)[2] = b /\ (s \o t)[3] = c /\ (s \o t)[4] = d
    BY <1>2, <2>2
  <2>4. \A i \in 1 .. 4 : i = 1 \/ i = 2 \/ i = 3 \/ i = 4
    OBVIOUS
  <2>5. \A i \in 1 .. 4 : (s \o t)[i] = u[i]
    BY Zenon, <1>2, <2>3, <2>4
  <2>6. QED BY Zenon, <1>1, <1>2, <2>1, <2>2, <2>5, SeqEqual
<1>5. QED BY <1>1, <1>3, <1>4 DEF s, t, u

(* POP of two registers a and b: t is the register file, s the stack.      *)
Popping(t, s, r, x, y, a, b, base) ==
  Only(t, r, {x, y}) /\ t[x] = a /\ t[y] = b /\ s = base
LEMMA TwoPopped ==
  ASSUME NEW r \in Files, NEW x \in Register, NEW y \in Register, x # y,
         NEW a \in Byte, NEW b \in Byte, NEW base \in Seq(Byte),
         NEW s, s = <<a, b>> \o base
  PROVE  Popping(popped(r, s, <<x, y>>), dropped(s, <<x, y>>), r, x, y, a, b, base)
<1> DEFINE list == <<x, y>>
           saved == <<a, b>>
<1>1. /\ list \in Seq(Register) /\ saved \in Seq(Byte)
      /\ Len(saved) = Len(list) /\ Len(saved) > 0
      /\ Len(list) = 2 /\ list[1] = x /\ saved[1] = a /\ list[2] = y /\ saved[2] = b
      /\ OneToOne(list)
  BY DEF OneToOne
<1>2. s = saved \o base
  OBVIOUS
<1> HIDE DEF list, saved
<1> DEFINE t == popped(r, saved \o base, list)
<1>3. Restored(t, r, list, saved) /\ dropped(saved \o base, list) = base
  BY Zenon, <1>1, PoppedAre
<1>4. t = popped(r, s, list)
  BY Zenon, <1>2
<1> HIDE DEF t
<1>5. Only(t, r, {x, y}) /\ t[x] = a /\ t[y] = b
  BY <1>1, <1>3 DEF Only, Restored
<1>6. dropped(s, list) = base
  BY Zenon, <1>2, <1>3
<1>7. QED BY <1>4, <1>5, <1>6 DEF list, Popping

LEMMA FlagSum ==
  ASSUME NEW l \in {0, 1}, NEW e \in {0, 1}
  PROVE  Or(l, 2 * e) = l + 2 * e
<1>1. /\ l \in Byte /\ 2 * e \in Byte /\ l + 2 * e \in Byte
      /\ BitAt(l, 1) = l /\ BitAt(2 * e, 1) = 0 /\ BitAt(l + 2 * e, 1) = l
      /\ BitAt(l, 2) = 0 /\ BitAt(2 * e, 2) = e /\ BitAt(l + 2 * e, 2) = e
  BY ByteBounds DEF BitAt
<1>2. \A w \in {4, 8, 16, 32, 64, 128} :
        BitAt(l, w) = 0 /\ BitAt(2 * e, w) = 0 /\ BitAt(l + 2 * e, w) = 0
  BY DEF BitAt
<1>3. Or(l, 2 * e) \in Byte
  BY <1>1, OrIsByte
<1>4. ASSUME NEW w \in Weights PROVE BitAt(Or(l, 2 * e), w) = BitAt(l + 2 * e, w)
  <2>1. BitAt(Or(l, 2 * e), w) = BitOr(BitAt(l, w), BitAt(2 * e, w))
    BY <1>1, OrBits
  <2>2. BitOr(0, 0) = 0 /\ BitOr(l, 0) = l /\ BitOr(0, e) = e
    BY DEF BitOr
  <2>3. w \in {1, 2} \/ w \in {4, 8, 16, 32, 64, 128}
    BY DEF Weights
  <2>4. QED BY <1>1, <1>2, <2>1, <2>2, <2>3
<1>5. QED BY Zenon, <1>1, <1>3, <1>4, SameBits

(* The flags of the high bytes h and those of the low bytes l, put together.*)
LEMMA FlagsJoined ==
  ASSUME NEW h \in Byte, NEW l \in Byte
  PROVE  Or(And(Or(And(h \div 2, l), h), 1), And(And(h, l), 2))
           = (IF BitAt(h, 1) = 1 \/ (BitAt(h, 2) = 1 /\ BitAt(l, 1) = 1) THEN 1 ELSE 0)
             + (IF BitAt(h, 2) = 1 /\ BitAt(l, 2) = 1 THEN 2 ELSE 0)
<1> DEFINE low == BitAt(Or(And(h \div 2, l), h), 1)
           both == BitAt(And(h, l), 2)
<1>1. /\ h \div 2 \in Byte /\ And(h \div 2, l) \in Byte
      /\ Or(And(h \div 2, l), h) \in Byte
      /\ And(h, l) \in Byte
  <2>1. h \div 2 \in Byte
    BY ByteBounds
  <2>2. And(h \div 2, l) \in Byte /\ And(h, l) \in Byte
    BY <2>1, AndIsByte
  <2>3. QED BY <2>1, <2>2, OrIsByte
<1>2. BitAt(h \div 2, 1) = BitAt(h, 2)
  BY ByteBounds DEF BitAt
<1>3. 1 \in Weights /\ 2 \in Weights
  BY DEF Weights
<1>4. /\ BitAt(h, 1) \in {0, 1} /\ BitAt(h, 2) \in {0, 1}
      /\ BitAt(l, 1) \in {0, 1} /\ BitAt(l, 2) \in {0, 1}
  BY <1>3, BitsAre01
<1>5. low = BitOr(BitAnd(BitAt(h, 2), BitAt(l, 1)), BitAt(h, 1))
  <2>1. low = BitOr(BitAt(And(h \div 2, l), 1), BitAt(h, 1))
    BY <1>1, <1>3, OrBits
  <2>2. BitAt(And(h \div 2, l), 1) = BitAnd(BitAt(h \div 2, 1), BitAt(l, 1))
    BY <1>1, <1>3, AndBits
  <2>3. QED BY <1>2, <2>1, <2>2
<1>6. both = BitAnd(BitAt(h, 2), BitAt(l, 2))
  BY <1>3, AndBits
<1>7. And(Or(And(h \div 2, l), h), 1) = low /\ And(And(h, l), 2) = 2 * both
  BY <1>1, MaskOne
<1> HIDE DEF low, both
<1>8. /\ low = (IF BitAt(h, 1) = 1 \/ (BitAt(h, 2) = 1 /\ BitAt(l, 1) = 1) THEN 1 ELSE 0)
      /\ both = (IF BitAt(h, 2) = 1 /\ BitAt(l, 2) = 1 THEN 1 ELSE 0)
  BY <1>4, <1>5, <1>6 DEF BitAnd, BitOr
<1>9. Or(low, 2 * both) = low + 2 * both
  BY <1>8, FlagSum
<1>10. QED BY <1>7, <1>8, <1>9

LEMMA OrderOfWords ==
  ASSUME NEW a \in Byte, NEW b \in Byte, NEW c \in Byte, NEW d \in Byte
  PROVE  /\ Pair(b, a) < Pair(d, c) <=> a < c \/ (a = c /\ b < d)
         /\ Pair(b, a) = Pair(d, c) <=> a = c /\ b = d
BY ByteBounds DEF Pair

LEMMA Cmp16Keeps == LibInv /\ Cmp16 => LibInv'
<1> SUFFICES ASSUME LibInv, Cmp16 PROVE LibInv'
  OBVIOUS
<1> DEFINE a == cmp(regs, A, Reg(C))
           b == mw(a, H, Reg(F))
           c == cmp(b, B, Reg(D))
           d == mw(c, L, Reg(F))
           e == mw(d, A, Reg(H))
           f == mw(e, B, Reg(A))
           g == jumped(f)
<1>1. /\ at = "cmp16" /\ regs' = g
      /\ stack' = pushed(d, pushed(regs, stack, <<A, B>>), <<H, L>>)
      /\ mem' = mem /\ at' = "shr" /\ calls' = <<"cmp16.back">> \o calls
      /\ request' = request
  BY DEF Cmp16, Call
<1>2. at \in Inside("cmp16") /\ "cmp16" \in Routines /\ "cmp16.back" \in Backs
  BY <1>1, InsideIs DEF Routines, Backs
<1>3. calls = Direct /\ request.routine = "cmp16" /\ Base = << >>
  BY <1>2, Here, OnlyDirect, EntryIs DEF Routines
<1>4. /\ stack = << >> /\ regs[A] = Was(A) /\ regs[B] = Was(B) /\ regs[C] = Was(C)
      /\ regs[D] = Was(D) /\ regs[Z] = Was(Z)
  BY <1>1, <1>3, Here, ClaimHere, EntryIs DEF Fresh, AsEntered, General
<1>5. Only(a, regs, {F}) /\ a[F] = FlagsOf(regs[A], regs[C]) /\ a \in Files
  BY Zenon, Here, Members, CmpReg
<1> HIDE DEF a
<1>6. Only(b, a, {H}) /\ b[H] = a[F] /\ b \in Files
  BY Zenon, <1>5, Members, MwReg
<1> HIDE DEF b
<1>7. Only(c, b, {F}) /\ c[F] = FlagsOf(b[B], b[D]) /\ c \in Files
  BY Zenon, <1>6, Members, CmpReg
<1> HIDE DEF c
<1>8. Only(d, c, {L}) /\ d[L] = c[F] /\ d \in Files
  BY <1>7, Members, MwReg
<1> HIDE DEF d
<1>9. Only(e, d, {A}) /\ e[A] = d[H] /\ e \in Files
  BY Zenon, <1>8, Members, MwReg
<1> HIDE DEF e
<1>10. Only(f, e, {B}) /\ f[B] = e[A] /\ f \in Files
  BY <1>9, Members, MwReg
<1> HIDE DEF f
<1>11. Only(g, f, {H, L}) /\ g \in Files
  BY <1>10, Members, JumpedOnly, OnlyIsFile
<1> HIDE DEF g
<1>12. d[H] = HighFlags /\ d[L] = LowFlags
  <2>1. d[H] = FlagsOf(Was(A), Was(C)) /\ d[L] = FlagsOf(Was(B), Was(D))
    BY <1>4, <1>5, <1>6, <1>7, <1>8, Registers DEF Only
  <2>2. QED BY <2>1 DEF HighFlags, LowFlags
<1>13. /\ g[A] = HighFlags /\ g[B] = HighFlags /\ g[C] = Was(C)
       /\ g[D] = Was(D) /\ g[Z] = Was(Z)
  <2>1. g[A] = d[H] /\ g[B] = d[H] /\ g[C] = d[C] /\ g[D] = d[D] /\ g[Z] = d[Z]
    BY <1>9, <1>10, <1>11, Registers DEF Only
  <2>2. d[C] = Was(C) /\ d[D] = Was(D) /\ d[Z] = Was(Z)
    BY <1>4, <1>5, <1>6, <1>7, <1>8, Registers DEF Only
  <2>3. QED BY <1>12, <2>1, <2>2
<1>14. stack' = <<LowFlags, HighFlags, Was(B), Was(A)>>
  <2>1. A \in Register /\ B \in Register /\ H \in Register /\ L \in Register
    BY Members
  <2>2. LowFlags \in Byte /\ HighFlags \in Byte /\ Was(A) \in Byte /\ Was(B) \in Byte
    BY Here, ScreenWords
  <2>3. pushed(regs, stack, <<A, B>>) = <<regs[B], regs[A]>> \o stack
    BY Zenon, <2>1, PushedTwo
  <2>4. pushed(regs, stack, <<A, B>>) = <<Was(B), Was(A)>>
    BY <1>4, <2>2, <2>3, ShortLists
  <2>5. \A s : pushed(d, s, <<H, L>>) = <<d[L], d[H]>> \o s
    BY Zenon, <2>1, PushedTwo
  <2>6. stack' = <<LowFlags, HighFlags>> \o <<Was(B), Was(A)>>
    BY Zenon, <1>1, <1>12, <2>4, <2>5
  <2>7. QED BY <2>2, <2>6, ShortLists
<1>15. LibShape' /\ calls' = Via("cmp16.back")
  <2>1. "cmp16.back" \in Inside(request.routine) /\ at' = Called("cmp16.back")
    BY <1>1, <1>3, InsideIs, CalledIs
  <2>2. QED BY Zenon, <1>1, <1>2, <1>3, <1>11, <2>1, Here, CallKeeps
<1>16. Unwritten'
  BY <1>1, Here, CallUnwritten
<1>17. Claims'
  <2>1. /\ Base' = <<LowFlags, HighFlags, Was(B), Was(A)>>
        /\ Entry(A)' = HighFlags /\ Entry(B)' = HighFlags
        /\ Entry(C)' = Was(C) /\ Entry(D)' = Was(D) /\ Entry(Z)' = Was(Z)
    BY Zenon, <1>1, <1>15, EntryThere
  <2>2. AsEntered(General)'
    BY <1>1, <1>13, <2>1 DEF AsEntered, General
  <2>3. Fresh'
    BY <1>14, <2>1, <2>2 DEF Fresh
  <2>4. QED BY <1>1, <2>3, ClaimThere DEF Routines
<1>18. QED BY <1>15, <1>16, <1>17 DEF LibInv

LEMMA Cmp16BackKeeps == LibInv /\ Cmp16Back => LibInv'
<1> SUFFICES ASSUME LibInv, Cmp16Back PROVE LibInv'
  OBVIOUS
<1> DEFINE p == popped(regs, stack, <<L, H>>)
           a == and(p, A, Reg(L))
           b == or(a, A, Reg(H))
           c == and(b, A, Imm(1))
           d == mw(c, B, Reg(H))
           e == and(d, B, Reg(L))
           f == and(e, B, Imm(2))
           g == or(f, A, Reg(B))
           h == mw(g, F, Reg(A))
           s == dropped(stack, <<L, H>>)
           q == popped(h, s, <<B, A>>)
<1>1. /\ at = "cmp16.back" /\ regs' = jumped(q) /\ stack' = dropped(s, <<B, A>>)
      /\ at' = Head(calls) /\ calls' = Tail(calls) /\ mem' = mem /\ request' = request
  BY DEF Cmp16Back
<1>2. at \in Inside("cmp16") /\ "cmp16" \in Routines
  BY <1>1, InsideIs DEF Routines
<1>3. calls = Direct /\ request.routine = "cmp16"
  BY <1>2, Here, OnlyDirect DEF Routines
<1>4. AtCmp16Back
  BY <1>1, Here DEF Claims
<1>5. /\ LowFlags \in Byte /\ HighFlags \in Byte /\ Was(A) \in Byte /\ Was(B) \in Byte
      /\ << >> \in Seq(Byte) /\ <<Was(B), Was(A)>> \in Seq(Byte)
  BY Here, ScreenWords, ShortLists
<1>6. /\ stack = <<LowFlags, HighFlags>> \o <<Was(B), Was(A)>>
      /\ <<Was(B), Was(A)>> \o << >> = <<Was(B), Was(A)>>
  BY <1>4, <1>5, ShortLists DEF AtCmp16Back
<1>7. /\ Only(p, regs, {L, H}) /\ p[L] = LowFlags /\ p[H] = HighFlags /\ p \in Files
      /\ s = <<Was(B), Was(A)>>
  <2>1. L \in Register /\ H \in Register /\ L # H
    BY Registers
  <2>2. Popping(p, s, regs, L, H, LowFlags, HighFlags, <<Was(B), Was(A)>>)
    BY Zenon, <1>5, <1>6, <2>1, Here, TwoPopped
  <2>3. QED BY <2>2, OnlyIsFile DEF Popping
<1> HIDE DEF p
<1>8. Only(a, p, {A}) /\ a[A] = And(p[A], p[L]) /\ a \in Files
  BY Zenon, <1>7, Members, AndReg
<1> HIDE DEF a
<1>9. Only(b, a, {A}) /\ b[A] = Or(a[A], a[H]) /\ b \in Files
  BY Zenon, <1>8, Members, OrReg
<1> HIDE DEF b
<1>10. Only(c, b, {A}) /\ c[A] = And(b[A], 1) /\ c \in Files
  BY Zenon, <1>9, Members, AndImm
<1> HIDE DEF c
<1>11. Only(d, c, {B}) /\ d[B] = c[H] /\ d \in Files
  BY <1>10, Members, MwReg
<1> HIDE DEF d
<1>12. Only(e, d, {B}) /\ e[B] = And(d[B], d[L]) /\ e \in Files
  BY <1>11, Members, AndReg
<1> HIDE DEF e
<1>13. Only(f, e, {B}) /\ f[B] = And(e[B], 2) /\ f \in Files
  BY Zenon, <1>12, Members, AndImm
<1> HIDE DEF f
<1>14. Only(g, f, {A}) /\ g[A] = Or(f[A], f[B]) /\ g \in Files
  BY Zenon, <1>13, Members, OrReg
<1> HIDE DEF g
<1>15. Only(h, g, {F}) /\ h[F] = g[A] /\ h \in Files
  BY <1>14, Members, MwReg
<1> HIDE DEF h
<1>16. /\ Only(q, h, {B, A}) /\ q[B] = Was(B) /\ q[A] = Was(A) /\ q \in Files
       /\ dropped(s, <<B, A>>) = << >>
  <2>1. A \in Register /\ B \in Register /\ B # A
    BY Registers
  <2>2. s = <<Was(B), Was(A)>> \o << >>
    BY <1>7, <1>6
  <2>3. Popping(q, dropped(s, <<B, A>>), h, B, A, Was(B), Was(A), << >>)
    BY Zenon, <1>5, <1>15, <2>1, <2>2, TwoPopped
  <2>4. QED BY <2>3, OnlyIsFile DEF Popping
<1> HIDE DEF q, s
<1>17. Only(regs', q, {H, L}) /\ regs' \in Files
  BY Zenon, <1>1, <1>16, JumpedOnly, OnlyIsFile
<1>18. p[A] = HighFlags \div 2 /\ p[C] = Was(C) /\ p[D] = Was(D) /\ p[Z] = Was(Z)
  BY <1>4, <1>7, Registers DEF Only, AtCmp16Back
<1>19. /\ f[A] = And(Or(And(HighFlags \div 2, LowFlags), HighFlags), 1)
       /\ f[B] = And(And(HighFlags, LowFlags), 2)
  <2>1. /\ a[A] = And(p[A], p[L]) /\ a[H] = p[H] /\ a[L] = p[L]
    BY <1>8, Registers DEF Only
  <2>2. c[A] = And(Or(a[A], a[H]), 1) /\ c[H] = a[H] /\ c[L] = a[L]
    BY <1>9, <1>10, Registers DEF Only
  <2>3. f[A] = c[A] /\ f[B] = And(And(c[H], c[L]), 2)
    BY <1>11, <1>12, <1>13, Registers DEF Only
  <2>4. QED BY <1>7, <1>18, <2>1, <2>2, <2>3
<1>20. /\ regs'[F] = Or(f[A], f[B]) /\ regs'[A] = Was(A) /\ regs'[B] = Was(B)
       /\ regs'[C] = Was(C) /\ regs'[D] = Was(D) /\ regs'[Z] = Was(Z)
  <2>1. /\ regs'[F] = Or(f[A], f[B]) /\ regs'[A] = Was(A) /\ regs'[B] = Was(B)
        /\ regs'[C] = f[C] /\ regs'[D] = f[D] /\ regs'[Z] = f[Z]
    BY <1>14, <1>15, <1>16, <1>17, Registers DEF Only
  <2>2. f[C] = p[C] /\ f[D] = p[D] /\ f[Z] = p[Z]
    BY <1>8, <1>9, <1>10, <1>11, <1>12, <1>13, Registers DEF Only
  <2>3. QED BY <1>18, <2>1, <2>2
<1>21. OrderRight'
  <2>1. regs'[F] = (IF BitAt(HighFlags, 1) = 1 \/ (BitAt(HighFlags, 2) = 1 /\ BitAt(LowFlags, 1) = 1)
                    THEN 1 ELSE 0)
                   + (IF BitAt(HighFlags, 2) = 1 /\ BitAt(LowFlags, 2) = 1 THEN 2 ELSE 0)
    BY <1>5, <1>19, <1>20, FlagsJoined
  <2>2. /\ BitAt(HighFlags, 1) = (IF Was(A) < Was(C) THEN 1 ELSE 0)
        /\ BitAt(HighFlags, 2) = (IF Was(A) = Was(C) THEN 1 ELSE 0)
        /\ BitAt(LowFlags, 1) = (IF Was(B) < Was(D) THEN 1 ELSE 0)
        /\ BitAt(LowFlags, 2) = (IF Was(B) = Was(D) THEN 1 ELSE 0)
    BY Here, EqualFlag DEF HighFlags, LowFlags
  <2>3. WasAB = Pair(Was(B), Was(A)) /\ WasCD = Pair(Was(D), Was(C))
    <3>1. request.regs \in Files
      BY Here, RoutineAsked
    <3>2. QED BY <3>1, WordParts DEF WasAB, WasCD, Was
  <2>4. /\ WasAB < WasCD <=> Was(A) < Was(C) \/ (Was(A) = Was(C) /\ Was(B) < Was(D))
        /\ WasAB = WasCD <=> Was(A) = Was(C) /\ Was(B) = Was(D)
    BY <2>3, Here, OrderOfWords
  <2>5. regs'[F] = (IF WasAB < WasCD THEN 1 ELSE 0) + (IF WasAB = WasCD THEN 2 ELSE 0)
    BY <2>1, <2>2, <2>4
  <2>6. WasAB' = WasAB /\ WasCD' = WasCD
    BY <1>1, RequestKept
  <2>7. QED BY <2>5, <2>6 DEF OrderRight, F_LESS, F_EQUAL
<1>22. Returning("cmp16")
  <2>1. LibShape' /\ at' = "program" /\ calls' = << >>
    BY <1>1, <1>3, <1>17, Here, DirectReturn
  <2>2. Unwritten'
    BY <1>1, <2>1, Here, ReturnUnwritten
  <2>3. stack' = << >> /\ Base = << >>
    BY <1>1, <1>16, <1>3, EntryIs
  <2>4. QED BY <1>1, <1>3, <1>17, <2>1, <2>2, <2>3 DEF Returning
<1>23. \A x \in General \ Results("cmp16") : regs'[x] = Was(x)
  BY <1>20 DEF General
<1>24. ProductsRight'
  BY <1>1, <1>3, NoProduct
<1>25. QED
  <2>1. "cmp16" \in Quiet /\ at # "set_pixel.done" /\ at # "program"
    BY <1>1 DEF Quiet, Routines
  <2>2. QED BY <1>3, <1>21, <1>22, <1>23, <1>24, <2>1, DirectlyReturned

-----------------------------------------------------------------------------
(* Words of the request, and the macros that count addresses up.           *)
LEMMA WordsAsked ==
  ASSUME request \in Requests
  PROVE  /\ WasAB = Pair(Was(B), Was(A)) /\ WasCD = Pair(Was(D), Was(C))
         /\ WasAB \in Word /\ WasAB \in Nat /\ ToWord(WasAB) = WasAB
         /\ WasCD \in Word /\ WasCD \in Nat /\ ToWord(WasCD) = WasCD
         /\ request.d0 \in Word /\ request.d0 \in Nat
<1>1. request.regs \in Files /\ request.d0 \in Word
  BY RoutineAsked
<1>2. /\ WasAB = Pair(Was(B), Was(A)) /\ WasAB \in Word
      /\ WasCD = Pair(Was(D), Was(C)) /\ WasCD \in Word
  BY <1>1, WordParts DEF WasAB, WasCD, Was
<1>3. \A w \in Word : w \in Nat
  BY WordBounds
<1>4. QED BY <1>1, <1>2, <1>3, SmallResidues

LEMMA CountedUp ==
  ASSUME NEW r \in Files, NEW n \in Byte
  PROVE  /\ Only(add16(r, AB, Imm(0), Imm(n)), r, {A, B, F})
         /\ WordIn(add16(r, AB, Imm(0), Imm(n)), AB) = ToWord(WordIn(r, AB) + n)
         /\ Only(add16(r, CD, Imm(0), Imm(n)), r, {C, D, F})
         /\ WordIn(add16(r, CD, Imm(0), Imm(n)), CD) = ToWord(WordIn(r, CD) + n)
<1>1. 0 \in Byte /\ Pair(n, 0) = n
  BY Members, ByteIsShortWord
<1>2. AB \in {AB, CD} /\ CD \in {AB, CD} /\ AB[1] = A /\ AB[2] = B /\ CD[1] = C
      /\ CD[2] = D
  BY PairsAre
<1>3. /\ Only(add16(r, AB, Imm(0), Imm(n)), r, {AB[1], AB[2], F})
      /\ WordIn(add16(r, AB, Imm(0), Imm(n)), AB) = ToWord(WordIn(r, AB) + Pair(n, 0))
  BY Zenon, <1>1, <1>2, AddWordOnly
<1>4. /\ Only(add16(r, CD, Imm(0), Imm(n)), r, {CD[1], CD[2], F})
      /\ WordIn(add16(r, CD, Imm(0), Imm(n)), CD) = ToWord(WordIn(r, CD) + Pair(n, 0))
  BY Zenon, <1>1, <1>2, AddWordOnly
<1>5. QED BY <1>1, <1>2, <1>3, <1>4

(* Words and the ends of their range.                                      *)
LEMMA WordsWrap ==
  ASSUME NEW m \in Int
  PROVE  ToWord(m + 65536) = ToWord(m)
BY DEF ToWord

LEMMA NextWord ==
  ASSUME NEW n \in Word
  PROVE  n + 1 \in Word \/ n + 1 = 65536
BY WordBounds

-----------------------------------------------------------------------------
(* strlen                                                                  *)
LEMMA StrlenKeeps == LibInv /\ Strlen => LibInv'
<1> SUFFICES ASSUME LibInv, Strlen PROVE LibInv'
  OBVIOUS
<1> DEFINE z == mw(regs, Z, Imm(0))
<1>1. /\ at = "strlen" /\ regs' = z /\ stack' = pushed(regs, stack, <<A, B, C>>)
      /\ mem' = mem /\ at' = "strlen.loop" /\ calls' = calls /\ request' = request
  BY DEF Strlen, Save, Stretch
<1>2. /\ at \in Inside("strlen") /\ at' \in Inside("strlen") \ {"strlen"}
      /\ at # "set_pixel.done"
      /\ "strlen" \in Routines
  BY <1>1, InsideIs DEF Routines
<1>3. /\ Fresh /\ regs[A] = Entry(A) /\ regs[B] = Entry(B) /\ regs[C] = Entry(C)
      /\ regs[D] = Entry(D) /\ regs[Z] = Entry(Z)
      /\ Entry(A) \in Byte /\ Entry(B) \in Byte /\ Entry(C) \in Byte
  BY <1>1, Here, ClaimHere DEF Fresh, AsEntered, General
<1>4. calls = Direct /\ \A d : Entry(d) = Was(d)
  BY <1>2, Here, OnlyDirect, EntryIs DEF Routines
<1>5. Only(z, regs, {Z}) /\ z[Z] = 0 /\ z \in Files
  BY Here, Members, MwImm
<1> HIDE DEF z
<1>6. /\ regs' \in Files /\ regs'[A] = Was(A) /\ regs'[B] = Was(B)
      /\ regs'[D] = Entry(D)
      /\ regs'[Z] = 0
  <2>1. z[A] = regs[A] /\ z[B] = regs[B] /\ z[D] = regs[D]
    BY <1>5, Registers DEF Only
  <2>2. regs' = z /\ Entry(A) = Was(A) /\ Entry(B) = Was(B)
    BY <1>1, <1>4
  <2>3. QED BY <1>3, <1>5, <2>1, <2>2
<1>7. stack' = (<<Entry(C), Entry(B), Entry(A)>> \o Base)'
  BY <1>1, <1>3, SavesThree, Zenon DEF General
<1>8. LibShape' /\ Unwritten'
  BY <1>1, <1>2, <1>6, Here, StretchKeeps
<1>9. /\ Entry(A)' = Entry(A) /\ Entry(B)' = Entry(B) /\ Entry(C)' = Entry(C)
      /\ Entry(D)' = Entry(D) /\ Entry(Z)' = Entry(Z) /\ Base' = Base
  BY <1>1, EntryKept
<1>10. WordIn(regs', AB) = ToWord(WasAB + 0) /\ WasAB' = WasAB /\ 0 \in Word
       /\ ToByte(0) = 0
  <2>1. WordIn(regs', AB) = WasAB
    BY <1>6, WordParts, WordsAsked, Here
  <2>2. WasAB + 0 = WasAB /\ ToWord(WasAB) = WasAB
    BY WordsAsked, Here
  <2>3. 0 \in Word /\ ToByte(0) = 0
    BY Members, BytesAreWords, SmallResidues
  <2>4. QED BY <1>1, <2>1, <2>2, <2>3, RequestKept
<1>11. AtStrlenLoop'
  <2>1. Passed(0)'
    BY <1>6, <1>10 DEF Passed
  <2>2. AsEntered({D})'
    BY <1>6, <1>9 DEF AsEntered
  <2>3. QED BY <1>7, <1>10, <2>1, <2>2 DEF AtStrlenLoop
<1>12. QED BY <1>1, <1>8, <1>11, ClaimThere DEF LibInv

LEMMA StrlenLoopKeeps == LibInv /\ StrlenLoop => LibInv'
<1> SUFFICES ASSUME LibInv, StrlenLoop PROVE LibInv'
  OBVIOUS
<1> DEFINE h == ldaPair(regs, AB)
           r == [h EXCEPT ![C] = mem[HL(h)]]
           t == jcc("JEQ", r, C, Imm(0))
           a == add16(t, AB, Imm(0), Imm(1))
           b == add(a, Z, Imm(1))
           g == jumped(b)
<1>1. /\ at = "strlen.loop" /\ HL(h) \in DOMAIN mem
      /\ regs' = (IF t[F] # 0 THEN t ELSE g) /\ stack' = stack /\ mem' = mem
      /\ at' = (IF t[F] # 0 THEN "strlen.done" ELSE "strlen.loop")
      /\ calls' = calls /\ request' = request
  BY DEF StrlenLoop, Run, Stretch
<1>2. /\ at \in Inside("strlen") /\ at' \in Inside("strlen") \ {"strlen"}
      /\ at # "set_pixel.done"
      /\ "strlen" \in Routines
  BY <1>1, InsideIs DEF Routines
<1>3. calls = Direct /\ request.routine = "strlen" /\ mem = Start
  <2>1. calls = Direct /\ request.routine = "strlen"
    BY <1>2, Here, OnlyDirect DEF Routines
  <2>2. QED BY <1>1, <2>1, Here DEF Unwritten
<1>4. AtStrlenLoop
  BY <1>1, Here DEF Claims
<1>5. Only(h, regs, {H, L}) /\ HL(h) = WordIn(regs, AB) /\ h \in Files
  BY Zenon, Here, Members, LdaPairOnly, OnlyIsFile
<1> HIDE DEF h
<1>6. /\ Only(r, h, {C}) /\ r[C] = mem[WordIn(regs, AB)] /\ r \in Files
  <2>1. mem[HL(h)] \in Byte
    BY <1>1, Here
  <2>2. Only(r, h, {C}) /\ r[C] = mem[HL(h)]
    BY <1>5, <2>1, Registers DEF Only, Files
  <2>3. QED BY <1>5, <2>2, OnlyIsFile
<1> HIDE DEF r
<1>7. Only(t, r, {F, H, L}) /\ (t[F] # 0 <=> r[C] = 0) /\ t \in Files
  BY Zenon, <1>6, Members, JeqOnly, OnlyIsFile
<1> HIDE DEF t
<1>8. Only(a, t, {A, B, F})
      /\ WordIn(a, AB) = ToWord(WordIn(t, AB) + 1) /\ a \in Files
  BY Zenon, <1>7, Members, CountedUp, OnlyIsFile
<1> HIDE DEF a
<1>9. Only(b, a, {Z, F}) /\ b[Z] = ToByte(a[Z] + 1) /\ b \in Files
  <2>1. a \in Files /\ Z \in Register \ {F} /\ 1 \in Byte
    BY <1>8, Members
  <2>2. QED BY <2>1, AddImm
<1> HIDE DEF b
<1>10. Only(g, b, {H, L}) /\ g \in Files
  BY <1>9, Members, JumpedOnly, OnlyIsFile
<1> HIDE DEF g
<1>11. regs' \in Files
  BY <1>1, <1>7, <1>10
<1>12. LibShape' /\ Unwritten'
  BY <1>1, <1>2, <1>11, Here, StretchKeeps
<1>13. /\ Entry(A)' = Entry(A) /\ Entry(B)' = Entry(B) /\ Entry(C)' = Entry(C)
       /\ Entry(D)' = Entry(D) /\ Entry(Z)' = Entry(Z) /\ Base' = Base
  BY <1>1, EntryKept
<1>14. request' = request /\ WasAB' = WasAB /\ Start' = Start
  BY <1>1, RequestKept
<1>15. PICK n \in Word : WordIn(regs, AB) = ToWord(WasAB + n) /\ Passed(n)
  BY <1>4 DEF AtStrlenLoop
<1>16. /\ stack = <<Entry(C), Entry(B), Entry(A)>> \o Base /\ regs[D] = Entry(D)
       /\ regs[Z] = ToByte(n) /\ \A i \in 0 .. n - 1 : Start[ToWord(WasAB + i)] # 0
  BY <1>4, <1>15 DEF AtStrlenLoop, AsEntered, Passed
<1>17. CASE t[F] # 0
  <2>1. /\ t[D] = Entry(D) /\ t[Z] = ToByte(n) /\ Start[ToWord(WasAB + n)] = 0
    BY <1>17, <1>16, <1>3, <1>15, <1>5, <1>6, <1>7, Registers DEF Only
  <2>2. regs' = t /\ at' = "strlen.done"
    BY <1>1, <1>17
  <2>3. Passed(n)'
    BY <1>16, <1>14, <2>1, <2>2 DEF Passed
  <2>4. AsEntered({D})' /\ stack' = (<<Entry(C), Entry(B), Entry(A)>> \o Base)'
    BY <1>1, <1>16, <1>13, <2>1, <2>2 DEF AsEntered
  <2>5. AtStrlenDone'
    BY <1>15, <1>14, <2>1, <2>3, <2>4 DEF AtStrlenDone
  <2>6. QED BY <1>12, <2>2, <2>5, ClaimThere DEF LibInv
<1>18. CASE t[F] = 0
  <2>1. regs' = g /\ at' = "strlen.loop"
    BY <1>1, <1>18
  <2>2. /\ g[D] = Entry(D) /\ g[Z] = ToByte(ToByte(n) + 1)
        /\ Start[ToWord(WasAB + n)] # 0
        /\ WordIn(g, AB) = WordIn(a, AB)
    <3>1. /\ t[D] = Entry(D) /\ t[Z] = ToByte(n) /\ Start[ToWord(WasAB + n)] # 0
      BY <1>18, <1>16, <1>3, <1>15, <1>5, <1>6, <1>7, Registers DEF Only
    <3>2. /\ g[D] = t[D] /\ g[Z] = ToByte(t[Z] + 1) /\ g[A] = a[A] /\ g[B] = a[B]
      BY <1>8, <1>9, <1>10, Registers DEF Only
    <3>3. WordIn(g, AB) = WordIn(a, AB)
      BY <3>2, <1>8, <1>10, WordParts
    <3>4. QED BY <3>1, <3>2, <3>3
  <2>3. WordIn(a, AB) = ToWord(ToWord(WasAB + n) + 1)
    <3>1. /\ t[A] = regs[A] /\ t[B] = regs[B]
      BY <1>5, <1>6, <1>7, Registers DEF Only
    <3>2. WordIn(t, AB) = WordIn(regs, AB)
      BY <3>1, <1>7, Here, WordParts
    <3>3. QED BY <3>2, <1>8, <1>15
  <2>4. /\ g[Z] = ToByte(n + 1) /\ WordIn(g, AB) = ToWord(WasAB + (n + 1))
        /\ \A i \in 0 .. (n + 1) - 1 : Start[ToWord(WasAB + i)] # 0
    <3>1. n \in Int /\ 1 \in Int /\ WasAB + n \in Int /\ WasAB \in Int
      BY WordsAsked, Here, WordBounds
    <3>2. ToByte(ToByte(n) + 1) = ToByte(n + 1)
      BY <3>1, ByteSums
    <3>3. ToWord(ToWord(WasAB + n) + 1) = ToWord((WasAB + n) + 1)
      BY <3>1, WordSums
    <3>4. (WasAB + n) + 1 = WasAB + (n + 1)
      BY <3>1
    <3>5. \A i \in 0 .. (n + 1) - 1 : i \in 0 .. n - 1 \/ i = n
      BY <3>1
    <3>6. QED BY <1>16, <2>2, <2>3, <3>2, <3>3, <3>4, <3>5
  <2> DEFINE Counted(k) == /\ g[Z] = ToByte(k) /\ WordIn(g, AB) = ToWord(WasAB + k)
                          /\ \A i \in 0 .. k - 1 : Start[ToWord(WasAB + i)] # 0
  <2>5. \E k \in Word : Counted(k)
    <3>1. Counted(n + 1)
      BY <2>4
    <3>2. n + 1 = 65536 => Counted(0)
      <4>1. WasAB \in Int /\ WasAB + 0 = WasAB
        BY WordsAsked, Here
      <4>2. ToWord(WasAB + 65536) = ToWord(WasAB)
        BY <4>1, WordsWrap
      <4>3. ToByte(65536) = ToByte(0) /\ \A i \in 0 .. 0 - 1 : FALSE
        BY DEF ToByte
      <4>4. QED BY <2>4, <4>1, <4>2, <4>3
    <3> HIDE DEF Counted
    <3>3. 0 \in Word
      BY WordBounds
    <3>4. QED BY <3>1, <3>2, <3>3, NextWord
  <2>6. AsEntered({D})' /\ stack' = (<<Entry(C), Entry(B), Entry(A)>> \o Base)'
    BY <1>1, <1>16, <1>13, <2>1, <2>2 DEF AsEntered
  <2>7. AtStrlenLoop'
    BY <1>14, <2>1, <2>5, <2>6 DEF AtStrlenLoop, Passed
  <2>8. QED BY <1>12, <2>1, <2>7, ClaimThere DEF LibInv
<1>19. QED BY <1>17, <1>18

LEMMA StrlenDoneKeeps == LibInv /\ StrlenDone => LibInv'
<1> SUFFICES ASSUME LibInv, StrlenDone PROVE LibInv'
  OBVIOUS
<1>1. at = "strlen.done" /\ Leave("strlen.done", regs, <<C, B, A>>)
  BY DEF StrlenDone, Leave
<1>2. /\ "strlen" \in Routines \ {"memcpy", "set_pixel"} /\ at \in Inside("strlen")
      /\ "strlen" \in Routines /\ at # "program" /\ at # "set_pixel.done"
  BY <1>1, InsideIs DEF Routines, Quiet
<1>3. /\ C \in General /\ B \in General /\ A \in General /\ C # B /\ C # A /\ B # A
      /\ stack = <<Entry(C), Entry(B), Entry(A)>> \o Base
      /\ AtStrlenDone
  BY <1>1, Here, Registers DEF Claims, AtStrlenDone, General
<1>4. Restoring("strlen", {C, B, A})
  BY Zenon, <1>1, <1>2, <1>3, ThreeRestored
<1>5. calls = Direct /\ request.routine = "strlen" /\ mem = Start
  <2>1. calls = Direct /\ request.routine = "strlen"
    BY <1>2, Here, OnlyDirect DEF Routines
  <2>2. QED BY <1>1, <2>1, Here DEF Unwritten
<1>6. /\ regs'[A] = Was(A) /\ regs'[B] = Was(B) /\ regs'[C] = Was(C)
      /\ regs'[D] = Was(D) /\ regs'[Z] = regs[Z]
      /\ Returning("strlen") /\ request' = request /\ mem' = mem /\ at' = "program"
  <2>1. regs[D] = Entry(D)
    BY <1>3 DEF AtStrlenDone, AsEntered
  <2>2. QED BY <1>4, <1>5, <2>1, EntryIs, Registers DEF Restoring, General, Returning
<1>7. ProductsRight' /\ OrderRight'
  BY <1>6, <1>5, NoOrder, NoProduct
<1>8. MemoryRight'
  <2>1. Start' = Start /\ WasAB' = WasAB
    BY <1>6, RequestKept
  <2>2. \E n \in Word : /\ Start[ToWord(WasAB + n)] = 0 /\ regs[Z] = ToByte(n)
                       /\ \A i \in 0 .. n - 1 : Start[ToWord(WasAB + i)] # 0
    BY <1>3 DEF AtStrlenDone, Passed
  <2>3. QED BY <1>5, <1>6, <2>1, <2>2 DEF MemoryRight, Returned
<1>9. \A d \in General \ Results("strlen") : regs'[d] = Was(d)
  BY <1>6 DEF General, Results
<1>10. QED BY <1>5, <1>6, <1>7, <1>8, <1>9, DirectlyEnds

-----------------------------------------------------------------------------
(* Words in A and B, and on the stack; POPA before RET.                    *)
LEMMA PairHalves ==
  ASSUME NEW r \in Files, NEW w \in Word
  PROVE  WordIn(r, AB) = w <=> r[B] = Lo(w) /\ r[A] = Hi(w)
<1>1. WordIn(r, AB) = Pair(r[B], r[A]) /\ r[A] \in Byte /\ r[B] \in Byte
  BY WordParts, Members DEF Files
<1>2. Pair(Lo(w), Hi(w)) = w /\ Lo(w) \in Byte /\ Hi(w) \in Byte
  BY HalvesMakeWord, HalvesAreBytes
<1>3. Pair(r[B], r[A]) = Pair(Lo(w), Hi(w)) <=> r[B] = Lo(w) /\ r[A] = Hi(w)
  BY <1>1, <1>2, SamePair
<1>4. QED BY <1>1, <1>2, <1>3

LEMMA WordPushed ==
  ASSUME NEW r \in Files, NEW w \in Word, WordIn(r, AB) = w, NEW s
  PROVE  pushed(r, s, AB) = <<Lo(w), Hi(w)>> \o s
<1>1. r[B] = Lo(w) /\ r[A] = Hi(w) /\ A \in Register /\ B \in Register
  BY PairHalves, Members
<1>2. pushed(r, s, <<A, B>>) = <<r[B], r[A]>> \o s
  BY Zenon, <1>1, PushedAre
<1>3. QED BY Zenon, <1>1, <1>2 DEF AB

WordBack(t, s, r, w, base) == Only(t, r, {A, B}) /\ WordIn(t, AB) = w /\ s = base
LEMMA WordPopped ==
  ASSUME NEW r \in Files, NEW w \in Word, NEW base \in Seq(Byte),
         NEW s, s = <<Lo(w), Hi(w)>> \o base
  PROVE  WordBack(popped(r, s, <<B, A>>), dropped(s, AB), r, w, base)
<1>1. /\ A \in Register /\ B \in Register /\ B # A /\ {B, A} = {A, B}
      /\ Lo(w) \in Byte /\ Hi(w) \in Byte
  BY Registers, HalvesAreBytes
<1>2. Popping(popped(r, s, <<B, A>>), dropped(s, <<B, A>>), r, B, A, Lo(w), Hi(w), base)
  BY Zenon, <1>1, TwoPopped
<1>3. dropped(s, AB) = dropped(s, <<B, A>>)
  BY DEF dropped, AB
<1> DEFINE t == popped(r, s, <<B, A>>)
<1>4. Only(t, r, {A, B}) /\ t[B] = Lo(w) /\ t[A] = Hi(w) /\ dropped(s, AB) = base
  BY Zenon, <1>1, <1>2, <1>3 DEF Popping
<1> HIDE DEF t
<1>5. WordIn(t, AB) = w
  BY <1>4, OnlyIsFile, PairHalves
<1>6. QED BY <1>4, <1>5 DEF t, WordBack

LEMMA PlusAdds ==
  ASSUME NEW r \in Files, NEW w \in Word
  PROVE  /\ Only(plus(r, w), r, {A, B, F})
         /\ WordIn(plus(r, w), AB) = ToWord(WordIn(r, AB) + w)
<1>1. Lo(w) \in Byte /\ Hi(w) \in Byte /\ Pair(Lo(w), Hi(w)) = w
  BY HalvesAreBytes, HalvesMakeWord
<1>2. AB \in {AB, CD} /\ AB[1] = A /\ AB[2] = B
  BY PairsAre
<1>3. /\ Only(add16(r, AB, Imm(Hi(w)), Imm(Lo(w))), r, {AB[1], AB[2], F})
      /\ WordIn(add16(r, AB, Imm(Hi(w)), Imm(Lo(w))), AB)
           = ToWord(WordIn(r, AB) + Pair(Lo(w), Hi(w)))
  BY Zenon, <1>1, <1>2, AddWordOnly
<1>4. QED BY <1>1, <1>2, <1>3 DEF plus

LEMMA ByteAdded ==
  ASSUME NEW r \in Files
  PROVE  /\ Only(add16b(r, AB, Reg(C)), r, {A, B, F})
         /\ WordIn(add16b(r, AB, Reg(C)), AB) = ToWord(WordIn(r, AB) + r[C])
<1>1. Reg(C) \in AnyOperand /\ Val(r, Reg(C)) = r[C]
  BY OperandsAre
<1>2. QED BY <1>1, Add16bOnly

LEMMA ScreenAddresses ==
  ASSUME request \in Requests
  PROVE  /\ ADDR_BANK \in Word /\ SCANLINE_OFFSET_BYTES \in Word
         /\ ToWord(SCANLINE_WIDTH_BYTES * Was(B) + ADDR_BANK) = ScanLine
         /\ ToWord(ToWord(ScanLine + Was(A) \div 2) + SCANLINE_OFFSET_BYTES) = Dot
         /\ Was(A) % 8 \in Nat
<1>1. Was(A) \in Byte /\ Was(B) \in Byte
  BY RoutineAsked, Members
<1> DEFINE a == Was(A)
           b == Was(B)
<1> HIDE DEF a, b
<1>2. a \in Int /\ 0 <= a /\ a <= 255 /\ b \in Int /\ 0 <= b /\ b <= 255
  BY <1>1, ByteBounds DEF a, b
<1>3. /\ (32 * b + 32768) % 65536 = 32768 + 32 * b
      /\ (32768 + 32 * b + a \div 2) % 65536 = 32768 + 32 * b + a \div 2
      /\ (32768 + 32 * b + a \div 2 + 4) % 65536 = 32768 + 32 * b + 4 + a \div 2
      /\ a % 8 \in Nat
  BY <1>2
<1>4. 32768 \in Word /\ 4 \in Word
  BY WordBounds
<1>5. QED BY <1>2, <1>3, <1>4 DEF a, b, ToWord, ScanLine, Dot, ADDR_BANK,
             SCANLINE_WIDTH_BYTES,
                          SCANLINE_OFFSET_BYTES

LEMMA AllSaved ==
  ASSUME calls = Direct, Fresh
  PROVE  pushed(regs, stack, All) = SavedAll
<1>1. /\ stack = << >> /\ regs[A] = Was(A) /\ regs[B] = Was(B) /\ regs[C] = Was(C)
      /\ regs[D] = Was(D) /\ regs[Z] = Was(Z)
  BY EntryIs DEF Fresh, AsEntered, General
<1>2. pushed(regs, stack, All) = <<regs[Z], regs[D], regs[C], regs[B], regs[A]>> \o stack
  BY Zenon, AllPushed
<1>3. <<regs[Z], regs[D], regs[C], regs[B], regs[A]>> = SavedAll
  BY <1>1 DEF SavedAll
<1>4. SavedAll \o << >> = SavedAll
  BY DEF SavedAll
<1>5. QED BY <1>1, <1>2, <1>3, <1>4

LEMMA AllRestored ==
  ASSUME LibInv, NEW q \in Routines, at \in Inside(q), calls = Direct, stack = SavedAll,
         NEW from, Leave(from, regs, Reverse(All))
  PROVE  Returning(q) /\ \A d \in General : regs'[d] = Was(d)
<1> DEFINE z == Was(Z)
           d == Was(D)
           c == Was(C)
           b == Was(B)
           a == Was(A)
           base == << >>
<1>1. /\ a \in Byte /\ b \in Byte /\ c \in Byte /\ d \in Byte
      /\ z \in Byte /\ regs \in Files /\ LibShape /\ Unwritten
  BY Here
<1>2. base \in Seq(Byte) /\ stack = <<z, d, c, b, a>> \o base
  BY DEF SavedAll
<1> HIDE DEF a, b, c, d, z, base
<1>3. AllLeft(z, d, c, b, a, base)
  BY Zenon, <1>1, <1>2, LeaveAll
<1>4. LibShape' /\ Unwritten' /\ at' = "program" /\ calls' = << >>
  BY <1>1, <1>3, ReturnKeeps DEF AllLeft
<1>5. Base = << >> /\ request.routine = q
  BY <1>1, WhoCalls, EntryIs
<1>6. QED BY <1>3, <1>4, <1>5 DEF Returning, AllLeft, General, a, b, c, d, z, base

-----------------------------------------------------------------------------
(* set_pixel                                                               *)
LEMMA SetPixelKeeps == LibInv /\ SetPixel => LibInv'
<1> SUFFICES ASSUME LibInv, SetPixel PROVE LibInv'
  OBVIOUS
<1> DEFINE a == mw(regs, D, Reg(A))
           b == mw(a, Z, Reg(C))
           c == mw(b, A, Imm(0))
           d == mw(c, C, Imm(SCANLINE_WIDTH_BYTES))
           g == jumped(d)
<1>1. /\ at = "set_pixel" /\ regs' = g /\ stack' = pushed(regs, stack, All)
      /\ mem' = mem /\ at' = "mul16_8" /\ calls' = <<"set_pixel.line">> \o calls
      /\ request' = request
  BY DEF SetPixel, Call
<1>2. at \in Inside("set_pixel") /\ "set_pixel" \in Routines
      /\ "set_pixel.line" \in Backs
  BY <1>1, InsideIs DEF Routines, Backs
<1>3. calls = Direct /\ request.routine = "set_pixel"
  BY <1>2, Here, OnlyDirect DEF Routines
<1>4. /\ Fresh /\ regs[A] = Was(A) /\ regs[B] = Was(B) /\ regs[C] = Was(C)
  BY <1>1, <1>3, Here, ClaimHere, EntryIs DEF Fresh, AsEntered, General
<1>5. Only(a, regs, {D}) /\ a[D] = regs[A] /\ a \in Files
  BY Here, Members, MwReg
<1> HIDE DEF a
<1>6. Only(b, a, {Z}) /\ b[Z] = a[C] /\ b \in Files
  BY <1>5, Members, MwReg
<1> HIDE DEF b
<1>7. Only(c, b, {A}) /\ c[A] = 0 /\ c \in Files
  BY <1>6, Members, MwImm
<1> HIDE DEF c
<1>8. Only(d, c, {C}) /\ d[C] = SCANLINE_WIDTH_BYTES /\ d \in Files
  BY <1>7, Here, ScreenWords, Members, MwImm
<1> HIDE DEF d
<1>9. Only(g, d, {H, L}) /\ g \in Files
  BY <1>8, Members, JumpedOnly, OnlyIsFile
<1> HIDE DEF g
<1>10. /\ g[A] = 0 /\ g[B] = Was(B) /\ g[C] = SCANLINE_WIDTH_BYTES
       /\ g[D] = Was(A) /\ g[Z] = Was(C)
  BY <1>4, <1>5, <1>6, <1>7, <1>8, <1>9, Registers DEF Only
<1>11. stack' = SavedAll
  BY <1>1, <1>3, <1>4, AllSaved
<1>12. LibShape' /\ calls' = Via("set_pixel.line")
  <2>1. "set_pixel.line" \in Inside(request.routine) /\ at' = Called("set_pixel.line")
    BY <1>1, <1>3, InsideIs, CalledIs
  <2>2. QED BY <1>1, <1>2, <1>3, <1>9, <2>1, Here, CallKeeps
<1>13. Unwritten'
  BY <1>1, Here, CallUnwritten
<1>14. Claims'
  <2>1. /\ Base' = SavedAll /\ stack' = SavedAll
        /\ regs'[A] = Entry(A)' /\ regs'[B] = Entry(B)' /\ regs'[C] = Entry(C)'
        /\ regs'[D] = Entry(D)' /\ regs'[Z] = Entry(Z)'
    BY <1>1, <1>10, <1>11, <1>12, EntryThere
  <2>2. AsEntered(General)'
    BY <2>1 DEF AsEntered, General
  <2>3. Fresh'
    BY <2>1, <2>2 DEF Fresh
  <2>4. QED BY <1>1, <2>3, ClaimThere DEF Routines
<1>15. QED BY <1>12, <1>13, <1>14 DEF LibInv

LEMMA SetPixelByteKeeps == LibInv /\ SetPixelByte => LibInv'
<1> SUFFICES ASSUME LibInv, SetPixelByte PROVE LibInv'
  OBVIOUS
<1> DEFINE a == plus(regs, ADDR_BANK)
           b == mw(a, A, Reg(D))
           c == mw(b, B, Imm(3))
           g == jumped(c)
<1>1. /\ at = "set_pixel.line" /\ regs' = g /\ stack' = pushed(a, stack, AB)
      /\ mem' = mem /\ at' = "shr" /\ calls' = <<"set_pixel.byte">> \o calls
      /\ request' = request
  BY DEF SetPixelByte, Call
<1>2. at \in Inside("set_pixel") /\ "set_pixel" \in Routines
      /\ "set_pixel.byte" \in Backs
  BY <1>1, InsideIs DEF Routines, Backs
<1>3. calls = Direct /\ request.routine = "set_pixel"
  BY <1>2, Here, OnlyDirect DEF Routines
<1>4. AtSetPixelLine
  BY <1>1, Here DEF Claims
<1>5. /\ Only(a, regs, {A, B, F}) /\ WordIn(a, AB) = ScanLine /\ a \in Files
  <2>1. Only(a, regs, {A, B, F}) /\ WordIn(a, AB) = ToWord(WordIn(regs, AB) + ADDR_BANK)
    BY Here, ScreenAddresses, PlusAdds
  <2>2. QED BY <1>4, <2>1, Here, ScreenAddresses, OnlyIsFile DEF AtSetPixelLine
<1> HIDE DEF a
<1>6. Only(b, a, {A}) /\ b[A] = a[D] /\ b \in Files
  BY Zenon, <1>5, Members, MwReg
<1> HIDE DEF b
<1>7. Only(c, b, {B}) /\ c[B] = 3 /\ c \in Files
  BY <1>6, Members, MwImm
<1> HIDE DEF c
<1>8. Only(g, c, {H, L}) /\ g \in Files
  BY <1>7, Members, JumpedOnly, OnlyIsFile
<1> HIDE DEF g
<1>9. /\ g[A] = Was(A) /\ g[B] = 3 /\ g[C] = SCANLINE_WIDTH_BYTES
      /\ g[D] = Was(A) /\ g[Z] = Was(C)
  BY <1>4, <1>5, <1>6, <1>7, <1>8, Registers DEF Only, AtSetPixelLine
<1>10. stack' = <<Lo(ScanLine), Hi(ScanLine)>> \o SavedAll
  <2>1. stack = SavedAll
    BY <1>4 DEF AtSetPixelLine
  <2>2. pushed(a, stack, AB) = <<Lo(ScanLine), Hi(ScanLine)>> \o stack
    BY Zenon, <1>5, Here, ScreenWords, WordPushed
  <2>3. QED BY <1>1, <2>1, <2>2
<1>11. LibShape' /\ calls' = Via("set_pixel.byte")
  <2>1. "set_pixel.byte" \in Inside(request.routine) /\ at' = Called("set_pixel.byte")
    BY <1>1, <1>3, InsideIs, CalledIs
  <2>2. QED BY <1>1, <1>2, <1>3, <1>8, <2>1, Here, CallKeeps
<1>12. Unwritten'
  BY <1>1, Here, CallUnwritten
<1>13. Claims'
  <2>1. /\ Base' = <<Lo(ScanLine), Hi(ScanLine)>> \o SavedAll
        /\ stack' = <<Lo(ScanLine), Hi(ScanLine)>> \o SavedAll
        /\ regs'[A] = Entry(A)' /\ regs'[B] = Entry(B)' /\ regs'[C] = Entry(C)'
        /\ regs'[D] = Entry(D)' /\ regs'[Z] = Entry(Z)'
    BY Zenon, <1>1, <1>9, <1>10, <1>11, EntryThere
  <2>2. AsEntered(General)'
    BY <2>1 DEF AsEntered, General
  <2>3. Fresh'
    BY <2>1, <2>2 DEF Fresh
  <2>4. QED BY <1>1, <2>3, ClaimThere DEF Routines
<1>14. QED BY <1>11, <1>12, <1>13 DEF LibInv

LEMMA SetPixelMaskKeeps == LibInv /\ SetPixelMask => LibInv'
<1> SUFFICES ASSUME LibInv, SetPixelMask PROVE LibInv'
  OBVIOUS
<1> DEFINE a == mw(regs, C, Reg(A))
           b == popped(a, stack, <<B, A>>)
           c == add16b(b, AB, Reg(C))
           d == plus(c, SCANLINE_OFFSET_BYTES)
           e == and(d, D, Imm(7))
           f == mw(e, A, Imm(1))
           h == mw(f, B, Reg(D))
           g == jumped(h)
<1>1. /\ at = "set_pixel.byte" /\ regs' = g
      /\ stack' = pushed(e, dropped(stack, AB), AB)
      /\ mem' = mem /\ at' = "shl" /\ calls' = <<"set_pixel.mask">> \o calls
      /\ request' = request
  BY DEF SetPixelMask, Call
<1>2. at \in Inside("set_pixel") /\ "set_pixel" \in Routines
      /\ "set_pixel.mask" \in Backs
  BY <1>1, InsideIs DEF Routines, Backs
<1>3. calls = Direct /\ request.routine = "set_pixel"
  BY <1>2, Here, OnlyDirect DEF Routines
<1>4. AtSetPixelByte
  BY <1>1, Here DEF Claims
<1>5. Only(a, regs, {C}) /\ a[C] = regs[A] /\ a \in Files
  BY Here, Members, MwReg
<1> HIDE DEF a
<1>6. /\ Only(b, a, {A, B}) /\ WordIn(b, AB) = ScanLine /\ b \in Files
      /\ dropped(stack, AB) = SavedAll
  <2>1. stack = <<Lo(ScanLine), Hi(ScanLine)>> \o SavedAll
    BY <1>4 DEF AtSetPixelByte
  <2>2. WordBack(b, dropped(stack, AB), a, ScanLine, SavedAll)
    BY Zenon, <1>5, <2>1, Here, ScreenWords, WordPopped
  <2>3. QED BY <2>2, OnlyIsFile DEF WordBack
<1> HIDE DEF b
<1>7. Only(c, b, {A, B, F})
      /\ WordIn(c, AB) = ToWord(WordIn(b, AB) + b[C]) /\ c \in Files
  BY Zenon, <1>6, Members, ByteAdded, OnlyIsFile
<1> HIDE DEF c
<1>8. Only(d, c, {A, B, F}) /\ WordIn(d, AB) = Dot /\ d \in Files
  <2>1. Only(d, c, {A, B, F})
        /\ WordIn(d, AB) = ToWord(WordIn(c, AB) + SCANLINE_OFFSET_BYTES)
    BY Zenon, <1>7, Here, ScreenAddresses, PlusAdds
  <2>2. b[C] = Was(A) \div 2
    BY <1>4, <1>5, <1>6, Registers DEF Only, AtSetPixelByte
  <2>3. QED BY <1>6, <1>7, <2>1, <2>2, Here, ScreenAddresses, OnlyIsFile
<1> HIDE DEF d
<1>9. Only(e, d, {D}) /\ e[D] = And(d[D], 7) /\ e \in Files
  BY <1>8, Members, AndImm
<1> HIDE DEF e
<1>10. Only(f, e, {A}) /\ f[A] = 1 /\ f \in Files
  BY Zenon, <1>9, Members, MwImm
<1> HIDE DEF f
<1>11. Only(h, f, {B}) /\ h[B] = f[D] /\ h \in Files
  BY <1>10, Members, MwReg
<1> HIDE DEF h
<1>12. Only(g, h, {H, L}) /\ g \in Files
  BY <1>11, Members, JumpedOnly, OnlyIsFile
<1> HIDE DEF g
<1>13. e[D] = Was(A) % 8 /\ WordIn(e, AB) = Dot
  <2>1. d[D] = Was(A)
    BY <1>4, <1>5, <1>6, <1>7, <1>8, Registers DEF Only, AtSetPixelByte
  <2>2. e[D] = Was(A) % 8
    BY <1>9, <2>1, Here, Sevens
  <2>3. e[A] = d[A] /\ e[B] = d[B]
    BY <1>9, Registers DEF Only
  <2>4. WordIn(e, AB) = WordIn(d, AB)
    BY <1>8, <1>9, <2>3, WordParts
  <2>5. QED BY <1>8, <2>2, <2>4
<1>14. /\ g[A] = 1 /\ g[B] = Was(A) % 8 /\ g[C] = Was(A) \div 2
       /\ g[D] = Was(A) % 8 /\ g[Z] = Was(C)
  <2>1. e[C] = Was(A) \div 2 /\ e[Z] = Was(C)
    BY <1>4, <1>5, <1>6, <1>7, <1>8, <1>9, Registers DEF Only, AtSetPixelByte
  <2>2. g[A] = 1 /\ g[B] = e[D] /\ g[C] = e[C] /\ g[D] = e[D] /\ g[Z] = e[Z]
    BY <1>10, <1>11, <1>12, Registers DEF Only
  <2>3. QED BY <1>13, <2>1, <2>2
<1>15. stack' = <<Lo(Dot), Hi(Dot)>> \o SavedAll
  <2>1. \A s : pushed(e, s, AB) = <<Lo(Dot), Hi(Dot)>> \o s
    BY Zenon, <1>9, <1>13, Here, ScreenWords, WordPushed
  <2>2. QED BY Zenon, <1>1, <1>6, <2>1
<1>16. LibShape' /\ calls' = Via("set_pixel.mask")
  <2>1. "set_pixel.mask" \in Inside(request.routine) /\ at' = Called("set_pixel.mask")
    BY <1>1, <1>3, InsideIs, CalledIs
  <2>2. QED BY <1>1, <1>2, <1>3, <1>12, <2>1, Here, CallKeeps
<1>17. Unwritten'
  BY <1>1, Here, CallUnwritten
<1>18. Claims'
  <2>1. /\ Base' = <<Lo(Dot), Hi(Dot)>> \o SavedAll
        /\ stack' = <<Lo(Dot), Hi(Dot)>> \o SavedAll
        /\ regs'[A] = Entry(A)' /\ regs'[B] = Entry(B)' /\ regs'[C] = Entry(C)'
        /\ regs'[D] = Entry(D)' /\ regs'[Z] = Entry(Z)'
    BY Zenon, <1>1, <1>14, <1>15, <1>16, EntryThere
  <2>2. AsEntered(General)'
    BY <2>1 DEF AsEntered, General
  <2>3. Fresh'
    BY <2>1, <2>2 DEF Fresh
  <2>4. QED BY <1>1, <2>3, ClaimThere DEF Routines
<1>19. QED BY <1>16, <1>17, <1>18 DEF LibInv

LEMMA SetPixelStoreKeeps == LibInv /\ SetPixelStore => LibInv'
<1> SUFFICES ASSUME LibInv, SetPixelStore PROVE LibInv'
  OBVIOUS
<1> DEFINE a == mw(regs, D, Reg(A))
           b == popped(a, stack, <<B, A>>)
           c == ldaPair(b, AB)
           d == [c EXCEPT ![C] = mem[HL(c)]]
           e == jumped(d)
           s == or(e, C, Reg(D))
           n == not(e, D)
           m == and(n, C, Reg(D))
           u == jumped(m)
           v == IF e[Z] # 0 THEN s ELSE u
           g == ldaPair(v, AB)
<1>1. /\ at = "set_pixel.mask" /\ HL(c) \in DOMAIN mem /\ regs' = g
      /\ stack' = dropped(stack, AB) /\ mem' = [mem EXCEPT ![HL(c)] = v[C]]
      /\ at' = "set_pixel.done" /\ calls' = calls /\ request' = request
  BY DEF SetPixelStore, Stretch
<1>2. /\ at \in Inside("set_pixel") /\ at' \in Inside("set_pixel")
      /\ "set_pixel" \in Routines
  BY <1>1, InsideIs DEF Routines
<1>3. calls = Direct /\ request.routine = "set_pixel" /\ mem = Start
  <2>1. calls = Direct /\ request.routine = "set_pixel"
    BY <1>2, Here, OnlyDirect DEF Routines
  <2>2. QED BY <1>1, <2>1, Here DEF Unwritten
<1>4. AtSetPixelMask
  BY <1>1, Here DEF Claims
<1>5. Only(a, regs, {D}) /\ a[D] = regs[A] /\ a \in Files
  BY Here, Members, MwReg
<1> HIDE DEF a
<1>6. /\ Only(b, a, {A, B}) /\ WordIn(b, AB) = Dot /\ b \in Files
      /\ stack' = SavedAll
  <2>1. stack = <<Lo(Dot), Hi(Dot)>> \o SavedAll
    BY <1>4 DEF AtSetPixelMask
  <2>2. WordBack(b, dropped(stack, AB), a, Dot, SavedAll)
    BY Zenon, <1>5, <2>1, Here, ScreenWords, WordPopped
  <2>3. QED BY <1>1, <2>2, OnlyIsFile DEF WordBack
<1> HIDE DEF b
<1>7. Only(c, b, {H, L}) /\ HL(c) = WordIn(b, AB) /\ c \in Files
  BY Zenon, <1>6, Members, LdaPairOnly, OnlyIsFile
<1> HIDE DEF c
<1>8. HL(c) = Dot /\ Dot \in DOMAIN Contents /\ mem[Dot] = Start[Dot]
      /\ Start[Dot] \in Byte
  <2>1. HL(c) = Dot
    BY <1>6, <1>7
  <2>2. DOMAIN mem = DOMAIN Contents
    BY Here
  <2>3. QED BY <1>1, <1>3, <2>1, <2>2, Here, StartIs
<1>9. /\ Only(d, c, {C}) /\ d[C] = Start[Dot] /\ d \in Files
  <2>1. Only(d, c, {C}) /\ d[C] = mem[HL(c)]
    BY <1>7, <1>8, Registers DEF Only, Files
  <2>2. QED BY <1>8, <2>1, OnlyIsFile
<1> HIDE DEF d
<1>10. Only(e, d, {H, L}) /\ e \in Files
  BY <1>9, Members, JumpedOnly, OnlyIsFile
<1> HIDE DEF e
<1>11. Only(s, e, {C}) /\ s[C] = Or(e[C], e[D]) /\ s \in Files
  BY <1>10, Members, OrReg
<1> HIDE DEF s
<1>12. Only(n, e, {D}) /\ n[D] = 255 - e[D] /\ n \in Files
  BY ZenonT(40), <1>10, Members, NotOnly, OnlyIsFile
<1> HIDE DEF n
<1>13. Only(m, n, {C}) /\ m[C] = And(n[C], n[D]) /\ m \in Files
  BY Zenon, <1>12, Members, AndReg
<1> HIDE DEF m
<1>14. Only(u, m, {H, L}) /\ u \in Files
  BY <1>13, Members, JumpedOnly, OnlyIsFile
<1> HIDE DEF u
<1>15. e[C] = Start[Dot] /\ e[D] = Mask /\ e[Z] = Was(C)
  BY <1>4, <1>5, <1>6, <1>7, <1>9, <1>10, Registers DEF Only, AtSetPixelMask
<1>16. /\ v \in Files
       /\ v[C] = IF Was(C) # 0 THEN Or(Start[Dot], Mask) ELSE And(Start[Dot], ByteMax - Mask)
  <2>1. s[C] = Or(Start[Dot], Mask)
    BY <1>15, <1>11
  <2>2. u[C] = And(Start[Dot], 255 - Mask)
    <3>1. u[C] = m[C] /\ m[C] = And(n[C], n[D]) /\ n[C] = e[C] /\ n[D] = 255 - e[D]
      BY <1>12, <1>13, <1>14, Registers DEF Only
    <3>2. QED BY <1>15, <3>1
  <2>3. QED BY <1>15, <1>11, <1>14, <2>1, <2>2 DEF ByteMax
<1> HIDE DEF v
<1>17. g \in Files /\ v[C] \in Byte
  BY <1>16, Members, LdaPairOnly, OnlyIsFile DEF Files
<1>18. /\ mem' \in [DOMAIN Contents -> Byte]
       /\ mem' = [Start EXCEPT ![Dot] = IF Was(C) # 0 THEN Or(@, Mask)
                                       ELSE And(@, ByteMax - Mask)]
  <2>1. mem' = [Start EXCEPT ![Dot] = v[C]]
    BY <1>1, <1>3, <1>8
  <2>2. mem' \in [DOMAIN Contents -> Byte]
    BY Zenon, <1>17, <2>1, Here, StartIs
  <2>3. QED BY <1>16, <2>1, <2>2
<1>19. LibShape'
  BY <1>1, <1>2, <1>17, <1>18, Here, ShapeKeeps
<1>20. Unwritten'
  BY <1>1, <1>3 DEF Unwritten
<1>21. AtSetPixelDone'
  <2>1. /\ Start' = Start /\ Dot' = Dot /\ Mask' = Mask /\ Was(C)' = Was(C)
        /\ SavedAll' = SavedAll
    BY <1>1, RequestKept
  <2>2. QED BY <1>6, <1>18, <2>1 DEF AtSetPixelDone
<1>22. QED BY <1>1, <1>19, <1>20, <1>21, ClaimThere DEF LibInv

LEMMA SetPixelDoneKeeps == LibInv /\ SetPixelDone => LibInv'
<1> SUFFICES ASSUME LibInv, SetPixelDone PROVE LibInv'
  OBVIOUS
<1>1. at = "set_pixel.done" /\ Leave("set_pixel.done", regs, Reverse(All))
  BY DEF SetPixelDone, Leave
<1>2. "set_pixel" \in Routines /\ at \in Inside("set_pixel")
  BY <1>1, InsideIs DEF Routines
<1>3. calls = Direct /\ request.routine = "set_pixel"
  BY <1>2, Here, OnlyDirect DEF Routines
<1>4. AtSetPixelDone
  BY <1>1, Here DEF Claims
<1>5. stack = SavedAll
  BY <1>4 DEF AtSetPixelDone
<1>6. Returning("set_pixel") /\ \A d \in General : regs'[d] = Was(d)
  BY <1>1, <1>2, <1>3, <1>5, AllRestored
<1>7. request' = request /\ mem' = mem /\ at' = "program"
  BY <1>3, <1>6 DEF Returning
<1>8. ProductsRight' /\ OrderRight'
  BY <1>7, <1>3, NoOrder, NoProduct
<1>9. MemoryRight'
  <2>1. Start' = Start /\ Dot' = Dot /\ Mask' = Mask /\ Was(C)' = Was(C)
    BY <1>7, RequestKept
  <2>2. QED BY <1>4, <1>3, <1>7, <2>1 DEF MemoryRight, Returned, AtSetPixelDone
<1>10. QED BY <1>3, <1>6, <1>8, <1>9, DirectlyEnds

-----------------------------------------------------------------------------
(* Addresses of the bytes from an address on.                              *)
LEMMA WordRing ==
  ASSUME NEW x \in Word, NEW to \in Word, NEW k \in Word
  PROVE  ToWord(x - to) = k <=> x = ToWord(to + k)
<1>1. /\ x \in Int /\ 0 <= x /\ x <= 65535 /\ to \in Int /\ 0 <= to /\ to <= 65535
      /\ k \in Int /\ 0 <= k /\ k <= 65535
  BY WordBounds
<1>2. (x - to) % 65536 = IF x >= to THEN x - to ELSE x - to + 65536
  BY <1>1
<1>3. (to + k) % 65536 = IF to + k <= 65535 THEN to + k ELSE to + k - 65536
  BY <1>1
<1>4. QED BY <1>1, <1>2, <1>3 DEF ToWord

LEMMA Distance ==
  ASSUME NEW x \in Word, NEW to \in Word
  PROVE  ToWord(x - to) \in Word /\ ToWord(x - to) \in Nat
<1>1. x - to \in Int
  BY WordBounds
<1>2. ToWord(x - to) \in Word
  BY <1>1, ToWordIsWord
<1>3. QED BY <1>2, WordBounds

LEMMA WithinNone ==
  ASSUME NEW x \in Word, NEW to \in Word
  PROVE  ~Within(x, to, 0)
BY Distance DEF Within

LEMMA WithinNext ==
  ASSUME NEW x \in Word, NEW to \in Word, NEW k \in Word
  PROVE  Within(x, to, k + 1) <=> Within(x, to, k) \/ x = ToWord(to + k)
<1> DEFINE d == ToWord(x - to)
<1>1. d \in Nat /\ k \in Nat
  BY Distance, WordBounds
<1>2. d = k <=> x = ToWord(to + k)
  BY WordRing
<1> HIDE DEF d
<1>3. d < k + 1 <=> d < k \/ d = k
  BY <1>1
<1>4. QED BY <1>2, <1>3 DEF d, Within

LEMMA SameSum ==
  ASSUME NEW a \in Word, NEW k \in Word, NEW n \in Word, ToWord(a + k) = ToWord(a + n)
  PROVE  k = n
<1>1. ToWord(a + k) \in Word
  BY WordBounds, ToWordIsWord
<1>2. ToWord(ToWord(a + k) - a) = k /\ ToWord(ToWord(a + k) - a) = n
  BY <1>1, WordRing
<1>3. QED BY <1>2

-----------------------------------------------------------------------------
(* memset                                                                  *)
LEMMA FilledNone ==
  ASSUME request \in Requests
  PROVE  Filled(WasAB, 0, Was(Z)) = Start
<1>1. \A a \in DOMAIN Contents : ~Within(a, WasAB, 0)
  BY ScratchWord, WordsAsked, WithinNone
<1>2. Filled(WasAB, 0, Was(Z)) = [a \in DOMAIN Contents |-> Start[a]]
  BY <1>1 DEF Filled
<1>3. QED BY <1>2, StartIs

LEMMA FilledNext ==
  ASSUME request \in Requests, NEW k \in Word, NEW x, x = ToWord(WasAB + k),
         x \in DOMAIN Contents
  PROVE  [Filled(WasAB, k, Was(Z)) EXCEPT ![x] = Was(Z)] = Filled(WasAB, k + 1, Was(Z))
<1>1. \A a \in DOMAIN Contents : Within(a, WasAB, k + 1) <=> Within(a, WasAB, k) \/ a = x
  BY ScratchWord, WordsAsked, WithinNext
<1>2. QED BY Zenon, <1>1 DEF Filled

LEMMA FilledThere ==
  ASSUME request' = request
  PROVE  /\ \A k : (Filled(WasAB, k, Was(Z)))' = Filled(WasAB, k, Was(Z))
         /\ (Filled(WasAB, WasCD, Was(Z)))' = Filled(WasAB, WasCD, Was(Z))
BY RequestKept DEF Filled

LEMMA MemsetKeeps == LibInv /\ Memset => LibInv'
<1> SUFFICES ASSUME LibInv, Memset PROVE LibInv'
  OBVIOUS
<1> DEFINE a == add16(regs, CD, Reg(A), Reg(B))
<1>1. /\ at = "memset" /\ regs' = a /\ stack' = pushed(regs, stack, All)
      /\ mem' = mem /\ at' = "memset.loop" /\ calls' = calls /\ request' = request
  BY DEF Memset, Save, Stretch
<1>2. /\ at \in Inside("memset") /\ at' \in Inside("memset") \ {"memset"}
      /\ at # "set_pixel.done"
      /\ "memset" \in Routines
  BY <1>1, InsideIs DEF Routines
<1>3. calls = Direct /\ request.routine = "memset" /\ mem = Start
  <2>1. calls = Direct /\ request.routine = "memset"
    BY <1>2, Here, OnlyDirect DEF Routines
  <2>2. QED BY <1>1, <2>1, Here DEF Unwritten
<1>4. /\ Fresh /\ regs[A] = Was(A) /\ regs[B] = Was(B) /\ regs[C] = Was(C)
      /\ regs[D] = Was(D) /\ regs[Z] = Was(Z)
  BY <1>1, <1>3, Here, ClaimHere, EntryIs DEF Fresh, AsEntered, General
<1>5. Only(a, regs, {C, D, F})
      /\ WordIn(a, CD) = ToWord(WordIn(regs, CD) + Pair(regs[B], regs[A]))
      /\ a \in Files
  BY Zenon, Here, Members, Add16Of, OnlyIsFile
<1> HIDE DEF a
<1>6. LibShape' /\ Unwritten'
  BY <1>1, <1>2, <1>5, Here, StretchKeeps
<1>7. WordIn(regs', CD) = ToWord(WasAB + WasCD) /\ WordIn(regs', AB) = ToWord(WasAB + 0)
  <2>1. WordIn(regs, CD) = WasCD /\ Pair(regs[B], regs[A]) = WasAB
    BY <1>4, Here, WordParts, WordsAsked
  <2>2. WasAB \in Nat /\ WasCD \in Nat /\ WasCD + WasAB = WasAB + WasCD
        /\ WasAB + 0 = WasAB
        /\ ToWord(WasAB) = WasAB
    BY Here, WordsAsked
  <2>3. a[A] = Was(A) /\ a[B] = Was(B)
    BY <1>4, <1>5, Registers DEF Only
  <2>4. WordIn(a, AB) = WasAB
    BY <2>3, <1>5, Here, WordParts, WordsAsked
  <2>5. QED BY <1>1, <1>5, <2>1, <2>2, <2>4
<1>8. AtMemsetLoop'
  <2>1. regs'[Z] = Was(Z) /\ stack' = SavedAll
    BY <1>1, <1>5, <1>4, <1>3, AllSaved, Registers DEF Only
  <2>2. mem' = Filled(WasAB, 0, Was(Z)) /\ 0 \in 0 .. WasCD
    BY <1>1, <1>3, Here, FilledNone, WordsAsked
  <2>3. (Filled(WasAB, 0, Was(Z)))' = Filled(WasAB, 0, Was(Z))
    BY <1>1, FilledThere
  <2>4. /\ WasAB' = WasAB /\ WasCD' = WasCD /\ Was(Z)' = Was(Z) /\ SavedAll' = SavedAll
    BY <1>1, RequestKept
  <2>5. QED BY <1>7, <2>1, <2>2, <2>3, <2>4 DEF AtMemsetLoop
<1>9. QED BY <1>1, <1>6, <1>8, ClaimThere DEF LibInv

LEMMA MemsetLoopKeeps == LibInv /\ MemsetLoop => LibInv'
<1> SUFFICES ASSUME LibInv, MemsetLoop PROVE LibInv'
  OBVIOUS
<1> DEFINE e == eq16(regs, AB, Reg(C), Reg(D))
           r == jnz(e)
           h == ldaPair(r, AB)
           a == add16(h, AB, Imm(0), Imm(1))
           g == jumped(a)
<1>1. /\ at = "memset.loop" /\ stack' = stack /\ calls' = calls /\ request' = request
      /\ r[F] # 0 => regs' = r /\ mem' = mem /\ at' = "memset.done"
      /\ r[F] = 0 => /\ regs' = g /\ HL(h) \in DOMAIN mem
                     /\ mem' = [mem EXCEPT ![HL(h)] = h[Z]] /\ at' = "memset.loop"
  BY DEF MemsetLoop, Run, Stretch
<1>2. at \in Inside("memset") /\ "memset" \in Routines
      /\ "memset.loop" \in Inside("memset") /\ "memset.done" \in Inside("memset")
  BY <1>1, InsideIs DEF Routines
<1>3. calls = Direct /\ request.routine = "memset"
  BY <1>2, Here, OnlyDirect DEF Routines
<1>4. AtMemsetLoop
  BY <1>1, Here DEF Claims
<1>5. Only(e, regs, {F, H}) /\ e \in Files
      /\ (e[F] # 0 <=> regs[A] = regs[C] /\ regs[B] = regs[D])
  <2>1. /\ Reg(C) \in AnyOperand /\ Reg(D) \in AnyOperand /\ Reg(D) # Reg(F)
        /\ Reg(D) # Reg(H)
        /\ AB \in {AB, CD} /\ AB[1] = A /\ AB[2] = B
        /\ Val(regs, Reg(C)) = regs[C] /\ Val(regs, Reg(D)) = regs[D]
    BY OperandsAre, PairsAre, Registers DEF Reg
  <2>2. /\ Only(e, regs, {F, H})
        /\ (e[F] # 0 <=> regs[AB[1]] = Val(regs, Reg(C)) /\ regs[AB[2]] = Val(regs, Reg(D)))
    BY Zenon, <2>1, Here, Eq16Only
  <2>3. QED BY <2>1, <2>2, OnlyIsFile
<1> HIDE DEF e
<1>6. Only(r, e, {H, L}) /\ r \in Files
  BY <1>5, Members, JnzOnly, OnlyIsFile
<1> HIDE DEF r
<1>7. Only(h, r, {H, L}) /\ HL(h) = WordIn(r, AB) /\ h \in Files
  BY Zenon, <1>6, Members, LdaPairOnly, OnlyIsFile
<1> HIDE DEF h
<1>8. Only(a, h, {A, B, F})
      /\ WordIn(a, AB) = ToWord(WordIn(h, AB) + 1) /\ a \in Files
  BY Zenon, <1>7, Members, CountedUp, OnlyIsFile
<1> HIDE DEF a
<1>9. Only(g, a, {H, L}) /\ g \in Files
  BY <1>8, Members, JumpedOnly, OnlyIsFile
<1> HIDE DEF g
<1>10. r[F] # 0 <=> WordIn(regs, AB) = WordIn(regs, CD)
  <2>1. r[F] = e[F]
    BY <1>6, Registers DEF Only
  <2>2. WordIn(regs, AB) = Pair(regs[B], regs[A])
        /\ WordIn(regs, CD) = Pair(regs[D], regs[C])
    BY Here, WordParts
  <2>3. Pair(regs[B], regs[A]) = Pair(regs[D], regs[C]) <=> regs[B] = regs[D]
        /\ regs[A] = regs[C]
    BY Here, SamePair
  <2>4. QED BY <1>5, <2>1, <2>2, <2>3
<1>11. /\ stack = SavedAll /\ regs[Z] = Was(Z)
       /\ WordIn(regs, CD) = ToWord(WasAB + WasCD)
  BY <1>4 DEF AtMemsetLoop
<1>12. PICK k \in 0 .. WasCD : WordIn(regs, AB) = ToWord(WasAB + k) /\ mem = Filled(WasAB, k, Was(Z))
  BY <1>4 DEF AtMemsetLoop
<1>13. k \in Word /\ k \in Nat /\ WasCD \in Nat /\ WasCD \in Word
       /\ WasAB \in Word /\ WasAB \in Nat
  <2>1. WasCD \in Word /\ WasAB \in Word /\ WasCD \in Nat /\ WasAB \in Nat
    BY Here, WordsAsked
  <2>2. k \in Int /\ 0 <= k /\ k <= WasCD /\ WasCD <= 65535
    BY <1>12, <2>1, WordBounds
  <2>3. QED BY <2>1, <2>2, WordBounds
<1>14. /\ WasAB' = WasAB /\ WasCD' = WasCD /\ Was(Z)' = Was(Z) /\ SavedAll' = SavedAll
  BY <1>1, RequestKept
<1>15. CASE r[F] # 0
  <2>1. k = WasCD
    BY <1>15, <1>10, <1>11, <1>12, <1>13, SameSum
  <2>2. regs' = r /\ mem' = mem /\ at' = "memset.done"
    BY <1>1, <1>15
  <2>3. LibShape'
    BY <1>1, <1>2, <1>6, <2>2, Here, ShapeKeeps
  <2>4. Unwritten'
    BY <1>1, <1>3, <2>2 DEF Unwritten
  <2>5. (Filled(WasAB, WasCD, Was(Z)))' = Filled(WasAB, WasCD, Was(Z))
    BY <1>1, FilledThere
  <2>6. AtMemsetDone'
    BY <1>1, <1>11, <1>12, <1>14, <2>1, <2>2, <2>5 DEF AtMemsetDone
  <2>7. QED BY <2>2, <2>3, <2>4, <2>6, ClaimThere DEF LibInv
<1>16. CASE r[F] = 0
  <2>1. /\ regs' = g /\ HL(h) \in DOMAIN mem /\ mem' = [mem EXCEPT ![HL(h)] = h[Z]]
        /\ at' = "memset.loop"
    BY <1>1, <1>16
  <2>2. h[Z] = Was(Z) /\ HL(h) = ToWord(WasAB + k) /\ WordIn(h, AB) = ToWord(WasAB + k)
    <3>1. h[Z] = regs[Z] /\ r[A] = regs[A] /\ r[B] = regs[B] /\ h[A] = regs[A]
          /\ h[B] = regs[B]
      BY <1>5, <1>6, <1>7, Registers DEF Only
    <3>2. WordIn(r, AB) = WordIn(regs, AB) /\ WordIn(h, AB) = WordIn(regs, AB)
      BY <3>1, <1>6, <1>7, Here, WordParts
    <3>3. QED BY <1>11, <1>12, <1>7, <3>1, <3>2
  <2>3. k # WasCD /\ k + 1 \in 0 .. WasCD
    <3>1. k # WasCD
      BY <1>16, <1>10, <1>11, <1>12
    <3>2. QED BY <1>12, <1>13, <3>1
  <2>4. mem' = Filled(WasAB, k + 1, Was(Z))
    <3>1. ToWord(WasAB + k) \in DOMAIN Contents
      BY <2>1, <2>2, Here
    <3>2. QED BY Zenon, <1>12, <1>13, <2>1, <2>2, <3>1, Here, FilledNext
  <2>5. mem' \in [DOMAIN Contents -> Byte] /\ h[Z] \in Byte
    BY <2>1, <2>2, Here
  <2>6. LibShape'
    BY <1>1, <1>2, <1>9, <2>1, <2>5, Here, ShapeKeeps
  <2>7. Unwritten'
    BY <1>1, <1>3, <2>1 DEF Unwritten
  <2>8. WordIn(g, AB) = ToWord(WasAB + (k + 1))
        /\ WordIn(g, CD) = WordIn(regs, CD) /\ g[Z] = regs[Z]
    <3>1. /\ g[A] = a[A] /\ g[B] = a[B] /\ g[C] = regs[C] /\ g[D] = regs[D]
          /\ g[Z] = regs[Z]
      BY <1>5, <1>6, <1>7, <1>8, <1>9, Registers DEF Only
    <3>2. WordIn(g, AB) = WordIn(a, AB) /\ WordIn(g, CD) = WordIn(regs, CD)
      BY <3>1, <1>8, <1>9, Here, WordParts
    <3>3. ToWord(ToWord(WasAB + k) + 1) = ToWord((WasAB + k) + 1)
          /\ (WasAB + k) + 1 = WasAB + (k + 1)
      BY <1>13, WordSums
    <3>4. QED BY <1>8, <2>2, <3>1, <3>2, <3>3
  <2>9. (Filled(WasAB, k + 1, Was(Z)))' = Filled(WasAB, k + 1, Was(Z))
    BY <1>1, FilledThere
  <2>10. AtMemsetLoop'
    BY <1>1, <1>11, <1>14, <2>1, <2>3, <2>4, <2>8, <2>9 DEF AtMemsetLoop
  <2>11. QED BY <2>1, <2>6, <2>7, <2>10, ClaimThere DEF LibInv
<1>17. QED BY <1>15, <1>16

LEMMA MemsetDoneKeeps == LibInv /\ MemsetDone => LibInv'
<1> SUFFICES ASSUME LibInv, MemsetDone PROVE LibInv'
  OBVIOUS
<1>1. at = "memset.done" /\ Leave("memset.done", regs, Reverse(All))
  BY DEF MemsetDone, Leave
<1>2. "memset" \in Routines /\ at \in Inside("memset")
  BY <1>1, InsideIs DEF Routines
<1>3. calls = Direct /\ request.routine = "memset"
  BY <1>2, Here, OnlyDirect DEF Routines
<1>4. AtMemsetDone
  BY <1>1, Here DEF Claims
<1>5. stack = SavedAll
  BY <1>4 DEF AtMemsetDone
<1>6. Returning("memset") /\ \A d \in General : regs'[d] = Was(d)
  BY <1>1, <1>2, <1>3, <1>5, AllRestored
<1>7. request' = request /\ mem' = mem /\ at' = "program"
  BY <1>3, <1>6 DEF Returning
<1>8. ProductsRight' /\ OrderRight'
  BY <1>7, <1>3, NoOrder, NoProduct
<1>9. MemoryRight'
  <2>1. (Filled(WasAB, WasCD, Was(Z)))' = Filled(WasAB, WasCD, Was(Z))
    BY <1>7, FilledThere
  <2>2. mem = Filled(WasAB, WasCD, Was(Z))
    BY <1>4 DEF AtMemsetDone
  <2>3. QED BY <1>3, <1>7, <2>1, <2>2 DEF MemoryRight, Returned
<1>10. QED BY <1>3, <1>6, <1>8, <1>9, DirectlyEnds

-----------------------------------------------------------------------------
(* One byte of a copy: the source byte is not overwritten yet.             *)
LEMMA SourceApart ==
  ASSUME NEW from \in Word, NEW to \in Word, NEW n \in Word, NEW k \in 0 .. n - 1,
         Copies(from, to, n)
  PROVE  ~Within(ToWord(from + k), to, k)
<1> DEFINE y == ToWord(from + k)
           j == ToWord(y - to)
<1>1. from \in Int /\ to \in Int /\ n \in Int /\ k \in Int /\ k \in Word
      /\ 0 <= k /\ k <= n - 1
      /\ y \in Word
  BY WordBounds, ToWordIsWord
<1>2. j \in Word /\ y = ToWord(to + j)
  <2>1. j \in Word
    BY Zenon, <1>1, Distance
  <2>2. QED BY Zenon, <1>1, <2>1, WordRing
<1>3. y = ToWord(from + k)
  OBVIOUS
<1> HIDE DEF y, j
<1>4. SUFFICES ASSUME j < k PROVE FALSE
  BY DEF y, j, Within
<1>5. j \in Int /\ 0 <= j /\ k - j \in 1 .. n - 1 /\ k - j \in Word
  BY <1>1, <1>2, <1>4, WordBounds
<1>6. ToWord(from + (k - j)) = to
  <2>1. ToWord(ToWord(from + k) + (-j)) = ToWord((from + k) + (-j))
    BY <1>1, <1>5, WordSums
  <2>2. ToWord(ToWord(to + j) + (-j)) = ToWord((to + j) + (-j))
    BY <1>1, <1>5, WordSums
  <2>3. (from + k) + (-j) = from + (k - j) /\ (to + j) + (-j) = to
    BY <1>1, <1>5
  <2>4. ToWord(to) = to
    BY SmallResidues
  <2>5. QED BY <1>2, <1>3, <2>1, <2>2, <2>3, <2>4
<1>7. ToWord(to - from) = k - j
  BY <1>5, <1>6, WordRing
<1>8. QED BY <1>5, <1>7 DEF Copies

LEMMA ByteCopied ==
  ASSUME NEW from \in Word, NEW to \in Word, NEW n \in Word, NEW k \in 0 .. n - 1,
         Copies(from, to, n), NEW x \in DOMAIN Contents, NEW y \in DOMAIN Contents,
         x = ToWord(to + k), y = ToWord(from + k)
  PROVE  /\ Shifted(from, to, k)[y] = Start[y]
         /\ \A a \in DOMAIN Contents \ {x} : Shifted(from, to, k + 1)[a] = Shifted(from, to, k)[a]
         /\ Shifted(from, to, k + 1)[x] = Start[y]
<1>1. k \in Word /\ x \in Word
  BY ScratchWord, WordBounds
<1>2. ~Within(y, to, k)
  BY SourceApart
<1>3. \A a \in DOMAIN Contents : Within(a, to, k + 1) <=> Within(a, to, k) \/ a = x
  BY <1>1, ScratchWord, WithinNext
<1>4. ToWord(x - to) = k
  BY <1>1, WordRing
<1>5. Shifted(from, to, k)[y] = Start[y]
  BY <1>2 DEF Shifted
<1>6. Shifted(from, to, k + 1)[x] = Start[y]
  BY <1>3, <1>4 DEF Shifted
<1>7. ASSUME NEW a \in DOMAIN Contents \ {x}
      PROVE  Shifted(from, to, k + 1)[a] = Shifted(from, to, k)[a]
  BY <1>3 DEF Shifted
<1>8. QED BY <1>5, <1>6, <1>7

LEMMA ShiftedIs ==
  ASSUME NEW from, NEW to, NEW k
  PROVE  DOMAIN Shifted(from, to, k) = DOMAIN Contents
BY DEF Shifted

LEMMA WholeCopied ==
  ASSUME NEW from \in Word, NEW to \in Word, NEW n \in Word, NEW k \in 0 .. n - 1,
         Copies(from, to, n), NEW x \in DOMAIN Contents, NEW y \in DOMAIN Contents,
         x = ToWord(to + k), y = ToWord(from + k), NEW m, m = Shifted(from, to, k)
  PROVE  [m EXCEPT ![x] = m[y]] = Shifted(from, to, k + 1)
<1> DEFINE s == Shifted(from, to, k + 1)
           e == [m EXCEPT ![x] = m[y]]
<1>1. DOMAIN m = DOMAIN Contents /\ DOMAIN s = DOMAIN Contents
  BY ShiftedIs
<1>2. m[y] = Start[y] /\ s[x] = Start[y] /\ \A a \in DOMAIN Contents \ {x} : s[a] = m[a]
  BY ByteCopied
<1>3. s = [a \in DOMAIN Contents |-> s[a]]
  BY <1>1 DEF Shifted
<1> HIDE DEF s
<1>4. e = [a \in DOMAIN Contents |-> IF a = x THEN m[y] ELSE m[a]]
  BY Zenon, <1>1
<1>5. QED BY <1>2, <1>3, <1>4 DEF s

LEMMA Below ==
  ASSUME NEW n \in Word, NEW k \in 0 .. n - 1
  PROVE  k \in Word /\ k \in Nat /\ n \in Nat /\ k < n
<1>1. n \in Int /\ 0 <= n /\ n <= 65535
  BY WordBounds
<1>2. k \in Int /\ 0 <= k /\ k < n /\ k <= 65535
  BY <1>1
<1>3. QED BY <1>1, <1>2, WordBounds

LEMMA NotScratch ==
  ASSUME NEW to \in Word, NEW n \in Word, NEW k \in 0 .. n - 1, Apart(to, n)
  PROVE  ToWord(to + k) \notin {D0, D0 + 1}
<1> DEFINE x == ToWord(to + k)
<1>1. k \in Word /\ k < n /\ x \in Word
  BY Below, WordBounds, ToWordIsWord
<1>2. x = ToWord(to + k)
  OBVIOUS
<1> HIDE DEF x
<1>3. ToWord(x - to) = k
  BY <1>1, <1>2, WordRing
<1>4. Within(x, to, n)
  BY <1>1, <1>3 DEF Within
<1>5. x \notin {D0, D0 + 1}
  BY <1>4 DEF Apart
<1>6. QED BY <1>5 DEF x

LEMMA PieceCopied ==
  ASSUME NEW from \in Word, NEW to \in Word, NEW n \in Word, NEW k \in 0 .. n - 1,
         Copies(from, to, n), Apart(from, n), Apart(to, n),
         NEW x \in DOMAIN Contents, NEW y \in DOMAIN Contents,
         x = ToWord(to + k), y = ToWord(from + k),
         NEW m, Outside(m) = Outside(Shifted(from, to, k)),
         NEW e, e[x] = m[y], \A a \in DOMAIN Contents \ {x} : e[a] = m[a]
  PROVE  Outside(e) = Outside(Shifted(from, to, k + 1))
<1>1. y \notin {D0, D0 + 1}
  BY NotScratch
<1>2. \A a \in DOMAIN Contents \ {D0, D0 + 1} : m[a] = Shifted(from, to, k)[a]
  <2>1. ASSUME NEW a \in DOMAIN Contents \ {D0, D0 + 1} PROVE m[a] = Shifted(from, to, k)[a]
    <3>1. Outside(m)[a] = m[a]
          /\ Outside(Shifted(from, to, k))[a] = Shifted(from, to, k)[a]
      BY DEF Outside
    <3>2. QED BY <3>1
  <2>2. QED BY <2>1
<1> DEFINE s == Shifted(from, to, k + 1)
<1>3. m[y] = Start[y] /\ s[x] = Start[y]
      /\ \A a \in DOMAIN Contents \ {x} : s[a] = Shifted(from, to, k)[a]
  BY <1>1, <1>2, ByteCopied
<1> HIDE DEF s
<1>4. \A a \in DOMAIN Contents \ {D0, D0 + 1} : e[a] = s[a]
  BY <1>2, <1>3
<1>5. Outside(e) = Outside(s)
  BY <1>4, SameOutside
<1>6. QED BY <1>5 DEF s

LEMMA ShiftedThere ==
  ASSUME request' = request
  PROVE  /\ \A k : (Shifted(WasCD, WasAB, k))' = Shifted(WasCD, WasAB, k)
         /\ MayCopy' = MayCopy /\ MayPiece' = MayPiece
<1>1. /\ WasAB' = WasAB /\ WasCD' = WasCD /\ Start' = Start /\ Was(Z)' = Was(Z)
  BY RequestKept
<1>2. MayCopy' = MayCopy /\ MayPiece' = MayPiece
  BY <1>1 DEF MayCopy, MayPiece
<1>3. QED BY <1>1, <1>2 DEF Shifted

LEMMA PiecedThere ==
  ASSUME request' = request, NEW k, Outside(mem') = Outside(Shifted(WasCD, WasAB, k))
  PROVE  Pieced(k)'
<1>1. (Shifted(WasCD, WasAB, k))' = Shifted(WasCD, WasAB, k)
  BY ShiftedThere
<1>2. QED BY <1>1 DEF Pieced, Outside

LEMMA ShiftedNone ==
  ASSUME request \in Requests
  PROVE  Shifted(WasCD, WasAB, 0) = Start
<1>1. \A a \in DOMAIN Contents : ~Within(a, WasAB, 0)
  BY ScratchWord, WordsAsked, WithinNone
<1>2. Shifted(WasCD, WasAB, 0) = [a \in DOMAIN Contents |-> Start[a]]
  BY <1>1 DEF Shifted
<1>3. QED BY <1>2, StartIs

-----------------------------------------------------------------------------
(* memcpy, called by the program or by memcpy16                            *)
LEMMA WhoCopies ==
  ASSUME LibShape, at \in Inside("memcpy")
  PROVE  /\ calls = Direct => request.routine = "memcpy"
         /\ calls # Direct => /\ request.routine = "memcpy16"
                              /\ \/ calls = Via("memcpy16.back")
                                 \/ calls = Via("memcpy16.done")
         /\ Base \in Seq(Byte)
<1>1. "memcpy" \in Routines
  BY DEF Routines
<1>2. Base \in Seq(Byte)
  BY <1>1, EntryBytes
<1>3. request.routine \in Routines
  BY RoutineAsked DEF LibShape
<1>4. ASSUME calls # Direct
      PROVE  /\ request.routine = "memcpy16"
             /\ calls = Via("memcpy16.back") \/ calls = Via("memcpy16.done")
  <2>1. PICK b \in Backs : calls = Via(b) /\ Called(b) = "memcpy" /\ b \in Inside(request.routine)
    BY <1>1, <1>4, WhoCalls
  <2>2. b \in {"memcpy16.back", "memcpy16.done"} /\ "memcpy16" \in Routines
    BY <2>1, BacksCall DEF Routines
  <2>3. b \in Inside("memcpy16")
    BY <2>2, InsideIs
  <2>4. request.routine = "memcpy16"
    BY <1>3, <2>1, <2>2, <2>3, InsideApart
  <2>5. QED BY <2>1, <2>2, <2>4
<1>5. QED BY <1>1, <1>2, <1>4, WhoCalls

(* What memcpy was called with stays on the stack.                         *)
LEMMA AskedThere ==
  ASSUME at' # "memcpy", NEW z \in Byte, NEW d \in Byte, NEW c \in Byte, NEW b \in Byte,
         NEW a \in Byte, NEW base \in Seq(Byte), stack' = <<z, d, c, b, a>> \o base
  PROVE  /\ Asked(Z)' = z /\ Asked(D)' = d /\ Asked(C)' = c /\ Asked(B)' = b
         /\ Asked(A)' = a
<1>1. stack'[1] = z /\ stack'[2] = d /\ stack'[3] = c /\ stack'[4] = b /\ stack'[5] = a
  OBVIOUS
<1>2. QED BY <1>1, Registers DEF Asked

LEMMA SameAsked ==
  ASSUME Asked(Z)' = Asked(Z), Asked(D)' = Asked(D), Asked(C)' = Asked(C),
         Asked(B)' = Asked(B), Asked(A)' = Asked(A)
  PROVE  /\ AskedAB' = AskedAB /\ AskedCD' = AskedCD /\ Asking' = Asking
         /\ \A d \in General : Asked(d)' = Asked(d)
BY DEF AskedAB, AskedCD, Asking, General

LEMMA AskedKept ==
  ASSUME at # "memcpy", at' # "memcpy", stack' = stack
  PROVE  /\ Asked(Z)' = Asked(Z) /\ Asked(D)' = Asked(D) /\ Asked(C)' = Asked(C)
         /\ Asked(B)' = Asked(B) /\ Asked(A)' = Asked(A)
BY DEF Asked

LEMMA CalledKept ==
  ASSUME request' = request, calls' = calls, NEW n, MemcpyCalled(n),
         Asked(Z)' = Asked(Z), Asked(D)' = Asked(D), Asked(C)' = Asked(C),
         Asked(B)' = Asked(B), Asked(A)' = Asked(A),
         calls # Direct /\ MayPiece => Rest' = Rest
  PROVE  MemcpyCalled(n)'
<1>1. /\ AskedAB' = AskedAB /\ AskedCD' = AskedCD
      /\ \A d \in General : Asked(d)' = Asked(d)
  BY SameAsked
<1>2. /\ WasAB' = WasAB /\ WasCD' = WasCD /\ MayPiece' = MayPiece
      /\ \A d : Was(d)' = Was(d)
  BY RequestKept, ShiftedThere
<1>3. (\A d \in General : Asked(d) \in Byte)'
  BY <1>1 DEF MemcpyCalled
<1>4. (calls = Direct => n = 0 /\ \A d \in General : Asked(d) = Was(d))'
  BY <1>1, <1>2 DEF MemcpyCalled, Direct
<1>5. ASSUME calls # Direct, MayPiece
      PROVE  /\ AskedAB' = ToWord(WasAB' + n) /\ AskedCD' = ToWord(WasCD' + n)
             /\ calls = Via("memcpy16.done") => n + Rest' = request'.d0
                /\ Asked(Z)' = Rest'
             /\ calls = Via("memcpy16.back") => n + 255 + Rest' = request'.d0
                /\ Asked(Z)' = 255
  BY <1>1, <1>2, <1>5 DEF MemcpyCalled
<1>6. QED BY <1>2, <1>3, <1>4, <1>5 DEF MemcpyCalled, Direct, Via

LEMMA MovedThere ==
  ASSUME request' = request, calls' = calls, NEW k,
         calls = Direct /\ MayCopy => mem' = Shifted(WasCD, WasAB, k),
         calls # Direct /\ MayPiece => Outside(mem') = Outside(Shifted(WasCD, WasAB, k))
  PROVE  Moved(k)'
<1>1. MayCopy' = MayCopy /\ MayPiece' = MayPiece
      /\ (Shifted(WasCD, WasAB, k))' = Shifted(WasCD, WasAB, k)
  BY ShiftedThere
<1>2. calls # Direct /\ MayPiece => Pieced(k)'
  BY PiecedThere
<1>3. QED BY <1>1, <1>2 DEF Moved, Direct

LEMMA MovedKept ==
  ASSUME request' = request, calls' = calls, mem' = mem, NEW k, Moved(k)
  PROVE  Moved(k)'
<1>1. calls = Direct /\ MayCopy => mem' = Shifted(WasCD, WasAB, k)
  BY DEF Moved
<1>2. calls # Direct /\ MayPiece => Outside(mem') = Outside(Shifted(WasCD, WasAB, k))
  BY DEF Moved, Pieced
<1>3. QED BY <1>1, <1>2, MovedThere

LEMMA MemcpyInKeeps == LibInv /\ MemcpyIn => LibInv'
<1> SUFFICES ASSUME LibInv, MemcpyIn PROVE LibInv'
  OBVIOUS
<1> DEFINE j == jz(regs, Z)
<1>1. /\ at = "memcpy" /\ regs' = j /\ stack' = pushed(regs, stack, All)
      /\ mem' = mem /\ at' = (IF regs[Z] = 0 THEN "memcpy.done" ELSE "memcpy.loop")
      /\ calls' = calls /\ request' = request
  BY DEF MemcpyIn, Save, Stretch
<1>2. /\ at \in Inside("memcpy") /\ at' \in Inside("memcpy") \ {"memcpy"}
      /\ at # "set_pixel.done"
      /\ "memcpy" \in Routines /\ at' # "memcpy"
  BY <1>1, InsideIs DEF Routines
<1>3. stack = Base /\ \E n \in Word : MemcpyCalled(n) /\ Moved(n)
  BY <1>1, Here, ClaimHere DEF AtMemcpy
<1>4. Only(j, regs, {F, H, L}) /\ j \in Files
  BY Zenon, Here, Members, JzOnly, OnlyIsFile
<1> HIDE DEF j
<1>5. LibShape' /\ Unwritten'
  BY <1>1, <1>2, <1>4, Here, StretchKeeps
<1>6. Base \in Seq(Byte) /\ Base' = Base
  BY <1>1, <1>2, Here, WhoCopies, EntryKept
<1>7. PICK n \in Word : MemcpyCalled(n) /\ Moved(n)
  BY <1>3
<1>8. /\ Asked(Z) = regs[Z] /\ Asked(D) = regs[D] /\ Asked(C) = regs[C]
      /\ Asked(B) = regs[B] /\ Asked(A) = regs[A]
  BY <1>1 DEF Asked
<1>9. /\ Asked(Z)' = Asked(Z) /\ Asked(D)' = Asked(D) /\ Asked(C)' = Asked(C)
      /\ Asked(B)' = Asked(B) /\ Asked(A)' = Asked(A)
  <2> DEFINE z == regs[Z]
             d == regs[D]
             c == regs[C]
             b == regs[B]
             a == regs[A]
             base == Base
  <2>1. stack' = <<z, d, c, b, a>> \o base
    BY Zenon, <1>1, <1>3, AllPushed
  <2>2. z \in Byte /\ d \in Byte /\ c \in Byte /\ b \in Byte /\ a \in Byte
        /\ base \in Seq(Byte)
    BY <1>6, Here
  <2> HIDE DEF z, d, c, b, a, base
  <2>3. Asked(Z)' = z /\ Asked(D)' = d /\ Asked(C)' = c /\ Asked(B)' = b
        /\ Asked(A)' = a
    BY Zenon, <1>2, <2>1, <2>2, AskedThere
  <2>4. QED BY <1>8, <2>3 DEF z, d, c, b, a
<1>10. AskedAB' = AskedAB /\ AskedCD' = AskedCD /\ Asking' = Asking
  BY <1>9, SameAsked
<1>11. stack' = Asking' \o Base'
  <2>1. stack' = <<regs[Z], regs[D], regs[C], regs[B], regs[A]>> \o Base
    BY Zenon, <1>1, <1>3, AllPushed
  <2>2. Asking = <<regs[Z], regs[D], regs[C], regs[B], regs[A]>>
    BY <1>8 DEF Asking
  <2>3. QED BY <1>6, <1>10, <2>1, <2>2
<1>12. MemcpyCalled(n)' /\ Moved(n)'
  <2>1. Rest' = Rest
    BY <1>1 DEF Rest
  <2>2. MemcpyCalled(n)'
    BY <1>1, <1>7, <1>9, <2>1, CalledKept
  <2>3. QED BY <1>1, <1>7, <2>2, MovedKept
<1>13. n + 0 = n /\ 0 \in Byte
  BY WordBounds, Members
<1>14. CASE regs[Z] = 0
  <2>1. at' = "memcpy.done" /\ 0 = Asked(Z)'
    BY <1>1, <1>14, <1>8, <1>9
  <2>2. Moved(n + 0)'
    BY <1>12, <1>13
  <2>3. AtMemcpyDone'
    BY <1>13, <1>11, <1>12, <2>1, <2>2 DEF AtMemcpyDone
  <2>4. QED BY <1>5, <2>1, <2>3, ClaimThere DEF LibInv
<1>15. CASE regs[Z] # 0
  <2>1. at' = "memcpy.loop" /\ Asked(Z)' = regs[Z] /\ regs'[Z] = regs[Z]
        /\ WordIn(regs', AB) = WordIn(regs, AB) /\ WordIn(regs', CD) = WordIn(regs, CD)
    <3>1. /\ regs'[A] = regs[A] /\ regs'[B] = regs[B] /\ regs'[C] = regs[C]
          /\ regs'[D] = regs[D] /\ regs'[Z] = regs[Z]
      BY <1>1, <1>4, Registers DEF Only
    <3>2. WordIn(regs', AB) = WordIn(regs, AB) /\ WordIn(regs', CD) = WordIn(regs, CD)
      BY <1>1, <1>4, <3>1, Here, WordParts
    <3>3. QED BY <1>1, <1>15, <1>8, <1>9, <3>1, <3>2
  <2>2. 0 < Asked(Z)' /\ regs'[Z] = Asked(Z)' - 0
    BY <1>15, <2>1, Here, ByteBounds
  <2>3. /\ WordIn(regs, AB) = ToWord(AskedAB + 0)
        /\ WordIn(regs, CD) = ToWord(AskedCD + 0)
    <3>1. AskedAB = WordIn(regs, AB) /\ AskedCD = WordIn(regs, CD)
      BY <1>8, Here, WordParts DEF AskedAB, AskedCD
    <3>2. AskedAB \in Word /\ AskedCD \in Word
      BY <3>1, Here, WordParts
    <3>3. AskedAB + 0 = AskedAB /\ AskedCD + 0 = AskedCD
      BY <3>2, WordBounds
    <3>4. QED BY <3>1, <3>2, <3>3, SmallResidues
  <2>4. Moved(n + 0)'
    BY <1>12, <1>13
  <2>5. AtMemcpyLoop'
    BY <1>13, <1>11, <1>10, <1>12, <2>1, <2>2, <2>3, <2>4 DEF AtMemcpyLoop
  <2>6. QED BY <1>5, <2>1, <2>5, ClaimThere DEF LibInv
<1>16. QED BY <1>14, <1>15

-----------------------------------------------------------------------------
LEMMA CopyUnwritten ==
  ASSUME LibShape, at \in Inside("memcpy"), request' = request,
         at' \notin {"memset", "memcpy16"}
  PROVE  Unwritten'
<1>1. request'.routine \in {"memcpy", "memcpy16"}
  BY WhoCopies
<1>2. QED BY <1>1 DEF Unwritten

(* The next byte of a copy, in one piece and as a piece of memcpy16's.     *)
LEMMA WholeNext ==
  ASSUME request \in Requests, NEW n, n = 0, NEW i \in 0 .. Was(Z) - 1, MayCopy,
         mem = Shifted(WasCD, WasAB, n + i),
         NEW x \in DOMAIN Contents, NEW y \in DOMAIN Contents,
         x = ToWord(WasAB + i), y = ToWord(WasCD + i)
  PROVE  [mem EXCEPT ![x] = mem[y]] = Shifted(WasCD, WasAB, n + (i + 1))
<1> DEFINE from == WasCD
           to == WasAB
           z == Was(Z)
           m == mem
<1>1. from \in Word /\ to \in Word /\ z \in Word /\ i \in 0 .. z - 1
  <2>1. z \in Byte
    BY RoutineAsked, Members
  <2>2. QED BY <2>1, WordsAsked, BytesAreWords
<1>2. x = ToWord(to + i) /\ y = ToWord(from + i) /\ Copies(from, to, z)
  BY DEF MayCopy
<1>3. n + i = i /\ n + (i + 1) = i + 1
  OBVIOUS
<1>4. m = Shifted(from, to, i)
  BY <1>3
<1> HIDE DEF from, to, z, m
<1>5. [m EXCEPT ![x] = m[y]] = Shifted(from, to, i + 1)
  BY <1>1, <1>2, <1>4, WholeCopied
<1>6. QED BY <1>3, <1>5 DEF from, to, m

LEMMA PieceNext ==
  ASSUME request \in Requests, NEW k \in 0 .. request.d0 - 1, MayPiece,
         NEW m, Outside(m) = Outside(Shifted(WasCD, WasAB, k)),
         NEW x \in DOMAIN Contents, NEW y \in DOMAIN Contents,
         x = ToWord(WasAB + k), y = ToWord(WasCD + k),
         NEW e, e[x] = m[y], \A a \in DOMAIN Contents \ {x} : e[a] = m[a]
  PROVE  x \notin {D0, D0 + 1} /\ Outside(e) = Outside(Shifted(WasCD, WasAB, k + 1))
<1> DEFINE from == WasCD
           to == WasAB
           n == request.d0
<1>1. from \in Word /\ to \in Word /\ n \in Word /\ k \in 0 .. n - 1
  BY WordsAsked
<1>2. /\ x = ToWord(to + k) /\ y = ToWord(from + k) /\ Copies(from, to, n)
      /\ Apart(from, n) /\ Apart(to, n)
  BY DEF MayPiece
<1>3. Outside(m) = Outside(Shifted(from, to, k))
  OBVIOUS
<1> HIDE DEF from, to, n
<1>4. Outside(e) = Outside(Shifted(from, to, k + 1))
  BY <1>1, <1>2, <1>3, PieceCopied
<1>5. x \notin {D0, D0 + 1}
  BY <1>1, <1>2, NotScratch
<1>6. QED BY <1>4, <1>5 DEF from, to

LEMMA AnotherSum ==
  ASSUME NEW a \in Word, NEW n \in Word, NEW i \in Byte
  PROVE  ToWord(ToWord(a + n) + i) = ToWord(a + (n + i))
<1>1. a \in Int /\ n \in Int /\ i \in Int /\ a + n \in Int /\ (a + n) + i = a + (n + i)
  BY WordBounds, BytesAreWords
<1>2. QED BY <1>1, WordSums

LEMMA NextOf ==
  ASSUME NEW a \in Word, NEW i \in Byte
  PROVE  ToWord(ToWord(a + i) + 1) = ToWord(a + (i + 1))
<1>1. a \in Int /\ i \in Int /\ a + i \in Int /\ (a + i) + 1 = a + (i + 1)
  BY WordBounds, BytesAreWords
<1>2. QED BY <1>1, WordSums

LEMMA MemcpyLoopKeeps == LibInv /\ MemcpyLoop => LibInv'
<1> SUFFICES ASSUME LibInv, MemcpyLoop PROVE LibInv'
  OBVIOUS
<1> DEFINE h == ldaPair(regs, CD)
           f == [h EXCEPT ![F] = mem[HL(h)]]
           l == ldaPair(f, AB)
           u == add16(l, AB, Imm(0), Imm(1))
           v == add16(u, CD, Imm(0), Imm(1))
           w == dec(v, Z)
           g == jnz(w)
<1>1. /\ at = "memcpy.loop" /\ HL(h) \in DOMAIN mem /\ HL(l) \in DOMAIN mem
      /\ regs' = g /\ stack' = stack /\ mem' = [mem EXCEPT ![HL(l)] = f[F]]
      /\ at' = (IF w[Z] # 0 THEN "memcpy.loop" ELSE "memcpy.done")
      /\ calls' = calls /\ request' = request
  BY DEF MemcpyLoop, Stretch
<1>2. /\ at \in Inside("memcpy") /\ at' \in Inside("memcpy") /\ at # "memcpy"
      /\ at' # "memcpy"
      /\ at' \notin {"memset", "memcpy16"} /\ "memcpy" \in Routines
  BY <1>1, InsideIs DEF Routines
<1>3. AtMemcpyLoop
  BY <1>1, Here DEF Claims
<1>4. Only(h, regs, {H, L}) /\ HL(h) = WordIn(regs, CD) /\ h \in Files
  BY Zenon, Here, Members, LdaPairOnly, OnlyIsFile
<1> HIDE DEF h
<1>5. Only(f, h, {F}) /\ f[F] = mem[WordIn(regs, CD)] /\ f \in Files
  <2>1. mem[HL(h)] \in Byte
    BY <1>1, Here
  <2>2. Only(f, h, {F}) /\ f[F] = mem[HL(h)]
    BY <1>4, <2>1, Registers DEF Only, Files
  <2>3. QED BY <1>4, <2>2, OnlyIsFile
<1> HIDE DEF f
<1>6. Only(l, f, {H, L}) /\ HL(l) = WordIn(f, AB) /\ l \in Files
  BY Zenon, <1>5, Members, LdaPairOnly, OnlyIsFile
<1> HIDE DEF l
<1>7. Only(u, l, {A, B, F})
      /\ WordIn(u, AB) = ToWord(WordIn(l, AB) + 1) /\ u \in Files
  BY Zenon, <1>6, Members, CountedUp, OnlyIsFile
<1> HIDE DEF u
<1>8. Only(v, u, {C, D, F})
      /\ WordIn(v, CD) = ToWord(WordIn(u, CD) + 1) /\ v \in Files
  BY Zenon, <1>7, Members, CountedUp, OnlyIsFile
<1> HIDE DEF v
<1>9. Only(w, v, {Z, F}) /\ w[Z] = ToByte(v[Z] - 1) /\ w \in Files
  BY Zenon, <1>8, Members, DecOnly, OnlyIsFile
<1> HIDE DEF w
<1>10. Only(g, w, {H, L}) /\ g \in Files
  BY <1>9, Members, JnzOnly, OnlyIsFile
<1> HIDE DEF g
<1>11. /\ WordIn(f, AB) = WordIn(regs, AB)
       /\ WordIn(g, AB) = ToWord(WordIn(regs, AB) + 1)
       /\ WordIn(g, CD) = ToWord(WordIn(regs, CD) + 1)
       /\ g[Z] = ToByte(regs[Z] - 1) /\ w[Z] = g[Z]
  <2>1. /\ f[A] = regs[A] /\ f[B] = regs[B] /\ l[A] = regs[A] /\ l[B] = regs[B]
        /\ u[C] = regs[C] /\ u[D] = regs[D] /\ v[Z] = regs[Z]
        /\ g[A] = u[A] /\ g[B] = u[B] /\ g[C] = v[C] /\ g[D] = v[D] /\ g[Z] = w[Z]
    BY <1>4, <1>5, <1>6, <1>7, <1>8, <1>9, <1>10, Registers DEF Only
  <2>2. /\ WordIn(f, AB) = WordIn(regs, AB) /\ WordIn(l, AB) = WordIn(regs, AB)
        /\ WordIn(u, CD) = WordIn(regs, CD)
        /\ WordIn(g, AB) = WordIn(u, AB) /\ WordIn(g, CD) = WordIn(v, CD)
    BY <2>1, <1>5, <1>6, <1>7, <1>8, <1>10, Here, WordParts
  <2>3. QED BY <1>7, <1>8, <1>9, <2>1, <2>2
<1>12. /\ Asked(Z)' = Asked(Z) /\ Asked(D)' = Asked(D) /\ Asked(C)' = Asked(C)
       /\ Asked(B)' = Asked(B) /\ Asked(A)' = Asked(A)
  BY <1>1, <1>2, AskedKept
<1>13. AskedAB' = AskedAB /\ AskedCD' = AskedCD /\ Asking' = Asking
  BY <1>12, SameAsked
<1>14. stack' = Asking' \o Base'
  <2>1. stack = Asking \o Base
    BY <1>3 DEF AtMemcpyLoop
  <2>2. Base' = Base
    BY <1>1, EntryKept
  <2>3. QED BY <1>1, <1>13, <2>1, <2>2
<1>15. PICK n \in Word, i \in Byte :
          /\ MemcpyCalled(n) /\ Moved(n + i)
          /\ i < Asked(Z) /\ regs[Z] = Asked(Z) - i
          /\ WordIn(regs, AB) = ToWord(AskedAB + i)
          /\ WordIn(regs, CD) = ToWord(AskedCD + i)
  BY <1>3 DEF AtMemcpyLoop
<1>16. /\ Asked(Z) \in Byte /\ Asked(D) \in Byte /\ Asked(C) \in Byte
       /\ Asked(B) \in Byte /\ Asked(A) \in Byte
  BY <1>15 DEF MemcpyCalled, General
<1>17. AskedAB \in Word /\ AskedCD \in Word
  BY <1>16, PairIsWord DEF AskedAB, AskedCD
<1>18. /\ i \in Int /\ 0 <= i /\ Asked(Z) \in Int /\ Asked(Z) <= 255 /\ i + 1 \in Byte
       /\ n \in Int /\ 0 <= n /\ n + (i + 1) = (n + i) + 1
  <2>1. i \in Int /\ 0 <= i /\ Asked(Z) \in Int /\ Asked(Z) <= 255 /\ n \in Int
        /\ 0 <= n
    BY <1>16, ByteBounds, WordBounds
  <2>2. i + 1 \in Byte
    BY <1>15, <2>1, ByteBounds
  <2>3. QED BY <2>1, <2>2
<1> DEFINE x == HL(l)
           y == HL(h)
<1>19. /\ x = ToWord(AskedAB + i) /\ y = ToWord(AskedCD + i)
       /\ x \in DOMAIN Contents /\ y \in DOMAIN Contents
       /\ mem' = [mem EXCEPT ![x] = mem[y]]
  <2>1. DOMAIN mem = DOMAIN Contents
    BY Here
  <2>2. QED BY <1>1, <1>15, <1>4, <1>5, <1>6, <1>11, <2>1
<1> HIDE DEF x, y
<1>20. ASSUME calls = Direct, MayCopy
       PROVE  mem' = Shifted(WasCD, WasAB, n + (i + 1))
  <2>1. /\ n = 0 /\ Asked(Z) = Was(Z) /\ Asked(A) = Was(A) /\ Asked(B) = Was(B)
        /\ Asked(C) = Was(C) /\ Asked(D) = Was(D)
    BY <1>15, <1>20 DEF MemcpyCalled, General
  <2>2. AskedAB = WasAB /\ AskedCD = WasCD
    BY <2>1, Here, WordsAsked DEF AskedAB, AskedCD
  <2>3. mem = Shifted(WasCD, WasAB, n + i)
    BY <1>15, <1>20 DEF Moved
  <2>4. i \in 0 .. Was(Z) - 1
    BY <1>15, <1>18, <2>1
  <2>5. QED BY <1>19, <1>20, <2>1, <2>2, <2>3, <2>4, Here, WholeNext
<1>21. ASSUME calls # Direct, MayPiece
       PROVE  Rest' = Rest
              /\ Outside(mem') = Outside(Shifted(WasCD, WasAB, n + (i + 1)))
  <2>1. AskedAB = ToWord(WasAB + n) /\ AskedCD = ToWord(WasCD + n)
    BY <1>15, <1>21 DEF MemcpyCalled
  <2>2. x = ToWord(WasAB + (n + i)) /\ y = ToWord(WasCD + (n + i))
    BY <1>19, <2>1, Here, WordsAsked, AnotherSum
  <2>3. n + i \in 0 .. request.d0 - 1
    <3>1. \/ calls = Via("memcpy16.back") \/ calls = Via("memcpy16.done")
      BY <1>2, <1>21, Here, WhoCopies
    <3>2. \/ n + Rest = request.d0 /\ Asked(Z) = Rest
          \/ n + 255 + Rest = request.d0 /\ Asked(Z) = 255
      BY <1>15, <1>21, <3>1 DEF MemcpyCalled
    <3>3. Rest \in Int /\ 0 <= Rest
      <4>1. mem[D0] \in Byte /\ mem[D0 + 1] \in Byte
        BY Here, ScratchWord
      <4>2. QED BY <4>1, PairIsWord, WordBounds DEF Rest
    <3>4. i < Asked(Z) /\ request.d0 \in Int
      BY <1>15, Here, WordsAsked
    <3>5. QED BY <1>18, <3>2, <3>3, <3>4
  <2>4. Pieced(n + i)
    BY <1>15, <1>21 DEF Moved
  <2> DEFINE k == n + i
             m == mem
             e == mem'
  <2>5. /\ k \in 0 .. request.d0 - 1 /\ Outside(m) = Outside(Shifted(WasCD, WasAB, k))
        /\ x = ToWord(WasAB + k) /\ y = ToWord(WasCD + k) /\ request \in Requests
    BY <2>2, <2>3, <2>4, Here DEF Pieced
  <2>6. e[x] = m[y] /\ \A a \in DOMAIN Contents \ {x} : e[a] = m[a]
    BY <1>19, Here
  <2> HIDE DEF k, m, e
  <2>7. /\ x \notin {D0, D0 + 1}
        /\ Outside(e) = Outside(Shifted(WasCD, WasAB, k + 1))
    BY <1>19, <1>21, <2>5, <2>6, PieceNext
  <2>8. mem'[D0] = mem[D0] /\ mem'[D0 + 1] = mem[D0 + 1]
    BY <1>19, <2>7, Here, ScratchWord
  <2>9. k + 1 = n + (i + 1)
    BY <1>18 DEF k
  <2>10. QED BY <1>19, <2>7, <2>8, <2>9 DEF Rest, e
<1>22. Moved(n + (i + 1))'
  BY Zenon, <1>1, <1>20, <1>21, MovedThere
<1>23. MemcpyCalled(n)'
  <2>1. calls # Direct /\ MayPiece => Rest' = Rest
    BY <1>21
  <2>2. QED BY <1>1, <1>15, <1>12, <2>1, CalledKept
<1>24. LibShape' /\ Unwritten'
  <2>1. mem[y] \in Byte
    BY <1>19, Here
  <2>2. mem' \in [DOMAIN Contents -> Byte]
    BY <1>19, <2>1, Here
  <2>3. regs' \in Files
    BY <1>1, <1>10
  <2>4. LibShape'
    BY <1>1, <1>2, <2>2, <2>3, Here, ShapeKeeps
  <2>5. QED BY <1>1, <1>2, <2>4, Here, CopyUnwritten
<1>25. /\ regs'[Z] = Asked(Z) - (i + 1)
       /\ WordIn(regs', AB) = ToWord(AskedAB + (i + 1))
       /\ WordIn(regs', CD) = ToWord(AskedCD + (i + 1))
  <2>1. regs[Z] # 0 /\ regs[Z] \in Byte
    BY <1>15, <1>18, Here
  <2>2. ToByte(regs[Z] - 1) = regs[Z] - 1
    BY <2>1, CountedDown
  <2>3. regs[Z] - 1 = Asked(Z) - (i + 1)
    BY <1>15, <1>18
  <2>4. ToWord(ToWord(AskedAB + i) + 1) = ToWord(AskedAB + (i + 1))
    BY <1>17, NextOf
  <2>5. ToWord(ToWord(AskedCD + i) + 1) = ToWord(AskedCD + (i + 1))
    BY <1>17, NextOf
  <2>6. QED BY <1>1, <1>15, <1>11, <2>2, <2>3, <2>4, <2>5
<1>26. CASE w[Z] = 0
  <2>1. at' = "memcpy.done" /\ i + 1 = Asked(Z)
    BY <1>1, <1>26, <1>25, <1>11, <1>18
  <2>2. AtMemcpyDone'
    BY <1>18, <1>14, <1>23, <1>22, <1>12, <2>1 DEF AtMemcpyDone
  <2>3. QED BY <1>24, <2>1, <2>2, ClaimThere DEF LibInv
<1>27. CASE w[Z] # 0
  <2>1. at' = "memcpy.loop" /\ i + 1 < Asked(Z)
    BY <1>1, <1>27, <1>25, <1>11, <1>18, <1>15
  <2>2. AtMemcpyLoop'
    BY <1>18, <1>14, <1>23, <1>22, <1>12, <1>13, <1>25, <2>1 DEF AtMemcpyLoop
  <2>3. QED BY <1>24, <2>1, <2>2, ClaimThere DEF LibInv
<1>28. QED BY <1>26, <1>27

LEMMA MemcpyDoneKeeps == LibInv /\ MemcpyDone => LibInv'
<1> SUFFICES ASSUME LibInv, MemcpyDone PROVE LibInv'
  OBVIOUS
<1>1. at = "memcpy.done" /\ Leave("memcpy.done", regs, Reverse(All))
  BY DEF MemcpyDone, Leave
<1>2. at \in Inside("memcpy") /\ "memcpy" \in Routines /\ "memcpy" # "set_pixel"
  BY <1>1, InsideIs DEF Routines
<1>3. AtMemcpyDone
  BY <1>1, Here DEF Claims
<1>4. stack = Asking \o Base /\ Base \in Seq(Byte)
  BY <1>2, <1>3, Here, WhoCopies DEF AtMemcpyDone
<1>5. PICK n \in Word, i \in Byte : MemcpyCalled(n) /\ i = Asked(Z) /\ Moved(n + i)
  BY <1>3 DEF AtMemcpyDone
<1>6. /\ Asked(Z) \in Byte /\ Asked(D) \in Byte /\ Asked(C) \in Byte
      /\ Asked(B) \in Byte /\ Asked(A) \in Byte
  BY <1>5 DEF MemcpyCalled, General
<1> DEFINE z == Asked(Z)
           d == Asked(D)
           c == Asked(C)
           b == Asked(B)
           a == Asked(A)
           base == Base
<1>7. AllLeft(z, d, c, b, a, base)
  <2>1. stack = <<z, d, c, b, a>> \o base /\ base \in Seq(Byte) /\ regs \in Files
    BY <1>4, Here DEF Asking
  <2>2. z \in Byte /\ d \in Byte /\ c \in Byte /\ b \in Byte /\ a \in Byte
    BY <1>6
  <2> HIDE DEF z, d, c, b, a, base
  <2>3. QED BY Zenon, <1>1, <2>1, <2>2, LeaveAll
<1>8. /\ mem' = mem /\ request' = request /\ at' = Head(calls) /\ calls' = Tail(calls)
      /\ stack' = Base /\ regs' \in Files
      /\ regs'[Z] = Asked(Z) /\ regs'[D] = Asked(D) /\ regs'[C] = Asked(C)
      /\ regs'[B] = Asked(B) /\ regs'[A] = Asked(A)
  BY <1>7 DEF AllLeft
<1> HIDE DEF z, d, c, b, a, base
<1>9. /\ LibShape' /\ Unwritten'
      /\ calls = Direct => at' = "program" /\ calls' = << >>
      /\ calls # Direct => \E r \in Backs : /\ calls = Via(r) /\ Called(r) = "memcpy"
                                            /\ at' = r /\ calls' = Direct
                                            /\ r \in Inside(request.routine)
  BY <1>2, <1>8, Here, ReturnKeeps
<1>10. /\ WasAB' = WasAB /\ WasCD' = WasCD /\ SavedAll' = SavedAll
       /\ MayPiece' = MayPiece
       /\ MayCopy' = MayCopy /\ Rest' = Rest /\ Was(Z)' = Was(Z)
  BY <1>8, RequestKept, ShiftedThere DEF Rest
<1>11. CASE calls = Direct
  <2>1. /\ n = 0 /\ \A r \in General : Asked(r) = Was(r)
    BY <1>5, <1>11 DEF MemcpyCalled
  <2>2. \A r \in General : regs'[r] = Was(r)
    BY <1>8, <2>1 DEF General
  <2>3. request.routine = "memcpy" /\ Base = << >>
    BY <1>11, <1>2, Here, WhoCopies, EntryIs
  <2>4. Returning("memcpy") /\ at' = "program"
    BY <1>11, <1>8, <1>9, <2>3 DEF Returning
  <2>5. ProductsRight' /\ OrderRight'
    BY <1>8, <2>3, NoOrder, NoProduct
  <2>6. MemoryRight'
    <3>1. MayCopy => mem = Shifted(WasCD, WasAB, n + i)
      BY <1>5, <1>11 DEF Moved
    <3>2. n + i = Was(Z)
      BY <1>5, <2>1, BytesAreWords DEF General
    <3>3. (Shifted(WasCD, WasAB, Was(Z)))' = Shifted(WasCD, WasAB, Was(Z))
      <4>1. Start' = Start
        BY <1>8, RequestKept
      <4>2. QED BY <1>10, <4>1 DEF Shifted
    <3>4. MayCopy' => mem' = (Shifted(WasCD, WasAB, Was(Z)))'
      BY <1>8, <1>10, <3>1, <3>2, <3>3
    <3>5. request'.routine = "memcpy"
      BY <1>8, <2>3
    <3>6. QED BY <3>4, <3>5 DEF MemoryRight, Returned, MayCopy
  <2>7. QED BY <1>11, <2>2, <2>4, <2>5, <2>6, DirectlyEnds
<1>12. CASE calls # Direct
  <2>1. PICK r \in Backs : /\ calls = Via(r) /\ Called(r) = "memcpy" /\ at' = r /\ calls' = Direct
    BY <1>12, <1>9
  <2>2. r \in {"memcpy16.back", "memcpy16.done"}
    BY <2>1, BacksCall
  <2>3. stack' = SavedAll'
    <3>1. calls \in {Via("memcpy16.back"), Via("memcpy16.done")}
      BY <2>1, <2>2
    <3>2. QED BY <1>8, <1>10, <3>1, EntryIs
  <2>4. CASE r = "memcpy16.back"
    <3>1. ASSUME MayPiece
          PROVE  \E m \in Word : /\ m + 255 + Rest' = request'.d0
                                  /\ Reached(m)' /\ Pieced(m + 255)'
      <4>1. /\ AskedAB = ToWord(WasAB + n) /\ AskedCD = ToWord(WasCD + n)
            /\ n + 255 + Rest = request.d0 /\ Asked(Z) = 255
        BY <1>5, <1>12, <2>1, <2>4, <3>1 DEF MemcpyCalled
      <4>2. Outside(mem') = Outside(Shifted(WasCD, WasAB, n + 255))
        BY <1>8, <1>5, <1>12, <3>1, <4>1 DEF Moved, Pieced
      <4>3. Pieced(n + 255)'
        BY <1>8, <4>2, PiecedThere
      <4>4. Reached(n)'
        <5>1. WordIn(regs', AB) = Pair(regs'[B], regs'[A])
              /\ WordIn(regs', CD) = Pair(regs'[D], regs'[C])
          BY <1>8, WordParts
        <5>2. WordIn(regs', AB) = AskedAB /\ WordIn(regs', CD) = AskedCD
          BY <1>8, <5>1 DEF AskedAB, AskedCD
        <5>3. QED BY <1>10, <4>1, <5>2 DEF Reached
      <4>5. QED BY <1>8, <1>10, <4>1, <4>3, <4>4
    <3>2. AtMemcpy16Back'
      BY <1>10, <2>3, <3>1 DEF AtMemcpy16Back
    <3>3. QED BY <1>9, <2>1, <2>4, <3>2, ClaimThere DEF LibInv
  <2>5. CASE r = "memcpy16.done"
    <3>1. ASSUME MayPiece
          PROVE  Pieced(request.d0)'
      <4>1. n + Rest = request.d0 /\ Asked(Z) = Rest
        BY <1>5, <1>12, <2>1, <2>5, <3>1 DEF MemcpyCalled
      <4>2. n + i = request.d0
        BY <1>5, <4>1
      <4>3. Outside(mem') = Outside(Shifted(WasCD, WasAB, n + i))
        BY <1>8, <1>5, <1>12, <3>1 DEF Moved, Pieced
      <4>4. Outside(mem') = Outside(Shifted(WasCD, WasAB, request.d0))
        BY <4>2, <4>3
      <4>5. WasAB' = WasAB /\ WasCD' = WasCD /\ Start' = Start
            /\ request'.d0 = request.d0
        BY <1>8, RequestKept
      <4>6. QED BY <4>4, <4>5 DEF Pieced, Outside, Shifted
    <3>2. AtMemcpy16Done'
      BY <1>10, <2>3, <3>1 DEF AtMemcpy16Done
    <3>3. QED BY <1>9, <2>1, <2>5, <3>2, ClaimThere DEF LibInv
  <2>6. QED BY <2>2, <2>4, <2>5
<1>13. QED BY <1>11, <1>12

-----------------------------------------------------------------------------
(* memcpy16: a piece of 255 bytes as long as more than a byte of length is *)
(* left, and then the rest.                                                *)
LEMMA RestIs ==
  ASSUME mem \in [DOMAIN Contents -> Byte]
  PROVE  /\ mem[D0] \in Byte /\ mem[D0 + 1] \in Byte /\ Rest \in Word /\ Rest \in Int
         /\ Rest = mem[D0] + 256 * mem[D0 + 1]
<1>1. mem[D0] \in Byte /\ mem[D0 + 1] \in Byte
  BY ScratchWord
<1>2. Rest \in Word
  BY <1>1, PairIsWord DEF Rest
<1>3. QED BY <1>1, <1>2, WordBounds DEF Rest, Pair

LEMMA PiecedKept ==
  ASSUME request' = request, NEW k, Pieced(k),
         \A a \in DOMAIN Contents \ {D0, D0 + 1} : mem'[a] = mem[a]
  PROVE  Pieced(k)'
<1> DEFINE m == mem
           n == mem'
<1>1. \A a \in DOMAIN Contents \ {D0, D0 + 1} : n[a] = m[a]
  OBVIOUS
<1>2. Outside(m) = Outside(Shifted(WasCD, WasAB, k))
  BY DEF Pieced
<1> HIDE DEF m, n
<1>3. Outside(n) = Outside(m)
  BY <1>1, SameOutside
<1>4. Outside(mem') = Outside(Shifted(WasCD, WasAB, k))
  BY <1>2, <1>3 DEF n
<1>5. QED BY <1>4, PiecedThere

LEMMA Memcpy16Unwritten ==
  ASSUME request.routine = "memcpy16", request' = request,
         at' \notin {"memset", "memcpy16"}
  PROVE  Unwritten'
BY DEF Unwritten

(* memcpy is called with the registers as they are, but for the length.    *)
LEMMA PieceCalled ==
  ASSUME LibInv, at = "memcpy16.loop", calls = Direct, request.routine = "memcpy16",
         request' = request, stack' = stack, regs' \in Files, at' = "memcpy",
         calls' = Via("memcpy16.back") \/ calls' = Via("memcpy16.done"),
         regs'[A] = regs[A], regs'[B] = regs[B], regs'[C] = regs[C], regs'[D] = regs[D],
         \A a \in DOMAIN Contents \ {D0, D0 + 1} : mem'[a] = mem[a],
         calls' = Via("memcpy16.back") => Rest = Rest' + 255 /\ regs'[Z] = 255
         /\ Rest' \in Int,
         calls' = Via("memcpy16.done") => Rest = Rest' /\ regs'[Z] = Rest'
  PROVE  Claims'
<1>1. AtMemcpy16Loop
  BY Here DEF Claims
<1>2. /\ Asked(Z)' = regs'[Z] /\ Asked(D)' = regs'[D] /\ Asked(C)' = regs'[C]
      /\ Asked(B)' = regs'[B] /\ Asked(A)' = regs'[A]
  BY DEF Asked
<1>3. (\A d \in General : Asked(d) \in Byte)'
  <2>1. /\ regs'[A] \in Byte /\ regs'[B] \in Byte /\ regs'[C] \in Byte
        /\ regs'[D] \in Byte /\ regs'[Z] \in Byte
    BY RegistersAre DEF Files
  <2>2. QED BY <1>2, <2>1 DEF General
<1>4. AskedAB' = WordIn(regs, AB) /\ AskedCD' = WordIn(regs, CD)
  <2>1. WordIn(regs, AB) = Pair(regs[B], regs[A])
        /\ WordIn(regs, CD) = Pair(regs[D], regs[C])
    BY Here, WordParts
  <2>2. QED BY <1>2, <2>1 DEF AskedAB, AskedCD
<1>5. WasAB' = WasAB /\ WasCD' = WasCD /\ MayPiece' = MayPiece
  BY RequestKept, ShiftedThere
<1>6. calls' # Direct' /\ Via("memcpy16.back") # Via("memcpy16.done")
  BY CallsDiffer DEF Direct
<1>7. stack' = Base'
  <2>1. stack = SavedAll
    BY <1>1 DEF AtMemcpy16Loop
  <2>2. QED BY <2>1, EntryThere
<1>8. ASSUME MayPiece PROVE \E n \in Word : MemcpyCalled(n)' /\ Moved(n)'
  <2>1. PICK n \in Word : n + Rest = request.d0 /\ Reached(n) /\ Pieced(n)
    BY <1>1, <1>8 DEF AtMemcpy16Loop
  <2>2. AskedAB' = ToWord(WasAB + n) /\ AskedCD' = ToWord(WasCD + n)
    BY <2>1, <1>4 DEF Reached
  <2>3. calls' = Via("memcpy16.done") => n + Rest' = request'.d0 /\ Asked(Z)' = Rest'
    BY <2>1, <1>2
  <2>4. calls' = Via("memcpy16.back") => n + 255 + Rest' = request'.d0
        /\ Asked(Z)' = 255
    BY <2>1, <1>2, WordBounds
  <2>5. MemcpyCalled(n)'
    BY <2>2, <2>3, <2>4, <1>3, <1>5, <1>6 DEF MemcpyCalled, Direct, Via
  <2>6. Pieced(n)'
    BY <2>1, PiecedKept
  <2>7. QED BY <2>5, <2>6, <1>6 DEF Moved
<1>9. ASSUME ~MayPiece PROVE \E n \in Word : MemcpyCalled(n)' /\ Moved(n)'
  <2>1. MemcpyCalled(0)' /\ Moved(0)'
    BY <1>9, <1>5, <1>6, <1>3 DEF MemcpyCalled, Moved
  <2>2. 0 \in Word
    BY WordBounds
  <2>3. QED BY <2>1, <2>2
<1>10. AtMemcpy'
  BY <1>7, <1>8, <1>9 DEF AtMemcpy
<1>11. QED BY <1>10, ClaimThere

LEMMA Memcpy16Keeps == LibInv /\ Memcpy16 => LibInv'
<1> SUFFICES ASSUME LibInv, Memcpy16 PROVE LibInv'
  OBVIOUS
<1>1. /\ at = "memcpy16" /\ regs' = regs /\ stack' = pushed(regs, stack, All)
      /\ mem' = mem /\ at' = "memcpy16.loop" /\ calls' = calls /\ request' = request
  BY DEF Memcpy16, Save, Stretch
<1>2. /\ at \in Inside("memcpy16") /\ at' \in Inside("memcpy16") \ {"memcpy16"}
      /\ at # "set_pixel.done"
      /\ "memcpy16" \in Routines
  BY <1>1, InsideIs DEF Routines
<1>3. calls = Direct /\ request.routine = "memcpy16" /\ mem = Start
  <2>1. calls = Direct /\ request.routine = "memcpy16"
    BY <1>2, Here, OnlyDirect DEF Routines
  <2>2. QED BY <1>1, <2>1, Here DEF Unwritten
<1>4. /\ Fresh /\ regs[A] = Was(A) /\ regs[B] = Was(B) /\ regs[C] = Was(C)
      /\ regs[D] = Was(D)
  BY <1>1, <1>3, Here, ClaimHere, EntryIs DEF Fresh, AsEntered, General
<1>5. regs' \in Files
  BY <1>1, Here
<1>6. LibShape' /\ Unwritten'
  BY <1>1, <1>2, <1>5, Here, StretchKeeps
<1>7. WasAB' = WasAB /\ WasCD' = WasCD /\ SavedAll' = SavedAll /\ MayPiece' = MayPiece
  BY <1>1, RequestKept, ShiftedThere
<1>8. 0 + Rest' = request'.d0
  <2>1. Rest = request.d0 /\ Rest \in Int
    BY <1>3, Here, StartIs, RestIs DEF Rest
  <2>2. Rest' = Rest
    BY <1>1 DEF Rest
  <2>3. QED BY <1>1, <2>1, <2>2
<1>9. Reached(0)'
  <2>1. WordIn(regs, AB) = WasAB /\ WordIn(regs, CD) = WasCD
    BY <1>4, Here, WordParts, WordsAsked
  <2>2. /\ WasAB + 0 = WasAB /\ ToWord(WasAB) = WasAB /\ WasCD + 0 = WasCD
        /\ ToWord(WasCD) = WasCD
    BY Here, WordsAsked
  <2>3. QED BY <1>1, <1>7, <2>1, <2>2 DEF Reached
<1>10. Pieced(0)'
  <2>1. mem' = Shifted(WasCD, WasAB, 0)
    BY <1>1, <1>3, Here, ShiftedNone
  <2>2. Outside(mem') = Outside(Shifted(WasCD, WasAB, 0))
    BY <2>1
  <2>3. QED BY <1>1, <2>2, PiecedThere
<1>11. AtMemcpy16Loop'
  <2>1. stack' = SavedAll'
    BY <1>1, <1>4, <1>3, <1>7, AllSaved
  <2>2. 0 \in Word
    BY WordBounds
  <2>3. QED BY <1>8, <1>9, <1>10, <2>1, <2>2 DEF AtMemcpy16Loop
<1>12. QED BY <1>1, <1>6, <1>11, ClaimThere DEF LibInv

LEMMA Memcpy16LoopKeeps == LibInv /\ Memcpy16Loop => LibInv'
<1> SUFFICES ASSUME LibInv, Memcpy16Loop PROVE LibInv'
  OBVIOUS
<1> DEFINE r == [regs EXCEPT ![A] = mem[D0 + 1]]
           t == jz(r, A)
           b == [t EXCEPT ![B] = mem[D0]]
           c == mw(b, Z, Imm(255))
           s == sub16(clb(c), AB, Imm(0), Imm(255))
           p == [s EXCEPT ![A] = regs[A], ![B] = regs[B]]
           q == [t EXCEPT ![A] = regs[A], ![Z] = mem[D0]]
           g == jumped(p)
           h == jumped(q)
<1>1. /\ at = "memcpy16.loop" /\ stack' = stack /\ at' = "memcpy" /\ request' = request
      /\ r[A] # 0 => /\ regs' = g /\ mem' = [mem EXCEPT ![D0] = s[B], ![D0 + 1] = s[A]]
                     /\ calls' = <<"memcpy16.back">> \o calls
      /\ r[A] = 0 => regs' = h /\ mem' = mem /\ calls' = <<"memcpy16.done">> \o calls
  BY DEF Memcpy16Loop, Call
<1>2. at \in Inside("memcpy16") /\ "memcpy16" \in Routines
      /\ {"memcpy16.back", "memcpy16.done"} \subseteq Backs
  BY <1>1, InsideIs DEF Routines, Backs
<1>3. calls = Direct /\ request.routine = "memcpy16"
  BY <1>2, Here, OnlyDirect DEF Routines
<1>4. /\ mem[D0] \in Byte /\ mem[D0 + 1] \in Byte /\ Rest \in Word /\ Rest \in Int
      /\ Rest = mem[D0] + 256 * mem[D0 + 1]
  BY Here, RestIs
<1>5. Only(r, regs, {A}) /\ r[A] = mem[D0 + 1] /\ r \in Files
  BY <1>4, Here, Registers DEF Only, Files
<1> HIDE DEF r
<1>6. Only(t, r, {F, H, L}) /\ t \in Files
  BY Zenon, <1>5, Members, JzOnly, OnlyIsFile
<1> HIDE DEF t
<1>7. Unwritten'
  BY <1>1, <1>3, Memcpy16Unwritten
<1>8. CASE r[A] # 0
  <2>1. Only(b, t, {B}) /\ b[B] = mem[D0] /\ b \in Files
    BY <1>6, <1>4, Registers DEF Only, Files
  <2> HIDE DEF b
  <2>2. Only(c, b, {Z}) /\ c[Z] = 255 /\ c \in Files
    BY <2>1, Members, MwImm
  <2> HIDE DEF c
  <2>3. Only(s, c, {A, B, F}) /\ WordIn(s, AB) = ToWord(WordIn(c, AB) - 255)
        /\ s \in Files
    <3>1. c \in Files /\ 255 \in Byte
      BY <2>2, Members
    <3>2. Only(s, c, {A, B, F}) /\ WordIn(s, AB) = ToWord(WordIn(c, AB) - 255)
      BY <3>1, Sub16Only
    <3>3. QED BY <3>2, OnlyIsFile
  <2> HIDE DEF s
  <2>4. Only(p, s, {A, B}) /\ p[A] = regs[A] /\ p[B] = regs[B] /\ p \in Files
    BY <2>3, Here, Registers DEF Only, Files
  <2> HIDE DEF p
  <2>5. Only(g, p, {H, L}) /\ g \in Files
    BY <2>4, Members, JumpedOnly, OnlyIsFile
  <2> HIDE DEF g
  <2>6. /\ g[A] = regs[A] /\ g[B] = regs[B] /\ g[C] = regs[C] /\ g[D] = regs[D]
        /\ g[Z] = 255
        /\ c[A] = mem[D0 + 1] /\ c[B] = mem[D0]
    BY <1>5, <1>6, <2>1, <2>2, <2>3, <2>4, <2>5, Registers DEF Only
  <2>7. WordIn(s, AB) = Rest - 255
    <3>1. WordIn(c, AB) = Rest
      BY <2>2, <2>6, WordParts DEF Rest
    <3>2. mem[D0 + 1] # 0 /\ mem[D0] \in Int /\ 0 <= mem[D0]
          /\ mem[D0 + 1] \in Int /\ 0 <= mem[D0 + 1]
      BY <1>8, <1>5, <1>4, ByteBounds
    <3>3. Rest - 255 \in Word
      <4>1. 0 <= Rest - 255 /\ Rest - 255 <= 65535 /\ Rest - 255 \in Int
        BY <3>2, <1>4, WordBounds
      <4>2. QED BY <4>1, WordBounds
    <3>4. QED BY <3>1, <3>3, <2>3, SmallResidues
  <2>8. /\ regs' = g /\ mem' = [mem EXCEPT ![D0] = s[B], ![D0 + 1] = s[A]]
        /\ calls' = <<"memcpy16.back">> \o calls
    BY <1>1, <1>8
  <2>9. s[A] \in Byte /\ s[B] \in Byte /\ WordIn(s, AB) = Pair(s[B], s[A])
    BY <2>3, Members, WordParts DEF Files
  <2>10. /\ mem' \in [DOMAIN Contents -> Byte] /\ mem'[D0] = s[B] /\ mem'[D0 + 1] = s[A]
          /\ \A a \in DOMAIN Contents \ {D0, D0 + 1} : mem'[a] = mem[a]
    <3> DEFINE m == mem
    <3>1. m \in [DOMAIN Contents -> Byte] /\ D0 \in DOMAIN Contents
          /\ D0 + 1 \in DOMAIN Contents
          /\ D0 # D0 + 1 /\ mem' = [m EXCEPT ![D0] = s[B], ![D0 + 1] = s[A]]
      BY <2>8, Here, ScratchWord
    <3> HIDE DEF m
    <3>2. mem' \in [DOMAIN Contents -> Byte]
      BY <2>9, <3>1
    <3>3. mem'[D0] = s[B] /\ mem'[D0 + 1] = s[A]
      BY <3>1
    <3>4. \A a \in DOMAIN Contents \ {D0, D0 + 1} : mem'[a] = m[a]
      BY <3>1
    <3>5. QED BY <3>2, <3>3, <3>4 DEF m
  <2>11. Rest = Rest' + 255 /\ Rest' \in Int
    <3>1. Rest' = Rest - 255
      BY <2>7, <2>9, <2>10 DEF Rest
    <3>2. QED BY <3>1, <1>4
  <2>12. LibShape' /\ calls' = Via("memcpy16.back")
    <3>1. "memcpy16.back" \in Inside(request.routine) /\ at' = Called("memcpy16.back")
      BY <1>1, <1>3, InsideIs, CalledIs
    <3>2. QED BY Zenon, <1>1, <1>2, <1>3, <2>5, <2>8, <2>10, <3>1, Here, CallKeeps
  <2>13. Via("memcpy16.back") # Via("memcpy16.done")
    BY CallsDiffer
  <2>14. Claims'
    BY Zenon, <1>1, <1>3, <2>5, <2>6, <2>8, <2>10, <2>11, <2>12, <2>13, PieceCalled
  <2>15. QED BY <1>7, <2>12, <2>14 DEF LibInv
<1>9. CASE r[A] = 0
  <2>1. Only(q, t, {A, Z}) /\ q[A] = regs[A] /\ q[Z] = mem[D0] /\ q \in Files
    BY <1>6, <1>4, Here, Registers DEF Only, Files
  <2> HIDE DEF q
  <2>2. Only(h, q, {H, L}) /\ h \in Files
    BY <2>1, Members, JumpedOnly, OnlyIsFile
  <2> HIDE DEF h
  <2>3. h[A] = regs[A] /\ h[B] = regs[B] /\ h[C] = regs[C] /\ h[D] = regs[D]
        /\ h[Z] = mem[D0]
    BY <1>5, <1>6, <2>1, <2>2, Registers DEF Only
  <2>4. regs' = h /\ mem' = mem /\ calls' = <<"memcpy16.done">> \o calls
    BY <1>1, <1>9
  <2>5. Rest = Rest' /\ regs'[Z] = Rest'
    <3>1. mem[D0 + 1] = 0 /\ mem[D0] \in Int
      BY <1>9, <1>5, <1>4, ByteBounds
    <3>2. Rest = mem[D0]
      BY <3>1, <1>4
    <3>3. Rest' = Rest
      BY <2>4 DEF Rest
    <3>4. QED BY <2>3, <2>4, <3>2, <3>3
  <2>6. LibShape' /\ calls' = Via("memcpy16.done")
    <3>1. "memcpy16.done" \in Inside(request.routine) /\ at' = Called("memcpy16.done")
      BY <1>1, <1>3, InsideIs, CalledIs
    <3>2. mem' \in [DOMAIN Contents -> Byte]
      BY <2>4, Here
    <3>3. QED BY <1>1, <1>2, <1>3, <2>2, <2>4, <3>1, <3>2, Here, CallKeeps
  <2>7. Via("memcpy16.back") # Via("memcpy16.done")
    BY CallsDiffer
  <2>8. Claims'
    BY <1>1, <1>3, <2>2, <2>3, <2>4, <2>5, <2>6, <2>7, PieceCalled
  <2>9. QED BY <1>7, <2>6, <2>8 DEF LibInv
<1>10. QED BY <1>8, <1>9

LEMMA Memcpy16BackKeeps == LibInv /\ Memcpy16Back => LibInv'
<1> SUFFICES ASSUME LibInv, Memcpy16Back PROVE LibInv'
  OBVIOUS
<1> DEFINE u == add16(regs, AB, Imm(0), Imm(255))
           v == add16(u, CD, Imm(0), Imm(255))
           g == jumped(v)
<1>1. /\ at = "memcpy16.back" /\ regs' = g /\ stack' = stack /\ mem' = mem
      /\ at' = "memcpy16.loop" /\ calls' = calls /\ request' = request
  BY DEF Memcpy16Back, Run, Stretch
<1>2. /\ at \in Inside("memcpy16") /\ at' \in Inside("memcpy16") \ {"memcpy16"}
      /\ at # "set_pixel.done"
      /\ "memcpy16" \in Routines
  BY <1>1, InsideIs DEF Routines
<1>3. request.routine = "memcpy16"
  BY <1>2, Here, OnlyDirect DEF Routines
<1>4. AtMemcpy16Back
  BY <1>1, Here DEF Claims
<1>5. regs \in Files /\ 255 \in Byte
  BY Here, Members
<1>6. Only(u, regs, {A, B, F})
      /\ WordIn(u, AB) = ToWord(WordIn(regs, AB) + 255) /\ u \in Files
  <2>1. Only(u, regs, {A, B, F}) /\ WordIn(u, AB) = ToWord(WordIn(regs, AB) + 255)
    BY <1>5, CountedUp
  <2>2. QED BY <2>1, OnlyIsFile
<1> HIDE DEF u
<1>7. Only(v, u, {C, D, F}) /\ WordIn(v, CD) = ToWord(WordIn(u, CD) + 255)
      /\ v \in Files
  <2>1. Only(v, u, {C, D, F}) /\ WordIn(v, CD) = ToWord(WordIn(u, CD) + 255)
    BY <1>5, <1>6, CountedUp
  <2>2. QED BY <1>6, <2>1, OnlyIsFile
<1> HIDE DEF v
<1>8. Only(g, v, {H, L}) /\ g \in Files
  BY <1>7, Members, JumpedOnly, OnlyIsFile
<1> HIDE DEF g
<1>9. LibShape' /\ Unwritten'
  BY <1>1, <1>2, <1>8, Here, StretchKeeps
<1>10. /\ WordIn(regs', AB) = ToWord(WordIn(regs, AB) + 255)
       /\ WordIn(regs', CD) = ToWord(WordIn(regs, CD) + 255)
  <2>1. /\ u[C] = regs[C] /\ u[D] = regs[D] /\ g[A] = u[A] /\ g[B] = u[B]
        /\ g[C] = v[C] /\ g[D] = v[D]
    BY <1>6, <1>7, <1>8, Registers DEF Only
  <2>2. /\ WordIn(u, CD) = WordIn(regs, CD) /\ WordIn(g, AB) = WordIn(u, AB)
        /\ WordIn(g, CD) = WordIn(v, CD)
    BY <2>1, <1>6, <1>7, <1>8, Here, WordParts
  <2>3. QED BY <1>1, <1>6, <1>7, <2>2
<1>11. WasAB' = WasAB /\ WasCD' = WasCD /\ SavedAll' = SavedAll
       /\ MayPiece' = MayPiece /\ Rest' = Rest
  BY <1>1, RequestKept, ShiftedThere DEF Rest
<1>12. ASSUME MayPiece
       PROVE  \E k \in Word : k + Rest' = request'.d0 /\ Reached(k)' /\ Pieced(k)'
  <2>1. PICK n \in Word : n + 255 + Rest = request.d0 /\ Reached(n) /\ Pieced(n + 255)
    BY <1>4, <1>12 DEF AtMemcpy16Back
  <2>2. n + 255 \in Word
    <3>1. Rest \in Int /\ 0 <= Rest /\ request.d0 \in Word
      <4>1. Rest \in Word /\ request.d0 \in Word
        BY Here, RestIs, WordsAsked
      <4>2. QED BY <4>1, WordBounds
    <3>2. request.d0 \in Int /\ request.d0 <= 65535 /\ n \in Int /\ 0 <= n
      BY <3>1, WordBounds
    <3>3. n + 255 \in Int /\ 0 <= n + 255 /\ n + 255 <= 65535
      BY <2>1, <3>1, <3>2
    <3>4. QED BY <3>3, WordBounds
  <2>3. /\ WordIn(regs', AB) = ToWord(WasAB + (n + 255))
        /\ WordIn(regs', CD) = ToWord(WasCD + (n + 255))
    <3>1. 255 \in Byte /\ WasAB \in Word /\ WasCD \in Word
      BY Here, WordsAsked, Members
    <3>2. /\ ToWord(ToWord(WasAB + n) + 255) = ToWord(WasAB + (n + 255))
          /\ ToWord(ToWord(WasCD + n) + 255) = ToWord(WasCD + (n + 255))
      BY <3>1, AnotherSum
    <3>3. QED BY <1>10, <2>1, <3>2 DEF Reached
  <2>4. Reached(n + 255)'
    BY <1>11, <2>3 DEF Reached
  <2>5. Pieced(n + 255)'
    BY <1>1, <2>1, PiecedKept
  <2>6. QED BY <1>1, <1>11, <2>1, <2>2, <2>4, <2>5
<1>13. AtMemcpy16Loop'
  <2>1. stack' = SavedAll'
    BY <1>1, <1>4, <1>11 DEF AtMemcpy16Back
  <2>2. QED BY <1>11, <1>12, <2>1 DEF AtMemcpy16Loop
<1>14. QED BY <1>1, <1>9, <1>13, ClaimThere DEF LibInv

LEMMA Memcpy16DoneKeeps == LibInv /\ Memcpy16Done => LibInv'
<1> SUFFICES ASSUME LibInv, Memcpy16Done PROVE LibInv'
  OBVIOUS
<1>1. at = "memcpy16.done" /\ Leave("memcpy16.done", regs, Reverse(All))
  BY DEF Memcpy16Done, Leave
<1>2. "memcpy16" \in Routines /\ at \in Inside("memcpy16")
  BY <1>1, InsideIs DEF Routines
<1>3. calls = Direct /\ request.routine = "memcpy16"
  BY <1>2, Here, OnlyDirect DEF Routines
<1>4. AtMemcpy16Done
  BY <1>1, Here DEF Claims
<1>5. stack = SavedAll
  BY <1>4 DEF AtMemcpy16Done
<1>6. Returning("memcpy16") /\ \A d \in General : regs'[d] = Was(d)
  BY <1>1, <1>2, <1>3, <1>5, AllRestored
<1>7. request' = request /\ mem' = mem /\ at' = "program"
  BY <1>3, <1>6 DEF Returning
<1>8. ProductsRight' /\ OrderRight'
  BY <1>7, <1>3, NoOrder, NoProduct
<1>9. MemoryRight'
  <2>1. MayPiece => Outside(mem) = Outside(Shifted(WasCD, WasAB, request.d0))
    BY <1>4 DEF AtMemcpy16Done, Pieced
  <2>2. WasAB' = WasAB /\ WasCD' = WasCD /\ Start' = Start /\ request'.d0 = request.d0
    BY <1>7, RequestKept
  <2>3. MayPiece' => (Outside(mem) = Outside(Shifted(WasCD, WasAB, request.d0)))'
    <3>1. MayPiece' = MayPiece
      BY <1>7, ShiftedThere
    <3>2. QED BY <1>7, <2>1, <2>2, <3>1 DEF Outside, Shifted
  <2>4. request'.routine = "memcpy16"
    BY <1>7, <1>3
  <2>5. QED BY <2>3, <2>4 DEF MemoryRight, Returned, MayPiece
<1>10. QED BY <1>3, <1>6, <1>8, <1>9, DirectlyEnds

-----------------------------------------------------------------------------
(* The library from its call on.                                           *)
LEMMA ClaimStarts ==
  ASSUME at \in Routines
  PROVE  /\ at # "memcpy" /\ Fresh => Claims
         /\ at = "memcpy" /\ AtMemcpy => Claims
BY DEF Claims, Routines

LEMMA StartsIn == \A q \in Routines : q \in Inside(q)
BY DEF Inside

LEMMA LibStarts == LibInit => LibInv
<1> SUFFICES ASSUME LibInit PROVE LibInv
  OBVIOUS
<1>1. /\ request \in Requests /\ regs = request.regs /\ mem = Start /\ stack = << >>
      /\ at = request.routine /\ calls = Direct
  BY DEF LibInit, Direct
<1>2. /\ request.routine \in Routines /\ regs \in Files
      /\ mem \in [DOMAIN Contents -> Byte]
  BY <1>1, RoutineAsked, StartIs
<1>3. LibShape
  <2>1. at \in Inside(request.routine)
    BY <1>1, <1>2, StartsIn
  <2>2. QED BY <1>1, <1>2, <2>1 DEF LibShape, Calling, Files
<1>4. Base = << >> /\ \A d : Entry(d) = Was(d) /\ regs[d] = Was(d)
  BY <1>1, EntryIs DEF Was
<1>5. Claims
  <2>1. CASE at # "memcpy"
    <3>1. Fresh
      BY <1>1, <1>4 DEF Fresh, AsEntered
    <3>2. QED BY <1>1, <1>2, <2>1, <3>1, ClaimStarts
  <2>2. CASE at = "memcpy"
    <3>1. \A d \in General : Asked(d) = Was(d) /\ Asked(d) \in Byte
      <4>1. \A d \in General : Asked(d) = Was(d)
        BY <1>4, <2>2 DEF Asked
      <4>2. \A d \in General : Was(d) \in Byte
        BY <1>1, RoutineAsked, RegistersAre DEF General
      <4>3. QED BY <4>1, <4>2
    <3>2. MemcpyCalled(0)
      BY <1>1, <3>1 DEF MemcpyCalled
    <3>3. Moved(0)
      BY <1>1, ShiftedNone DEF Moved
    <3>4. 0 \in Word
      BY WordBounds
    <3>5. AtMemcpy
      BY <1>1, <1>4, <3>2, <3>3, <3>4 DEF AtMemcpy
    <3>6. QED BY <1>1, <1>2, <2>2, <3>5, ClaimStarts
  <2>3. QED BY <2>1, <2>2
<1>6. QED BY <1>1, <1>3, <1>5 DEF LibInv, Unwritten

(* Steps that change nothing.                                              *)
LEMMA SameRequest ==
  ASSUME UNCHANGED libVars
  PROVE  /\ regs' = regs /\ mem' = mem /\ stack' = stack /\ at' = at
         /\ calls' = calls /\ request' = request
         /\ \A d : Was(d)' = Was(d) /\ Entry(d)' = Entry(d) /\ Asked(d)' = Asked(d)
         /\ WasAB' = WasAB /\ WasCD' = WasCD /\ SavedAll' = SavedAll /\ Base' = Base
         /\ HighFlags' = HighFlags /\ LowFlags' = LowFlags /\ ScanLine' = ScanLine
         /\ Dot' = Dot /\ Mask' = Mask /\ Start' = Start /\ Rest' = Rest
<1>1. /\ regs' = regs /\ mem' = mem /\ stack' = stack /\ at' = at
      /\ calls' = calls /\ request' = request
  BY DEF libVars
<1>2. Rest' = Rest /\ \A d : Asked(d)' = Asked(d)
  BY <1>1 DEF Rest, Asked
<1>3. QED BY <1>1, <1>2, RequestKept, EntryKept

LEMMA SamePieces ==
  ASSUME UNCHANGED libVars
  PROVE  /\ MayPiece' = MayPiece /\ MayCopy' = MayCopy
         /\ \A n : /\ Pieced(n)' = Pieced(n) /\ Reached(n)' = Reached(n)
                  /\ Moved(n)' = Moved(n) /\ MemcpyCalled(n)' = MemcpyCalled(n)
<1>1. MayPiece' = MayPiece /\ MayCopy' = MayCopy
  BY SameRequest DEF MayPiece, MayCopy
<1>2. \A n : Pieced(n)' = Pieced(n)
  BY SameRequest DEF Pieced, Outside, Shifted
<1>3. \A n : Reached(n)' = Reached(n)
  BY SameRequest DEF Reached
<1>4. \A n : Moved(n)' = Moved(n)
  BY <1>1, <1>2, SameRequest DEF Moved, Direct, Shifted
<1>5. \A n : MemcpyCalled(n)' = MemcpyCalled(n)
  BY <1>1, SameRequest DEF MemcpyCalled, Direct, Via, AskedAB, AskedCD
<1>6. QED BY <1>1, <1>2, <1>3, <1>4, <1>5

LEMMA LibStutters == LibInv /\ UNCHANGED libVars => LibInv'
<1> SUFFICES ASSUME LibInv, UNCHANGED libVars PROVE LibInv'
  OBVIOUS
<1>1. /\ regs' = regs /\ mem' = mem /\ stack' = stack /\ at' = at
      /\ calls' = calls /\ request' = request
  BY SameRequest
<1>2. LibShape'
  BY <1>1 DEF LibInv, LibShape, Calling
<1>3. Unwritten'
  BY <1>1, SameRequest DEF LibInv, Unwritten, Outside
<1>4. Fresh => Fresh'
  BY <1>1, SameRequest DEF Fresh, AsEntered
<1>5. AtMulLoop => AtMulLoop'
  BY <1>1, SameRequest DEF AtMulLoop, AsEntered
<1>6. AtMulDone => AtMulDone'
  BY <1>1, SameRequest DEF AtMulDone, AsEntered
<1>7. AtMul16by8Loop => AtMul16by8Loop'
  BY <1>1, SameRequest DEF AtMul16by8Loop, Factor
<1>8. AtMul16by8Done => AtMul16by8Done'
  BY <1>1, SameRequest DEF AtMul16by8Done, Factor
<1>9. AtMul16Loop => AtMul16Loop'
  BY <1>1, SameRequest DEF AtMul16Loop
<1>10. AtMul16Done => AtMul16Done'
  BY <1>1, SameRequest DEF AtMul16Done
<1>11. AtCmp16Back => AtCmp16Back'
  BY <1>1, SameRequest DEF AtCmp16Back
<1>12. AtShlShift => AtShlShift'
  BY <1>1, SameRequest DEF AtShlShift, AsEntered
<1>13. AtShlDone => AtShlDone'
  BY <1>1, SameRequest DEF AtShlDone, AsEntered
<1>14. AtShl16Shift => AtShl16Shift'
  BY <1>1, SameRequest DEF AtShl16Shift, AsEntered
<1>15. AtShl16Done => AtShl16Done'
  BY <1>1, SameRequest DEF AtShl16Done, AsEntered
<1>16. AtShrShift => AtShrShift'
  BY <1>1, SameRequest DEF AtShrShift, AsEntered
<1>17. AtShrDone => AtShrDone'
  BY <1>1, SameRequest DEF AtShrDone, AsEntered
<1>18. AtStrlenLoop => AtStrlenLoop'
  BY <1>1, SameRequest DEF AtStrlenLoop, AsEntered, Passed
<1>19. AtStrlenDone => AtStrlenDone'
  BY <1>1, SameRequest DEF AtStrlenDone, AsEntered, Passed
<1>20. AtMemcpy => AtMemcpy'
  BY <1>1, SameRequest, SamePieces DEF AtMemcpy
<1>21. AtMemcpyLoop => AtMemcpyLoop'
  BY <1>1, SameRequest, SamePieces DEF AtMemcpyLoop, Asking, AskedAB, AskedCD
<1>22. AtMemcpyDone => AtMemcpyDone'
  BY <1>1, SameRequest, SamePieces DEF AtMemcpyDone, Asking
<1>23. AtMemcpy16Loop => AtMemcpy16Loop'
  BY <1>1, SameRequest, SamePieces DEF AtMemcpy16Loop
<1>24. AtMemcpy16Back => AtMemcpy16Back'
  BY <1>1, SameRequest, SamePieces DEF AtMemcpy16Back
<1>25. AtMemcpy16Done => AtMemcpy16Done'
  BY <1>1, SameRequest, SamePieces DEF AtMemcpy16Done
<1>26. AtMemsetLoop => AtMemsetLoop'
  BY <1>1, SameRequest DEF AtMemsetLoop, Filled
<1>27. AtMemsetDone => AtMemsetDone'
  BY <1>1, SameRequest DEF AtMemsetDone, Filled
<1>28. AtSetPixelLine => AtSetPixelLine'
  BY <1>1, SameRequest DEF AtSetPixelLine
<1>29. AtSetPixelByte => AtSetPixelByte'
  BY <1>1, SameRequest DEF AtSetPixelByte
<1>30. AtSetPixelMask => AtSetPixelMask'
  BY <1>1, SameRequest DEF AtSetPixelMask
<1>31. AtSetPixelDone => AtSetPixelDone'
  BY Zenon, <1>1, SameRequest DEF AtSetPixelDone
<1>32. AtProgram => AtProgram'
  BY <1>1, SameRequest DEF AtProgram, ProductsRight, OrderRight, MemoryRight,
     RegistersKept, Returned, Outside, Shifted, Filled
<1>33. Claims'
  BY <1>1, <1>4, <1>5, <1>6, <1>7, <1>8, <1>9, <1>10, <1>11, <1>12, <1>13,
     <1>14, <1>15, <1>16, <1>17, <1>18, <1>19, <1>20, <1>21, <1>22, <1>23,
     <1>24, <1>25, <1>26, <1>27, <1>28, <1>29, <1>30, <1>31, <1>32 DEF LibInv,
     Claims
<1>34. QED BY <1>2, <1>3, <1>33 DEF LibInv

(* The invariant is inductive: a step of each of the routines.             *)
LEMMA LibSteps == LibInv /\ [LibNext]_libVars => LibInv'
<1> SUFFICES ASSUME LibInv, [LibNext]_libVars PROVE LibInv'
  OBVIOUS
<1>1. CASE Mul
  BY <1>1, MulKeeps
<1>2. CASE MulLoop
  BY <1>2, MulLoopKeeps
<1>3. CASE MulDone
  BY <1>3, MulDoneKeeps
<1>4. CASE Mul16by8
  BY <1>4, Mul16by8Keeps
<1>5. CASE Mul16by8Loop
  BY <1>5, Mul16by8LoopKeeps
<1>6. CASE Mul16by8Done
  BY <1>6, Mul16by8DoneKeeps
<1>7. CASE Mul16
  BY <1>7, Mul16Keeps
<1>8. CASE Mul16Loop
  BY <1>8, Mul16LoopKeeps
<1>9. CASE Mul16Done
  BY <1>9, Mul16DoneKeeps
<1>10. CASE Cmp16
  BY <1>10, Cmp16Keeps
<1>11. CASE Cmp16Back
  BY <1>11, Cmp16BackKeeps
<1>12. CASE Shl
  BY <1>12, ShlKeeps
<1>13. CASE ShlShift
  BY <1>13, ShlShiftKeeps
<1>14. CASE ShlDone
  BY <1>14, ShlDoneKeeps
<1>15. CASE Shl16
  BY <1>15, Shl16Keeps
<1>16. CASE Shl16Shift
  BY <1>16, Shl16ShiftKeeps
<1>17. CASE Shl16Done
  BY <1>17, Shl16DoneKeeps
<1>18. CASE Shr
  BY <1>18, ShrKeeps
<1>19. CASE ShrShift
  BY <1>19, ShrShiftKeeps
<1>20. CASE ShrDone
  BY <1>20, ShrDoneKeeps
<1>21. CASE Strlen
  BY <1>21, StrlenKeeps
<1>22. CASE StrlenLoop
  BY <1>22, StrlenLoopKeeps
<1>23. CASE StrlenDone
  BY <1>23, StrlenDoneKeeps
<1>24. CASE MemcpyIn
  BY <1>24, MemcpyInKeeps
<1>25. CASE MemcpyLoop
  BY <1>25, MemcpyLoopKeeps
<1>26. CASE MemcpyDone
  BY <1>26, MemcpyDoneKeeps
<1>27. CASE Memcpy16
  BY <1>27, Memcpy16Keeps
<1>28. CASE Memcpy16Loop
  BY <1>28, Memcpy16LoopKeeps
<1>29. CASE Memcpy16Back
  BY <1>29, Memcpy16BackKeeps
<1>30. CASE Memcpy16Done
  BY <1>30, Memcpy16DoneKeeps
<1>31. CASE Memset
  BY <1>31, MemsetKeeps
<1>32. CASE MemsetLoop
  BY <1>32, MemsetLoopKeeps
<1>33. CASE MemsetDone
  BY <1>33, MemsetDoneKeeps
<1>34. CASE SetPixel
  BY <1>34, SetPixelKeeps
<1>35. CASE SetPixelByte
  BY <1>35, SetPixelByteKeeps
<1>36. CASE SetPixelMask
  BY <1>36, SetPixelMaskKeeps
<1>37. CASE SetPixelStore
  BY <1>37, SetPixelStoreKeeps
<1>38. CASE SetPixelDone
  BY <1>38, SetPixelDoneKeeps
<1>39. CASE Ended
  BY <1>39, LibStutters DEF Ended
<1>40. CASE UNCHANGED libVars
  BY <1>40, LibStutters
<1>41. QED BY <1>1, <1>2, <1>3, <1>4, <1>5, <1>6, <1>7, <1>8, <1>9, <1>10,
              <1>11, <1>12, <1>13, <1>14, <1>15, <1>16, <1>17, <1>18, <1>19,
              <1>20, <1>21, <1>22, <1>23, <1>24, <1>25, <1>26, <1>27, <1>28,
              <1>29, <1>30, <1>31, <1>32, <1>33, <1>34, <1>35, <1>36, <1>37,
              <1>38, <1>39, <1>40 DEF LibNext

LEMMA LibInductive == LibSpec => []LibInv
BY LibStarts, LibSteps, PTL DEF LibSpec

(* A routine of math.asm and shift.asm that returns to the program has the *)
(* product in its result register, modulo the width: for every operand, and *)
(* not only for the bytes at the edges that the run calls it with.         *)
THEOREM ProductsAreRight == LibSpec => []ProductsRight
<1>1. LibInv => ProductsRight
  BY DEF LibInv, Claims, AtProgram, ProductsRight, Returned
<1>2. QED BY <1>1, LibInductive, PTL

(* cmp16 leaves the order of any two words.                                *)
THEOREM OrderIsRight == LibSpec => []OrderRight
<1>1. LibInv => OrderRight
  BY DEF LibInv, Claims, AtProgram, OrderRight, Returned
<1>2. QED BY <1>1, LibInductive, PTL

(* memcpy, memcpy16, memset, strlen and set_pixel do to any memory what    *)
(* they promise.                                                           *)
THEOREM MemoryIsRight == LibSpec => []MemoryRight
<1>1. LibInv => MemoryRight
  BY DEF LibInv, Claims, AtProgram, MemoryRight, Returned
<1>2. QED BY <1>1, LibInductive, PTL

(* No routine, and no routine it calls, loses a register of the program or *)
(* leaves a byte on the stack.                                             *)
THEOREM RegistersAreKept == LibSpec => []RegistersKept
<1>1. LibInv => RegistersKept
  BY DEF LibInv, Claims, AtProgram, RegistersKept
<1>2. QED BY <1>1, LibInductive, PTL

(* Where execution can be, and how many calls are open there.              *)
LEMMA LabelsAre ==
  ASSUME LibShape
  PROVE  at \in Labels /\ calls \in Seq(Labels) /\ Len(calls) <= 2
<1>1. \A q \in Routines : Inside(q) \subseteq Labels
  <2> SUFFICES ASSUME NEW q \in Routines PROVE Inside(q) \subseteq Labels
    OBVIOUS
  <2>1. q \in {"mul", "mul16_8", "mul16", "cmp16", "shl", "shl16"} => Inside(q) \subseteq Labels
    BY InsideIs DEF Labels, Routines
  <2>2. q \in {"shr", "strlen", "memcpy", "memcpy16", "memset", "set_pixel"} =>
          Inside(q) \subseteq Labels
    BY InsideIs DEF Labels, Routines
  <2>3. QED BY <2>1, <2>2 DEF Routines
<1>2. Backs \subseteq Labels /\ "program" \in Labels
  BY DEF Backs, Labels
<1>3. \A b \in Backs : Called(b) \in Routines
  BY DEF Backs, Called, Routines
<1>4. request.routine \in Routines
  BY RoutineAsked DEF LibShape
<1>5. CASE calls = << >> /\ at = "program"
  BY <1>2, <1>5
<1>6. CASE calls = Direct /\ at \in Inside(request.routine)
  <2>1. at \in Labels
    BY <1>1, <1>4, <1>6
  <2>2. Direct \in Seq(Labels) /\ Len(Direct) = 1
    BY <1>2 DEF Direct
  <2>3. QED BY <1>6, <2>1, <2>2
<1>7. ASSUME NEW b \in Backs, calls = Via(b), at \in Inside(Called(b))
      PROVE  at \in Labels /\ calls \in Seq(Labels) /\ Len(calls) <= 2
  <2>1. at \in Labels
    BY <1>1, <1>3, <1>7
  <2>2. <<b, "program">> \in Seq(Labels) /\ Len(<<b, "program">>) = 2
    BY <1>2
  <2>3. QED BY <1>7, <2>1, <2>2 DEF Via
<1>8. QED BY <1>5, <1>6, <1>7 DEF LibShape, Calling

(* The type invariant: how deep the stack is at each label.                *)
LEMMA SavedWord ==
  ASSUME request \in Requests, NEW w \in Word
  PROVE  /\ <<Lo(w), Hi(w)>> \o SavedAll \in Seq(Byte)
         /\ Len(<<Lo(w), Hi(w)>> \o SavedAll) = 7
<1>1. Lo(w) \in Byte /\ Hi(w) \in Byte /\ SavedAll \in Seq(Byte) /\ Len(SavedAll) = 5
  BY HalvesAreBytes, ScreenWords
<1> DEFINE list == <<Lo(w), Hi(w)>>
<1>2. list \in Seq(Byte) /\ Len(list) = 2
  BY <1>1
<1> HIDE DEF list
<1>3. /\ list \o SavedAll \in Seq(Byte)
      /\ Len(list \o SavedAll) = Len(list) + Len(SavedAll)
  BY Zenon, <1>1, <1>2, ConcatProperties
<1>4. QED BY <1>1, <1>2, <1>3 DEF list

LEMMA BaseIsShort ==
  ASSUME LibShape, NEW q \in Routines, at \in Inside(q)
  PROVE  Base \in Seq(Byte) /\ Len(Base) <= 7
<1>1. Base \in Seq(Byte) /\ request \in Requests
  BY EntryBytes DEF LibShape
<1>2. SavedAll \in Seq(Byte) /\ Len(SavedAll) = 5 /\ ScanLine \in Word /\ Dot \in Word
  BY <1>1, ScreenWords
<1>3. CASE Base = << >> \/ Base = SavedAll
  <2>1. Len(<< >>) = 0
    OBVIOUS
  <2>2. Len(Base) = 0 \/ Len(Base) = 5
    BY <1>2, <1>3, <2>1, Zenon
  <2>3. Len(Base) <= 7
    BY <2>2
  <2>4. QED BY <1>1, <2>3, Zenon
<1>4. CASE Base = <<LowFlags, HighFlags, Was(B), Was(A)>>
  BY <1>1, <1>4
<1>5. CASE Base \in {<<Lo(ScanLine), Hi(ScanLine)>> \o SavedAll,
                     <<Lo(Dot), Hi(Dot)>> \o SavedAll}
  BY <1>1, <1>2, <1>5, SavedWord
<1>6. QED BY <1>1, <1>3, <1>4, <1>5 DEF Base

LEMMA Deeper ==
  ASSUME NEW base \in Seq(Byte), Len(base) <= 7,
         NEW list \in Seq(Byte), Len(list) <= 5
  PROVE  list \o base \in Seq(Byte) /\ Len(list \o base) <= 12
<1>1. Len(base) \in Nat /\ Len(list) \in Nat
  BY LenProperties
<1>2. list \o base \in Seq(Byte) /\ Len(list \o base) = Len(list) + Len(base)
  BY ConcatProperties
<1>3. QED BY <1>1, <1>2

(* What the routine execution is in has pushed by itself.                  *)
LEMMA OwnPushes ==
  ASSUME LibInv, NEW q \in Routines, at \in Inside(q),
         \/ stack = Base
         \/ /\ q # "memcpy"
            /\ \/ stack = <<Entry(B)>> \o Base
               \/ stack = <<Entry(C)>> \o Base
               \/ stack = <<Entry(C), Entry(B)>> \o Base
               \/ stack = <<Entry(Z), Entry(D), Entry(C)>> \o Base
               \/ stack = <<Entry(C), Entry(B), Entry(A)>> \o Base
         \/ stack = Asking \o Base /\ \A d \in General : Asked(d) \in Byte
  PROVE  stack \in Seq(Byte) /\ Len(stack) <= 12
<1>1. Base \in Seq(Byte) /\ Len(Base) <= 7
  BY Here, BaseIsShort
<1>2. q # "memcpy" => /\ Entry(A) \in Byte /\ Entry(B) \in Byte /\ Entry(C) \in Byte
                      /\ Entry(D) \in Byte /\ Entry(Z) \in Byte
  BY Here, EntryBytes
<1>3. ASSUME NEW list \in Seq(Byte), Len(list) <= 5, stack = list \o Base
      PROVE  stack \in Seq(Byte) /\ Len(stack) <= 12
  BY <1>1, <1>3, Deeper
<1>4. \A a, b, c, d, e \in Byte :
        /\ <<a>> \in Seq(Byte) /\ Len(<<a>>) <= 5
        /\ <<a, b>> \in Seq(Byte) /\ Len(<<a, b>>) <= 5
        /\ <<a, b, c>> \in Seq(Byte) /\ Len(<<a, b, c>>) <= 5
        /\ <<a, b, c, d, e>> \in Seq(Byte) /\ Len(<<a, b, c, d, e>>) <= 5
  OBVIOUS
<1>5. CASE stack = Base
  <2>1. Len(Base) \in Nat
    BY <1>1, LenProperties
  <2>2. QED BY <1>1, <1>5, <2>1
<1>6. CASE q # "memcpy" /\ stack = <<Entry(B)>> \o Base
  <2>1. <<Entry(B)>> \in Seq(Byte) /\ Len(<<Entry(B)>>) <= 5
    BY <1>2, <1>4, <1>6
  <2>2. QED BY Zenon, <1>3, <1>6, <2>1
<1>7. CASE q # "memcpy" /\ stack = <<Entry(C)>> \o Base
  <2>1. <<Entry(C)>> \in Seq(Byte) /\ Len(<<Entry(C)>>) <= 5
    BY <1>2, <1>4, <1>7
  <2>2. QED BY Zenon, <1>3, <1>7, <2>1
<1>8. CASE q # "memcpy" /\ stack = <<Entry(C), Entry(B)>> \o Base
  <2> DEFINE list == <<Entry(C), Entry(B)>>
  <2>1. list \in Seq(Byte) /\ Len(list) <= 5
    BY <1>2, <1>4, <1>8
  <2>2. stack = list \o Base
    BY <1>8
  <2> HIDE DEF list
  <2>3. QED BY Zenon, <1>3, <2>1, <2>2
<1>9. CASE q # "memcpy" /\ stack = <<Entry(Z), Entry(D), Entry(C)>> \o Base
  <2> DEFINE list == <<Entry(Z), Entry(D), Entry(C)>>
  <2>1. list \in Seq(Byte) /\ Len(list) <= 5
    BY <1>2, <1>4, <1>9
  <2>2. stack = list \o Base
    BY <1>9
  <2> HIDE DEF list
  <2>3. QED BY Zenon, <1>3, <2>1, <2>2
<1>10. CASE q # "memcpy" /\ stack = <<Entry(C), Entry(B), Entry(A)>> \o Base
  <2> DEFINE list == <<Entry(C), Entry(B), Entry(A)>>
  <2>1. list \in Seq(Byte) /\ Len(list) <= 5
    BY <1>2, <1>4, <1>10
  <2>2. stack = list \o Base
    BY <1>10
  <2> HIDE DEF list
  <2>3. QED BY Zenon, <1>3, <2>1, <2>2
<1>11. CASE stack = Asking \o Base /\ \A d \in General : Asked(d) \in Byte
  <2>1. /\ Asked(A) \in Byte /\ Asked(B) \in Byte /\ Asked(C) \in Byte
        /\ Asked(D) \in Byte /\ Asked(Z) \in Byte
    BY <1>11 DEF General
  <2>2. Asking \in Seq(Byte) /\ Len(Asking) <= 5
    BY <1>4, <2>1 DEF Asking
  <2>3. QED BY Zenon, <1>3, <1>11, <2>2
<1>12. QED BY Zenon, <1>5, <1>6, <1>7, <1>8, <1>9, <1>10, <1>11

LEMMA StackIsShort ==
  ASSUME LibInv
  PROVE  stack \in Seq(Byte) /\ Len(stack) <= 12
<1>1. request \in Requests /\ Claims /\ LibShape
  BY Here
<1>2. SavedAll \in Seq(Byte) /\ Len(SavedAll) = 5 /\ ScanLine \in Word /\ Dot \in Word
  BY <1>1, ScreenWords
<1>3. CASE at = "program"
  <2>1. stack = << >>
    BY <1>1, <1>3 DEF Claims, AtProgram, RegistersKept
  <2>2. QED BY <2>1
<1>4. CASE at \in Routines
  <2>1. stack = Base
    BY <1>1, <1>4 DEF Claims, Fresh, AtMemcpy
  <2>2. at \in Inside(at)
    BY DEF Inside
  <2>3. QED BY <1>4, <2>1, <2>2, OwnPushes
<1>5. CASE at \in {"mul.loop", "mul.done", "shr.shift", "shr.done"}
  <2>1. stack = <<Entry(C), Entry(B)>> \o Base
    BY <1>1, <1>5 DEF Claims, AtMulLoop, AtMulDone, AtShrShift, AtShrDone
  <2>2. \E q \in Routines \ {"memcpy"} : at \in Inside(q)
    BY <1>5, InsideIs DEF Routines
  <2>3. QED BY <2>1, <2>2, OwnPushes
<1>6. CASE at \in {"mul16_8.loop", "mul16_8.done", "mul16.loop", "mul16.done"}
  <2>1. stack = <<Entry(Z), Entry(D), Entry(C)>> \o Base
    BY <1>1, <1>6 DEF Claims, AtMul16by8Loop, AtMul16by8Done, AtMul16Loop, AtMul16Done
  <2>2. \E q \in Routines \ {"memcpy"} : at \in Inside(q)
    BY <1>6, InsideIs DEF Routines
  <2>3. QED BY <2>1, <2>2, OwnPushes
<1>7. CASE at \in {"shl.shift", "shl.done", "shl16.shift", "shl16.done"}
  <2>1. stack = <<Entry(B)>> \o Base \/ stack = <<Entry(C)>> \o Base
    BY <1>1, <1>7 DEF Claims, AtShlShift, AtShlDone, AtShl16Shift, AtShl16Done
  <2>2. \E q \in Routines \ {"memcpy"} : at \in Inside(q)
    BY <1>7, InsideIs DEF Routines
  <2>3. QED BY Zenon, <2>1, <2>2, OwnPushes
<1>8. CASE at \in {"strlen.loop", "strlen.done"}
  <2>1. stack = <<Entry(C), Entry(B), Entry(A)>> \o Base
    BY <1>1, <1>8 DEF Claims, AtStrlenLoop, AtStrlenDone
  <2>2. \E q \in Routines \ {"memcpy"} : at \in Inside(q)
    BY <1>8, InsideIs DEF Routines
  <2>3. QED BY <2>1, <2>2, OwnPushes
<1>9. CASE at \in {"memcpy.loop", "memcpy.done"}
  <2>1. stack = Asking \o Base /\ \A d \in General : Asked(d) \in Byte
    BY <1>1, <1>9 DEF Claims, AtMemcpyLoop, AtMemcpyDone, MemcpyCalled
  <2>2. at \in Inside("memcpy") /\ "memcpy" \in Routines
    BY <1>9, InsideIs DEF Routines
  <2>3. QED BY <2>1, <2>2, OwnPushes
<1>10. CASE at \in {"memcpy16.loop", "memcpy16.back", "memcpy16.done", "memset.loop",
                    "memset.done", "set_pixel.line", "set_pixel.done"}
  <2>1. at \in {"memcpy16.loop", "memcpy16.back", "memcpy16.done"} => stack = SavedAll
    BY <1>1 DEF Claims, AtMemcpy16Loop, AtMemcpy16Back, AtMemcpy16Done
  <2>2. at \in {"memset.loop", "memset.done"} => stack = SavedAll
    BY <1>1 DEF Claims, AtMemsetLoop, AtMemsetDone
  <2>3. at \in {"set_pixel.line", "set_pixel.done"} => stack = SavedAll
    BY <1>1 DEF Claims, AtSetPixelLine, AtSetPixelDone
  <2>4. stack = SavedAll
    BY <1>10, <2>1, <2>2, <2>3
  <2>5. stack \in Seq(Byte) /\ Len(stack) = 5
    BY <1>2, <2>4, Zenon
  <2>6. QED BY <2>5
<1>11. CASE at = "cmp16.back"
  <2>1. stack = <<LowFlags, HighFlags, Was(B), Was(A)>>
    BY <1>1, <1>11 DEF Claims, AtCmp16Back
  <2>2. /\ LowFlags \in Byte /\ HighFlags \in Byte
        /\ Was(B) \in Byte /\ Was(A) \in Byte
    BY <1>1, ScreenWords, Here
  <2>3. QED BY <2>1, <2>2
<1>12. CASE at \in {"set_pixel.byte", "set_pixel.mask"}
  <2>1. \/ stack = <<Lo(ScanLine), Hi(ScanLine)>> \o SavedAll
        \/ stack = <<Lo(Dot), Hi(Dot)>> \o SavedAll
    BY <1>1, <1>12 DEF Claims, AtSetPixelByte, AtSetPixelMask
  <2>2. \A w \in Word : /\ <<Lo(w), Hi(w)>> \o SavedAll \in Seq(Byte)
                        /\ Len(<<Lo(w), Hi(w)>> \o SavedAll) = 7
    BY <1>1, SavedWord
  <2>3. stack \in Seq(Byte) /\ Len(stack) = 7
    BY <1>2, <2>1, <2>2, Zenon
  <2>4. QED BY <2>3
<1>13. at \in Labels
  BY <1>1, LabelsAre
<1>14. QED BY <1>3, <1>4, <1>5, <1>6, <1>7, <1>8, <1>9, <1>10, <1>11, <1>12, <1>13
       DEF Labels

(* Registers and memory hold bytes, execution is at a label, and no more   *)
(* than one call of the library itself is open, however long it runs.      *)
THEOREM LibTypes == LibSpec => []LibTypeOK
<1>1. LibInv => LibTypeOK
  <2> SUFFICES ASSUME LibInv PROVE LibTypeOK
    OBVIOUS
  <2>1. LibShape
    BY DEF LibInv
  <2>2. at \in Labels /\ calls \in Seq(Labels) /\ Len(calls) <= 2
    BY <2>1, LabelsAre
  <2>3. QED BY <2>1, <2>2, StackIsShort DEF LibTypeOK, LibShape
<1>2. QED BY <1>1, LibInductive, PTL
-----------------------------------------------------------------------------
(* What shr leaves, whatever it was asked for.                             *)
HalvedOnce ==
  Returned("shr") => regs[A] = IF Was(B) = 0 THEN Was(A) ELSE Was(A) \div 2

LEMMA ShrReturns ==
  ASSUME LibNext
  PROVE  /\ request' = request
         /\ at = "program" => UNCHANGED libVars
         /\ at \in {"shr", "shr.shift", "shr.done"} /\ at' = "program" => ShrDone
<1> DEFINE Elsewhere == /\ request' = request
                        /\ at \notin {"program", "shr", "shr.shift", "shr.done"}
<1>1. Shr => request' = request /\ at = "shr" /\ at' # "program"
  BY DEF Shr, Save, Stretch
<1>2. ShrShift => request' = request /\ at = "shr.shift" /\ at' # "program"
  BY DEF ShrShift, Run, Stretch
<1>3. ShrDone => request' = request /\ at = "shr.done"
  BY DEF ShrDone, Leave
<1>4. Mul \/ MulLoop \/ MulDone \/ Mul16by8 \/ Mul16by8Loop \/ Mul16by8Done => Elsewhere
  BY DEF Mul, MulLoop, MulDone, Mul16by8, Mul16by8Loop, Mul16by8Done,
         Save, Run, Stretch, Leave
<1>5. Mul16 \/ Mul16Loop \/ Mul16Done \/ Cmp16 \/ Cmp16Back => Elsewhere
  BY DEF Mul16, Mul16Loop, Mul16Done, Cmp16, Cmp16Back, Run, Stretch, Leave, Call
<1>6. Shl \/ ShlShift \/ ShlDone \/ Shl16 \/ Shl16Shift \/ Shl16Done => Elsewhere
  BY DEF Shl, ShlShift, ShlDone, Shl16, Shl16Shift, Shl16Done, Save, Run,
         Stretch, Leave
<1>7. Strlen \/ StrlenLoop \/ StrlenDone => Elsewhere
  BY DEF Strlen, StrlenLoop, StrlenDone, Save, Run, Stretch, Leave
<1>8. MemcpyIn \/ MemcpyLoop \/ MemcpyDone => Elsewhere
  BY DEF MemcpyIn, MemcpyLoop, MemcpyDone, Save, Stretch, Leave
<1>9. Memcpy16 \/ Memcpy16Loop \/ Memcpy16Back \/ Memcpy16Done => Elsewhere
  BY DEF Memcpy16, Memcpy16Loop, Memcpy16Back, Memcpy16Done, Save, Run,
         Stretch, Leave, Call
<1>10. Memset \/ MemsetLoop \/ MemsetDone => Elsewhere
  BY DEF Memset, MemsetLoop, MemsetDone, Save, Run, Stretch, Leave
<1>11. SetPixel \/ SetPixelByte \/ SetPixelMask \/ SetPixelStore \/ SetPixelDone
       => Elsewhere
  BY DEF SetPixel, SetPixelByte, SetPixelMask, SetPixelStore, SetPixelDone,
         Call, Stretch, Leave
<1>12. Ended => UNCHANGED libVars /\ request' = request /\ at = "program"
  BY DEF Ended, libVars
<1> HIDE DEF Elsewhere
<1>13. ASSUME Elsewhere
       PROVE  /\ request' = request
              /\ at \notin {"program", "shr", "shr.shift", "shr.done"}
  BY <1>13 DEF Elsewhere
<1>14. QED
  BY <1>1, <1>2, <1>3, <1>4, <1>5, <1>6, <1>7, <1>8, <1>9, <1>10, <1>11, <1>12,
     <1>13 DEF LibNext

(* "b: number of times to shift" (os/lib/shift.asm, of shr): the number is *)
(* halved once, however many times are asked for, because what is shifted  *)
(* again is what is left of the number, and that is less than 2.           *)
THEOREM ShrShiftsOnce == LibSpec => []HalvedOnce
<1>1. LibInit => HalvedOnce
  <2>1. LibInit => at # "program"
    BY OsLibAssumption DEF LibInit, Routines
  <2>2. QED BY <2>1 DEF HalvedOnce, Returned
<1>2. LibInv /\ HalvedOnce /\ [LibNext]_libVars => HalvedOnce'
  <2> SUFFICES ASSUME LibInv, HalvedOnce, [LibNext]_libVars, Returned("shr")'
               PROVE  regs'[A] = IF Was(B)' = 0 THEN Was(A)' ELSE Was(A)' \div 2
    BY DEF HalvedOnce
  <2>1. at' = "program" /\ request'.routine = "shr"
    BY DEF Returned
  <2>2. CASE at = "program"
    <3>1. UNCHANGED libVars
      BY <2>2, ShrReturns
    <3>2. QED BY <3>1, <2>2, <2>1, SameRequest DEF HalvedOnce, Returned
  <2>3. CASE at # "program"
    <3>1. LibNext /\ request' = request
      BY <2>3, <2>1, ShrReturns DEF libVars
    <3>2. request.routine = "shr" /\ "shr" \in Routines
      BY <3>1, <2>1 DEF Routines
    <3>3. \A b \in Backs : b \notin Inside("shr")
      BY InsideIs DEF Backs
    <3>4. calls = Direct /\ at \in {"shr", "shr.shift", "shr.done"}
      BY <2>3, <3>2, <3>3, InsideIs DEF LibInv, LibShape, Calling
    <3>5. ShrDone
      BY <3>1, <3>4, <2>1, ShrReturns
    <3>6. at = "shr.done" /\ Leave("shr.done", regs, <<C, B>>)
      BY <3>5 DEF ShrDone, Leave
    <3>7. /\ "shr" \in Routines \ {"memcpy", "set_pixel"} /\ at \in Inside("shr")
          /\ "shr" \in Quiet /\ at # "set_pixel.done"
      BY <3>6, InsideIs DEF Routines, Quiet
    <3>8. /\ C \in General /\ B \in General /\ C # B
          /\ stack = <<Entry(C), Entry(B)>> \o Base
          /\ regs[A] = (IF Entry(B) = 0 THEN Entry(A) ELSE Entry(A) \div 2)
          /\ AsEntered({D, Z})
      BY <3>6, Here, Registers DEF Claims, AtShrDone, General
    <3>9. Restoring("shr", {C, B})
      BY Zenon, <3>6, <3>7, <3>8, TwoRestored
    <3>10. regs'[A] = (IF Entry(B) = 0 THEN Entry(A) ELSE Entry(A) \div 2)
      BY <3>8, <3>9, Registers DEF Restoring, General, AsEntered
    <3>11. \A d : Entry(d) = Was(d) /\ Was(d)' = Was(d)
      BY <3>1, <3>4, EntryIs, RequestKept
    <3>12. QED BY <3>10, <3>11
  <2>4. QED BY <2>2, <2>3
<1>3. QED BY <1>1, <1>2, LibInductive, PTL DEF LibSpec
=============================================================================
