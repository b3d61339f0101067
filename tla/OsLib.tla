------------------------------- MODULE OsLib -------------------------------
(***************************************************************************)
(* The routines of the operating system's library: os/lib/math.asm,        *)
(* shift.asm and util.asm. A program calls one routine, which runs to its  *)
(* RET. A step is a stretch of code up to a label, a jump or a call; what  *)
(* the macros do to the registers, F, H and L included, is module          *)
(* MacroBodies. Registers are saved on the stack byte by byte, return      *)
(* addresses are the labels behind the calls.                              *)
(***************************************************************************)
EXTENDS MacroBodies, SequencesExt

CONSTANTS
  Requests,    \* the calls a program makes: routine, registers, word in D0
  Contents,    \* what is in memory when it makes them
  CodeWord     \* what a jump or call leaves in HL: an address in the code

D0 == 64768                  \* 0xFD00, scratch word of the library
ADDR_BANK == 32768           \* 0x8000, where the screen's bank is
SCANLINE_WIDTH_BYTES == 32
SCANLINE_OFFSET_BYTES == 4   \* the first visible byte of a scan line

Routines == {"mul", "mul16_8", "mul16", "cmp16", "shl", "shl16", "shr",
             "strlen", "memcpy", "memcpy16", "memset", "set_pixel"}

ASSUME OsLibAssumption ==
  /\ \A q \in Requests : /\ q.routine \in Routines
                         /\ q.regs \in [Register -> Byte] /\ q.d0 \in Word
  /\ DOMAIN Contents \subseteq Word /\ {D0, D0 + 1} \subseteq DOMAIN Contents
  /\ Contents \in [DOMAIN Contents -> Byte]
  /\ CodeWord \in Word

VARIABLES
  at,          \* the label execution is at
  calls,       \* return labels, the latest call first
  request      \* history: the call the program made

libVars == <<regs, mem, stack, at, calls, request>>

AB == <<A, B>>
CD == <<C, D>>
All == <<A, B, C, D, Z>>     \* what PUSHA pushes
-----------------------------------------------------------------------------
(* PUSH and POP of several registers, in the order they are written in.    *)
pushed(r, s, list) == Reverse([i \in DOMAIN list |-> r[list[i]]]) \o s
popped(r, s, list) ==
  [d \in Register |-> LET I == {i \in DOMAIN list : list[i] = d}
                      IN  IF I = {} THEN r[d] ELSE s[CHOOSE i \in I : TRUE]]
dropped(s, list) == SubSeq(s, Len(list) + 1, Len(s))

jumped(r) == lda(r, CodeWord)
jz(r, d) == jumped(isZero(r, d))
jnz(r) == jumped(r)
jcc(c, r, d, x) == jumped(test(c, cmp(r, d, x)))
jmn(r, d, x) == jumped(and(not(mw(r, F, Reg(d)), F), F, x))

(* The stretch of code from one label to the next, with and without the    *)
(* stack and the memory.                                                   *)
Stretch(from, r, s, m, to) ==
  /\ at = from
  /\ regs' = r /\ stack' = s /\ mem' = m /\ at' = to
  /\ UNCHANGED <<calls, request>>
Run(from, r, to) == Stretch(from, r, stack, mem, to)
Save(from, list, r, to) == Stretch(from, r, pushed(regs, stack, list), mem, to)

Call(from, r, s, m, routine, back) ==
  /\ at = from
  /\ regs' = jumped(r) /\ stack' = s /\ mem' = m
  /\ at' = routine /\ calls' = <<back>> \o calls
  /\ UNCHANGED request

(* POP of what was saved, and RET.                                         *)
Leave(from, r, list) ==
  /\ at = from /\ calls # << >>
  /\ regs' = jumped(popped(r, stack, list))
  /\ stack' = dropped(stack, list)
  /\ at' = Head(calls) /\ calls' = Tail(calls)
  /\ UNCHANGED <<mem, request>>
-----------------------------------------------------------------------------
(* math.asm *)
Mul ==
  LET r == mw(mw(mw(regs, C, Reg(B)), B, Reg(A)), A, Imm(0))
  IN  Save("mul", <<B, C>>, jz(r, C), IF r[C] = 0 THEN "mul.done" ELSE "mul.loop")

(* Slip: the counter is decremented before the addition.                   *)
MulLoopLate ==
  LET r == dec(regs, C)
      s == IF r[C] = 0 THEN r ELSE add(r, A, Reg(B))
  IN  Run("mul.loop", jnz(s), IF s[C] # 0 THEN "mul.loop" ELSE "mul.done")

MulLoop ==
  LET r == dec(add(regs, A, Reg(B)), C)
  IN  Run("mul.loop", jnz(r), IF r[C] # 0 THEN "mul.loop" ELSE "mul.done")

MulDone == Leave("mul.done", regs, <<C, B>>)

Mul16by8 ==
  LET r == mw(mw(mw(mw(regs, D, Reg(A)), Z, Reg(B)), A, Imm(0)), B, Imm(0))
  IN  Save("mul16_8", <<C, D, Z>>, jz(r, C),
           IF r[C] = 0 THEN "mul16_8.done" ELSE "mul16_8.loop")
Mul16by8Loop ==
  LET r == dec(add16(regs, AB, Reg(D), Reg(Z)), C)
  IN  Run("mul16_8.loop", jnz(r),
          IF r[C] # 0 THEN "mul16_8.loop" ELSE "mul16_8.done")
Mul16by8Done == Leave("mul16_8.done", regs, <<Z, D, C>>)

zero16(r, p) == eq16(r, p, Imm(0), Imm(0))

Mul16 ==
  LET r == jumped(test("JEQ", zero16(regs, CD)))
      none == r[F] # 0
  IN  Stretch("mul16",
              IF none THEN r ELSE mw(mw(r, A, Imm(0)), B, Imm(0)),
              pushed(regs, stack, <<C, D, Z>>),
              IF none THEN mem
              ELSE [mem EXCEPT ![D0] = r[B], ![D0 + 1] = r[A]],
              IF none THEN "mul16.done" ELSE "mul16.loop")
Mul16Loop ==
  LET f == [regs EXCEPT ![F] = mem[D0], ![Z] = mem[D0 + 1]]
      r == test("JNE", zero16(dec16(add16(f, AB, Reg(Z), Reg(F)), CD), CD))
  IN  Run("mul16.loop", jumped(r),
          IF r[F] # 0 THEN "mul16.loop" ELSE "mul16.done")
Mul16Done == Leave("mul16.done", regs, <<Z, D, C>>)

Cmp16 ==
  LET r == mw(cmp(mw(cmp(regs, A, Reg(C)), H, Reg(F)), B, Reg(D)), L, Reg(F))
      shift == mw(mw(r, A, Reg(H)), B, Reg(A))
  IN  Call("cmp16", shift, pushed(r, pushed(regs, stack, <<A, B>>), <<H, L>>),
           mem, "shr", "cmp16.back")
Cmp16Back ==
  LET r == popped(regs, stack, <<L, H>>)
      less == and(or(and(r, A, Reg(L)), A, Reg(H)), A, Imm(1))
      equal == and(and(mw(less, B, Reg(H)), B, Reg(L)), B, Imm(2))
      f == mw(or(equal, A, Reg(B)), F, Reg(A))
      s == dropped(stack, <<L, H>>)
  IN  /\ at = "cmp16.back" /\ calls # << >>
      /\ regs' = jumped(popped(f, s, <<B, A>>))
      /\ stack' = dropped(s, <<B, A>>)
      /\ at' = Head(calls) /\ calls' = Tail(calls)
      /\ UNCHANGED <<mem, request>>
-----------------------------------------------------------------------------
(* shift.asm *)
Shl == Save("shl", <<B>>, IF regs[B] = 0 THEN jz(regs, B) ELSE clb(jz(regs, B)),
            IF regs[B] = 0 THEN "shl.done" ELSE "shl.shift")
ShlShift ==
  LET r == dec(add(regs, A, Reg(A)), B)
  IN  Run("shl.shift", jnz(r), IF r[B] # 0 THEN "shl.shift" ELSE "shl.done")
ShlDone == Leave("shl.done", regs, <<B>>)

Shl16 ==
  Save("shl16", <<C>>, IF regs[C] = 0 THEN jz(regs, C) ELSE clb(jz(regs, C)),
       IF regs[C] = 0 THEN "shl16.done" ELSE "shl16.shift")
Shl16Shift ==
  LET r == dec(add16(regs, AB, Reg(A), Reg(B)), C)
  IN  Run("shl16.shift", jnz(r), IF r[C] # 0 THEN "shl16.shift" ELSE "shl16.done")
Shl16Done == Leave("shl16.done", regs, <<C>>)

(* A is cleared once, on the way to the loop; each pass then moves what is  *)
(* left of the number in C, bit by bit, to half its value in A.            *)
Shr ==
  LET r == jz(regs, B)
      start == mw(mw(r, C, Reg(A)), A, Imm(0))
  IN  Save("shr", <<B, C>>, IF regs[B] = 0 THEN r ELSE start,
           IF regs[B] = 0 THEN "shr.done" ELSE "shr.shift")

Try(r, bit) ==
  LET t == jmn(r, C, Imm(bit))
  IN  IF t[F] # 0 THEN t ELSE sub(add(t, A, Imm(bit \div 2)), C, Imm(bit))
halved(r) ==
  Try(Try(Try(Try(Try(Try(Try(r, 128), 64), 32), 16), 8), 4), 2)

(* Slip: the halves start over, as the comment would have it.              *)
ShrShiftAgain ==
  LET r == dec(halved(regs), B)
  IN  Run("shr.shift", IF r[B] # 0 THEN mw(mw(jnz(r), C, Reg(A)), A, Imm(0)) ELSE jnz(r),
          IF r[B] # 0 THEN "shr.shift" ELSE "shr.done")

ShrShift ==
  LET r == dec(halved(regs), B)
  IN  Run("shr.shift", jnz(r), IF r[B] # 0 THEN "shr.shift" ELSE "shr.done")
ShrDone == Leave("shr.done", regs, <<C, B>>)
-----------------------------------------------------------------------------
(* util.asm *)
Strlen == Save("strlen", <<A, B, C>>, mw(regs, Z, Imm(0)), "strlen.loop")
StrlenLoop ==
  LET hl == ldaPair(regs, AB)
      r == [hl EXCEPT ![C] = mem[HL(hl)]]
      t == jcc("JEQ", r, C, Imm(0))
  IN  /\ at = "strlen.loop" /\ HL(hl) \in DOMAIN mem
      /\ IF t[F] # 0 THEN Run("strlen.loop", t, "strlen.done")
         ELSE Run("strlen.loop",
                  jumped(add(add16(t, AB, Imm(0), Imm(1)), Z, Imm(1))),
                  "strlen.loop")
StrlenDone == Leave("strlen.done", regs, <<C, B, A>>)

MemcpyIn == Save("memcpy", All, jz(regs, Z),
                 IF regs[Z] = 0 THEN "memcpy.done" ELSE "memcpy.loop")

MemcpyLoop ==
  LET from == ldaPair(regs, CD)
      f == [from EXCEPT ![F] = mem[HL(from)]]
      to == ldaPair(f, AB)
      r == dec(add16(add16(to, AB, Imm(0), Imm(1)), CD, Imm(0), Imm(1)), Z)
  IN  /\ at = "memcpy.loop" /\ {HL(from), HL(to)} \subseteq DOMAIN mem
      /\ Stretch("memcpy.loop", jnz(r), stack, [mem EXCEPT ![HL(to)] = f[F]],
                 IF r[Z] # 0 THEN "memcpy.loop" ELSE "memcpy.done")

(* Slip: the registers are popped in the order they were pushed in.        *)
MemcpyDoneSameOrder == Leave("memcpy.done", regs, All)

MemcpyDone == Leave("memcpy.done", regs, Reverse(All))

Memcpy16 == Save("memcpy16", All, regs, "memcpy16.loop")

(* A piece of 255 bytes while the high byte of the length in D0 is not     *)
(* zero, and the length without them back in D0.                           *)
Memcpy16Loop ==
  LET r == [regs EXCEPT ![A] = mem[D0 + 1]]
      t == jz(r, A)
      rest == sub16(clb(mw([t EXCEPT ![B] = mem[D0]], Z, Imm(255))), AB,
                    Imm(0), Imm(255))
      piece == [rest EXCEPT ![A] = regs[A], ![B] = regs[B]]
  IN  IF r[A] # 0
      THEN Call("memcpy16.loop", piece, stack,
                [mem EXCEPT ![D0] = rest[B], ![D0 + 1] = rest[A]],
                "memcpy", "memcpy16.back")
      ELSE Call("memcpy16.loop", [t EXCEPT ![A] = regs[A], ![Z] = mem[D0]],
                stack, mem, "memcpy", "memcpy16.done")
(* Slip: the pieces are taken for 256 bytes.                               *)
Memcpy16Back256 ==
  Run("memcpy16.back",
      jumped(add16(add16(regs, AB, Imm(1), Imm(0)), CD, Imm(1), Imm(0))),
      "memcpy16.loop")

Memcpy16Back ==
  Run("memcpy16.back",
      jumped(add16(add16(regs, AB, Imm(0), Imm(255)), CD, Imm(0), Imm(255))),
      "memcpy16.loop")
Memcpy16Done == Leave("memcpy16.done", regs, Reverse(All))

Memset == Save("memset", All, add16(regs, CD, Reg(A), Reg(B)), "memset.loop")
(* Slip: only the low byte of the address counts up.                       *)
MemsetLoopLow ==
  LET r == jnz(eq16(regs, AB, Reg(C), Reg(D)))
      to == ldaPair(r, AB)
  IN  IF r[F] # 0 THEN Run("memset.loop", r, "memset.done")
      ELSE /\ at = "memset.loop" /\ HL(to) \in DOMAIN mem
           /\ Stretch("memset.loop", jumped(inc(to, B)), stack,
                      [mem EXCEPT ![HL(to)] = to[Z]], "memset.loop")

MemsetLoop ==
  LET r == jnz(eq16(regs, AB, Reg(C), Reg(D)))
      to == ldaPair(r, AB)
      next == jumped(add16(to, AB, Imm(0), Imm(1)))
  IN  IF r[F] # 0 THEN Run("memset.loop", r, "memset.done")
      ELSE /\ at = "memset.loop" /\ HL(to) \in DOMAIN mem
           /\ Stretch("memset.loop", next, stack,
                      [mem EXCEPT ![HL(to)] = to[Z]], "memset.loop")
MemsetDone == Leave("memset.done", regs, Reverse(All))
-----------------------------------------------------------------------------
(* gfx.asm: the byte of the scan line is found with mul16_8 and shr, the   *)
(* mask of the pixel with shl.                                             *)
plus(r, w) == add16(r, AB, Imm(Hi(w)), Imm(Lo(w)))

SetPixel ==
  LET r == mw(mw(regs, D, Reg(A)), Z, Reg(C))
  IN  Call("set_pixel", mw(mw(r, A, Imm(0)), C, Imm(SCANLINE_WIDTH_BYTES)),
           pushed(regs, stack, All), mem, "mul16_8", "set_pixel.line")
SetPixelByte ==
  LET line == plus(regs, ADDR_BANK)
  IN  Call("set_pixel.line", mw(mw(line, A, Reg(D)), B, Imm(3)),
           pushed(line, stack, AB), mem, "shr", "set_pixel.byte")
SetPixelMask ==
  LET back == popped(mw(regs, C, Reg(A)), stack, <<B, A>>)
      byte == and(plus(add16b(back, AB, Reg(C)), SCANLINE_OFFSET_BYTES), D, Imm(7))
  IN  Call("set_pixel.byte", mw(mw(byte, A, Imm(1)), B, Reg(D)),
           pushed(byte, dropped(stack, AB), AB), mem, "shl", "set_pixel.mask")
SetPixelStore ==
  LET back == popped(mw(regs, D, Reg(A)), stack, <<B, A>>)
      hl == ldaPair(back, AB)
      r == jumped([hl EXCEPT ![C] = mem[HL(hl)]])
      new == IF r[Z] # 0 THEN or(r, C, Reg(D)) ELSE jumped(and(not(r, D), C, Reg(D)))
  IN  /\ at = "set_pixel.mask" /\ HL(hl) \in DOMAIN mem
      /\ Stretch("set_pixel.mask", ldaPair(new, AB), dropped(stack, AB),
                 [mem EXCEPT ![HL(hl)] = new[C]], "set_pixel.done")
SetPixelDone == Leave("set_pixel.done", regs, Reverse(All))
-----------------------------------------------------------------------------
(* The memory as the program calls the routine.                            *)
Start == [Contents EXCEPT ![D0] = Lo(request.d0), ![D0 + 1] = Hi(request.d0)]

LibInit ==
  /\ request \in Requests
  /\ regs = request.regs
  /\ mem = Start
  /\ stack = << >>
  /\ at = request.routine
  /\ calls = <<"program">>

(* The program has its result, and what it does with it is not modelled.  *)
Ended == at = "program" /\ UNCHANGED libVars

LibNext ==
  \/ Mul \/ MulLoop \/ MulDone
  \/ Mul16by8 \/ Mul16by8Loop \/ Mul16by8Done
  \/ Mul16 \/ Mul16Loop \/ Mul16Done
  \/ Cmp16 \/ Cmp16Back
  \/ Shl \/ ShlShift \/ ShlDone
  \/ Shl16 \/ Shl16Shift \/ Shl16Done
  \/ Shr \/ ShrShift \/ ShrDone
  \/ Strlen \/ StrlenLoop \/ StrlenDone
  \/ MemcpyIn \/ MemcpyLoop \/ MemcpyDone
  \/ Memcpy16 \/ Memcpy16Loop \/ Memcpy16Back \/ Memcpy16Done
  \/ Memset \/ MemsetLoop \/ MemsetDone
  \/ SetPixel \/ SetPixelByte \/ SetPixelMask \/ SetPixelStore \/ SetPixelDone
  \/ Ended

(* A processor goes on executing instructions: weak fairness of LibNext,   *)
(* which is enabled (no run deadlocks) wherever execution is.              *)
Executes == []<>(at = "program") \/ []<><<TRUE>>_libVars
LibSpec == LibInit /\ [][LibNext]_libVars /\ Executes
-----------------------------------------------------------------------------
Labels ==
  Routines \cup {"program", "mul.loop", "mul.done", "mul16_8.loop",
    "mul16_8.done", "mul16.loop", "mul16.done", "cmp16.back", "shl.shift",
    "shl.done", "shl16.shift", "shl16.done", "shr.shift", "shr.done",
    "strlen.loop", "strlen.done", "memcpy.loop", "memcpy.done",
    "memcpy16.loop", "memcpy16.back", "memcpy16.done", "memset.loop",
    "memset.done", "set_pixel.line", "set_pixel.byte", "set_pixel.mask",
    "set_pixel.done"}

(* Registers and memory hold bytes, execution is at a label, and no more   *)
(* than one call of the library itself is open.                            *)
LibTypeOK ==
  /\ regs \in [Register -> Byte]
  /\ mem \in [DOMAIN Contents -> Byte]
  /\ stack \in Seq(Byte) /\ Len(stack) <= 12
  /\ at \in Labels
  /\ calls \in Seq(Labels) /\ Len(calls) <= 2
  /\ request \in Requests

Returned(routine) == at = "program" /\ request.routine = routine
Was(d) == request.regs[d]
WasAB == WordIn(request.regs, AB)
WasCD == WordIn(request.regs, CD)
Power(n) == IF n < 16 THEN 2 ^ n ELSE 0      \* modulo 2^16

(* The multiplications and the shifts to the left return the product       *)
(* modulo their width, whatever F was and however long the loop runs. One   *)
(* case is not a product: mul16 by zero returns its first operand, because *)
(* it tests the second before it clears the result.                        *)
ProductsRight ==
  /\ Returned("mul") => regs[A] = ToByte(Was(A) * Was(B))
  /\ Returned("mul16_8") => WordIn(regs, AB) = ToWord(WasAB * Was(C))
  /\ Returned("mul16") => WordIn(regs, AB) =
       IF WasCD = 0 THEN WasAB ELSE ToWord(WasAB * WasCD)
  /\ Returned("shl") => regs[A] = ToByte(Was(A) * Power(Was(B)))
  /\ Returned("shl16") => WordIn(regs, AB) = ToWord(WasAB * Power(Was(C)))

(* cmp16 leaves the flags LESS and EQUAL of the 16-bit operands. It shifts *)
(* the flags of the high bytes right by themselves, and so is right only   *)
(* as long as shr shifts by one place however many it is asked for.        *)
OrderRight ==
  Returned("cmp16") =>
    regs[F] = (IF WasAB < WasCD THEN F_LESS ELSE 0)
              + (IF WasAB = WasCD THEN F_EQUAL ELSE 0)

(* Bytes from an address on, which may run over the end of the address     *)
(* space; the copy of bytes and the filling of them.                       *)
Within(a, to, n) == ToWord(a - to) < n
Shifted(from, to, n) ==
  [a \in DOMAIN Contents |->
     IF Within(a, to, n) THEN Start[ToWord(from + ToWord(a - to))] ELSE Start[a]]
Filled(to, n, byte) ==
  [a \in DOMAIN Contents |-> IF Within(a, to, n) THEN byte ELSE Start[a]]
Outside(m) == [a \in DOMAIN Contents \ {D0, D0 + 1} |-> m[a]]

(* A copy upwards onto its own source repeats the first bytes instead, and *)
(* memcpy16 keeps its length in the scratch word.                          *)
Copies(from, to, n) == ToWord(to - from) \notin 1 .. n - 1
Apart(a, n) == ~Within(D0, a, n) /\ ~Within(D0 + 1, a, n)

Dot == ADDR_BANK + SCANLINE_WIDTH_BYTES * Was(B) + SCANLINE_OFFSET_BYTES
       + (Was(A) \div 2)
Mask == Power(Was(A) % 8)

(* memcpy and memcpy16 leave at the destination what the source was, byte  *)
(* by byte and in pieces of 255, also when the two overlap and the source  *)
(* is above; memset fills; no other byte but the scratch word changes. The *)
(* length of a string is counted modulo 256. set_pixel changes one bit of  *)
(* one byte, the bit of its column, but in the byte of column x div 2,     *)
(* which is where shr by 3 leads it.                                       *)
MemoryRight ==
  /\ Returned("memcpy") /\ Copies(WasCD, WasAB, Was(Z)) =>
       mem = Shifted(WasCD, WasAB, Was(Z))
  /\ /\ Returned("memcpy16") /\ Copies(WasCD, WasAB, request.d0)
     /\ Apart(WasCD, request.d0) /\ Apart(WasAB, request.d0)
     => Outside(mem) = Outside(Shifted(WasCD, WasAB, request.d0))
  /\ Returned("memset") => mem = Filled(WasAB, WasCD, Was(Z))
  /\ Returned("set_pixel") =>
       mem = [Start EXCEPT ![Dot] = IF Was(C) # 0 THEN Or(@, Mask)
                                    ELSE And(@, ByteMax - Mask)]
  /\ Returned("mul16") => Outside(mem) = Outside(Start)
  /\ /\ at = "program"
     /\ request.routine \notin {"memcpy", "memcpy16", "memset", "set_pixel", "mul16"}
     => mem = Start
  /\ Returned("strlen") =>
       \E n \in Word :
         /\ Start[ToWord(WasAB + n)] = 0 /\ regs[Z] = ToByte(n)
         /\ \A i \in 0 .. n - 1 : Start[ToWord(WasAB + i)] # 0

Results(routine) ==
  CASE routine \in {"mul", "shl", "shr"} -> {A}
    [] routine \in {"mul16_8", "mul16", "shl16"} -> {A, B}
    [] routine = "strlen" -> {Z}
    [] OTHER -> {}

(* A routine returns with the stack as it was and with every register but  *)
(* its results and F, H and L as the program left it, also when it calls   *)
(* another one.                                                            *)
RegistersKept ==
  at = "program" =>
    /\ stack = << >> /\ calls = << >>
    /\ \A d \in Register \ (Results(request.routine) \cup {F, H, L}) :
         regs[d] = Was(d)

(* Every routine returns, at the edges of its counters too.                *)
Returns == <>(at = "program")
-----------------------------------------------------------------------------
(* A claim of a comment that the code does not keep; shift.asm, of shr:    *)
(* "b: number of times to shift".                                          *)
ShiftsRight == Returned("shr") =>
  regs[A] = IF Was(B) < 8 THEN Was(A) \div Power(Was(B)) ELSE 0
=============================================================================
