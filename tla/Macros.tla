------------------------------- MODULE Macros -------------------------------
(***************************************************************************)
(* The built-in macro library, asm/macros.asm: each macro as what its body *)
(* does to the register file, the memory, the stack and the flow of        *)
(* control. Nothing interrupts a program on the JDH-8, so a macro is one   *)
(* step. A program is any sequence of macros; what it leaves in the flags  *)
(* register is what the next macro finds there.                            *)
(***************************************************************************)
EXTENDS MacroBodies, Sequences

CONSTANTS
  Work,        \* registers the program names as operands
  Values,      \* bytes in registers at the start, and immediate operands
  Flags,       \* contents of F at the start
  Words,       \* 16-bit immediate operands
  Targets,     \* addresses the program jumps to
  Cells,       \* addresses of memory the program uses
  Sites,       \* addresses the program calls from
  MaxMacros    \* bound: macros a program runs

(* The library's notes warn that macros trash F, and H and L when they deal *)
(* with memory: a program keeps its operands elsewhere.                    *)
ASSUME ConstantsAssumption ==
  /\ Work \subseteq Register \ {F, H, L}
  /\ Values \subseteq Byte /\ Flags \subseteq Byte
  /\ Words \subseteq Word /\ Targets \subseteq Word /\ Cells \subseteq Word
  /\ \A p \in Sites : p \in Nat /\ p + 10 \in Word
  /\ MaxMacros \in Nat

VARIABLES
  goto,      \* where the last macro jumped to, or On
  frames,    \* history: the calls and PUSHAs to be undone, the latest first
  budget     \* macros the program still runs

vars == <<regs, mem, stack, goto, frames, budget>>

On == -1     \* no jump: the program goes on after the macro

Operands == {Reg(d) : d \in Work} \cup {Imm(n) : n \in Values}

(* Pairs of registers, high byte first as the macros take them. *)
Pairs == {p \in Work \X Work : p[1] # p[2]}
-----------------------------------------------------------------------------
(* What the jumps are named for, of the operands a and b compared last.    *)
Holds(c, a, b) ==
  CASE c = "JLT" -> a < b
    [] c = "JLE" -> a <= b
    [] c = "JEQ" -> a = b
    [] c = "JNE" -> a # b
    [] c = "JGE" -> a >= b
    [] c = "JGT" -> a > b
    [] c = "JC"  -> a + b > ByteMax
    [] c = "JNC" -> a + b <= ByteMax
    [] c = "JB"  -> b > a
    [] c = "JNB" -> b <= a
-----------------------------------------------------------------------------
Runs == budget > 0 /\ budget' = budget - 1

Compute(r) ==
  /\ Runs
  /\ regs' = r
  /\ goto' = On
  /\ UNCHANGED <<mem, stack, frames>>

CLF         == Compute(clf(regs))
ST(n)       == Compute(stFlag(regs, n))     \* STL, STE, STC, STB
CL(n)       == Compute(clFlag(regs, n))     \* CLL, CLE, CLC, CLB
CMP(d, x)   == Compute(cmp(regs, d, x))
SUB(d, x)   == Compute(sub(regs, d, x))
INC(d)      == Compute(inc(regs, d))
FDEC(d)     == Compute(fdec(regs, d))
DEC(d)      == Compute(dec(regs, d))
NOT(d)      == Compute(not(regs, d))
NAND(d, x)  == Compute(nand(regs, d, x))
XNOR(d, x)  == Compute(xnor(regs, d, x))
XOR(d, x)   == Compute(xor(regs, d, x))
INC16(p)    == Compute(inc16(regs, p))
DEC16(p)    == Compute(dec16(regs, p))
ADD16b(p, x) == Compute(add16b(regs, p, x))
ADD16r(p, q) == Compute(add16(regs, p, Reg(q[1]), Reg(q[2])))
ADD16i(p, w) == Compute(add16(regs, p, Imm(Hi(w)), Imm(Lo(w))))
SUB16b(p, x) == Compute(sub16b(regs, p, x))
SUB16r(p, q) == Compute(sub16(regs, p, Reg(q[1]), Reg(q[2])))
SUB16i(p, w) == Compute(sub16(regs, p, Imm(Hi(w)), Imm(Lo(w))))
EQ16r(p, q)  == Compute(eq16(regs, p, Reg(q[1]), Reg(q[2])))
EQ16i(p, w)  == Compute(eq16(regs, p, Imm(Hi(w)), Imm(Lo(w))))

(* JNZ %x0, [%i1], with which every conditional jump ends. *)
JNZ(r, x, to) ==
  /\ Runs
  /\ regs' = lda(r, to)
  /\ goto' = IF Val(lda(r, to), x) # 0 THEN to ELSE On
  /\ UNCHANGED <<mem, stack, frames>>

Jcc(c, d, x, to) == JNZ(test(c, cmp(regs, d, x)), Reg(F), to)
JccF(c, to)      == JNZ(test(c, regs), Reg(F), to)
JZ(d, to)        == JNZ(isZero(regs, d), Reg(F), to)
JMS(d, x, to)    == JNZ(and(mw(regs, F, Reg(d)), F, x), Reg(F), to)
JMN(d, x, to)    == JNZ(and(not(mw(regs, F, Reg(d)), F), F, x), Reg(F), to)
-----------------------------------------------------------------------------
(* LW16 and SW16: by address, and by HL, which they leave on the high byte *)
(* after an INC16 of HL.                                                   *)
LW16(p, a) ==
  /\ {a, a + 1} \subseteq Cells
  /\ Compute([regs EXCEPT ![p[2]] = mem[a], ![p[1]] = mem[a + 1]])

LW16HL(p) ==
  LET low  == [regs EXCEPT ![p[2]] = mem[HL(regs)]]
      next == inc16(low, hlPair)
  IN  /\ HL(regs) \in Cells /\ HL(next) \in Cells
      /\ Compute([next EXCEPT ![p[1]] = mem[HL(next)]])

Store(r, a, lo, b, hi) ==
  /\ Runs
  /\ {a, b} \subseteq Cells
  /\ regs' = r
  /\ mem' = [mem EXCEPT ![a] = lo, ![b] = hi]
  /\ goto' = On
  /\ UNCHANGED <<stack, frames>>

SW16(a, p) == Store(regs, a, regs[p[2]], a + 1, regs[p[1]])
SW16i(a, w) == Store(mw(regs, F, Imm(Hi(w))), a, Lo(w), a + 1, Hi(w))

(* Slip: HL is incremented one byte wide.                                  *)
SW16HLBytewise(p) ==
  LET next == inc(regs, L)
  IN  Store(next, HL(regs), regs[p[2]], HL(next), next[p[1]])

SW16HL(p) ==
  LET next == inc16(regs, hlPair)
  IN  Store(next, HL(regs), regs[p[2]], HL(next), next[p[1]])

LDA(p) == Compute(ldaPair(regs, p))
LDAi(w) == Compute(lda(regs, w))
-----------------------------------------------------------------------------
(* CALL pushes the address after itself, high byte first, as two immediate *)
(* operands computed from $, the address of the instruction they are in. A *)
(* frame remembers the stack as it was under it.                           *)
Return(to) == [kind |-> "call", to |-> to, rest |-> stack]
Saved(r) == [kind |-> "saved", regs |-> r, rest |-> stack]

Enter(r, hi, lo, ret) ==
  /\ Runs
  /\ stack' = <<lo, hi>> \o stack
  /\ regs' = r
  /\ goto' = HL(r)
  /\ frames' = <<Return(ret)>> \o frames
  /\ UNCHANGED mem

(* Slip: the two operands use the same offset, as if $ did not move.       *)
CALLSameOffset(at, to) ==
  Enter(lda(regs, to), Hi(at + 7), Lo(at + 2 + 7), at + 9)

CALL(at, to) ==
  Enter(lda(regs, to), Hi(at + 9), Lo(at + 2 + 7), at + 9)
CALLr(at, p) ==
  Enter(ldaPair(regs, p), Hi(at + 10), Lo(at + 2 + 8), at + 10)

(* Slip: RET leaves the high byte of the address on the stack.             *)
RETOneByte ==
  /\ frames # << >> /\ Head(frames).kind = "call"
  /\ Runs
  /\ regs' = [regs EXCEPT ![L] = stack[1], ![H] = stack[2]]
  /\ goto' = HL(regs')
  /\ stack' = SubSeq(stack, 2, Len(stack))
  /\ frames' = Tail(frames)
  /\ UNCHANGED mem

RET ==
  /\ frames # << >> /\ Head(frames).kind = "call"
  /\ Runs
  /\ regs' = [regs EXCEPT ![L] = stack[1], ![H] = stack[2]]
  /\ goto' = HL(regs')
  /\ stack' = SubSeq(stack, 3, Len(stack))
  /\ frames' = Tail(frames)
  /\ UNCHANGED mem

(* PUSHA and POPA: through the PUSH and POP macros of several registers. *)
PUSHA ==
  /\ Runs
  /\ stack' = <<regs[Z], regs[D], regs[C], regs[B], regs[A]>> \o stack
  /\ frames' = <<Saved(regs)>> \o frames
  /\ goto' = On
  /\ UNCHANGED <<regs, mem>>

POPA ==
  /\ frames # << >> /\ Head(frames).kind = "saved"
  /\ Runs
  /\ regs' = [regs EXCEPT ![Z] = stack[1], ![D] = stack[2], ![C] = stack[3],
                          ![B] = stack[4], ![A] = stack[5]]
  /\ stack' = SubSeq(stack, 6, Len(stack))
  /\ frames' = Tail(frames)
  /\ goto' = On
  /\ UNCHANGED mem
-----------------------------------------------------------------------------
Init ==
  /\ regs \in {[d \in Register |->
                  CASE d = F -> f [] d \in Work -> v[d] [] OTHER -> 0] :
                f \in Flags, v \in [Work -> Values]}
  /\ mem = [a \in Cells |-> 0]
  /\ stack = << >>
  /\ goto = On
  /\ frames = << >>
  /\ budget = MaxMacros

Next ==
  \/ \E d \in Work, x \in Operands :
       \/ CMP(d, x) \/ SUB(d, x) \/ NAND(d, x) \/ XNOR(d, x) \/ XOR(d, x)
  \/ CLF \/ \E n \in FlagWeights : ST(n) \/ CL(n)
  \/ \E d \in Work : INC(d) \/ FDEC(d) \/ DEC(d) \/ NOT(d)
  \/ \E p \in Pairs : INC16(p) \/ DEC16(p)
  \/ \E p \in Pairs, d \in Work : ADD16b(p, Reg(d)) \/ SUB16b(p, Reg(d))
  \/ \E p \in Pairs, q \in Pairs : ADD16r(p, q) \/ SUB16r(p, q) \/ EQ16r(p, q)
  \/ \E p \in Pairs, w \in Words : ADD16i(p, w) \/ SUB16i(p, w) \/ EQ16i(p, w)
  \/ \E c \in Comparisons, d \in Work, x \in Operands, to \in Targets :
       Jcc(c, d, x, to)
  \/ \E c \in FlagJumps, to \in Targets : JccF(c, to)
  \/ \E d \in Work, to \in Targets : JZ(d, to)
  \/ \E d \in Work, x \in Operands, to \in Targets :
       JMS(d, x, to) \/ JMN(d, x, to)
  \/ \E p \in Pairs, a \in Cells : LW16(p, a) \/ SW16(a, p)
  \/ \E a \in Cells, w \in Words : SW16i(a, w)
  \/ \E p \in Pairs : LW16HL(p) \/ SW16HL(p) \/ LDA(p)
  \/ \E w \in Cells : LDAi(w)
  \/ \E at \in Sites, to \in Targets : CALL(at, to)
  \/ \E at \in Sites, p \in Pairs : CALLr(at, p)
  \/ RET \/ PUSHA \/ POPA

Spec == Init /\ [][Next]_vars
-----------------------------------------------------------------------------
Frame == [kind : {"call"}, to : Word, rest : Seq(Byte)]
         \cup [kind : {"saved"}, regs : [Register -> Byte], rest : Seq(Byte)]

(* Registers, memory, stack and goto hold what their widths allow.         *)
TypeOK ==
  /\ regs \in [Register -> Byte]
  /\ mem \in [Cells -> Byte]
  /\ stack \in Seq(Byte)
  /\ goto \in {On} \cup Word
  /\ frames \in Seq(Frame)
  /\ budget \in 0 .. MaxMacros

(* Register file t has n in the pair p, and differs from regs in p and F   *)
(* only.                                                                   *)
Keeps(t, S) == \A d \in Register \ S : t[d] = regs[d]
Becomes(t, p, n) == WordIn(t, p) = ToWord(n) /\ Keeps(t, {p[1], p[2], F})

(* The 16-bit macros that clear their carry or borrow or make their own    *)
(* compute modulo 2^16, whatever the macros before left in F, and change   *)
(* no register but their pair and F. (ADD16 of two pairs needs the         *)
(* source's high byte elsewhere than the low byte it changes first.)       *)
WordArithmetic ==
  \A p \in Pairs : LET n == WordIn(regs, p) IN
    /\ Becomes(inc16(regs, p), p, n + 1)
    /\ Becomes(dec16(regs, p), p, n - 1)
    /\ \A d \in Work : Becomes(add16b(regs, p, Reg(d)), p, n + regs[d])
    /\ \A q \in Pairs : q[1] # p[2] =>
         Becomes(add16(regs, p, Reg(q[1]), Reg(q[2])), p, n + WordIn(regs, q))
    /\ \A w \in Words : Becomes(add16(regs, p, Imm(Hi(w)), Imm(Lo(w))), p, n + w)

BitXor(a, b) == IF a = b THEN 0 ELSE 1
Leaves(t, d, n) == t[d] = n /\ Keeps(t, {d, F})

(* SUB, DEC and the bitwise macros give what they are named for, although  *)
(* they use F for intermediate results; XNOR needs two different operands. *)
ByteResults ==
  \A d \in Work : LET a == regs[d] IN
    /\ Leaves(dec(regs, d), d, ToByte(a - 1))
    /\ Leaves(not(regs, d), d, ByteMax - a)
    /\ \A x \in Operands : LET b == Val(regs, x) IN
         /\ Leaves(sub(regs, d, x), d, ToByte(a - b))
         /\ Leaves(nand(regs, d, x), d, ByteMax - And(a, b))
         /\ Leaves(xor(regs, d, x), d, Bitwise(BitXor, a, b))
         /\ x # Reg(d) => Leaves(xnor(regs, d, x), d,
                                 ByteMax - Bitwise(BitXor, a, b))

Sound == FlagJumps \ {"JGE"}
Taken(c, r) == test(c, r)[F] # 0

(* A conditional jump with operands is taken exactly if its comparison     *)
(* holds, and changes F only on the way there. (JGE is another matter: its *)
(* mask lets every comparison through, see JgeAlwaysTaken.)                *)
JumpsRight ==
  \A c \in Sound \cap Comparisons, d \in Work, x \in Operands :
    LET r == cmp(regs, d, x) IN
    /\ Taken(c, r) <=> Holds(c, regs[d], Val(regs, x))
    /\ Keeps(test(c, r), {F})

(* A conditional jump without operands, where F still is as a CMP or an    *)
(* addition of a and b has left it, is taken exactly if a and b are so.    *)
FlagJumpsRight ==
  \A c \in Sound, a \in Values, b \in Values :
    regs[F] = FlagsOf(a, b) => (Taken(c, regs) <=> Holds(c, a, b))

(* 16-bit words are kept low byte first at the address, across page        *)
(* boundaries too: what SW16 stores is what LW16 loads.                    *)
WordAt(m, a) == Pair(m[a], m[ToWord(a + 1)])
MemoryWords ==
  [][\A p \in Pairs :
       /\ SW16HL(p) => /\ WordAt(mem', HL(regs)) = WordIn(regs, p)
                       /\ HL(regs') = ToWord(HL(regs) + 1)
       /\ LW16HL(p) => WordIn(regs', p) = WordAt(mem, HL(regs))
       /\ \A b \in Cells :
            /\ SW16(b, p) => WordAt(mem', b) = WordIn(regs, p)
            /\ LW16(p, b) => WordIn(regs', p) = WordAt(mem, b)]_vars

(* The stack is the bytes of the latest frame on top of the stack as it    *)
(* was under that frame, and so on down: nothing a program leaves there    *)
(* moves or changes before it is popped.                                   *)
BytesOf(f) ==
  IF f.kind = "call" THEN <<Lo(f.to), Hi(f.to)>>
  ELSE <<f.regs[Z], f.regs[D], f.regs[C], f.regs[B], f.regs[A]>>
Over(i) == IF i = 1 THEN stack ELSE frames[i - 1].rest
FramesOnStack ==
  \A i \in 1 .. Len(frames) : Over(i) = BytesOf(frames[i]) \o frames[i].rest

(* However calls and PUSHA nest, RET goes to the instruction after the     *)
(* CALL it belongs to, and POPA restores what its PUSHA saved.             *)
CallsReturn ==
  [][/\ RET => goto' = Head(frames).to
     /\ POPA => \A d \in {A, B, C, D, Z} :
                  regs'[d] = Head(frames).regs[d]]_vars
=============================================================================
