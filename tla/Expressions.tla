---------------------------- MODULE Expressions ----------------------------
(***************************************************************************)
(* Constant expressions of the assembler (asm/eval.c). An expression is    *)
(* evaluated strictly from left to right; only parentheses change the      *)
(* order. eval_exp() calls itself for an inner pair of parentheses, which  *)
(* is a stack of frames here: the value so far and the operation waiting   *)
(* for its right-hand side.                                                *)
(*                                                                         *)
(* A token is a record with a kind, and a value if it is a number. Values  *)
(* are i64 in the code; operands are small enough here not to overflow.    *)
(***************************************************************************)
EXTENDS Bytes, Sequences, FiniteSetsExt, SequencesExt

(* EVAL_EXP_UNDEFINED and an acc that is set: a sequence of at most one.   *)
UNDEFINED == << >>
NoOp == "nop"

(* Operations on the bits of an i64 with the sign extended, as far as      *)
(* operands reach (both are below 2^17 in size). ones has the bit pairs     *)
(* that give a one.                                                        *)
Bits == 0 .. 17
AndOnes == {<<1, 1>>}
OrOnes == {<<0, 1>>, <<1, 0>>, <<1, 1>>}
XorOnes == {<<0, 1>>, <<1, 0>>}
Signed(ones, a, b) ==
  LET One(x, y) == If01(<<x, y>> \in ones)
  IN  MapThenSumSet(LAMBDA k : 2^k * One(BitAt(a, 2^k), BitAt(b, 2^k)), Bits)
        - 2^18 * One(If01(a < 0), If01(b < 0))

(* C divides towards zero. *)
Quotient(a, b) ==
  LET Size(n) == IF n < 0 THEN -n ELSE n
      q == Size(a) \div Size(b)
  IN  IF (a < 0) = (b < 0) THEN q ELSE -q

(* The value of an operation with both its operands. *)
Binary(op, a, b) ==
  CASE op = "-" -> a - b
    [] op = "+" -> a + b
    [] op = "*" -> a * b
    [] op = "/" -> Quotient(a, b)
    [] op = "&" -> Signed(AndOnes, a, b)
    [] op = "|" -> Signed(OrOnes, a, b)
    [] op = "^" -> Signed(XorOnes, a, b)
    [] op = "<" -> a * 2^b
    [] op = ">" -> a \div 2^b
Operations == {"-", "+", "*", "/", "&", "|", "^", "<", ">"}
Unary(op, b) == IF op = "-" THEN -b ELSE -b - 1
PrefixOps == {"-", "~"}

(* Slip: a difference is taken the other way around. *)
eval_exp_opSwapped(op, lhs, rhs) ==
  IF lhs = UNDEFINED /\ op \in PrefixOps THEN <<Unary(op, rhs)>>
  ELSE IF /\ lhs # UNDEFINED /\ op \in Operations
          /\ op = "/" => rhs # 0
          /\ op \in {"<", ">"} => rhs \in 0 .. 62
       THEN <<IF op = "-" THEN rhs - lhs[1] ELSE Binary(op, lhs[1], rhs)>>
       ELSE UNDEFINED

(* eval_exp_op(): UNDEFINED where the process exits, dies of an assertion  *)
(* or a division by zero, or shifts by an amount C does not define. With   *)
(* no left-hand side, operations other than the prefixes compute with      *)
(* LONG_MAX and leave the range in the end (but for & and >, which         *)
(* programs do not use that way).                                          *)
eval_exp_op(op, lhs, rhs) ==
  IF lhs = UNDEFINED /\ op \in PrefixOps THEN <<Unary(op, rhs)>>
  ELSE IF /\ lhs # UNDEFINED /\ op \in Operations
          /\ op = "/" => rhs # 0
          /\ op \in {"<", ">"} => rhs \in 0 .. 62
       THEN <<Binary(op, lhs[1], rhs)>>
       ELSE UNDEFINED

InRange(v) == v \in -32768 .. WordMax
-----------------------------------------------------------------------------
(* eval_between() on the tokens of a line: every pair of parentheses that  *)
(* is not inside another is replaced by its value. values maps the place   *)
(* of the opening one to the value, closes maps it to the closing one.     *)
Frame(i) == [at |-> i, acc |-> UNDEFINED, op |-> NoOp]
Start == [frames |-> << >>, values |-> << >>, closes |-> << >>, failed |-> FALSE]
Fail(s) == [s EXCEPT !.failed = TRUE]

Operand(s, v) ==
  LET f == Head(s.frames)
      acc == IF f.op = NoOp THEN <<v>> ELSE eval_exp_op(f.op, f.acc, v)
  IN  IF acc = UNDEFINED THEN Fail(s)
      ELSE [s EXCEPT !.frames[1].acc = acc, !.frames[1].op = NoOp]

Operator(s, kind) ==
  IF Head(s.frames).op # NoOp THEN Fail(s)       \* "Double operation"
  ELSE [s EXCEPT !.frames[1].op = kind]

Opens(s, i) == [s EXCEPT !.frames = <<Frame(i)>> \o @]

Closes(s, i) ==
  LET f == Head(s.frames)
      outer == [s EXCEPT !.frames = Tail(@)]
  IN  IF f.acc = UNDEFINED \/ ~InRange(f.acc[1]) THEN Fail(s)
      ELSE IF Len(s.frames) > 1 THEN Operand(outer, f.acc[1])
      ELSE [outer EXCEPT !.values = @ @@ (f.at :> f.acc[1]),
                         !.closes = @ @@ (f.at :> i)]

EvalStep(line, s, i) ==
  LET k == line[i].kind IN
  CASE s.failed -> s
    [] ~s.failed /\ k = "(" -> Opens(s, i)
    [] ~s.failed /\ k # "(" /\ s.frames = << >> -> s
    [] ~s.failed /\ k = ")" /\ s.frames # << >> -> Closes(s, i)
    [] ~s.failed /\ k = "number" /\ s.frames # << >> -> Operand(s, line[i].value)
    [] OTHER -> Operator(s, k)

eval_between(line) ==
  LET end == FoldLeftDomain(LAMBDA s, i : EvalStep(line, s, i), Start, line)
  IN  IF end.frames # << >> THEN Fail(end) ELSE end
-----------------------------------------------------------------------------
(* What an expression means: an operand, a prefix and an operand, or an    *)
(* expression, an operation and an operand, where an operand is a number   *)
(* or an expression in parentheses. The definition goes from the right to  *)
(* the left.                                                               *)
Opening(e, j) ==   \* the parenthesis that the one at j closes
  CHOOSE i \in 1 .. j :
    /\ e[i].kind = "("
    /\ Cardinality({k \in i .. j : e[k].kind = "("})
         = Cardinality({k \in i .. j : e[k].kind = ")"})
    /\ \A m \in i + 1 .. j :
         Cardinality({k \in m .. j : e[k].kind = "("})
           # Cardinality({k \in m .. j : e[k].kind = ")"})

Meaning(e) ==
  LET Value[i \in 1 .. Len(e), j \in 0 .. Len(e)] ==
        LET first == IF e[j].kind = ")" THEN Opening(e, j) ELSE j
            last  == IF e[j].kind = ")" THEN Value[first + 1, j - 1]
                     ELSE e[j].value
        IN  CASE first = i -> last
              [] first = i + 1 -> Unary(e[i].kind, last)
              [] OTHER -> Binary(e[first - 1].kind, Value[i, first - 2], last)
  IN  Value[1, Len(e)]
=============================================================================
