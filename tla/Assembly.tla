------------------------------ MODULE Assembly ------------------------------
(***************************************************************************)
(* The parser of the assembler: definitions of macros, their expansion,    *)
(* the operations and their encoding (asm/macro.c, parse() and emit() in   *)
(* asm/asm.c, data directives in asm/directive.c). Tokens are linked into  *)
(* a chain both ways. Lines are rewritten in place: a label becomes its    *)
(* value, an expression its value, and a line that calls a macro is cut    *)
(* out of the chain and replaced by a copy of the macro's tokens in which  *)
(* the arguments are copies of the caller's tokens.                        *)
(*                                                                         *)
(* The heap is the sequence of all tokens allocated and a pointer is an    *)
(* index into it. What lex() does is in Lexer; @org and the resolution of  *)
(* labels are in Labels, whose operators are used here.                    *)
(***************************************************************************)
EXTENDS Expressions

CONSTANTS
  Sources,   \* token streams lex() may deliver: sequences of [kind, name, value]
  Letter     \* the first letter of names: a function from names

VARIABLES
  heap,      \* every token: [kind, name, value, prev, next, sub]
  cur,       \* t in assemble(): where parse() goes on
  ops,       \* ctx->ops: the instructions, then macros as they are defined
  macro,     \* ctx->macro: a definition must follow
  labels,    \* ctx->labels, in the order of definition
  patches,   \* ctx->patches not yet applied, the latest first
  out,       \* ctx->out
  phase,     \* "parsing", "patching", "done" or "error"
  listing    \* history: what was emitted and what its source says

vars == <<heap, cur, ops, macro, labels, patches, out, phase, listing>>

NULL == 0

Lab == INSTANCE Labels WITH
  Names <- {}, Sizes <- {}, Origins <- {}, MaxSize <- 0, MaxStatements <- 0,
  org <- 65535, refs <- << >>, budget <- 0
-----------------------------------------------------------------------------
(* Registers and instructions, with the kinds of operands they take.       *)
Registers == <<"a", "b", "c", "d", "l", "h", "z", "f">>    \* R_NAMES
is_register(t) ==
  t.kind = "symbol" /\ \E r \in DOMAIN Registers : Registers[r] = t.name
token_register(t) ==
  (CHOOSE r \in DOMAIN Registers : Registers[r] = t.name) - 1

IMM == {"imm8", "imm16"}
REG == {"reg"}
IMM8_REG == {"imm8", "reg"}
IMM16_HL == {"imm16", "hl", "addr"}

InstructionNames ==
  <<"mw", "lw", "sw", "push", "pop", "lda", "jnz", "inb", "outb",
    "add", "adc", "and", "or", "nor", "cmp", "sbb">>
OperandKinds(name) ==
  CASE name = "lw" -> <<REG, IMM16_HL>>
    [] name = "sw" -> <<IMM16_HL, REG>>
    [] name \in {"push", "jnz"} -> <<IMM8_REG>>
    [] name = "pop" -> <<REG>>
    [] name = "lda" -> <<{"imm16"}>>
    [] name = "outb" -> <<IMM8_REG, REG>>
    [] OTHER -> <<REG, IMM8_REG>>
INSTRUCTIONS ==
  [i \in DOMAIN InstructionNames |->
     [name |-> InstructionNames[i], args |-> OperandKinds(InstructionNames[i]),
      macro |-> FALSE, arg_names |-> << >>, start |-> NULL, end |-> NULL]]
-----------------------------------------------------------------------------
(* The chain of h from t on, and the line that starts at t, without the    *)
(* token that ends it.                                                     *)
Chain(h, t) ==
  LET From[u \in 0 .. Len(h)] ==
        IF u = NULL THEN << >> ELSE <<u>> \o From[h[u].next]
  IN  From[t]
Eol(h, t) ==
  LET Search[u \in 1 .. Len(h)] ==
        IF h[u].kind = "eol" THEN u ELSE Search[h[u].next]
  IN  Search[t]
Line(h, t) ==
  LET From[u \in 1 .. Len(h)] ==
        IF h[u].kind = "eol" THEN << >> ELSE <<u>> \o From[h[u].next]
  IN  From[t]

(* parse() skips tokens whose bit 0 is set (TF_IGNORE is used as a mask),  *)
(* which is the bit that marks sub-labels.                                 *)
first ==
  LET Skip[u \in 0 .. Len(heap)] ==
        IF u # NULL /\ heap[u].sub THEN Skip[heap[u].next] ELSE u
  IN  Skip[cur]
eol == Eol(heap, first)
last == heap[eol].prev

Parsing == phase = "parsing" /\ cur # NULL
AtLine == Parsing /\ first # NULL /\ heap[first].kind # "eol"
AtDirective == AtLine /\ heap[first].kind = "@"
AtLabel == AtLine /\ heap[first].kind # "@" /\ heap[last].kind = ":"
AtOperation == AtLine /\ heap[first].kind # "@" /\ heap[last].kind # ":"

Exit ==
  /\ phase' = "error"
  /\ UNCHANGED <<heap, cur, ops, macro, labels, patches, out, listing>>
-----------------------------------------------------------------------------
(* eval_labels() over the tokens ts: $ and known labels become numbers;    *)
(* the dot before a name is taken out of the chain, but stays the name's   *)
(* predecessor.                                                            *)
Location == Lab!location

Undotted(h, t) ==
  LET dot == h[t].prev
  IN  IF h[dot].kind = "."
      THEN [h EXCEPT ![h[dot].prev].next = t, ![t].sub = TRUE]
      ELSE h

Settle(h, t) ==
  LET known == {l \in DOMAIN labels : Lab!Resolves(l, h[t].name, Lab!NULL)}
  IN  IF h[t].kind = "$"
      THEN [h EXCEPT ![t].kind = "number", ![t].value = Location]
      ELSE IF h[t].kind # "symbol" THEN h
      ELSE IF is_register(h[t]) \/ known = {} THEN Undotted(h, t)
      ELSE [Undotted(h, t) EXCEPT ![t].kind = "number",
              ![t].value = labels[CHOOSE l \in known : TRUE].value]

eval_labels(h, ts) == FoldLeft(Settle, h, ts)

(* eval_between(): the opening parenthesis becomes the number and is       *)
(* linked past the closing one.                                            *)
Folded(h, ts, e) ==
  LET Fold(g, i) ==
        [g EXCEPT ![ts[i]].kind = "number", ![ts[i]].value = e.values[i],
                  ![ts[i]].next = h[ts[e.closes[i]]].next]
  IN  FoldSet(LAMBDA i, g : Fold(g, i), h, DOMAIN e.values)

(* Both, from the token t to the end of its line.                          *)
EvaluatedAs(h, ts, e) == [heap |-> Folded(h, ts, e), failed |-> e.failed]
EvaluatedTokens(h, ts) ==
  EvaluatedAs(h, ts, eval_between([i \in DOMAIN ts |-> h[ts[i]]]))
EvaluatedLine(named, t) == EvaluatedTokens(named, Line(named, t))
Evaluated(h, t) == EvaluatedLine(eval_labels(h, Line(h, t)), t)
-----------------------------------------------------------------------------
(* type_args(): the kinds of the arguments and their tokens.               *)
NoArgs == [args |-> << >>, tokens |-> << >>, address |-> -1, failed |-> FALSE]

TypeStep(h, ts, s, i) ==
  LET t == h[ts[i]]
      bad == [s EXCEPT !.failed = TRUE]
      n == Len(s.args)
      With(kinds, address) ==
        [s EXCEPT !.args = Append(@, kinds), !.tokens = Append(@, ts[i]),
                  !.address = address]
  IN  CASE s.failed -> s
        [] ~s.failed /\ t.kind = "[" -> [s EXCEPT !.address = 0]
        [] ~s.failed /\ t.kind = "]" ->
             IF s.address > 0 /\ s.args[n] \cap IMM # {}
             THEN [s EXCEPT !.args[n] = @ \cup {"addr"}, !.address = -1]
             ELSE bad
        [] ~s.failed /\ t.kind = "number" ->
             IF t.value <= WordMax /\ s.address \in {-1, 0}
             THEN With(IF t.value <= ByteMax THEN {"imm8"} ELSE {"imm16"},
                       IF s.address = 0 THEN 1 ELSE s.address)
             ELSE bad
        [] ~s.failed /\ t.kind = "." ->
             IF i < Len(ts) /\ h[ts[i + 1]].kind = "symbol" THEN s ELSE bad
        [] ~s.failed /\ t.kind = "symbol" ->
             IF s.address # -1 THEN With({"addr", "imm16"}, s.address + 1)
             ELSE IF is_register(t) THEN With(REG, -1) ELSE bad
        [] OTHER -> bad

type_args(h, ts) ==
  FoldLeftDomain(LAMBDA s, i : TypeStep(h, ts, s, i), NoArgs, ts)

(* check_args(): an argument that may be left out for HL is skipped when   *)
(* it does not match.                                                      *)
Mismatch(op, arg) ==
  \/ "addr" \in op /\ arg \cap IMM = {}
  \/ "reg" \in op /\ op \cap IMM = {} /\ "reg" \notin arg
  \/ op \cap IMM # {} /\ "reg" \notin op /\ arg \cap IMM = {}
  \/ "imm8" \in op /\ "imm16" \notin op /\ "imm16" \in arg

check_args(op, args) ==
  LET n == Len(args)
      m == Len(op)
      Ok[i \in 1 .. n + 1, j \in 1 .. m + 1] ==
        IF i = n + 1 THEN j = m + 1 \/ "hl" \in op[j]
        ELSE /\ j # m + 1
             /\ IF Mismatch(op[j], args[i]) THEN "hl" \in op[j] /\ Ok[i, j + 1]
                ELSE Ok[i + 1, j + 1]
  IN  Ok[1, 1]

(* The operations of a name that take the arguments; parse() uses the      *)
(* first of them.                                                          *)
Matching(name, args) ==
  {k \in DOMAIN ops : ops[k].name = name /\ check_args(ops[k].args, args)}
-----------------------------------------------------------------------------
(* The line at first as an operation: its evaluated tokens, its arguments  *)
(* and the operation chosen.                                               *)
Choice(e, typed, fits) ==
  [heap |-> e.heap, args |-> typed.args, tokens |-> typed.tokens,
   ok |-> /\ heap[first].kind = "symbol"
          /\ ~e.failed /\ ~typed.failed /\ fits # {},
   op |-> IF fits = {} THEN 0 ELSE Min(fits)]
Typed(e, typed) == Choice(e, typed, Matching(heap[first].name, typed.args))
OperationOf(e) == Typed(e, type_args(e.heap, Line(e.heap, e.heap[first].next)))
Operation == OperationOf(Evaluated(heap, heap[first].next))

Opcode(op, y, z) == 16 * (op - 1) + 8 * If01(y) + z

(* emit_addr(): a label that is not known yet leaves two bytes open.       *)
AddressBytes(t) ==
  IF t.kind = "symbol" THEN <<Lab!Placeholder, Lab!Placeholder>>
  ELSE <<t.value % 256, (t.value \div 256) % 256>>

(* emit(): the bytes of an instruction, with the operands at ts.           *)
emit(op, args, ts) ==
  LET n == Len(args)
      name == ops[op].name
      Y(i) == "reg" \in args[i]
      Value(i) == IF Y(i) THEN token_register(ts[i]) ELSE ToByte(ts[i].value)
  IN  CASE name = "lw" ->
             <<Opcode(op, n # 2, token_register(ts[1]))>>
               \o (IF n = 2 THEN AddressBytes(ts[2]) ELSE << >>)
        [] name = "sw" ->
             <<Opcode(op, n # 2, token_register(ts[n]))>>
               \o (IF n = 2 THEN AddressBytes(ts[1]) ELSE << >>)
        [] name \in {"push", "jnz"} ->
             IF Y(1) THEN <<Opcode(op, TRUE, token_register(ts[1]))>>
             ELSE <<Opcode(op, FALSE, 0), ToByte(ts[1].value)>>
        [] name = "pop" -> <<Opcode(op, TRUE, token_register(ts[1]))>>
        [] name = "lda" -> <<Opcode(op, FALSE, 0)>> \o AddressBytes(ts[1])
        [] name = "outb" -> <<Opcode(op, Y(1), token_register(ts[2])), Value(1)>>
        [] OTHER -> <<Opcode(op, Y(2), token_register(ts[1])), Value(2)>>

(* The operand of an address that is patched later. *)
Unresolved(name, ts) ==
  LET at == CASE name = "lw" -> 2 [] name \in {"sw", "lda"} -> 1 [] OTHER -> 0
  IN  at # 0 /\ at <= Len(ts) /\ Len(ts) = Len(OperandKinds(name))
        /\ ts[at].kind = "symbol"
AddressAt(name) == IF name = "lw" THEN 2 ELSE 1
-----------------------------------------------------------------------------
(* What the source says, read off the text of a line: the operands of an   *)
(* operation as tokens, with expressions by their meaning.                 *)
Text(h, ts) ==
  [i \in DOMAIN ts |->
     LET t == h[ts[i]]
     IN  [kind |-> t.kind, name |-> IF t.kind = "number" THEN "" ELSE t.name,
          value |-> t.value, sub |-> t.kind = "symbol" /\ t.sub]]

Number(v) == [kind |-> "number", name |-> "", value |-> v, sub |-> FALSE]
Known(t) ==
  LET l == {k \in DOMAIN labels : Lab!Resolves(k, t.name, Lab!NULL)}
  IN  IF t.kind = "$" THEN Number(Len(out))
      ELSE IF t.kind = "symbol" /\ l # {} THEN Number(labels[Max(l)].value)
      ELSE t

Depth(text, i) ==
  Cardinality({k \in 1 .. i : text[k].kind = "("})
    - Cardinality({k \in 1 .. i - 1 : text[k].kind = ")"})

Operands(text) ==
  LET words == [i \in DOMAIN text |-> Known(text[i])]
      Sub(i) == text[i].sub \/ (i > 1 /\ text[i - 1].kind = ".")
      Step(s, i) ==
        IF words[i].kind = ")" /\ Depth(words, i) = 1
        THEN Append(s, Number(Meaning(SubSeq(words, Opening(words, i) + 1, i - 1))))
        ELSE IF Depth(words, i) > 0 \/ words[i].kind \in {"[", "]", "."} THEN s
        ELSE IF words[i].kind = "symbol"
             THEN Append(s, [words[i] EXCEPT !.sub = Sub(i)])
             ELSE Append(s, words[i])
  IN  FoldLeftDomain(Step, << >>, text)

Lists(name, operands) ==
  listing' = Append(listing, [at |-> Len(out), name |-> name,
                              operands |-> operands,
                              scope |-> Lab!label_parent(Lab!newest)])
-----------------------------------------------------------------------------
(* The steps of parse(). *)
ParseEmpty ==
  /\ Parsing
  /\ IF first = NULL THEN cur' = NULL
     ELSE heap[first].kind = "eol" /\ cur' = heap[first].next
  /\ UNCHANGED <<heap, ops, macro, labels, patches, out, phase, listing>>

(* An operation that is an instruction. SW without any operand passes      *)
(* check_args() and reads a pointer that was never set: no program has it. *)
EmitInstruction ==
  /\ AtOperation /\ ~macro
  /\ \E o \in {Operation} :
     LET ts == [i \in DOMAIN o.tokens |-> o.heap[o.tokens[i]]]
         name == heap[first].name
     IN  /\ o.ok /\ ~ops[o.op].macro
         /\ heap' = o.heap
         /\ out' = out \o emit(o.op, o.args, ts)
         /\ IF Unresolved(name, ts)
            THEN Lab!add_patch(ts[AddressAt(name)].name, ts[AddressAt(name)].sub)
            ELSE UNCHANGED patches
         /\ cur' = o.heap[eol].next
         /\ Lists(name, Operands(Text(heap, Line(heap, heap[first].next))))
  /\ UNCHANGED <<ops, macro, labels, phase>>

(* @db and @dd evaluate their line, @dn does not; DataOf emits the tokens  *)
(* ts of the heap h.                                                       *)
DataOf(width, lo, hi, h, ts) ==
  LET Value(i) == h[ts[i]].value
      numbers == {i \in DOMAIN ts : h[ts[i]].kind = "number"}
      addresses == {i \in DOMAIN ts : width = 2 /\ h[ts[i]].kind = "["}
      closing == {i \in DOMAIN ts : i - 2 \in addresses}
      bytes(i) ==
        IF i \notin numbers THEN << >>
        ELSE IF width = 1 THEN <<ToByte(Value(i))>>
        ELSE <<Lo(ToWord(Value(i))), Hi(ToWord(Value(i)))>>
  IN  IF /\ DOMAIN ts = numbers \cup addresses \cup closing
         /\ \A i \in addresses : i + 1 \in numbers /\ i + 2 \in DOMAIN ts
         /\ \A i \in closing : h[ts[i]].kind = "]"
         /\ \A i \in numbers : Value(i) \in lo .. hi
      THEN /\ heap' = h
           /\ out' = out \o FlattenSeq([i \in DOMAIN ts |-> bytes(i)])
           /\ cur' = heap[eol].next
           /\ Lists(IF width = 1 THEN "db" ELSE "dd",
                    Operands(Text(heap, Line(heap, heap[heap[first].next].next))))
           /\ UNCHANGED <<ops, macro, labels, patches, phase>>
      ELSE Exit
Data(width, lo, hi) ==
  LET start == heap[heap[first].next].next
  IN  \E e \in {Evaluated(heap, start)} :
        IF e.failed THEN Exit
        ELSE DataOf(width, lo, hi, e.heap, Line(e.heap, start))

(* @ds and @dn emit bytes that no expression has a part in.                *)
Plain(bytes) ==
  /\ out' = out \o bytes
  /\ cur' = heap[eol].next
  /\ UNCHANGED <<heap, ops, macro, labels, patches, phase, listing>>

LexDirectives ==   \* done by lex(), passed over here
  {"microcode", "include", "define", "ifdef", "ifndef", "else", "endif"}

(* No source of this module has an @org, which is a matter of Labels. What *)
(* a string holds are its characters, those after a backslash replaced.    *)
Directive ==
  /\ AtDirective
  /\ LET name == heap[heap[first].next].name
         arg == heap[heap[first].next].next
     IN  CASE name = "macro" ->
                /\ macro' = TRUE
                /\ cur' = heap[eol].next
                /\ UNCHANGED <<heap, ops, labels, patches, out, phase, listing>>
           [] name = "db" -> Data(1, -128, ByteMax)
           [] name = "dd" -> Data(2, -32768, WordMax)
           [] name = "dn" ->
                IF heap[arg].kind = "number" /\ heap[heap[arg].next].kind = "eol"
                THEN Plain([i \in 1 .. ToWord(heap[arg].value) |-> 0])
                ELSE Exit
           [] name = "ds" ->
                IF heap[arg].kind = "string" THEN Plain(Append(heap[arg].value, 0))
                ELSE Exit
           [] name \in LexDirectives ->
                /\ cur' = heap[eol].next
                /\ UNCHANGED <<heap, ops, macro, labels, patches, out, phase, listing>>
           [] OTHER -> Exit

DefineLabel ==
  /\ AtLabel /\ ~macro
  /\ LET sub == heap[first].kind = "."
         name == IF sub THEN heap[heap[first].next] ELSE heap[first]
     IN  IF name.kind # "symbol" THEN Exit
         ELSE /\ labels' = Append(labels,
                   [name |-> name.name, sub |-> sub, value |-> Location,
                    parent |-> IF sub THEN Lab!label_parent(Lab!newest)
                               ELSE Lab!newest + 1])
              /\ cur' = heap[eol].next
              /\ UNCHANGED <<heap, ops, macro, patches, out, phase, listing>>
-----------------------------------------------------------------------------
(* parse_macro(): the header of a definition. A name after % is an         *)
(* argument, whose first letter says what it may be.                       *)
parse_arg_type(letter) ==
  CASE letter = "r" -> REG
    [] letter = "x" -> IMM8_REG
    [] letter = "a" -> {"imm16", "addr"}
    [] letter = "i" -> IMM

NoHeader == [names |-> << >>, args |-> << >>, address |-> -1, failed |-> FALSE]

HeaderStep(text, s, i) ==
  LET t == text[i]
      bad == [s EXCEPT !.failed = TRUE]
      n == Len(s.args)
      named == i > 1 /\ text[i - 1].kind = "%"
      kinds == parse_arg_type(Letter[t.name])
  IN  CASE s.failed -> s
        [] ~s.failed /\ t.kind = "%" /\ ~named ->
             IF i < Len(text) /\ text[i + 1].kind = "symbol" THEN s ELSE bad
        [] ~s.failed /\ t.kind = "symbol" /\ named ->
             IF t.name \in ToSet(s.names) \/ Letter[t.name] \notin {"r", "x", "a", "i"}
             THEN bad
             ELSE [s EXCEPT
                     !.names = Append(@, t.name),
                     !.args = Append(@, IF s.address >= 0 THEN kinds \cup {"addr"}
                                        ELSE kinds),
                     !.address = IF @ >= 0 THEN @ + 1 ELSE @]
        [] ~s.failed /\ t.kind = "[" /\ ~named -> [s EXCEPT !.address = 0]
        [] ~s.failed /\ t.kind = "]" /\ ~named ->
             IF s.address = 1 \/ (s.address = 2 /\ "reg" \in s.args[n] \cap s.args[n - 1])
             THEN [s EXCEPT !.address = -1] ELSE bad
        [] OTHER -> bad

(* A macro ends before the first empty line, or with the last token.       *)
MacroEnd ==
  LET Search[t \in 1 .. Len(heap)] ==
        LET n == heap[t].next
        IN  IF n = NULL \/ (heap[t].kind = "eol" /\ heap[n].kind = "eol")
            THEN t ELSE Search[n]
  IN  Search[eol]

DefineMacro ==
  /\ AtLabel /\ macro
  /\ LET ts == Line(heap, heap[first].next)
         header == [i \in 1 .. Len(ts) - 1 |-> heap[ts[i]]]
         s == FoldLeftDomain(LAMBDA x, i : HeaderStep(header, x, i), NoHeader, header)
         end == MacroEnd
     IN  IF heap[first].kind # "symbol" \/ s.failed \/ end = eol
         THEN Exit
         ELSE /\ ops' = Append(ops,
                   [name |-> heap[first].name, args |-> s.args, macro |-> TRUE,
                    arg_names |-> s.names, start |-> heap[eol].next, end |-> end])
              /\ macro' = FALSE
              /\ cur' = heap[end].next
              /\ UNCHANGED <<heap, labels, patches, out, phase, listing>>
-----------------------------------------------------------------------------
(* The tokens of a definition.                                             *)
Body(h, op) ==
  LET From[t \in 0 .. Len(h)] ==
        IF t = NULL THEN << >> ELSE IF t = op.end THEN <<t>>
        ELSE <<t>> \o From[h[t].next]
  IN  From[op.start]

(* Slip: copies point back to the originals.                               *)
duplicate_macroBack(h, op) ==
  LET body == Body(h, op)
      n == Len(body)
  IN  h \o [i \in 1 .. n |->
              [h[body[i]] EXCEPT !.next = IF i = n THEN NULL ELSE Len(h) + i + 1]]

(* duplicate_macro(): copies of the tokens of op, linked among themselves, *)
(* at the end of the heap.                                                 *)
duplicate_macro(h, op) ==
  LET body == Body(h, op)
      n == Len(body)
  IN  h \o [i \in 1 .. n |->
              [h[body[i]] EXCEPT !.prev = IF i = 1 THEN NULL ELSE Len(h) + i - 1,
                                 !.next = IF i = n THEN NULL ELSE Len(h) + i + 1]]

(* The caller's token for an argument name; the last of equal names counts.*)
argument(op, tokens, name) ==
  tokens[Max({i \in DOMAIN op.arg_names : op.arg_names[i] = name})]

(* Slip: the % before an argument stays in the chain. *)
replaceKept(h, op, tokens, t) ==
  IF h[h[t].prev].kind # "%" THEN h
  ELSE [h EXCEPT ![t] = [h[argument(op, tokens, h[t].name)] EXCEPT
                           !.prev = h[t].prev, !.next = h[t].next]]

(* A % is skipped over, and the name after it becomes a copy of the        *)
(* caller's token, flags and all, at the name's place. The % stays its     *)
(* predecessor.                                                            *)
replace(h, op, tokens, t) ==
  IF h[h[t].prev].kind # "%" THEN h
  ELSE [h EXCEPT ![t] = [h[argument(op, tokens, h[t].name)] EXCEPT
                           !.prev = h[t].prev, !.next = h[t].next],
                 ![h[h[t].prev].prev].next = t]

(* Arguments in the body have names the header declares, and the body does *)
(* not begin with one, which would follow a null pointer.                  *)
Substitutable(op, h) ==
  /\ h[op.start].kind # "%"
  /\ LET body == Body(h, op) IN
     \A i \in DOMAIN body : h[body[i]].kind = "%" =>
       /\ i < Len(body) /\ h[body[i + 1]].kind = "symbol"
       /\ h[body[i + 1]].name \in ToSet(op.arg_names)

(* Slip: the end of the line keeps its old predecessor.                    *)
splicedOneWay(h, start, end) ==
  LET before == h[first].prev
  IN  [h EXCEPT ![start].prev = before, ![before].next = start, ![end].next = eol]

(* The tokens start to end take the place of the line between what is      *)
(* before it and the token that ends it.                                   *)
spliced(h, start, end) ==
  LET before == h[first].prev
  IN  [h EXCEPT ![start].prev = before, ![before].next = start,
                ![end].next = eol, ![eol].prev = end]

ExpandMacro ==
  /\ AtOperation /\ ~macro
  /\ \E o \in {Operation} :
     LET op == ops[o.op]
         copied == duplicate_macro(o.heap, op)
         copies == [i \in 1 .. Len(copied) - Len(heap) |-> Len(heap) + i]
         filled == FoldLeft(LAMBDA h, t : replace(h, op, o.tokens, t), copied, Tail(copies))
     IN  /\ o.ok /\ op.macro
         /\ IF Substitutable(op, heap)
            THEN /\ heap' = spliced(filled, Len(heap) + 1, Len(copied))
                 /\ cur' = Len(heap) + 1
                 /\ UNCHANGED <<ops, macro, labels, patches, out, phase, listing>>
            ELSE Exit

(* Unknown operations, arguments that fit none, expressions that cannot be *)
(* evaluated, and a line that is not a definition after @macro.            *)
RejectLine ==
  /\ AtOperation /\ (macro \/ ~Operation.ok)
  /\ Exit

EndOfTokens ==
  /\ phase = "parsing" /\ cur = NULL
  /\ phase' = "patching"
  /\ UNCHANGED <<heap, cur, ops, macro, labels, patches, out, listing>>

ApplyPatch ==
  Lab!ApplyPatch /\ UNCHANGED <<heap, cur, ops, macro, listing>>
Finish ==
  Lab!Finish /\ UNCHANGED <<heap, cur, ops, macro, listing>>

Ended == phase \in {"done", "error"}
Exited == Ended /\ UNCHANGED vars

Linked(source) ==
  [i \in DOMAIN source |->
     [kind |-> source[i].kind, name |-> source[i].name, value |-> source[i].value,
      prev |-> i - 1, next |-> IF i = Len(source) THEN NULL ELSE i + 1,
      sub |-> FALSE]]

Init ==
  /\ \E source \in Sources : heap = Linked(source)
  /\ cur = 1 /\ ops = INSTRUCTIONS /\ macro = FALSE
  /\ labels = << >> /\ patches = << >> /\ out = << >> /\ listing = << >>
  /\ phase = "parsing"

Next ==
  \/ ParseEmpty \/ EmitInstruction \/ Directive \/ DefineLabel
  \/ DefineMacro \/ ExpandMacro \/ RejectLine
  \/ EndOfTokens \/ ApplyPatch \/ Finish
  \/ Exited

Spec == Init /\ [][Next]_vars
-----------------------------------------------------------------------------
TypeOK ==
  /\ \A t \in DOMAIN heap :
       /\ heap[t].prev \in 0 .. Len(heap) /\ heap[t].next \in 0 .. Len(heap)
       /\ heap[t].kind = "number" => heap[t].value >= -32768
  /\ cur \in 0 .. Len(heap)
  /\ \A i \in DOMAIN out : out[i] \in Byte
  /\ phase \in {"parsing", "patching", "done", "error"}

(* Wherever the parser stands, each line ahead of it hangs together: the   *)
(* token that ends it points back to the last token of the line, through   *)
(* which parse() finds the colon of a label and expand_macro() the place   *)
(* to splice.                                                              *)
LinesLinked ==
  phase = "parsing" =>
    LET ahead == Chain(heap, cur)
    IN  \A i \in 2 .. Len(ahead) :
          heap[ahead[i]].kind = "eol" => heap[ahead[i]].prev = ahead[i - 1]

(* The text of a line or a macro with its arguments put in their places.   *)
Filled(body, op, operands) ==
  FlattenSeq([i \in DOMAIN body |->
    IF body[i].kind = "%" THEN << >>
    ELSE IF i > 1 /\ body[i - 1].kind = "%"
         THEN <<operands[CHOOSE k \in DOMAIN op.arg_names :
                           op.arg_names[k] = body[i].name]>>
         ELSE <<body[i]>>])

(* Expanding a macro puts in place of its call the text of the definition  *)
(* with the operands of the call for its arguments, and leaves the rest of *)
(* the program as it is.                                                   *)
ExpansionSubstitutes ==
  [][ExpandMacro /\ phase' = "parsing" =>
       LET op == ops[Operation.op]
           operands == Operands(Text(heap, Line(heap, heap[first].next)))
       IN  Text(heap', Chain(heap', cur'))
             = Filled(Text(heap, Body(heap, op)), op, operands)
                 \o Text(heap, Chain(heap, eol))]_vars

(* A definition stays what it was: whatever is evaluated, substituted and  *)
(* spliced in its copies, the text of every macro is never changed.        *)
DefinitionsKept ==
  [][\A k \in DOMAIN ops : ops[k].macro =>
       /\ k \in DOMAIN ops' /\ ops'[k] = ops[k]
       /\ Text(heap', Body(heap', ops'[k])) = Text(heap, Body(heap, ops[k]))]_vars

(* An instruction as step() decodes it from the output: a machine whose    *)
(* registers hold their own numbers executes the byte at at.               *)
Machine(at) == INSTANCE Jdh8 WITH
  regs <- [r \in 0 .. 7 |-> r],
  space <- [special |-> [i \in 0 .. 2 |-> IF i = 2 THEN at ELSE 0],
            ram |-> [fill |-> 0, cells |-> [a \in 0 .. Len(out) - 1 |-> out[a + 1]]],
            banks |-> << >>],
  status <- 0, write_protect <- FALSE, copy <- 0, crashed <- FALSE,
  Images <- {}, LoadAddrs <- {}, Banks <- {}, Fills <- {}, Attached <- {},
  NoSend <- {}, NoReceive <- {}, Inputs <- {}, UserBytes <- {}, UserWords <- {},
  UserPorts <- {}

Reg(z) == [reg |-> TRUE, width |-> 256, value |-> z]
Imm(w, v) == [reg |-> FALSE, width |-> w, value |-> v]

DecodedAs(at, name, y, z) ==
  LET second == IF y THEN Reg(Machine(at)!IMM8_REG) ELSE Imm(256, Machine(at)!IMM8_REG)
      address == IF y THEN << >> ELSE <<Imm(65536, Machine(at)!Address)>>
  IN  [name |-> name,
       operands |->
         CASE name = "lw" -> <<z>> \o address
           [] name = "sw" -> address \o <<z>>
           [] name = "lda" -> address
           [] name \in {"push", "jnz"} ->
                IF y THEN <<z>> ELSE <<Imm(256, Machine(at)!IMM8_PC0_REG)>>
           [] name = "pop" -> <<z>>
           [] name = "outb" -> <<second, z>>
           [] OTHER -> <<z, second>>]
Decoded(at) ==
  DecodedAs(at, InstructionNames[Machine(at)!Op + 1], Machine(at)!Y,
            Reg(Machine(at)!Z))

Emitted(entry) ==
  LET byte(i) == out[entry.at + i]
      n == Len(entry.operands)
  IN  CASE entry.name = "db" ->
             [name |-> "db", operands |-> [i \in 1 .. n |-> Imm(256, byte(i))]]
        [] entry.name = "dd" ->
             [name |-> "dd",
              operands |-> [i \in 1 .. n |->
                              Imm(65536, Pair(byte(2 * i - 1), byte(2 * i)))]]
        [] OTHER -> Decoded(entry.at)

(* An operand of the source against one of the output. A label counts if   *)
(* it is clear which one is meant (see Labels).                            *)
Agrees(token, operand, scope) ==
  LET ref == [name |-> token.name, sub |-> token.sub, scope |-> scope]
  IN  CASE token.kind = "number" ->
             ~operand.reg /\ operand.value = token.value % operand.width
        [] is_register(token) -> operand = Reg(token_register(token))
        [] OTHER ->
             Lab!Clear(ref) =>
               /\ ~operand.reg
               /\ \E l \in DOMAIN labels :
                    Lab!Means(ref, l) /\ operand.value = labels[l].value

Reads(entry, emitted) ==
  /\ emitted.name = entry.name
  /\ Len(emitted.operands) = Len(entry.operands)
  /\ \A k \in DOMAIN entry.operands :
       Agrees(entry.operands[k], emitted.operands[k], entry.scope)

(* A program that assembles is, read back from the output the way the      *)
(* machine decodes it, the program that was written, with expressions      *)
(* replaced by what they mean and labels by the places they stand at.      *)
OutputMeansSource ==
  phase = "done" =>
    \A i \in DOMAIN listing : Reads(listing[i], Emitted(listing[i]))
=============================================================================
