-------------------------------- MODULE Lexer --------------------------------
(***************************************************************************)
(* The assembler's lexer and preprocessor (asm/lex.c, the input stack and  *)
(* the parse loop of asm/asm.c, the lex directives of asm/directive.c).    *)
(* The lexer turns a stack of inputs into one chain of tokens, running     *)
(* @define, @include, @ifdef, @else and @endif at the end of their lines;  *)
(* then the parser walks the chain once.                                   *)
(*                                                                         *)
(* A text is a sequence of words; the characters of a word are abstracted. *)
(* Tokens lie in the arena in the order they were allocated, and the       *)
(* states of the open @ifdefs lie there too: main() leaves the capacity of *)
(* their buffer at zero, so BUFCHK asks asmalloc for zero bytes and the    *)
(* next token is allocated over the state just written.                    *)
(***************************************************************************)
EXTENDS Integers, Sequences, FiniteSets, SequencesExt, FiniteSetsExt

CONSTANTS
  Programs,    \* the texts an input file may hold
  Files,       \* the files @include finds: a function from names to texts
  Ops,         \* words that name operations
  Numbers,     \* words that are numbers
  Others,      \* other words: names, operands
  MaxInputs,   \* bound: inputs pushed in a run
  MaxIfs       \* bound: @ifdefs open at the same time

AT == "@"
EOL == "\n"
LexDirectives == {"ifdef", "ifndef", "else", "endif", "define", "include"}
DataDirectives == {"db"}
FileNames == DOMAIN Files
Words == {AT, EOL} \cup LexDirectives \cup DataDirectives \cup FileNames
         \cup Ops \cup Numbers \cup Others

(* A file's text ends in the newline push_input() appends to it. *)
Texts == {t \in Seq(Words) : t # << >> /\ t[Len(t)] = EOL}

ASSUME ConstantsAssumption ==
  /\ \A p \in Programs : p \in Texts
  /\ \A f \in FileNames : Files[f] \in Texts
  /\ {AT, EOL} \cap (FileNames \cup Numbers) = {} /\ FileNames \cap Numbers = {}
  /\ Ops \cap ({AT, EOL} \cup LexDirectives) = {}
  /\ MaxInputs \in Nat /\ MaxIfs \in 1 .. 4

VARIABLES
  inputs,      \* every struct Input, in the order they were pushed
  input,       \* ctx->input: its index, or 0
  current,     \* ctx->current: the place in the text of that input
  tokens,      \* every token in the arena
  chain,       \* the indices of those in the token stream
  defines,     \* ctx->defines, the latest first
  ifs,         \* ctx->ifs: size, and where buffer lies
  next,        \* the place in the chain the parser has reached
  emitted,     \* the places whose lines were assembled
  elsed,       \* history: an @else has been run
  outcome      \* "lexing", "parsing", "done", "error" or "crash"

lexVars == <<inputs, input, current, tokens, chain, defines, ifs, elsed>>
parseVars == <<next, emitted>>
vars == <<lexVars, parseVars, outcome>>
-----------------------------------------------------------------------------
(* enum TokenKind, as far as words have different kinds here.              *)
TK_EOL == 1
TK_SYMBOL == 2
TK_NUMBER == 3
TK_STRING == 4
TK_AT == 7

WordKind(w) ==
  CASE w = AT -> TK_AT
    [] w = EOL -> TK_EOL
    [] w \in FileNames -> TK_STRING
    [] w \in Numbers -> TK_NUMBER
    [] OTHER -> TK_SYMBOL

(* The kind is the first member of a token, four bytes. *)
KindBytes(k) == <<k, 0, 0, 0>>
Kind(t) == LET k == tokens[t].kind
           IN  k[1] + 256 * (k[2] + 256 * (k[3] + 256 * k[4]))
Word(t) == tokens[t].word

IFF_SUCCESS == 1
IFF_FAILURE == 2
IFF_PARENT_FAILURE == 3

TF_IGNORE == 1
IgnoreFlag == 2 ^ TF_IGNORE     \* what lex_push sets

(* Slip: the test asks for the flag that lex_push sets.                    *)
IgnoredByFlag(t) == tokens[t].flags = IgnoreFlag

(* What parse() and directive() test: flags & TF_IGNORE. *)
Ignored(t) == (tokens[t].flags \div TF_IGNORE) % 2 = 1
-----------------------------------------------------------------------------
(* ctx->ifs. The buffer is Ahead when the next token will be allocated at  *)
(* its place; otherwise it is the memory of a token or of a lost cell.     *)
Ahead == 0
IfState == IF ifs.buffer = Ahead THEN ifs.top
           ELSE tokens[ifs.buffer].kind[ifs.size]

Succeeding == ifs.size > 0 => IfState = IFF_SUCCESS

NewToken(w) ==
  [word |-> w, kind |-> KindBytes(WordKind(w)), input |-> input, at |-> current,
   flags |-> IF Succeeding THEN 0 ELSE IgnoreFlag]

(* The token is allocated: over the if-states, if they lie Ahead. *)
Allocate(w) ==
  /\ tokens' = Append(tokens, NewToken(w))
  /\ ifs' = IF ifs.size > 0 /\ ifs.buffer = Ahead
            THEN [ifs EXCEPT !.buffer = Len(tokens) + 1] ELSE ifs

lex_push(w) ==
  /\ Allocate(w)
  /\ chain' = Append(chain, Len(tokens) + 1)
-----------------------------------------------------------------------------
Lexing == outcome = "lexing"
Text == inputs[input].text
InText == Lexing /\ input # 0 /\ current <= Len(Text)
Here == Text[current]

(* Slip: the position in the parent is not saved.                          *)
push_inputUnsaved(name, text, resume) ==
  /\ Len(inputs) < MaxInputs
  /\ inputs' = Append(inputs,
                      [name |-> name, text |-> text, current |-> 1,
                       parent |-> input])
  /\ input' = Len(inputs) + 1
  /\ current' = 1

push_input(name, text, resume) ==
  /\ Len(inputs) < MaxInputs
  /\ inputs' = Append([inputs EXCEPT ![input].current = resume],
                      [name |-> name, text |-> text, current |-> 1,
                       parent |-> input])
  /\ input' = Len(inputs) + 1
  /\ current' = 1

PopInput ==
  /\ Lexing /\ input # 0 /\ current > Len(Text)
  /\ input' = inputs[input].parent
  /\ current' = IF input' = 0 THEN 0 ELSE inputs[input'].current
  /\ outcome' = IF input' = 0 THEN "parsing" ELSE outcome
  /\ UNCHANGED <<inputs, tokens, chain, defines, ifs, elsed, parseVars>>

(* expand_define() takes the newest define of the name. *)
Defined(w) == \E i \in DOMAIN defines : defines[i].name = w
Newest(w) == defines[Min({i \in DOMAIN defines : defines[i].name = w})]
Expands(w) == Defined(w) /\ Newest(w).value # << >>

IsName(w) == WordKind(w) \in {TK_SYMBOL, TK_NUMBER}

LexWord ==
  /\ InText /\ Here # EOL /\ ~(IsName(Here) /\ Expands(Here))
  /\ lex_push(Here)
  /\ current' = current + 1
  /\ UNCHANGED <<inputs, input, defines, elsed, parseVars, outcome>>

(* Slip: the input with the symbol resumes at the symbol itself.           *)
LexDefinedAgain ==
  /\ InText /\ IsName(Here) /\ Expands(Here)
  /\ Allocate(Here)
  /\ push_input("(define)", Newest(Here).value, current)
  /\ UNCHANGED <<chain, defines, elsed, parseVars, outcome>>

(* A symbol with a value: its token, allocated as a symbol, leaves the     *)
(* stream again and the value becomes an input.                            *)
LexDefined ==
  /\ InText /\ IsName(Here) /\ Expands(Here)
  /\ Allocate(Here)
  /\ push_input("(define)", Newest(Here).value, current + 1)
  /\ UNCHANGED <<chain, defines, elsed, parseVars, outcome>>
-----------------------------------------------------------------------------
(* The end of a line: its EOL token is pushed and the lexer moves to the   *)
(* next line before lex_line() looks at the tokens of the line.            *)
LineStart ==
  1 + Max({0} \cup {i \in DOMAIN chain : Kind(chain[i]) = TK_EOL})
Line == SubSeq(chain, LineStart, Len(chain))

Directive(names) ==
  /\ Len(Line) >= 2
  /\ Kind(Line[1]) = TK_AT /\ ~Ignored(Line[1])
  /\ Kind(Line[2]) = TK_SYMBOL /\ Word(Line[2]) \in names

EndLine ==
  /\ InText /\ Here = EOL
  /\ lex_push(EOL)
  /\ current' = current + 1
  /\ UNCHANGED <<inputs, input, parseVars>>

LexLine ==
  /\ EndLine
  /\ ~Directive(LexDirectives)
  /\ outcome' = IF /\ Line # << >> /\ Kind(Line[1]) = TK_AT
                   /\ Len(Line) = 1 \/ Kind(Line[2]) # TK_SYMBOL
                THEN "error" ELSE outcome
  /\ UNCHANGED <<defines, elsed>>

(* A directive that runs changes the buffer of ifs after the EOL token is  *)
(* in the arena: Done(b, cells) has the arena and the buffer afterwards.   *)
Push(state) ==
  LET n == ifs.size + 1
      arena == Append(tokens, NewToken(EOL))
      lost == [word |-> EOL, input |-> 0, at |-> 0, flags |-> 0,
               kind |-> [KindBytes(0) EXCEPT ![n] = state]]
  IN  /\ ifs.size < MaxIfs
      /\ \/ /\ ifs' = [size |-> n, buffer |-> Ahead, top |-> state]
            /\ tokens' = arena
         \/ /\ ifs' = [size |-> n, buffer |-> Len(arena) + 1, top |-> state]
            /\ tokens' = Append(arena, lost)     \* at the end of a region

(* Malformed lines stop the assembler, or make it follow a null pointer.   *)
Stop(how) ==
  /\ lex_push(EOL)
  /\ current' = current + 1
  /\ outcome' = how
  /\ UNCHANGED <<inputs, input, defines, elsed, parseVars>>

RunsDirective(names) == InText /\ Here = EOL /\ Directive(names)
NextLine ==
  /\ current' = current + 1
  /\ chain' = Append(chain, Len(tokens) + 1)
  /\ UNCHANGED <<inputs, input, parseVars, outcome>>

Ifdef ==
  /\ RunsDirective({"ifdef", "ifndef"})
  /\ LET holds == (Word(Line[2]) = "ifndef") # Defined(Word(Line[3])) IN
     \/ /\ ~Succeeding
        /\ Push(IFF_PARENT_FAILURE) /\ NextLine
     \/ /\ Succeeding /\ Len(Line) = 3
        /\ Push(IF holds THEN IFF_SUCCESS ELSE IFF_FAILURE) /\ NextLine
     \/ /\ Succeeding /\ Len(Line) # 3
        /\ Stop(IF Len(Line) = 2 THEN "crash" ELSE "error")
  /\ UNCHANGED <<defines, elsed>>

Else ==
  /\ RunsDirective({"else"})
  /\ \/ /\ Len(Line) = 2 /\ ifs.size > 0
        /\ LET flipped == IF IfState = IFF_PARENT_FAILURE THEN IfState
                          ELSE IF IfState = IFF_SUCCESS THEN IFF_FAILURE
                          ELSE IFF_SUCCESS
               arena == Append(tokens, NewToken(EOL))
           IN  tokens' = [arena EXCEPT ![ifs.buffer].kind[ifs.size] = flipped]
        /\ elsed' = TRUE
        /\ NextLine
        /\ UNCHANGED <<defines, ifs>>
     \/ /\ Len(Line) # 2 \/ ifs.size = 0
        /\ Stop("error")

(* Slip: @endif is not checked to follow an @ifdef.                        *)
EndifUnchecked ==
  /\ RunsDirective({"endif"})
  /\ Len(Line) = 2
  /\ tokens' = Append(tokens, NewToken(EOL))
  /\ ifs' = [ifs EXCEPT !.size = ifs.size - 1]
  /\ NextLine
  /\ UNCHANGED <<defines, elsed>>

Endif ==
  /\ RunsDirective({"endif"})
  /\ \/ /\ Len(Line) = 2 /\ ifs.size > 0
        /\ tokens' = Append(tokens, NewToken(EOL))
        /\ ifs' = [ifs EXCEPT !.size = ifs.size - 1]
        /\ NextLine
        /\ UNCHANGED <<defines, elsed>>
     \/ /\ Len(Line) # 2 \/ ifs.size = 0
        /\ Stop("error")

(* The value is the rest of the line, as it was expanded already. *)
Define ==
  /\ RunsDirective({"define"})
  /\ LET value == [i \in 1 .. Len(Line) - 3 |-> Word(Line[i + 3])] IN
     \/ /\ Len(Line) >= 3 /\ value # <<Word(Line[3])>>
        /\ defines' = <<[name |-> Word(Line[3]), value |-> value]>> \o defines
        /\ tokens' = Append(tokens, NewToken(EOL))
        /\ NextLine
        /\ UNCHANGED <<ifs, elsed>>
     \/ Len(Line) = 2 /\ Stop("crash")
     \/ Len(Line) >= 3 /\ value = <<Word(Line[3])>> /\ Stop("error")

Include ==
  /\ RunsDirective({"include"})
  /\ \/ /\ Len(Line) >= 3 /\ Word(Line[3]) \in FileNames
        /\ push_input(Word(Line[3]), Files[Word(Line[3])], current + 1)
        /\ lex_push(EOL)
        /\ UNCHANGED <<defines, elsed, parseVars, outcome>>
     \/ /\ Len(Line) = 2 \/ Word(Line[3]) \notin FileNames
        /\ Stop("error")
-----------------------------------------------------------------------------
(* parse(), called with one place in the chain after the other. It skips   *)
(* ignored tokens, then takes a line: up to the next token of kind EOL.    *)
Parsing == outcome = "parsing"
From(p) == {i \in p .. Len(chain) : ~Ignored(chain[i])}
Eols(p) == {i \in p .. Len(chain) : Kind(chain[i]) = TK_EOL}

ParseEnd ==
  /\ Parsing /\ From(next) = {}
  /\ outcome' = "done"
  /\ UNCHANGED <<lexVars, parseVars>>

ParseTo(p, how) ==
  /\ next' = p
  /\ outcome' = how
  /\ UNCHANGED lexVars

(* A data directive or an operation is assembled; everything else is       *)
(* passed over or stops the assembler.                                     *)
ParseLine ==
  /\ Parsing /\ From(next) # {}
  /\ LET first == Min(From(next))
         t == chain[first]
         symbol == IF Kind(t) = TK_AT THEN first + 1 ELSE first
     IN
     \/ /\ Kind(t) = TK_EOL
        /\ ParseTo(first + 1, outcome)
        /\ UNCHANGED emitted
     \/ /\ Kind(t) # TK_EOL /\ Eols(first) = {}
        /\ ParseTo(first, "crash")
        /\ UNCHANGED emitted
     \/ /\ Kind(t) # TK_EOL /\ Eols(first) # {}
        /\ \/ /\ Kind(chain[symbol]) # TK_SYMBOL
              /\ ParseTo(first, "error")
              /\ UNCHANGED emitted
           \/ /\ Kind(chain[symbol]) = TK_SYMBOL
              /\ LET w == Word(chain[symbol])
                     known == IF Kind(t) = TK_AT
                              THEN LexDirectives \cup DataDirectives ELSE Ops
                 IN
                 /\ emitted' = IF w \in known \ LexDirectives
                               THEN Append(emitted, first) ELSE emitted
                 /\ IF w \in known THEN ParseTo(Min(Eols(first)) + 1, outcome)
                    ELSE ParseTo(first, "error")
-----------------------------------------------------------------------------
Init ==
  /\ inputs \in {<<[name |-> "main", text |-> p, current |-> 1, parent |-> 0]>> :
                 p \in Programs}
  /\ input = 1 /\ current = 1
  /\ tokens = << >> /\ chain = << >> /\ defines = << >>
  /\ ifs = [size |-> 0, buffer |-> Ahead, top |-> 0]
  /\ next = 1 /\ emitted = << >>
  /\ elsed = FALSE
  /\ outcome = "lexing"

Next ==
  \/ LexWord \/ LexDefined
  \/ LexLine \/ Ifdef \/ Else \/ Endif \/ Define \/ Include
  \/ PopInput
  \/ ParseLine \/ ParseEnd

Spec == Init /\ [][Next]_vars /\ WF_vars(Next)
-----------------------------------------------------------------------------
Input == [name : {"main", "(define)"} \cup FileNames, text : Seq(Words),
          current : Nat \ {0}, parent : Nat]
Token == [word : Words, kind : [1 .. 4 -> 0 .. 7], input : Nat, at : Nat,
          flags : {0, IgnoreFlag}]

(* Indices stay within what they index: an input's parent was pushed       *)
(* before it, the chain goes forward in the arena, the buffer of if-states *)
(* is Ahead only until the next token.                                     *)
TypeOK ==
  /\ inputs \in Seq(Input)
  /\ \A i \in DOMAIN inputs : inputs[i].parent < i
  /\ input \in 0 .. Len(inputs)
  /\ current \in Nat
  /\ tokens \in Seq(Token)
  /\ \A i \in DOMAIN chain : chain[i] \in DOMAIN tokens
  /\ \A i \in 2 .. Len(chain) : chain[i - 1] < chain[i]
  /\ defines \in Seq([name : Words, value : Seq(Words)])
  /\ ifs.size \in 0 .. MaxIfs /\ ifs.buffer \in 0 .. Len(tokens)
  /\ ifs.size > 0 /\ ifs.buffer = Ahead => Line = << >>
  /\ next \in 1 .. Len(chain) + 1
  /\ outcome \in {"lexing", "parsing", "done", "error", "crash"}

(* The inputs that wait for input i, and i itself: those that every set     *)
(* has which has i and, with an input, the one it came from.               *)
Pending(ins, i) ==
  LET upward(s) == i \in s /\ \A j \in s \ {0} : ins[j].parent \in s
  IN  {k \in DOMAIN ins : \A s \in SUBSET (0 .. Len(ins)) : upward(s) => k \in s}
Waiting == Pending(inputs, input)
Reached(i) ==
  IF i = input THEN current - 1
  ELSE IF i \in Waiting THEN inputs[i].current - 1 ELSE Len(inputs[i].text)

(* However files and values of defines nest, every word of every input is  *)
(* read exactly once and in order: an input goes on where it was left.     *)
EachWordOnce ==
  \A i \in DOMAIN inputs :
    LET own == {t \in DOMAIN tokens : tokens[t].input = i} IN
    /\ \A k \in 1 .. Reached(i) : \E t \in own : tokens[t].at = k
    /\ \A t \in own : /\ tokens[t].at \in 1 .. Reached(i)
                      /\ tokens[t].word = inputs[i].text[tokens[t].at]
    /\ \A t, u \in own : t < u => tokens[t].at < tokens[u].at

(* If no @else was run, exactly the lines with an operation or data are    *)
(* assembled, in order, whatever @ifdefs they are in: with two faults that *)
(* cancel out (the if-states that tokens overwrite, the flag that parse()  *)
(* does not find) conditionals select nothing.                             *)
CodeLines ==
  {p \in DOMAIN chain :
     /\ p = 1 \/ Word(chain[p - 1]) = EOL
     /\ \/ Word(chain[p]) \in Ops
        \/ Word(chain[p]) = AT /\ Word(chain[p + 1]) \in DataDirectives}
AllAssembled ==
  outcome = "done" /\ ~elsed =>
    /\ {emitted[i] : i \in DOMAIN emitted} = CodeLines
    /\ \A i \in 2 .. Len(emitted) : emitted[i - 1] < emitted[i]

(* Lexing comes to an end where no define is defined, directly or through  *)
(* others, as itself.                                                      *)
LexingEnds == <>(outcome # "lexing")
-----------------------------------------------------------------------------
(* What a comment of asm.h says that the code does not keep.               *)

(* "indicates a token should be ignored": no line that begins with a token *)
(* flagged so is assembled.                                                *)
IgnoredNotAssembled ==
  \A i \in DOMAIN emitted : tokens[chain[emitted[i]]].flags = 0
=============================================================================
