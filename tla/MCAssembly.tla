----------------------------- MODULE MCAssembly -----------------------------
(***************************************************************************)
(* Small instances of Assembly: a library of macros and a few lines that   *)
(* use them, with labels, expressions and data. A program is written as a  *)
(* sequence of words; ";" is the end of a line.                            *)
(***************************************************************************)
EXTENDS Assembly

Punctuation ==
  {"@", "[", "]", "(", ")", ":", "%", ".", "$",
   "+", "-", "*", "/", "&", "|", "^", "~", "<", ">"}
Numbers ==
  "0" :> 0 @@ "1" :> 1 @@ "2" :> 2 @@ "3" :> 3 @@ "7" :> 7 @@ "100" :> 100
  @@ "300" :> 300 @@ "65535" :> 65535 @@ "70000" :> 70000

Token(w) ==
  CASE w = ";" -> [kind |-> "eol", name |-> "", value |-> 0]
    [] w \in Punctuation -> [kind |-> w, name |-> "", value |-> 0]
    [] w \in DOMAIN Numbers -> [kind |-> "number", name |-> w, value |-> Numbers[w]]
    [] w = "'hi'" -> [kind |-> "string", name |-> "", value |-> <<104, 105>>]
    [] OTHER -> [kind |-> "symbol", name |-> w, value |-> 0]
Tokens(words) == [i \in DOMAIN words |-> Token(words[i])]

MCLetter ==
  [w \in {"r0", "r1", "x0", "x1", "a0", "i0", "i1", "q"} |->
     CASE w \in {"r0", "r1"} -> "r" [] w \in {"x0", "x1"} -> "x"
       [] w = "a0" -> "a" [] w \in {"i0", "i1"} -> "i" [] OTHER -> "q"]

(* PUT is overloaded for bytes, registers and cells. TWICE calls it, with  *)
(* an argument in an expression and as an operand. FAR, HERE and PORT are  *)
(* in the style of JMP, of $ in CALL and of OUTB of the built-in library.  *)
Library ==
  <<"@", "macro", ";", "put", "%", "r0", "%", "x1", ":", ";",
      "mw", "%", "r0", "%", "x1", ";", ";">>
  \o <<"@", "macro", ";", "put", "%", "r0", "[", "%", "a0", "]", ":", ";",
      "lw", "%", "r0", "[", "%", "a0", "]", ";", ";">>
  \o <<"@", "macro", ";", "twice", "%", "i0", "%", "r1", ":", ";",
      "put", "%", "r1", "(", "%", "i0", "-", "(", "~", "%", "i0", ")", ")", ";",
      "add", "%", "r1", "%", "r1", ";", ";">>
  \o <<"@", "macro", ";", "far", "[", "%", "a0", "]", ":", ";",
      "lda", "[", "%", "a0", "]", ";", "jnz", "1", ";", ";">>
  \o <<"@", "macro", ";", "here", "%", "r0", ":", ";",
      "put", "%", "r0", "(", "$", ">", "1", ")", ";", ";">>
  \o <<"@", "macro", ";", "port", "%", "i0", "%", "i1", ":", ";",
      "mw", "f", "%", "i1", ";", "outb", "%", "i0", "f", ";", ";">>

Statements ==
  { <<"put", "b", "a", ";">>,
    <<"put", "c", "[", "x", "]", ";">>,
    <<"twice", "(", "7", "&", "3", ")", "d", ";">>,
    <<"far", "[", ".", "p", "]", ";">>,
    <<"here", "h", ";">>,
    <<"port", "1", "(", "(", "1", "<", "3", ")", "+", "7", "/", "2", ")", ";">>,
    <<"sw", "[", "x", "]", "b", ";">>,
    <<"sw", "c", ";">>,
    <<"push", "(", "-", "3", "+", "(", "7", "-", "1", ")", ")", ";">>,
    <<"outb", "a", "z", ";">>,
    <<"x", ":", ";">>,
    <<".", "p", ":", ";">>,
    <<"@", "db", "3", "(", "100", "*", "2", "-", "1", ")", ";">>,
    <<"@", "dd", "[", "300", "]", "(", "300", "^", "7", "|", "1", ")", ";">> }

(* Lines the assembler rejects, and some it takes that look wrong.         *)
Odd ==
  { <<"put", "[", "x", "]", "a", ";">>, <<"mw", "300", "a", ";">>,
    <<"mw", "a", "300", ";">>, <<"mw", "a", "(", "1", "+", "+", "2", ")", ";">>,
    <<"mw", "a", "(", "300", "*", "300", ")", ";">>, <<"mw", "a", "(", "1", ";">>,
    <<"mw", "a", "(", "1", "/", "0", ")", ";">>, <<"mw", "a", "(", "x", "+", "1", ")", ";">>,
    <<"mw", "a", "x", ";">>, <<"lw", "a", "[", "x", "300", "]", ";">>,
    <<"lw", "a", "]", ";">>, <<"push", "70000", ";">>, <<"pop", ".", ";">>,
    <<"lda", "300", ";">>, <<"lw", "b", ";">>, <<"none", ";">>, <<";">>,
    <<"@", "db", "300", ";">>, <<"@", "dd", "[", "x", "]", ";">>, <<"@", "dn", "3", ";">>,
    <<"@", "dn", "x", ";">>, <<"@", "ds", "'hi'", ";">>, <<"@", "ds", "3", ";">>,
    <<"@", "include", "x", ";">>, <<"@", "none", ";">>,
    <<"3", ":", ";">>,
    <<"@", "macro", ";", "push", "a", ";">>, <<"@", "macro", ";", "q", "%", "q", ":", ";">>,
    <<"@", "macro", ";", "q", ":", ";", ";">>,
    <<"@", "macro", ";", "q", "%", "r0", "%", "r0", ":", ";", "pop", "a", ";">>,
    <<"@", "macro", ";", "q", "[", "]", ":", ";", "pop", "a", ";">>,
    <<"@", "macro", ";", "q", "[", "%", "r0", "%", "x1", "]", ":", ";", "pop", "a", ";">>,
    <<"@", "macro", ";", "q", "%", "x1", ":", ";", "push", "%", "x1", ";", "push", "%", "r0", ";", ";", "q", "1", ";">>,
    <<"@", "macro", ";", "q", "%", "x1", ":", ";", "%", "x1", ";", ";", "q", "1", ";">> }

(* Library and statements are turned into tokens once.                     *)
TheLibrary == Tokens(Library)
TheStatements == {Tokens(a) : a \in Statements}
MCSources ==
  {TheLibrary \o a \o b \o c :
     a \in TheStatements, b \in TheStatements, c \in TheStatements}
  \cup {TheLibrary \o Tokens(<<"x", ":", ";">>) \o Tokens(a) : a \in Odd}
=============================================================================
