------------------------------ MODULE MCLexer ------------------------------
(***************************************************************************)
(* Small instances of Lexer: all programs of a few lines that define,      *)
(* include, and open and close conditionals.                               *)
(***************************************************************************)
EXTENDS Lexer

Openers ==
  { <<AT, "ifdef", "X", EOL>>,
    <<AT, "ifndef", "X", EOL>>,
    <<AT, "define", "X", EOL>>,
    <<AT, "define", "X", "mw", EOL>>,
    <<AT, "include", "file", EOL>> }
Closers == { <<AT, "else", EOL>>, <<AT, "endif", EOL>> }
Code == { <<"X", EOL>>, <<"mw", EOL>>, <<AT, "db", "1", EOL>> }
Malformed == { <<EOL>>, <<AT, "ifdef", EOL>>, <<AT, "else", "X", EOL>> }
Lines == Openers \cup Closers \cup Code \cup Malformed

(* Five lines hold an @ifdef with both its branches and its @endif.        *)
LongPrograms ==
  {a \o b \o c \o d \o e : a \in Openers, b \in Lines, c \in Openers \cup Closers,
                          d \in Code, e \in Closers}
ShortPrograms == {a \o b \o c : a \in Openers, b \in Code, c \in Closers}

(* The included file defines X and uses it. *)
TheFile ==
  [f \in {"file"} |-> <<AT, "define", "X", EOL, "mw", "X", EOL>>]
=============================================================================
