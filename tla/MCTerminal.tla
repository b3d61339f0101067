----------------------------- MODULE MCTerminal -----------------------------
(***************************************************************************)
(* A terminal of three columns and three lines, glyphs of three scan       *)
(* lines, of which, as in the code, the last is not drawn.                 *)
(***************************************************************************)
EXTENDS Terminal

SomeStrings == {<<97>>, <<10>>, <<98, 10, 97>>, <<97, 98, 98, 97>>}
TwoGlyphs == [ch \in {97, 98} |-> [k \in 0 .. 2 |-> ch + 10 * k]]
=============================================================================
