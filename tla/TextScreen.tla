----------------------------- MODULE TextScreen -----------------------------
(***************************************************************************)
(* What the terminal promises: a page of lines and a cursor. A printed     *)
(* character goes where the cursor is and moves it on; behind the last     *)
(* column and at a newline the cursor goes to the start of the next line;  *)
(* behind the last line the page moves up by one.                          *)
(***************************************************************************)
EXTENDS Integers, Sequences

CONSTANTS Width, Height, Chars, Newline, Empty

VARIABLES lines, cursor

blank == [x \in 0 .. Width - 1 |-> Empty]

Start == lines = [y \in 1 .. Height |-> blank] /\ cursor = <<0, 0>>

(* The page and the cursor after the text has gone on to column x of the   *)
(* line behind p's line y, or stays in it.                                 *)
Advance(p, x, y) ==
  IF y < Height THEN lines' = p /\ cursor' = <<x, y>>
  ELSE lines' = Append(Tail(p), blank) /\ cursor' = <<0, Height - 1>>

Put(ch) ==
  LET x == cursor[1]
      y == cursor[2]
      p == [lines EXCEPT ![y + 1][x] = ch]
  IN  IF x + 1 < Width THEN Advance(p, x + 1, y) ELSE Advance(p, 0, y + 1)

NewLine == Advance(lines, 0, cursor[2] + 1)

Clear ==
  /\ lines' = [y \in 1 .. Height |-> blank]
  /\ cursor' = <<0, 0>>

Next == Clear \/ NewLine \/ \E ch \in Chars : Put(ch)

Spec == Start /\ [][Next]_<<lines, cursor>>
=============================================================================
