------------------------------ MODULE Terminal ------------------------------
(***************************************************************************)
(* The terminal of the operating system, os/lib/term.asm, with draw_char   *)
(* of gfx.asm: a page of characters and a cursor in memory, and their      *)
(* picture in the screen's bank. A program prints strings and clears the   *)
(* terminal. The routines of the library it calls are one step each: what  *)
(* they do is module OsLib. Memory is addressed as the code does, by       *)
(* offsets from DATA and from ADDR_BANK.                                   *)
(***************************************************************************)
EXTENDS Integers, Sequences

CONSTANTS
  TERM_WIDTH, TERM_HEIGHT,
  GlyphRows,         \* scan lines of a row of text, 8 in the code
  SCANLINE_WIDTH_BYTES, SCANLINE_OFFSET_BYTES,
  font,              \* the bytes of each glyph, from font.asm
  Newline,
  Strings,           \* what a program prints
  Garbage            \* bytes that memory may hold at the start

Nul == 0             \* an empty cell, the end of a string, a blank byte
Solid == 255         \* a byte of the cursor
Chars == DOMAIN font

ASSUME TerminalAssumption ==
  /\ TERM_WIDTH \in Nat \ {0} /\ TERM_HEIGHT \in Nat \ {0}
  /\ GlyphRows \in Nat \ {0} /\ SCANLINE_OFFSET_BYTES \in Nat
  /\ SCANLINE_WIDTH_BYTES \in Nat
  /\ SCANLINE_WIDTH_BYTES > SCANLINE_OFFSET_BYTES + TERM_WIDTH
  /\ \A ch \in Chars : DOMAIN font[ch] = 0 .. GlyphRows - 1
  /\ Newline \notin Chars /\ Nul \notin Chars \cup {Newline}
  /\ Strings \subseteq Seq(Chars \cup {Newline})

DATA_SIZE == TERM_WIDTH * TERM_HEIGHT
RowBytes == SCANLINE_WIDTH_BYTES * GlyphRows
SCREEN_SIZE_BYTES == RowBytes * TERM_HEIGHT

VARIABLES
  data,      \* the characters, by offset from DATA
  vram,      \* the screen's bank, by offset from ADDR_BANK
  CURSOR_X, CURSOR_Y,
  at,        \* the label execution is at
  a, b, c,   \* the registers the terminal's routines work with
  str,       \* what is left of the string
  before     \* history: lines and cursor before the character being printed

vars == <<data, vram, CURSOR_X, CURSOR_Y, at, a, b, c, str, before>>
page == <<data, vram, CURSOR_X, CURSOR_Y>>
-----------------------------------------------------------------------------
(* The routines of util.asm on a part of memory.                           *)
memcpyDown(m, from, n) ==
  [i \in DOMAIN m |-> IF i < n THEN m[from + i] ELSE m[i]]
memset(m, to, n, byte) ==
  [i \in DOMAIN m |-> IF i \in to .. to + n - 1 THEN byte ELSE m[i]]

offset(x, y) == y * TERM_WIDTH + x

(* The page as lines, the uppermost first.                                 *)
Lines == [y \in 1 .. TERM_HEIGHT |->
            [x \in 0 .. TERM_WIDTH - 1 |-> data[offset(x, y - 1)]]]

(* Seven of the eight rows of a glyph, and of the cursor, from byte        *)
(* address to, downwards; draw_char takes the column of the screen, which  *)
(* is the terminal's column plus one.                                      *)
block(to, bytes) ==
  [i \in DOMAIN vram |->
     IF \E k \in 0 .. GlyphRows - 2 : i = to + k * SCANLINE_WIDTH_BYTES
     THEN bytes[(i - to) \div SCANLINE_WIDTH_BYTES] ELSE vram[i]]
draw_char(ch, col, line) ==
  block(line * SCANLINE_WIDTH_BYTES + col + SCANLINE_OFFSET_BYTES, font[ch])
term_draw_char(x, y) == draw_char(data[offset(x, y)], x + 1, y * GlyphRows)
term_set_cursor(byte) ==
  block(CURSOR_Y * RowBytes + CURSOR_X + SCANLINE_OFFSET_BYTES + 1,
        [k \in 0 .. GlyphRows - 1 |-> byte])
-----------------------------------------------------------------------------
(* term_print_str: one character after the other until the NUL.            *)
PrintString(s) ==
  /\ at = "program"
  /\ str' = s /\ at' = "print_str.loop"
  /\ UNCHANGED <<page, a, b, c, before>>
NextChar ==
  /\ at = "print_str.loop" /\ str # << >>
  /\ a' = Head(str) /\ str' = Tail(str) /\ at' = "print"
  /\ before' = <<Lines, <<CURSOR_X, CURSOR_Y>>>>
  /\ UNCHANGED <<page, b, c>>
StringEnds ==
  /\ at = "print_str.loop" /\ str = << >>
  /\ at' = "program"
  /\ UNCHANGED <<page, a, b, c, str, before>>

(* term_print, with the cursor in a and b and the character in c.          *)
PrintChar ==
  /\ at = "print"
  /\ c' = a /\ a' = CURSOR_X /\ b' = CURSOR_Y
  /\ at' = IF a = Newline THEN "print.newline" ELSE "print.no_newline"
  /\ UNCHANGED <<page, str, before>>

(* Slip: the cursor is left standing at the end of the line.               *)
PrintNewlineOnly ==
  /\ at = "print.newline"
  /\ at' = "print.inc_y"
  /\ UNCHANGED <<page, a, b, c, str, before>>

PrintNewline ==
  /\ at = "print.newline"
  /\ vram' = term_set_cursor(Nul)
  /\ at' = "print.inc_y"
  /\ UNCHANGED <<data, CURSOR_X, CURSOR_Y, a, b, c, str, before>>

PrintSet ==
  /\ at = "print.no_newline"
  /\ data' = [data EXCEPT ![offset(a, b)] = c]
  /\ at' = "print.draw"
  /\ UNCHANGED <<vram, CURSOR_X, CURSOR_Y, a, b, c, str, before>>

PrintDraw ==
  /\ at = "print.draw"
  /\ vram' = term_draw_char(a, b)
  /\ a' = a + 1
  /\ at' = IF a + 1 # TERM_WIDTH THEN "print.cont" ELSE "print.inc_y"
  /\ UNCHANGED <<data, CURSOR_X, CURSOR_Y, b, c, str, before>>

IncY ==
  /\ at = "print.inc_y"
  /\ a' = 0 /\ b' = b + 1
  /\ at' = "print.cont"
  /\ UNCHANGED <<page, c, str, before>>

(* Slip: the page scrolls when the cursor enters the last line.            *)
PrintContEarly ==
  /\ at = "print.cont"
  /\ at' = IF b # TERM_HEIGHT - 1 THEN "print.no_scroll" ELSE "scroll"
  /\ UNCHANGED <<page, a, b, c, str, before>>

PrintCont ==
  /\ at = "print.cont"
  /\ at' = IF b # TERM_HEIGHT THEN "print.no_scroll" ELSE "scroll"
  /\ UNCHANGED <<page, a, b, c, str, before>>

(* term_scroll: both copies downwards, and the last line of both cleared.  *)
ScrollData ==
  /\ at = "scroll"
  /\ data' = memset(memcpyDown(data, TERM_WIDTH, DATA_SIZE - TERM_WIDTH),
                    DATA_SIZE - TERM_WIDTH, TERM_WIDTH, Nul)
  /\ at' = "scroll.graphics"
  /\ UNCHANGED <<vram, CURSOR_X, CURSOR_Y, a, b, c, str, before>>

ScrollGraphics ==
  /\ at = "scroll.graphics"
  /\ vram' = memset(memcpyDown(vram, RowBytes, SCREEN_SIZE_BYTES - RowBytes),
                    SCREEN_SIZE_BYTES - RowBytes, RowBytes, Nul)
  /\ a' = 0 /\ b' = TERM_HEIGHT - 1
  /\ at' = "print.no_scroll"
  /\ UNCHANGED <<data, CURSOR_X, CURSOR_Y, c, str, before>>

StoreCursor ==
  /\ at = "print.no_scroll"
  /\ CURSOR_X' = a /\ CURSOR_Y' = b
  /\ at' = "print.cursor"
  /\ UNCHANGED <<data, vram, a, b, c, str, before>>
DrawCursor ==
  /\ at = "print.cursor"
  /\ vram' = term_set_cursor(Solid)
  /\ at' = "print_str.loop"
  /\ UNCHANGED <<data, CURSOR_X, CURSOR_Y, a, b, c, str, before>>
-----------------------------------------------------------------------------
(* term_clear, which a program calls first: memory holds anything before.  *)
TermClear ==
  /\ at \in {"off", "program"}
  /\ data' = memset(data, 0, DATA_SIZE, Nul)
  /\ vram' = memset(vram, 0, SCREEN_SIZE_BYTES, Nul)
  /\ CURSOR_X' = 0 /\ CURSOR_Y' = 0
  /\ at' = "program"
  /\ UNCHANGED <<a, b, c, str, before>>

Init ==
  /\ \E g \in Garbage : /\ data = [i \in 0 .. DATA_SIZE - 1 |-> g]
                        /\ vram = [i \in 0 .. SCREEN_SIZE_BYTES - 1 |-> g]
                        /\ CURSOR_X = g /\ CURSOR_Y = g
  /\ at = "off"
  /\ a = 0 /\ b = 0 /\ c = 0 /\ str = << >> /\ before = << >>

Print1 ==
  \/ PrintChar \/ PrintNewline \/ PrintSet \/ PrintDraw \/ IncY \/ PrintCont
  \/ ScrollData \/ ScrollGraphics \/ StoreCursor \/ DrawCursor

Next ==
  \/ \E s \in Strings : PrintString(s)
  \/ NextChar \/ StringEnds \/ Print1 \/ TermClear

Spec == Init /\ [][Next]_vars
-----------------------------------------------------------------------------
Cell == Chars \cup {Nul}
Lit == {font[ch][k] : ch \in Chars, k \in 0 .. GlyphRows - 1}
       \cup {Nul, Solid}

(* Once cleared, the page holds characters, the bank pixels of characters  *)
(* or of the cursor.                                                       *)
TypeOK ==
  /\ DOMAIN data = 0 .. DATA_SIZE - 1
  /\ \A i \in DOMAIN data :
       data[i] \in IF at = "off" THEN Garbage ELSE Cell
  /\ DOMAIN vram = 0 .. SCREEN_SIZE_BYTES - 1
  /\ \A i \in DOMAIN vram :
       vram[i] \in IF at = "off" THEN Garbage ELSE Lit
  /\ str \in Seq(Chars \cup {Newline})

(* Between two characters the cursor is on the page, and a character is    *)
(* never stored or drawn outside it: the routines that compute addresses   *)
(* check nothing.                                                          *)
CursorOnPage ==
  /\ at # "off" => /\ CURSOR_X \in 0 .. TERM_WIDTH - 1
                   /\ CURSOR_Y \in 0 .. TERM_HEIGHT - 1
  /\ at \in {"print.no_newline", "print.draw"} =>
       /\ a \in 0 .. TERM_WIDTH - 1 /\ b \in 0 .. TERM_HEIGHT - 1

Resting == at \in {"program", "print_str.loop"}
Cleared == <<CURSOR_X, CURSOR_Y>> = <<0, 0>> /\ \A i \in DOMAIN data : data[i] = Nul

(* What byte i of the bank shows: a row of the character of a cell, a row  *)
(* of the cursor, or nothing: in the eighth row and in the margins.        *)
Shown(i, cursor) ==
  LET row == i \div SCANLINE_WIDTH_BYTES
      x == (i % SCANLINE_WIDTH_BYTES) - SCANLINE_OFFSET_BYTES - 1
      y == row \div GlyphRows
      k == row % GlyphRows
  IN  IF x \notin 0 .. TERM_WIDTH - 1 \/ k = GlyphRows - 1 THEN Nul
      ELSE IF cursor /\ <<x, y>> = <<CURSOR_X, CURSOR_Y>> THEN Solid
      ELSE IF data[offset(x, y)] = Nul THEN Nul
      ELSE font[data[offset(x, y)]][k]

(* Between two characters the picture is that of the page, and the cursor  *)
(* is drawn where it is and nowhere else; only a terminal just cleared     *)
(* shows none.                                                             *)
PictureOfPage ==
  Resting =>
    \/ \A i \in DOMAIN vram : vram[i] = Shown(i, TRUE)
    \/ Cleared /\ \A i \in DOMAIN vram : vram[i] = Shown(i, FALSE)

(* The page and the cursor as a program sees them: those of the screen     *)
(* between two characters, those from before the character while it is     *)
(* being printed.                                                          *)
screenLines ==
  CASE at = "off" -> [y \in 1 .. TERM_HEIGHT |-> [x \in 0 .. TERM_WIDTH - 1 |-> Nul]]
    [] Resting -> Lines
    [] OTHER -> before[1]
screenCursor ==
  CASE at = "off" -> <<0, 0>>
    [] Resting -> <<CURSOR_X, CURSOR_Y>>
    [] OTHER -> before[2]

(* The terminal is a TextScreen: every character printed changes the lines *)
(* and the cursor as it says, however the page is laid out and copied.     *)
Screen == INSTANCE TextScreen WITH
  Width <- TERM_WIDTH, Height <- TERM_HEIGHT, Empty <- Nul,
  lines <- screenLines, cursor <- screenCursor
ImplementsTextScreen == Screen!Spec
=============================================================================
