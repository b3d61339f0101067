--------------------------- MODULE TerminalProofs ---------------------------
(***************************************************************************)
(* Proofs about the terminal, for every size of its page and every font:   *)
(* it implements TextScreen, its cursor stays on the page, and the bank of *)
(* the screen holds the picture of the page.                               *)
(***************************************************************************)
EXTENDS Terminal, SequenceTheorems, TLAPS

Columns == 0 .. TERM_WIDTH - 1
Rows == 0 .. TERM_HEIGHT - 1
Cells == 0 .. DATA_SIZE - 1
Blank == [x \in Columns |-> Nul]
Pages == [1 .. TERM_HEIGHT -> [Columns -> Cell]]
OnPage(x, y) == x \in Columns /\ y \in Rows
-----------------------------------------------------------------------------
(* How a page is laid out in memory.                                       *)
LEMMA Sizes == /\ TERM_WIDTH \in Nat /\ TERM_WIDTH > 0
               /\ TERM_HEIGHT \in Nat /\ TERM_HEIGHT > 0
               /\ DATA_SIZE \in Nat
BY TerminalAssumption DEF DATA_SIZE

LEMMA TimesGrows == \A m, n, k \in Nat : m <= n => m * k <= n * k
<1> SUFFICES ASSUME NEW m \in Nat, NEW n \in Nat, NEW k \in Nat, m <= n
             PROVE  m * k <= n * k
  OBVIOUS
<1>1. n = m + (n - m) /\ n - m \in Nat
  OBVIOUS
<1>2. n * k = m * k + (n - m) * k
  BY <1>1
<1>3. (n - m) * k \in Nat /\ m * k \in Nat
  BY <1>1
<1>4. QED BY <1>2, <1>3

(* The lines follow each other in memory without a gap.                    *)
LEMMA LinesInOrder ==
  ASSUME NEW y \in Nat, NEW v \in Nat, y < v, NEW x \in Columns
  PROVE  offset(x, y) < v * TERM_WIDTH
<1>1. /\ (y + 1) * TERM_WIDTH <= v * TERM_WIDTH
      /\ (y + 1) * TERM_WIDTH = y * TERM_WIDTH + TERM_WIDTH
      /\ y * TERM_WIDTH \in Nat /\ v * TERM_WIDTH \in Nat
  BY Sizes, TimesGrows
<1>2. QED BY <1>1, Sizes DEF offset, Columns

LEMMA OffsetOnPage ==
  ASSUME NEW x \in Columns, NEW y \in Rows
  PROVE  /\ offset(x, y) \in Cells
         /\ y < TERM_HEIGHT - 1 => offset(x, y) < DATA_SIZE - TERM_WIDTH
         /\ y = TERM_HEIGHT - 1 => offset(x, y) >= DATA_SIZE - TERM_WIDTH
         /\ offset(x, y + 1) = offset(x, y) + TERM_WIDTH
<1>1. y \in Nat /\ y < TERM_HEIGHT /\ x \in Nat /\ x < TERM_WIDTH
  BY Sizes DEF Columns, Rows
<1>2. y * TERM_WIDTH \in Nat /\ offset(x, y) = y * TERM_WIDTH + x
  BY <1>1, Sizes DEF offset
<1>3. TERM_HEIGHT * TERM_WIDTH = DATA_SIZE
  BY Sizes DEF DATA_SIZE
<1>4. (TERM_HEIGHT - 1) * TERM_WIDTH = DATA_SIZE - TERM_WIDTH
  BY <1>3, Sizes
<1>5. offset(x, y) < DATA_SIZE
  <2>1. offset(x, y) < TERM_HEIGHT * TERM_WIDTH
    BY <1>1, Sizes, LinesInOrder
  <2>2. QED BY <1>3, <2>1
<1>6. ASSUME y < TERM_HEIGHT - 1 PROVE offset(x, y) < DATA_SIZE - TERM_WIDTH
  <2>1. TERM_HEIGHT - 1 \in Nat
    BY Sizes
  <2>2. offset(x, y) < (TERM_HEIGHT - 1) * TERM_WIDTH
    BY <1>1, <1>6, <2>1, LinesInOrder
  <2>3. QED BY <1>4, <2>2
<1>7. ASSUME y = TERM_HEIGHT - 1 PROVE offset(x, y) >= DATA_SIZE - TERM_WIDTH
  BY <1>1, <1>2, <1>4, <1>7
<1>8. (y + 1) * TERM_WIDTH = y * TERM_WIDTH + TERM_WIDTH
  BY <1>1, Sizes
<1>9. offset(x, y + 1) = offset(x, y) + TERM_WIDTH
  BY <1>1, <1>2, <1>8, Sizes DEF offset
<1>10. QED BY <1>1, <1>2, <1>5, <1>6, <1>7, <1>9, Sizes DEF Cells

(* No two places of the page share a cell.                                 *)
LEMMA OffsetInjective ==
  ASSUME NEW x \in Columns, NEW y \in Rows, NEW u \in Columns, NEW v \in Rows,
         offset(x, y) = offset(u, v)
  PROVE  x = u /\ y = v
<1> DEFINE p == y * TERM_WIDTH
           q == v * TERM_WIDTH
<1>1. /\ y \in Nat /\ v \in Nat /\ x \in Nat /\ u \in Nat
      /\ p \in Nat /\ q \in Nat
  BY Sizes DEF Columns, Rows
<1>2. offset(x, y) = p + x /\ offset(u, v) = q + u
  BY DEF offset
<1>3. /\ y < v => offset(x, y) < q
      /\ v < y => offset(u, v) < p
  BY <1>1, LinesInOrder
<1>4. y = v => p = q
  OBVIOUS
<1> HIDE DEF p, q
<1>5. p + x = offset(x, y) /\ q + u = offset(u, v)
  BY <1>2
<1>6. (y < v => p + x < q) /\ (v < y => q + u < p)
  BY <1>3, <1>5
<1>7. ~ (y < v) /\ ~ (v < y)
  BY <1>1, <1>5, <1>6
<1>8. y = v
  <2>1. y \in Nat /\ v \in Nat
    BY <1>1
  <2>2. QED BY <1>7, <2>1
<1>9. p + x = p + u
  BY <1>4, <1>5, <1>8
<1>10. QED BY <1>1, <1>8, <1>9
-----------------------------------------------------------------------------
(* The page that memory m holds, and what becomes of it.                   *)
PageOf(m) == [y \in 1 .. TERM_HEIGHT |-> [x \in Columns |-> m[offset(x, y - 1)]]]

LEMMA LinesArePage == Lines = PageOf(data) /\ Lines' = PageOf(data')
BY DEF Lines, PageOf, Columns

LEMMA RowsCounted == \A y \in 1 .. TERM_HEIGHT : y - 1 \in Rows
BY Sizes DEF Rows

LEMMA PageHasType == \A m \in [Cells -> Cell] : PageOf(m) \in Pages
<1> SUFFICES ASSUME NEW m \in [Cells -> Cell] PROVE PageOf(m) \in Pages
  OBVIOUS
<1>1. \A y \in 1 .. TERM_HEIGHT, x \in Columns : m[offset(x, y - 1)] \in Cell
  BY RowsCounted, OffsetOnPage
<1>2. QED BY <1>1 DEF PageOf, Pages

(* A character in its cell, and in its place of a page.                    *)
Set(m, x, y, ch) == [m EXCEPT ![offset(x, y)] = ch]
Edited(p, x, y, ch) == [p EXCEPT ![y + 1][x] = ch]

LEMMA PageSet ==
  ASSUME NEW m \in [Cells -> Cell], NEW x \in Columns, NEW y \in Rows, NEW ch \in Cell
  PROVE  /\ Set(m, x, y, ch) \in [Cells -> Cell]
         /\ PageOf(Set(m, x, y, ch)) = Edited(PageOf(m), x, y, ch)
<1> DEFINE n == [m EXCEPT ![offset(x, y)] = ch]
           p == [PageOf(m) EXCEPT ![y + 1][x] = ch]
<1>1. /\ offset(x, y) \in Cells /\ n \in [Cells -> Cell]
      /\ y + 1 \in 1 .. TERM_HEIGHT /\ y \in Nat /\ y + 1 - 1 = y
  BY OffsetOnPage, Sizes DEF Rows
<1>2. p \in Pages
  <2>1. PageOf(m) \in Pages
    BY PageHasType
  <2>2. QED BY <2>1, <1>1 DEF Pages
<1>3. PageOf(n) \in Pages
  BY <1>1, PageHasType
<1>4. ASSUME NEW v \in 1 .. TERM_HEIGHT, NEW u \in Columns
      PROVE  PageOf(n)[v][u] = p[v][u]
  <2>1. v - 1 \in Rows /\ offset(u, v - 1) \in Cells /\ v \in Nat
    BY RowsCounted, OffsetOnPage, Sizes
  <2>2. /\ PageOf(n)[v][u] = n[offset(u, v - 1)]
        /\ PageOf(m)[v][u] = m[offset(u, v - 1)]
    BY DEF PageOf
  <2>3. CASE u = x /\ v = y + 1
    <3>1. n[offset(u, v - 1)] = ch
      BY <1>1, <2>3
    <3>2. p[v][u] = ch
      BY <1>1, <2>3 DEF PageOf
    <3>3. QED BY <2>2, <3>1, <3>2
  <2>4. CASE ~ (u = x /\ v = y + 1)
    <3>1. v - 1 = y => v = y + 1
      BY <1>1, <2>1
    <3>2. offset(u, v - 1) # offset(x, y)
      BY <2>1, <2>4, <3>1, OffsetInjective
    <3>3. n[offset(u, v - 1)] = m[offset(u, v - 1)]
      BY <2>1, <3>2
    <3>4. p[v][u] = PageOf(m)[v][u]
      BY <1>1, <2>4 DEF PageOf
    <3>5. QED BY <2>2, <3>3, <3>4
  <2>5. QED BY <2>3, <2>4
<1> HIDE DEF n, p
<1>5. PageOf(n) = p
  <2>1. \A v \in 1 .. TERM_HEIGHT : PageOf(n)[v] = p[v]
    BY <1>2, <1>3, <1>4 DEF Pages
  <2>2. /\ PageOf(n) = [v \in 1 .. TERM_HEIGHT |-> PageOf(n)[v]]
        /\ p = [v \in 1 .. TERM_HEIGHT |-> p[v]]
    BY <1>2, <1>3 DEF Pages
  <2>3. QED BY <2>1, <2>2
<1>6. QED BY <1>1, <1>5 DEF n, p, Set, Edited

LEMMA PageCleared ==
  ASSUME NEW m, DOMAIN m = Cells
  PROVE  LET n == memset(m, 0, DATA_SIZE, Nul)
         IN  /\ n \in [Cells -> Cell]
             /\ PageOf(n) = [y \in 1 .. TERM_HEIGHT |-> Blank]
<1> DEFINE n == memset(m, 0, DATA_SIZE, Nul)
<1>1. n = [i \in Cells |-> Nul]
  <2>1. 0 .. 0 + DATA_SIZE - 1 = Cells
    BY Sizes DEF Cells
  <2>2. QED BY <2>1 DEF memset
<1> HIDE DEF n
<1>2. n \in [Cells -> Cell]
  BY <1>1 DEF Cell
<1>3. \A y \in 1 .. TERM_HEIGHT, x \in Columns : n[offset(x, y - 1)] = Nul
  BY <1>1, RowsCounted, OffsetOnPage
<1>4. QED BY <1>2, <1>3 DEF PageOf, Blank, n

LEMMA PageScrolled ==
  ASSUME NEW m \in [Cells -> Cell]
  PROVE  LET n == memset(memcpyDown(m, TERM_WIDTH, DATA_SIZE - TERM_WIDTH),
                         DATA_SIZE - TERM_WIDTH, TERM_WIDTH, Nul)
         IN  /\ n \in [Cells -> Cell]
             /\ PageOf(n) = Append(Tail(PageOf(m)), Blank)
<1> DEFINE k == DATA_SIZE - TERM_WIDTH
           up == memcpyDown(m, TERM_WIDTH, k)
           n == memset(up, k, TERM_WIDTH, Nul)
           p == PageOf(m)
           q == Append(Tail(p), Blank)
           Line == [Columns -> Cell]
<1>1. /\ k \in Int /\ TERM_WIDTH \in Nat /\ DATA_SIZE \in Nat
      /\ k + TERM_WIDTH - 1 = DATA_SIZE - 1
  BY Sizes
<1>2. \A i \in Cells : n[i] = IF i < k THEN m[i + TERM_WIDTH] ELSE Nul
  <2>1. up = [i \in Cells |-> IF i < k THEN m[TERM_WIDTH + i] ELSE m[i]]
    BY DEF memcpyDown
  <2>2. n = [i \in Cells |-> IF i \in k .. k + TERM_WIDTH - 1 THEN Nul ELSE up[i]]
    BY <2>1 DEF memset
  <2> HIDE DEF up, n
  <2>3. ASSUME NEW i \in Cells
        PROVE  n[i] = IF i < k THEN m[i + TERM_WIDTH] ELSE Nul
    <3>1. i \in Int /\ i <= DATA_SIZE - 1 /\ TERM_WIDTH + i = i + TERM_WIDTH
      BY <1>1 DEF Cells
    <3>2. i \in k .. k + TERM_WIDTH - 1 <=> ~ (i < k)
      BY <1>1, <3>1
    <3>3. QED BY <2>1, <2>2, <3>1, <3>2
  <2>4. QED BY <2>3
<1>3. n \in [Cells -> Cell]
  <2>1. \A i \in Cells : i < k => i + TERM_WIDTH \in Cells
    BY <1>1 DEF Cells
  <2>2. \A i \in Cells : n[i] \in Cell
    BY <1>2, <2>1 DEF Cell
  <2>3. n = [i \in Cells |-> n[i]]
    BY DEF memset, memcpyDown
  <2> HIDE DEF n
  <2>4. QED BY <2>2, <2>3
<1> HIDE DEF n
<1>4. p \in Seq(Line) /\ Len(p) = TERM_HEIGHT /\ p # << >> /\ Blank \in Line
  <2>1. p \in [1 .. TERM_HEIGHT -> Line]
    BY PageHasType DEF Pages
  <2>2. QED BY <2>1, Sizes DEF Blank, Cell
<1> HIDE DEF p
<1>5. /\ Tail(p) \in Seq(Line) /\ Len(Tail(p)) = TERM_HEIGHT - 1
      /\ \A i \in 1 .. TERM_HEIGHT - 1 : Tail(p)[i] = p[i + 1]
  BY <1>4, HeadTailProperties
<1>6. /\ q \in Seq(Line) /\ Len(q) = TERM_HEIGHT
      /\ \A i \in 1 .. TERM_HEIGHT - 1 : q[i] = p[i + 1]
      /\ q[TERM_HEIGHT] = Blank
  <2>1. /\ q \in Seq(Line) /\ Len(q) = Len(Tail(p)) + 1
        /\ \A i \in 1 .. Len(Tail(p)) : q[i] = Tail(p)[i]
        /\ q[Len(Tail(p)) + 1] = Blank
    BY <1>4, <1>5, AppendProperties
  <2> HIDE DEF q
  <2>2. TERM_HEIGHT - 1 + 1 = TERM_HEIGHT
    BY Sizes
  <2>3. QED BY <1>5, <2>1, <2>2
<1> HIDE DEF q
<1>7. ASSUME NEW y \in 1 .. TERM_HEIGHT PROVE PageOf(n)[y] = q[y]
  <2>1. PageOf(n)[y] = [x \in Columns |-> n[offset(x, y - 1)]]
    BY DEF PageOf
  <2>2. y - 1 \in Rows /\ y \in Nat /\ 1 <= y /\ y <= TERM_HEIGHT
    BY RowsCounted, Sizes
  <2>3. CASE y < TERM_HEIGHT
    <3>1. y \in 1 .. TERM_HEIGHT - 1 /\ y + 1 \in 1 .. TERM_HEIGHT
          /\ y + 1 - 1 = y /\ y - 1 + 1 = y /\ y - 1 < TERM_HEIGHT - 1
      BY <2>2, <2>3, Sizes
    <3>2. q[y] = [x \in Columns |-> m[offset(x, y + 1 - 1)]]
      <4>1. q[y] = p[y + 1]
        BY <1>6, <3>1
      <4>2. QED BY <3>1, <4>1 DEF p, PageOf
    <3>3. ASSUME NEW x \in Columns
          PROVE  n[offset(x, y - 1)] = m[offset(x, y + 1 - 1)]
      <4>1. /\ offset(x, y - 1) \in Cells /\ offset(x, y - 1) < k
            /\ offset(x, y - 1 + 1) = offset(x, y - 1) + TERM_WIDTH
        BY <2>2, <3>1, OffsetOnPage
      <4>2. QED BY <1>2, <3>1, <4>1
    <3>4. QED BY <2>1, <3>2, <3>3
  <2>4. CASE y = TERM_HEIGHT
    <3>1. ASSUME NEW x \in Columns PROVE n[offset(x, y - 1)] = Nul
      <4>1. offset(x, y - 1) \in Cells /\ offset(x, y - 1) >= k
        BY <2>2, <2>4, OffsetOnPage
      <4>2. ~ (offset(x, y - 1) < k)
        BY <1>1, <4>1 DEF Cells
      <4>3. QED BY <1>2, <4>1, <4>2
    <3>2. QED BY <1>6, <2>1, <2>4, <3>1 DEF Blank
  <2>5. QED BY <2>2, <2>3, <2>4, Sizes
<1>8. PageOf(n) = q
  <2>1. PageOf(n) \in [1 .. TERM_HEIGHT -> Line]
    BY <1>3, PageHasType DEF Pages
  <2>2. q = [i \in 1 .. TERM_HEIGHT |-> q[i]]
    BY <1>6
  <2>3. QED BY <1>7, <2>1, <2>2
<1>9. QED BY <1>3, <1>8 DEF n, p, q
-----------------------------------------------------------------------------
(* What a character makes of a page and a cursor, as states: Moved as the  *)
(* text has gone on to column x of line y, Ended by a newline, Printed by  *)
(* a character.                                                            *)
Moved(p, x, y) ==
  IF y < TERM_HEIGHT THEN <<p, <<x, y>>>>
  ELSE <<Append(Tail(p), Blank), <<0, TERM_HEIGHT - 1>>>>
Ended(s) == Moved(s[1], 0, s[2][2] + 1)
Put(s, ch) == Edited(s[1], s[2][1], s[2][2], ch)
Printed(s, ch) ==
  IF s[2][1] + 1 < TERM_WIDTH THEN Moved(Put(s, ch), s[2][1] + 1, s[2][2])
  ELSE Moved(Put(s, ch), 0, s[2][2] + 1)
Due(s, t) == t = Ended(s) \/ \E ch \in Chars : t = Printed(s, ch)

(* A step of the screen that leads to what is due.                         *)
LEMMA DueIsStep ==
  ASSUME Due(<<screenLines, screenCursor>>, <<screenLines', screenCursor'>>)
  PROVE  Screen!Next
<1>1. \A p, x, y : <<screenLines', screenCursor'>> = Moved(p, x, y)
                   => Screen!Advance(p, x, y)
  BY DEF Moved, Screen!Advance, Screen!blank, Blank, Columns
<1>2. CASE <<screenLines', screenCursor'>> = Ended(<<screenLines, screenCursor>>)
  BY <1>1, <1>2 DEF Ended, Screen!Next, Screen!NewLine
<1>3. ASSUME NEW ch \in Chars,
             <<screenLines', screenCursor'>> = Printed(<<screenLines, screenCursor>>, ch)
      PROVE  Screen!Next
  <2>1. Screen!Put(ch)
    BY <1>1, <1>3 DEF Printed, Put, Edited, Screen!Put
  <2>2. QED BY <2>1 DEF Screen!Next
<1>4. QED BY <1>2, <1>3 DEF Due

Printing == {"print", "print.newline", "print.no_newline", "print.draw",
             "print.inc_y", "print.cont", "scroll", "scroll.graphics",
             "print.no_scroll", "print.cursor"}
Labels == {"off", "program", "print_str.loop"} \cup Printing

(* The inductive invariant. While a character is printed, the page, the    *)
(* registers and the cursor's cells hold what is due in a form of their    *)
(* own at every label.                                                     *)
Memory ==
  /\ at \in Labels /\ DOMAIN data = Cells
  /\ str \in Seq(Chars \cup {Newline})
  /\ at # "off" => data \in [Cells -> Cell] /\ OnPage(CURSOR_X, CURSOR_Y)
  /\ at \in Printing => before \in Pages \X (Columns \X Rows)
Started ==
  /\ at = "print" => /\ before = <<Lines, <<CURSOR_X, CURSOR_Y>>>>
                     /\ a \in Chars \cup {Newline}
  /\ at \in {"print.newline", "print.no_newline"} => before = <<Lines, <<a, b>>>>
  /\ at \in {"print.no_newline", "print.draw"} => c \in Chars
  /\ at = "print.draw" => Lines = Put(before, c) /\ before[2] = <<a, b>>
Going ==
  /\ at = "print.inc_y" => b \in Rows /\ Due(before, Moved(Lines, 0, b + 1))
  /\ at = "print.cont" => /\ a \in Columns /\ b \in 0 .. TERM_HEIGHT
                          /\ Due(before, Moved(Lines, a, b))
  /\ at = "scroll" => Due(before, <<Append(Tail(Lines), Blank), <<0, TERM_HEIGHT - 1>>>>)
  /\ at = "scroll.graphics" => Due(before, <<Lines, <<0, TERM_HEIGHT - 1>>>>)
  /\ at = "print.no_scroll" => OnPage(a, b) /\ Due(before, <<Lines, <<a, b>>>>)
  /\ at = "print.cursor" => Due(before, <<Lines, <<CURSOR_X, CURSOR_Y>>>>)
IInv == Memory /\ Started /\ Going

Steps == Screen!Next \/ UNCHANGED <<screenLines, screenCursor>>

LEMMA LinesKept == data' = data => Lines' = Lines
BY DEF Lines, offset

(* Within the printing of a character the program sees nothing change.     *)
LEMMA InsideIsStutter ==
  ASSUME at \in Printing, at' \in Printing, before' = before
  PROVE  UNCHANGED <<screenLines, screenCursor>>
BY DEF Printing, screenLines, screenCursor, Resting

LEMMA InitKeeps == Init => IInv /\ Screen!Start
<1> SUFFICES ASSUME Init PROVE IInv /\ Screen!Start
  OBVIOUS
<1>1. at = "off" /\ str = << >> /\ DOMAIN data = Cells
  BY DEF Init, Cells
<1>2. IInv
  BY <1>1 DEF IInv, Memory, Started, Going, Labels, Printing
<1>3. Screen!Start
  BY <1>1 DEF Screen!Start, Screen!blank, screenLines, screenCursor, Resting
<1>4. QED BY <1>2, <1>3

LEMMA CallKeeps ==
  ASSUME IInv, StringEnds \/ \E s \in Strings : PrintString(s)
  PROVE  IInv' /\ Steps
<1>1. /\ at \in {"program", "print_str.loop"} /\ at' \in {"program", "print_str.loop"}
      /\ UNCHANGED <<data, CURSOR_X, CURSOR_Y, a, b, c, before>>
      /\ str' \in Seq(Chars \cup {Newline})
  BY TerminalAssumption DEF IInv, Memory, StringEnds, PrintString, page
<1>2. IInv'
  BY <1>1 DEF IInv, Memory, Started, Going, Labels, Printing
<1>3. UNCHANGED <<screenLines, screenCursor>>
  BY <1>1, LinesKept DEF screenLines, screenCursor, Resting
<1>4. QED BY <1>2, <1>3 DEF Steps

LEMMA NextCharKeeps == ASSUME IInv, NextChar PROVE IInv' /\ Steps
<1>1. /\ at = "print_str.loop" /\ at' = "print"
      /\ UNCHANGED <<data, CURSOR_X, CURSOR_Y>>
      /\ before' = <<Lines, <<CURSOR_X, CURSOR_Y>>>> /\ a' = Head(str)
      /\ str # << >> /\ str' = Tail(str)
  BY DEF NextChar, page
<1>2. /\ str \in Seq(Chars \cup {Newline}) /\ data \in [Cells -> Cell]
      /\ OnPage(CURSOR_X, CURSOR_Y) /\ DOMAIN data = Cells
  BY <1>1 DEF IInv, Memory
<1>3. str' \in Seq(Chars \cup {Newline}) /\ a' \in Chars \cup {Newline}
  BY <1>1, <1>2, HeadTailProperties
<1>4. Lines \in Pages /\ Lines' = Lines
  BY <1>1, <1>2, LinesArePage, PageHasType, LinesKept
<1>5. before' \in Pages \X (Columns \X Rows)
  BY <1>1, <1>2, <1>4 DEF OnPage
<1>6. IInv'
  BY <1>1, <1>2, <1>3, <1>4, <1>5 DEF IInv, Memory, Started, Going, Labels, Printing
<1>7. UNCHANGED <<screenLines, screenCursor>>
  BY <1>1 DEF screenLines, screenCursor, Resting
<1>8. QED BY <1>6, <1>7 DEF Steps

LEMMA ClearKeeps == ASSUME IInv, TermClear PROVE IInv' /\ Steps
<1>1. /\ at' = "program" /\ str' = str /\ CURSOR_X' = 0 /\ CURSOR_Y' = 0
      /\ data' = memset(data, 0, DATA_SIZE, Nul)
  BY DEF TermClear
<1>2. /\ data' \in [Cells -> Cell]
      /\ PageOf(data') = [y \in 1 .. TERM_HEIGHT |-> Blank]
  BY <1>1, PageCleared DEF IInv, Memory
<1>3. Lines' = [y \in 1 .. TERM_HEIGHT |-> Blank]
  BY <1>2, LinesArePage
<1>4. OnPage(0, 0)
  BY Sizes DEF OnPage, Columns, Rows
<1>5. IInv'
  BY <1>1, <1>2, <1>4 DEF IInv, Memory, Started, Going, Labels, Printing
<1>6. screenLines' = Lines' /\ screenCursor' = <<0, 0>>
  BY <1>1 DEF screenLines, screenCursor, Resting
<1>7. Screen!Clear
  BY <1>3, <1>6 DEF Screen!Clear, Screen!blank, Blank, Columns
<1>8. QED BY <1>5, <1>7 DEF Steps, Screen!Next
-----------------------------------------------------------------------------
(* The steps of term_print and term_scroll.                                *)
LEMMA PrintCharKeeps == ASSUME IInv, PrintChar PROVE IInv' /\ Steps
<1>1. /\ at = "print" /\ at' = IF a = Newline THEN "print.newline" ELSE "print.no_newline"
      /\ c' = a /\ a' = CURSOR_X /\ b' = CURSOR_Y
      /\ UNCHANGED <<data, CURSOR_X, CURSOR_Y, str, before>>
  BY DEF PrintChar, page
<1>2. before = <<Lines, <<CURSOR_X, CURSOR_Y>>>> /\ a \in Chars \cup {Newline}
  BY <1>1 DEF IInv, Started
<1>3. Memory'
  BY <1>1 DEF IInv, Memory, Labels, Printing
<1>4. Started' /\ Going'
  BY <1>1, <1>2, LinesKept DEF Started, Going
<1>5. UNCHANGED <<screenLines, screenCursor>>
  BY <1>1, InsideIsStutter DEF Printing
<1>6. QED BY <1>3, <1>4, <1>5 DEF IInv, Steps

LEMMA PrintNewlineKeeps == ASSUME IInv, PrintNewline PROVE IInv' /\ Steps
<1>1. /\ at = "print.newline" /\ at' = "print.inc_y"
      /\ UNCHANGED <<data, CURSOR_X, CURSOR_Y, a, b, c, str, before>>
  BY DEF PrintNewline
<1>2. before = <<Lines, <<a, b>>>> /\ before \in Pages \X (Columns \X Rows)
  BY <1>1 DEF IInv, Started, Memory, Printing
<1>3. b \in Rows /\ Due(before, Moved(Lines, 0, b + 1))
  BY <1>2 DEF Due, Ended
<1>4. Memory'
  BY <1>1 DEF IInv, Memory, Labels, Printing
<1>5. Started' /\ Going'
  BY <1>1, <1>3, LinesKept DEF Started, Going
<1>6. UNCHANGED <<screenLines, screenCursor>>
  BY <1>1, InsideIsStutter DEF Printing
<1>7. QED BY <1>4, <1>5, <1>6 DEF IInv, Steps

LEMMA PrintSetKeeps == ASSUME IInv, PrintSet PROVE IInv' /\ Steps
<1>1. /\ at = "print.no_newline" /\ at' = "print.draw"
      /\ data' = [data EXCEPT ![offset(a, b)] = c]
      /\ UNCHANGED <<CURSOR_X, CURSOR_Y, a, b, c, str, before>>
  BY DEF PrintSet
<1>2. /\ before = <<Lines, <<a, b>>>> /\ before \in Pages \X (Columns \X Rows)
      /\ c \in Chars /\ data \in [Cells -> Cell]
  BY <1>1 DEF IInv, Started, Memory, Printing
<1>3. a \in Columns /\ b \in Rows /\ c \in Cell
  BY <1>2 DEF Cell
<1>4. /\ data' \in [Cells -> Cell]
      /\ PageOf(data') = Edited(PageOf(data), a, b, c)
  <2>1. data \in [Cells -> Cell]
    BY <1>2
  <2>2. data' = Set(data, a, b, c)
    BY <1>1 DEF Set
  <2>3. QED BY <1>3, <2>1, <2>2, PageSet
<1>5. Lines' = Edited(Lines, a, b, c)
  BY <1>4, LinesArePage
<1>6. Put(before, c) = Edited(Lines, a, b, c)
  BY <1>2 DEF Put
<1>7. Memory'
  BY <1>1, <1>4 DEF IInv, Memory, Labels, Printing
<1>8. before' = before /\ c' = c /\ Lines' = Put(before', c') /\ before'[2] = <<a', b'>>
  BY <1>1, <1>2, <1>5, <1>6
<1>9. Started' /\ Going'
  BY <1>1, <1>2, <1>8 DEF Started, Going
<1>10. UNCHANGED <<screenLines, screenCursor>>
  BY <1>1, InsideIsStutter DEF Printing
<1>11. QED BY <1>7, <1>9, <1>10 DEF IInv, Steps

LEMMA PrintDrawKeeps == ASSUME IInv, PrintDraw PROVE IInv' /\ Steps
<1>1. /\ at = "print.draw" /\ a' = a + 1
      /\ at' = IF a + 1 # TERM_WIDTH THEN "print.cont" ELSE "print.inc_y"
      /\ UNCHANGED <<data, CURSOR_X, CURSOR_Y, b, c, str, before>>
  BY DEF PrintDraw
<1>2. /\ Lines = Put(before, c) /\ before[2] = <<a, b>> /\ c \in Chars
      /\ before \in Pages \X (Columns \X Rows)
  BY <1>1 DEF IInv, Started, Memory, Printing
<1>3. before[2] \in Columns \X Rows
  BY <1>2
<1>4. a \in Columns /\ b \in Rows
  BY <1>2, <1>3
<1>5. /\ a + 1 # TERM_WIDTH => a + 1 \in Columns /\ a + 1 < TERM_WIDTH
      /\ a + 1 = TERM_WIDTH => ~ (a + 1 < TERM_WIDTH)
      /\ b \in 0 .. TERM_HEIGHT
  BY <1>4, Sizes DEF Columns, Rows
<1>6. Printed(before, c) = IF a + 1 < TERM_WIDTH THEN Moved(Lines, a + 1, b)
                           ELSE Moved(Lines, 0, b + 1)
  BY <1>2 DEF Printed
<1>7. Due(before, Printed(before, c))
  BY <1>2 DEF Due
<1>8. Memory'
  BY <1>1 DEF IInv, Memory, Labels, Printing
<1>9. CASE a + 1 # TERM_WIDTH
  <2>1. at' = "print.cont" /\ Due(before', Moved(Lines', a', b'))
    BY <1>1, <1>5, <1>6, <1>7, <1>9, LinesKept
  <2>2. Started' /\ Going'
    BY <1>1, <1>5, <1>9, <2>1 DEF Started, Going
  <2>3. UNCHANGED <<screenLines, screenCursor>>
    BY <1>1, <2>1, InsideIsStutter DEF Printing
  <2>4. QED BY <1>8, <2>2, <2>3 DEF IInv, Steps
<1>10. CASE a + 1 = TERM_WIDTH
  <2>1. at' = "print.inc_y" /\ Due(before', Moved(Lines', 0, b' + 1))
    BY <1>1, <1>5, <1>6, <1>7, <1>10, LinesKept
  <2>2. Started' /\ Going'
    BY <1>1, <1>4, <2>1 DEF Started, Going
  <2>3. UNCHANGED <<screenLines, screenCursor>>
    BY <1>1, <2>1, InsideIsStutter DEF Printing
  <2>4. QED BY <1>8, <2>2, <2>3 DEF IInv, Steps
<1>11. QED BY <1>9, <1>10

LEMMA IncYKeeps == ASSUME IInv, IncY PROVE IInv' /\ Steps
<1>1. /\ at = "print.inc_y" /\ a' = 0 /\ b' = b + 1 /\ at' = "print.cont"
      /\ UNCHANGED <<data, CURSOR_X, CURSOR_Y, c, str, before>>
  BY DEF IncY, page
<1>2. b \in Rows /\ Due(before, Moved(Lines, 0, b + 1))
  BY <1>1 DEF IInv, Going
<1>3. 0 \in Columns /\ b + 1 \in 0 .. TERM_HEIGHT
  BY <1>2, Sizes DEF Columns, Rows
<1>4. Due(before', Moved(Lines', a', b'))
  BY <1>1, <1>2, LinesKept
<1>5. Memory'
  BY <1>1 DEF IInv, Memory, Labels, Printing
<1>6. Started' /\ Going'
  BY <1>1, <1>3, <1>4 DEF Started, Going
<1>7. UNCHANGED <<screenLines, screenCursor>>
  BY <1>1, InsideIsStutter DEF Printing
<1>8. QED BY <1>5, <1>6, <1>7 DEF IInv, Steps

LEMMA PrintContKeeps == ASSUME IInv, PrintCont PROVE IInv' /\ Steps
<1>1. /\ at = "print.cont"
      /\ at' = IF b # TERM_HEIGHT THEN "print.no_scroll" ELSE "scroll"
      /\ UNCHANGED <<data, CURSOR_X, CURSOR_Y, a, b, c, str, before>>
  BY DEF PrintCont, page
<1>2. /\ a \in Columns /\ b \in 0 .. TERM_HEIGHT
      /\ Due(before, Moved(Lines, a, b))
  BY <1>1 DEF IInv, Going
<1>3. /\ b # TERM_HEIGHT => b < TERM_HEIGHT /\ b \in Rows
      /\ b = TERM_HEIGHT => ~ (b < TERM_HEIGHT)
  BY <1>2, Sizes DEF Rows
<1>4. Memory'
  BY <1>1 DEF IInv, Memory, Labels, Printing
<1>5. CASE b # TERM_HEIGHT
  <2>1. Due(before', <<Lines', <<a', b'>>>>) /\ OnPage(a', b')
    BY <1>1, <1>2, <1>3, <1>5, LinesKept DEF Moved, OnPage
  <2>2. Started' /\ Going'
    BY <1>1, <1>5, <2>1 DEF Started, Going
  <2>3. UNCHANGED <<screenLines, screenCursor>>
    BY <1>1, InsideIsStutter DEF Printing
  <2>4. QED BY <1>4, <2>2, <2>3 DEF IInv, Steps
<1>6. CASE b = TERM_HEIGHT
  <2>1. Due(before', <<Append(Tail(Lines'), Blank), <<0, TERM_HEIGHT - 1>>>>)
    BY <1>1, <1>2, <1>3, <1>6, LinesKept DEF Moved
  <2>2. Started' /\ Going'
    BY <1>1, <1>6, <2>1 DEF Started, Going
  <2>3. UNCHANGED <<screenLines, screenCursor>>
    BY <1>1, InsideIsStutter DEF Printing
  <2>4. QED BY <1>4, <2>2, <2>3 DEF IInv, Steps
<1>7. QED BY <1>5, <1>6

LEMMA ScrollDataKeeps == ASSUME IInv, ScrollData PROVE IInv' /\ Steps
<1>1. /\ at = "scroll" /\ at' = "scroll.graphics"
      /\ data' = memset(memcpyDown(data, TERM_WIDTH, DATA_SIZE - TERM_WIDTH),
                        DATA_SIZE - TERM_WIDTH, TERM_WIDTH, Nul)
      /\ UNCHANGED <<CURSOR_X, CURSOR_Y, a, b, c, str, before>>
  BY DEF ScrollData
<1>2. /\ Due(before, <<Append(Tail(Lines), Blank), <<0, TERM_HEIGHT - 1>>>>)
      /\ data \in [Cells -> Cell]
  BY <1>1 DEF IInv, Going, Memory
<1>3. /\ data' \in [Cells -> Cell]
      /\ PageOf(data') = Append(Tail(PageOf(data)), Blank)
  BY <1>1, <1>2, PageScrolled
<1>4. Lines' = Append(Tail(Lines), Blank)
  BY <1>3, LinesArePage
<1>5. Due(before', <<Lines', <<0, TERM_HEIGHT - 1>>>>)
  BY <1>1, <1>2, <1>4
<1>6. Memory'
  BY <1>1, <1>3 DEF IInv, Memory, Labels, Printing
<1>7. Started' /\ Going'
  BY <1>1, <1>5 DEF Started, Going
<1>8. UNCHANGED <<screenLines, screenCursor>>
  BY <1>1, InsideIsStutter DEF Printing
<1>9. QED BY <1>6, <1>7, <1>8 DEF IInv, Steps

LEMMA ScrollGraphicsKeeps == ASSUME IInv, ScrollGraphics PROVE IInv' /\ Steps
<1>1. /\ at = "scroll.graphics" /\ at' = "print.no_scroll"
      /\ a' = 0 /\ b' = TERM_HEIGHT - 1
      /\ UNCHANGED <<data, CURSOR_X, CURSOR_Y, c, str, before>>
  BY DEF ScrollGraphics
<1>2. Due(before, <<Lines, <<0, TERM_HEIGHT - 1>>>>)
  BY <1>1 DEF IInv, Going
<1>3. OnPage(0, TERM_HEIGHT - 1)
  BY Sizes DEF OnPage, Columns, Rows
<1>4. Due(before', <<Lines', <<a', b'>>>>) /\ OnPage(a', b')
  BY <1>1, <1>2, <1>3, LinesKept
<1>5. Memory'
  BY <1>1 DEF IInv, Memory, Labels, Printing
<1>6. Started' /\ Going'
  BY <1>1, <1>4 DEF Started, Going
<1>7. UNCHANGED <<screenLines, screenCursor>>
  BY <1>1, InsideIsStutter DEF Printing
<1>8. QED BY <1>5, <1>6, <1>7 DEF IInv, Steps

LEMMA StoreCursorKeeps == ASSUME IInv, StoreCursor PROVE IInv' /\ Steps
<1>1. /\ at = "print.no_scroll" /\ at' = "print.cursor"
      /\ CURSOR_X' = a /\ CURSOR_Y' = b
      /\ UNCHANGED <<data, a, b, c, str, before>>
  BY DEF StoreCursor
<1>2. OnPage(a, b) /\ Due(before, <<Lines, <<a, b>>>>)
  BY <1>1 DEF IInv, Going
<1>3. Due(before', <<Lines', <<CURSOR_X', CURSOR_Y'>>>>) /\ OnPage(CURSOR_X', CURSOR_Y')
  BY <1>1, <1>2, LinesKept
<1>4. Memory'
  BY <1>1, <1>3 DEF IInv, Memory, Labels, Printing
<1>5. Started' /\ Going'
  BY <1>1, <1>3 DEF Started, Going
<1>6. UNCHANGED <<screenLines, screenCursor>>
  BY <1>1, InsideIsStutter DEF Printing
<1>7. QED BY <1>4, <1>5, <1>6 DEF IInv, Steps

(* With the cursor drawn the character is done, and the screen has made    *)
(* the step that was due since the character came.                         *)
LEMMA DrawCursorKeeps == ASSUME IInv, DrawCursor PROVE IInv' /\ Steps
<1>1. /\ at = "print.cursor" /\ at' = "print_str.loop"
      /\ UNCHANGED <<data, CURSOR_X, CURSOR_Y, a, b, c, str, before>>
  BY DEF DrawCursor
<1>2. /\ Due(before, <<Lines, <<CURSOR_X, CURSOR_Y>>>>)
      /\ before \in Pages \X (Columns \X Rows)
  BY <1>1 DEF IInv, Going, Memory, Printing
<1>3. screenLines = before[1] /\ screenCursor = before[2]
  BY <1>1 DEF screenLines, screenCursor, Resting
<1>4. screenLines' = Lines' /\ screenCursor' = <<CURSOR_X', CURSOR_Y'>>
  BY <1>1 DEF screenLines, screenCursor, Resting
<1>5. <<screenLines, screenCursor>> = before
  BY <1>2, <1>3
<1>6. <<screenLines', screenCursor'>> = <<Lines, <<CURSOR_X, CURSOR_Y>>>>
  BY <1>1, <1>4, LinesKept
<1>7. Due(<<screenLines, screenCursor>>, <<screenLines', screenCursor'>>)
  BY <1>2, <1>5, <1>6
<1>8. IInv'
  BY <1>1 DEF IInv, Memory, Started, Going, Labels, Printing
<1>9. QED BY <1>7, <1>8, DueIsStep DEF Steps

LEMMA NextKeeps == ASSUME IInv, [Next]_vars PROVE IInv' /\ Steps
<1>1. CASE UNCHANGED vars
  <2>1. UNCHANGED <<data, CURSOR_X, CURSOR_Y, at, a, b, c, str, before>>
    BY <1>1 DEF vars
  <2>2. Lines' = Lines
    BY <2>1, LinesKept
  <2>3. Memory' /\ Started' /\ Going'
    BY <2>1, <2>2 DEF IInv, Memory, Started, Going
  <2>4. UNCHANGED <<screenLines, screenCursor>>
    BY <2>1, <2>2 DEF screenLines, screenCursor, Resting
  <2>5. QED BY <2>3, <2>4 DEF IInv, Steps
<1>2. CASE Print1
  BY <1>2, PrintCharKeeps, PrintNewlineKeeps, PrintSetKeeps, PrintDrawKeeps,
     IncYKeeps, PrintContKeeps, ScrollDataKeeps, ScrollGraphicsKeeps,
     StoreCursorKeeps, DrawCursorKeeps DEF Print1
<1>3. QED BY <1>1, <1>2, CallKeeps, NextCharKeeps, ClearKeeps DEF Next

LEMMA Inductive == Spec => []IInv
<1>1. Init => IInv
  BY InitKeeps
<1>2. IInv /\ [Next]_vars => IInv'
  BY NextKeeps
<1>3. QED BY <1>1, <1>2, PTL DEF Spec
-----------------------------------------------------------------------------
(* The terminal implements the screen of TextScreen, for every size of the *)
(* page: what term_print, term_scroll and term_clear do to the page in     *)
(* memory is what a character, a scroll and a clear do to its lines.       *)
THEOREM TerminalIsTextScreen == Spec => ImplementsTextScreen
<1>1. Init => Screen!Start
  BY InitKeeps
<1>2. IInv /\ [Next]_vars => [Screen!Next]_<<screenLines, screenCursor>>
  BY NextKeeps DEF Steps
<1>3. QED BY <1>1, <1>2, Inductive, PTL DEF Spec, ImplementsTextScreen, Screen!Spec

(* The cursor never leaves the page, and term_set and term_draw_char are   *)
(* called with places of the page only: none of them checks.               *)
THEOREM CursorStaysOnPage == Spec => []CursorOnPage
<1>1. IInv => CursorOnPage
  <2> SUFFICES ASSUME IInv PROVE CursorOnPage
    OBVIOUS
  <2>1. at # "off" => CURSOR_X \in Columns /\ CURSOR_Y \in Rows
    BY DEF IInv, Memory, OnPage
  <2>2. ASSUME at \in {"print.no_newline", "print.draw"}
        PROVE  a \in Columns /\ b \in Rows
    <3>1. before \in Pages \X (Columns \X Rows) /\ before[2] = <<a, b>>
      BY <2>2 DEF IInv, Memory, Started, Printing
    <3>2. before[2] \in Columns \X Rows
      BY <3>1
    <3>3. QED BY <3>1, <3>2
  <2>3. QED BY <2>1, <2>2 DEF CursorOnPage, Columns, Rows
<1>2. QED BY <1>1, Inductive, PTL
-----------------------------------------------------------------------------
(* The picture. Byte i of the bank lies in row KOf(i) of the cell in       *)
(* column XOf(i) of line YOf(i); the last row of a cell shows nothing, and *)
(* neither do the margins, whose columns are not of the page.              *)
Bank == 0 .. SCREEN_SIZE_BYTES - 1
XOf(i) == (i % SCANLINE_WIDTH_BYTES) - SCANLINE_OFFSET_BYTES - 1
YOf(i) == (i \div SCANLINE_WIDTH_BYTES) \div GlyphRows
KOf(i) == (i \div SCANLINE_WIDTH_BYTES) % GlyphRows
InCell(i, x, y) == XOf(i) = x /\ YOf(i) = y /\ KOf(i) # GlyphRows - 1
Image(d, x, y, k) ==
  IF x \notin Columns \/ k = GlyphRows - 1 \/ d[offset(x, y)] = Nul THEN Nul
  ELSE font[d[offset(x, y)]][k]
ImageAt(d, i) == Image(d, XOf(i), YOf(i), KOf(i))

(* The picture of page d in bank v, without a cursor, with one at x and y, *)
(* outside the cell at x and y, and one line too low.                      *)
Bare(v, d) == \A i \in Bank : v[i] = ImageAt(d, i)
Marked(v, d, x, y) ==
  \A i \in Bank : v[i] = IF InCell(i, x, y) THEN Solid ELSE ImageAt(d, i)
Around(v, d, x, y) == \A i \in Bank : ~InCell(i, x, y) => v[i] = ImageAt(d, i)
Low(v, d) ==
  \A i \in Bank : i < SCREEN_SIZE_BYTES - RowBytes => v[i + RowBytes] = ImageAt(d, i)

(* Nothing is on the page from a place on: what the cursor covers and what *)
(* a newline skips is empty.                                               *)
Free(d, n) == \A i \in Cells : i >= n => d[i] = Nul

Touching == {"print.newline", "print.no_newline"}
Untouched == {"program", "print_str.loop", "print"} \cup Touching
Picture ==
  /\ DOMAIN vram = Bank
  /\ at \in Untouched =>
       /\ Free(data, offset(CURSOR_X, CURSOR_Y))
       /\ \/ Marked(vram, data, CURSOR_X, CURSOR_Y)
          \/ CURSOR_X = 0 /\ CURSOR_Y = 0 /\ Free(data, 0) /\ Bare(vram, data)
  /\ at \in Touching \cup {"print.draw"} => a = CURSOR_X /\ b = CURSOR_Y
  /\ at = "print.draw" => /\ Free(data, offset(a, b) + 1) /\ data[offset(a, b)] = c
                          /\ Around(vram, data, a, b)
  /\ at = "print.inc_y" => Free(data, offset(0, b + 1)) /\ Bare(vram, data)
  /\ at \in {"print.cont", "print.no_scroll"} =>
       Free(data, offset(a, b)) /\ Bare(vram, data)
  /\ at = "scroll" => Bare(vram, data)
  /\ at = "scroll.graphics" => /\ Free(data, offset(0, TERM_HEIGHT - 1))
                               /\ Low(vram, data)
  /\ at = "print.cursor" => /\ Free(data, offset(CURSOR_X, CURSOR_Y))
                            /\ Bare(vram, data)

LEMMA Dims ==
  /\ SCANLINE_WIDTH_BYTES \in Nat /\ SCANLINE_WIDTH_BYTES > 0
  /\ GlyphRows \in Nat /\ GlyphRows > 0 /\ SCANLINE_OFFSET_BYTES \in Nat
  /\ SCANLINE_WIDTH_BYTES > SCANLINE_OFFSET_BYTES + TERM_WIDTH
  /\ RowBytes \in Nat /\ SCREEN_SIZE_BYTES \in Nat
<1>1. /\ SCANLINE_WIDTH_BYTES \in Nat /\ SCANLINE_WIDTH_BYTES > 0
      /\ GlyphRows \in Nat /\ GlyphRows > 0 /\ SCANLINE_OFFSET_BYTES \in Nat
      /\ SCANLINE_WIDTH_BYTES > SCANLINE_OFFSET_BYTES + TERM_WIDTH
  BY TerminalAssumption
<1>2. RowBytes \in Nat
  BY <1>1 DEF RowBytes
<1>3. QED BY <1>1, <1>2, Sizes DEF SCREEN_SIZE_BYTES

LEMMA DivMod ==
  ASSUME NEW n \in Nat, NEW m \in Nat, m > 0
  PROVE  /\ n \div m \in Nat /\ n % m \in Nat /\ n % m < m
         /\ n = m * (n \div m) + (n % m)
OBVIOUS

LEMMA DivModUnique ==
  ASSUME NEW m \in Nat, m > 0, NEW q \in Nat, NEW r \in Nat, r < m,
         NEW n \in Nat, n = m * q + r
  PROVE  n \div m = q /\ n % m = r
<1>1. n % m = r
  OBVIOUS
<1>2. n \div m \in Nat /\ n = m * (n \div m) + r
  BY <1>1, DivMod
<1> DEFINE p == n \div m
<1> HIDE DEF p
<1>3. p \in Nat /\ m * p = m * q
  BY <1>2 DEF p
<1>4. p = q
  <2>1. p < q => m * (p + 1) <= m * q
    BY <1>3
  <2>2. q < p => m * (q + 1) <= m * p
    BY <1>3
  <2>3. m * (p + 1) = m * p + m /\ m * (q + 1) = m * q + m
    BY <1>3
  <2>4. m * p \in Nat /\ m * q \in Nat
    BY <1>3
  <2>5. QED BY <1>3, <2>1, <2>2, <2>3, <2>4
<1>5. QED BY <1>1, <1>4 DEF p

(* A byte of the bank and its line, row and column.                        *)
Byte(y, k, col) == SCANLINE_WIDTH_BYTES * (GlyphRows * y + k) + col

LEMMA PlaceIs ==
  ASSUME NEW i \in Nat, NEW y \in Nat, NEW k \in 0 .. GlyphRows - 1,
         NEW col \in 0 .. SCANLINE_WIDTH_BYTES - 1, i = Byte(y, k, col)
  PROVE  YOf(i) = y /\ KOf(i) = k /\ i % SCANLINE_WIDTH_BYTES = col
<1> DEFINE row == GlyphRows * y + k
<1>1. /\ k \in Nat /\ k < GlyphRows /\ col \in Nat /\ col < SCANLINE_WIDTH_BYTES
      /\ row \in Nat
  BY Dims
<1>2. i = SCANLINE_WIDTH_BYTES * row + col
  BY DEF Byte
<1>3. row = GlyphRows * y + k
  OBVIOUS
<1> HIDE DEF row
<1>4. i \div SCANLINE_WIDTH_BYTES = row /\ i % SCANLINE_WIDTH_BYTES = col
  BY <1>1, <1>2, Dims, DivModUnique
<1>5. row \div GlyphRows = y /\ row % GlyphRows = k
  BY <1>1, <1>3, Dims, DivModUnique
<1>6. QED BY <1>4, <1>5 DEF YOf, KOf

LEMMA PlaceOf ==
  ASSUME NEW i \in Bank
  PROVE  /\ i \in Nat /\ YOf(i) \in Rows /\ KOf(i) \in 0 .. GlyphRows - 1
         /\ i % SCANLINE_WIDTH_BYTES \in 0 .. SCANLINE_WIDTH_BYTES - 1
         /\ i = Byte(YOf(i), KOf(i), i % SCANLINE_WIDTH_BYTES)
<1> DEFINE row == i \div SCANLINE_WIDTH_BYTES
           col == i % SCANLINE_WIDTH_BYTES
           y == row \div GlyphRows
           k == row % GlyphRows
<1>1. i \in Nat /\ i < SCREEN_SIZE_BYTES
  BY Dims DEF Bank
<1>2. /\ row \in Nat /\ col \in Nat /\ col < SCANLINE_WIDTH_BYTES
      /\ i = SCANLINE_WIDTH_BYTES * row + col
  BY <1>1, Dims, DivMod
<1> HIDE DEF row, col
<1>3. /\ y \in Nat /\ k \in Nat /\ k < GlyphRows /\ row = GlyphRows * y + k
  BY <1>2, Dims, DivMod
<1>4. YOf(i) = y /\ KOf(i) = k
  BY DEF YOf, KOf, row
<1> HIDE DEF y, k
<1>5. y < TERM_HEIGHT
  <2>1. SUFFICES ASSUME y >= TERM_HEIGHT PROVE FALSE
    BY <1>3, Sizes
  <2>2. TERM_HEIGHT * GlyphRows <= y * GlyphRows
    BY <1>3, <2>1, Sizes, Dims, TimesGrows
  <2>3. GlyphRows * TERM_HEIGHT <= row
    <3> DEFINE g == GlyphRows * y
               h == GlyphRows * TERM_HEIGHT
    <3>1. g \in Nat /\ h \in Nat
      BY <1>3, Sizes, Dims
    <3>2. y * GlyphRows = g /\ TERM_HEIGHT * GlyphRows = h
      BY <1>3, Sizes, Dims
    <3>3. h <= g /\ row = g + k
      BY <1>3, <2>2, <3>2
    <3> HIDE DEF g, h
    <3>4. h <= row
      BY <1>2, <1>3, <3>1, <3>3
    <3>5. QED BY <3>4 DEF h
  <2>4. GlyphRows * TERM_HEIGHT \in Nat
    BY Sizes, Dims
  <2>5. (GlyphRows * TERM_HEIGHT) * SCANLINE_WIDTH_BYTES <= row * SCANLINE_WIDTH_BYTES
    BY <1>2, <2>3, <2>4, Dims, TimesGrows
  <2>6. (GlyphRows * TERM_HEIGHT) * SCANLINE_WIDTH_BYTES = SCREEN_SIZE_BYTES
    BY Sizes, Dims DEF SCREEN_SIZE_BYTES, RowBytes
  <2>7. row * SCANLINE_WIDTH_BYTES = SCANLINE_WIDTH_BYTES * row
        /\ SCANLINE_WIDTH_BYTES * row \in Nat
    BY <1>2, Dims
  <2>8. QED BY <1>1, <1>2, <2>5, <2>6, <2>7, Dims
<1>6. y \in Rows /\ k \in 0 .. GlyphRows - 1 /\ col \in 0 .. SCANLINE_WIDTH_BYTES - 1
  BY <1>2, <1>3, <1>5, Sizes, Dims DEF Rows
<1>7. i = Byte(y, k, col)
  BY <1>2, <1>3 DEF Byte
<1>8. QED BY <1>1, <1>4, <1>6, <1>7 DEF col
-----------------------------------------------------------------------------
(* What the routines draw, byte by byte.                                   *)
Corner(x, y) == Byte(y, 0, x + 1 + SCANLINE_OFFSET_BYTES)

LEMMA InBlock ==
  ASSUME NEW x \in Columns, NEW y \in Rows, NEW i \in Bank
  PROVE  /\ (\E k \in 0 .. GlyphRows - 2 : i = Corner(x, y) + k * SCANLINE_WIDTH_BYTES)
              <=> InCell(i, x, y)
         /\ InCell(i, x, y) =>
              (i - Corner(x, y)) \div SCANLINE_WIDTH_BYTES = KOf(i)
<1> DEFINE col == x + 1 + SCANLINE_OFFSET_BYTES
<1>1. /\ x \in Nat /\ y \in Nat
      /\ col \in 0 .. SCANLINE_WIDTH_BYTES - 1 /\ col - SCANLINE_OFFSET_BYTES - 1 = x
  BY Sizes, Dims DEF Columns, Rows
<1>2. i \in Nat
  BY PlaceOf
<1>3. \A k \in 0 .. GlyphRows - 1 :
        Byte(y, k, col) = Corner(x, y) + k * SCANLINE_WIDTH_BYTES
  <2>1. SUFFICES ASSUME NEW k \in 0 .. GlyphRows - 1
                 PROVE  Byte(y, k, col) = Corner(x, y) + k * SCANLINE_WIDTH_BYTES
    OBVIOUS
  <2> DEFINE p == GlyphRows * y
  <2>2. p \in Nat /\ k \in Nat
    BY <1>1, Dims
  <2> HIDE DEF p
  <2>3. /\ SCANLINE_WIDTH_BYTES * (p + k) = SCANLINE_WIDTH_BYTES * p + k * SCANLINE_WIDTH_BYTES
        /\ SCANLINE_WIDTH_BYTES * (p + 0) = SCANLINE_WIDTH_BYTES * p
        /\ SCANLINE_WIDTH_BYTES * p \in Nat /\ k * SCANLINE_WIDTH_BYTES \in Nat
    BY <2>2, Dims
  <2>4. col \in Nat
    BY <1>1, Dims
  <2>5. /\ Byte(y, k, col) = SCANLINE_WIDTH_BYTES * (p + k) + col
        /\ Corner(x, y) = SCANLINE_WIDTH_BYTES * (p + 0) + col
    BY DEF Byte, Corner, p
  <2> HIDE DEF col
  <2>6. QED BY <2>3, <2>4, <2>5
<1>4. ASSUME NEW k \in 0 .. GlyphRows - 2, i = Corner(x, y) + k * SCANLINE_WIDTH_BYTES
      PROVE  InCell(i, x, y)
  <2>1. k \in 0 .. GlyphRows - 1 /\ k # GlyphRows - 1
    BY Dims
  <2>2. i = Byte(y, k, col)
    BY <1>3, <1>4, <2>1
  <2> HIDE DEF col
  <2>3. YOf(i) = y /\ KOf(i) = k /\ i % SCANLINE_WIDTH_BYTES = col
    BY <1>1, <1>2, <2>1, <2>2, PlaceIs
  <2>4. QED BY <1>1, <2>1, <2>3 DEF InCell, XOf
<1>5. ASSUME InCell(i, x, y)
      PROVE  /\ \E k \in 0 .. GlyphRows - 2 : i = Corner(x, y) + k * SCANLINE_WIDTH_BYTES
             /\ (i - Corner(x, y)) \div SCANLINE_WIDTH_BYTES = KOf(i)
  <2>1. /\ KOf(i) \in 0 .. GlyphRows - 1 /\ KOf(i) # GlyphRows - 1 /\ YOf(i) = y
        /\ i = Byte(y, KOf(i), i % SCANLINE_WIDTH_BYTES)
        /\ i % SCANLINE_WIDTH_BYTES \in 0 .. SCANLINE_WIDTH_BYTES - 1
    BY <1>5, PlaceOf DEF InCell
  <2>2. i % SCANLINE_WIDTH_BYTES = col
    <3> DEFINE rest == i % SCANLINE_WIDTH_BYTES
    <3>1. rest \in Int /\ rest - SCANLINE_OFFSET_BYTES - 1 = x
      BY <1>5, <2>1, Dims DEF InCell, XOf
    <3> HIDE DEF rest
    <3>2. rest = col
      BY <1>1, <3>1, Dims
    <3>3. QED BY <3>2 DEF rest
  <2>3. i = Corner(x, y) + KOf(i) * SCANLINE_WIDTH_BYTES
    BY <1>3, <2>1, <2>2
  <2>4. KOf(i) \in 0 .. GlyphRows - 2 /\ KOf(i) \in Nat
    BY <2>1, Dims
  <2>5. Corner(x, y) \in Int
    BY <1>1, Dims DEF Corner, Byte
  <2> DEFINE k == KOf(i)
             rest == i - Corner(x, y)
  <2>6. k \in Nat /\ rest = SCANLINE_WIDTH_BYTES * k + 0 /\ rest \in Nat
    <3>1. k \in Nat
      BY <2>4
    <3>2. /\ k * SCANLINE_WIDTH_BYTES = SCANLINE_WIDTH_BYTES * k
          /\ SCANLINE_WIDTH_BYTES * k \in Nat
      BY <3>1, Dims
    <3>3. i = Corner(x, y) + k * SCANLINE_WIDTH_BYTES
      BY <2>3
    <3> HIDE DEF k
    <3>4. QED BY <2>5, <3>1, <3>2, <3>3
  <2> HIDE DEF k, rest
  <2>7. rest \div SCANLINE_WIDTH_BYTES = k
    BY <2>6, Dims, DivModUnique
  <2>8. QED BY <2>3, <2>4, <2>7 DEF k, rest
<1>6. QED BY <1>4, <1>5

LEMMA BlockIs ==
  ASSUME NEW x \in Columns, NEW y \in Rows, NEW bytes, DOMAIN vram = Bank
  PROVE  /\ DOMAIN block(Corner(x, y), bytes) = Bank
         /\ \A i \in Bank : block(Corner(x, y), bytes)[i] =
              IF InCell(i, x, y) THEN bytes[KOf(i)] ELSE vram[i]
<1>1. DOMAIN block(Corner(x, y), bytes) = Bank
  BY DEF block
<1>2. ASSUME NEW i \in Bank
      PROVE  block(Corner(x, y), bytes)[i] =
               IF InCell(i, x, y) THEN bytes[KOf(i)] ELSE vram[i]
  <2> DEFINE to == Corner(x, y)
  <2>1. /\ (\E k \in 0 .. GlyphRows - 2 : i = to + k * SCANLINE_WIDTH_BYTES)
             <=> InCell(i, x, y)
        /\ InCell(i, x, y) => (i - to) \div SCANLINE_WIDTH_BYTES = KOf(i)
    BY InBlock
  <2> HIDE DEF to
  <2>2. block(to, bytes)[i] =
          IF \E k \in 0 .. GlyphRows - 2 : i = to + k * SCANLINE_WIDTH_BYTES
          THEN bytes[(i - to) \div SCANLINE_WIDTH_BYTES] ELSE vram[i]
    BY DEF block
  <2>3. block(to, bytes)[i] = IF InCell(i, x, y) THEN bytes[KOf(i)] ELSE vram[i]
    BY <2>1, <2>2
  <2>4. QED BY <2>3 DEF to
<1>3. QED BY <1>1, <1>2

(* The two routines draw at the corner of the cell they are given.         *)
LEMMA CornerIs ==
  ASSUME NEW x \in Columns, NEW y \in Rows
  PROVE  /\ y * RowBytes + x + SCANLINE_OFFSET_BYTES + 1 = Corner(x, y)
         /\ (y * GlyphRows) * SCANLINE_WIDTH_BYTES + (x + 1) + SCANLINE_OFFSET_BYTES
              = Corner(x, y)
<1> DEFINE p == SCANLINE_WIDTH_BYTES * (GlyphRows * y)
<1>1. x \in Nat /\ y \in Nat /\ SCANLINE_OFFSET_BYTES \in Nat
  BY Sizes, Dims DEF Columns, Rows
<1>2. /\ p \in Nat
      /\ y * (SCANLINE_WIDTH_BYTES * GlyphRows) = p
      /\ (y * GlyphRows) * SCANLINE_WIDTH_BYTES = p
      /\ SCANLINE_WIDTH_BYTES * (GlyphRows * y + 0) = p
  BY <1>1, Dims
<1>3. Corner(x, y) = p + (x + 1 + SCANLINE_OFFSET_BYTES) /\ y * RowBytes = p
  BY <1>2 DEF Corner, Byte, RowBytes
<1> HIDE DEF p
<1>4. QED BY <1>1, <1>2, <1>3

LEMMA CursorSet ==
  ASSUME NEW byte, OnPage(CURSOR_X, CURSOR_Y), DOMAIN vram = Bank,
         vram' = term_set_cursor(byte)
  PROVE  /\ DOMAIN vram' = Bank
         /\ \A i \in Bank : vram'[i] =
              IF InCell(i, CURSOR_X, CURSOR_Y) THEN byte ELSE vram[i]
<1> DEFINE bytes == [k \in 0 .. GlyphRows - 1 |-> byte]
<1>1. CURSOR_X \in Columns /\ CURSOR_Y \in Rows
  BY DEF OnPage
<1>2. vram' = block(Corner(CURSOR_X, CURSOR_Y), bytes)
  BY <1>1, CornerIs DEF term_set_cursor
<1>3. \A i \in Bank : bytes[KOf(i)] = byte
  BY PlaceOf
<1> HIDE DEF bytes
<1>4. QED BY <1>1, <1>2, <1>3, BlockIs

LEMMA CharDrawn ==
  ASSUME NEW x \in Columns, NEW y \in Rows, DOMAIN vram = Bank,
         vram' = term_draw_char(x, y)
  PROVE  /\ DOMAIN vram' = Bank
         /\ \A i \in Bank : vram'[i] =
              IF InCell(i, x, y) THEN font[data[offset(x, y)]][KOf(i)] ELSE vram[i]
<1>1. vram' = block(Corner(x, y), font[data[offset(x, y)]])
  BY CornerIs DEF term_draw_char, draw_char
<1>2. QED BY <1>1, BlockIs

LEMMA ImageInCell ==
  ASSUME NEW d, NEW x \in Columns, NEW y \in Rows, NEW i \in Bank, InCell(i, x, y)
  PROVE  ImageAt(d, i) = IF d[offset(x, y)] = Nul THEN Nul
                         ELSE font[d[offset(x, y)]][KOf(i)]
BY DEF ImageAt, Image, InCell

(* A change of one cell of the page is none of the picture of the others.  *)
LEMMA ImageElsewhere ==
  ASSUME NEW d \in [Cells -> Cell], NEW x \in Columns, NEW y \in Rows, NEW ch,
         NEW e, e = Set(d, x, y, ch), NEW i \in Bank, ~InCell(i, x, y)
  PROVE  ImageAt(e, i) = ImageAt(d, i)
<1>1. CASE XOf(i) \notin Columns \/ KOf(i) = GlyphRows - 1
  BY <1>1 DEF ImageAt, Image
<1>2. CASE XOf(i) \in Columns /\ KOf(i) # GlyphRows - 1
  <2>1. YOf(i) \in Rows
    BY PlaceOf
  <2>2. offset(XOf(i), YOf(i)) \in Cells
    BY <1>2, <2>1, OffsetOnPage
  <2>3. offset(XOf(i), YOf(i)) # offset(x, y)
    <3>1. ~ (XOf(i) = x /\ YOf(i) = y)
      BY <1>2 DEF InCell
    <3>2. QED BY <1>2, <2>1, <3>1, OffsetInjective
  <2>4. e[offset(XOf(i), YOf(i))] = d[offset(XOf(i), YOf(i))]
    BY <2>2, <2>3 DEF Set
  <2>5. QED BY <2>4 DEF ImageAt, Image
<1>3. QED BY <1>1, <1>2

(* A byte and the one a row of text below it.                              *)
LEMMA RowBelow ==
  ASSUME NEW i \in Bank
  PROVE  /\ i < SCREEN_SIZE_BYTES - RowBytes =>
              /\ i + RowBytes \in Bank /\ YOf(i) < TERM_HEIGHT - 1
              /\ YOf(i + RowBytes) = YOf(i) + 1 /\ KOf(i + RowBytes) = KOf(i)
              /\ XOf(i + RowBytes) = XOf(i)
         /\ ~ (i < SCREEN_SIZE_BYTES - RowBytes) => YOf(i) = TERM_HEIGHT - 1
<1> DEFINE y == YOf(i)
           k == KOf(i)
           col == i % SCANLINE_WIDTH_BYTES
           p == GlyphRows * y
           q == SCANLINE_WIDTH_BYTES * (p + k)
<1>1. /\ i \in Nat /\ y \in Rows /\ k \in 0 .. GlyphRows - 1
      /\ col \in 0 .. SCANLINE_WIDTH_BYTES - 1 /\ i = Byte(y, k, col)
  BY PlaceOf
<1> HIDE DEF y, k, col
<1>2. /\ y \in Nat /\ y < TERM_HEIGHT /\ k \in Nat /\ k + 1 <= GlyphRows
      /\ col \in Nat /\ col < SCANLINE_WIDTH_BYTES /\ RowBytes \in Nat
      /\ SCREEN_SIZE_BYTES \in Nat
  BY <1>1, Sizes, Dims DEF Rows
<1>3. p \in Nat /\ GlyphRows * (y + 1) = p + GlyphRows
  BY <1>2, Dims
<1> HIDE DEF p
<1>4. /\ q \in Nat
      /\ SCANLINE_WIDTH_BYTES * ((p + GlyphRows) + k) = q + SCANLINE_WIDTH_BYTES * GlyphRows
      /\ SCANLINE_WIDTH_BYTES * ((p + k) + 1) = q + SCANLINE_WIDTH_BYTES
  BY <1>2, <1>3, Dims
<1>5. i = q + col
  BY <1>1 DEF Byte, p
<1> HIDE DEF q
<1>6. Byte(y + 1, k, col) = i + RowBytes
  <2>1. Byte(y + 1, k, col) = SCANLINE_WIDTH_BYTES * (p + GlyphRows + k) + col
    BY <1>3 DEF Byte
  <2>2. Byte(y + 1, k, col) = (q + RowBytes) + col
    BY <1>4, <2>1 DEF RowBytes
  <2>3. QED BY <1>2, <1>4, <1>5, <2>2
<1>7. ASSUME i < SCREEN_SIZE_BYTES - RowBytes
      PROVE  /\ i + RowBytes \in Bank /\ y < TERM_HEIGHT - 1
             /\ YOf(i + RowBytes) = y + 1 /\ KOf(i + RowBytes) = k
             /\ XOf(i + RowBytes) = XOf(i)
  <2>1. i + RowBytes \in Bank /\ i + RowBytes \in Nat /\ y + 1 \in Nat
    BY <1>1, <1>2, <1>7 DEF Bank
  <2>2. /\ YOf(i + RowBytes) = y + 1 /\ KOf(i + RowBytes) = k
        /\ (i + RowBytes) % SCANLINE_WIDTH_BYTES = col
    BY <1>1, <1>6, <2>1, PlaceIs
  <2>3. y + 1 \in Rows
    BY <2>1, <2>2, PlaceOf
  <2>4. y < TERM_HEIGHT - 1
    BY <1>2, <2>3, Sizes DEF Rows
  <2>5. QED BY <2>1, <2>2, <2>4 DEF XOf, col
<1>8. ASSUME ~ (i < SCREEN_SIZE_BYTES - RowBytes) PROVE y = TERM_HEIGHT - 1
  <2>1. SUFFICES ASSUME y + 1 <= TERM_HEIGHT - 1 PROVE FALSE
    BY <1>2, Sizes
  <2> DEFINE r == (y + 1) * RowBytes
             s == TERM_HEIGHT * RowBytes
  <2>2. /\ r <= (TERM_HEIGHT - 1) * RowBytes /\ r \in Nat /\ s \in Nat
        /\ (TERM_HEIGHT - 1) * RowBytes = s - RowBytes
        /\ s = SCREEN_SIZE_BYTES
    <3>1. TERM_HEIGHT - 1 \in Nat /\ y + 1 \in Nat
      BY <1>2, Sizes
    <3>2. r <= (TERM_HEIGHT - 1) * RowBytes
      BY <1>2, <2>1, <3>1, TimesGrows
    <3>3. r \in Nat /\ s \in Nat
      BY <1>2, Sizes
    <3>4. (TERM_HEIGHT - 1) * RowBytes = s - RowBytes
      BY <1>2, Sizes
    <3>5. s = SCREEN_SIZE_BYTES
      BY <1>2, Sizes DEF SCREEN_SIZE_BYTES
    <3>6. QED BY <3>2, <3>3, <3>4, <3>5
  <2>3. i < r
    <3>1. (p + k + 1) * SCANLINE_WIDTH_BYTES <= (p + GlyphRows) * SCANLINE_WIDTH_BYTES
      BY <1>2, <1>3, Dims, TimesGrows
    <3>2. (p + GlyphRows) * SCANLINE_WIDTH_BYTES = r
      <4>1. r = (y + 1) * (SCANLINE_WIDTH_BYTES * GlyphRows)
        BY DEF RowBytes
      <4>2. (y + 1) * (SCANLINE_WIDTH_BYTES * GlyphRows)
              = (GlyphRows * (y + 1)) * SCANLINE_WIDTH_BYTES
        BY <1>2, Dims
      <4>3. QED BY <1>3, <4>1, <4>2
    <3>3. (p + k + 1) * SCANLINE_WIDTH_BYTES = q + SCANLINE_WIDTH_BYTES
      BY <1>2, <1>3, <1>4, Dims
    <3> HIDE DEF r
    <3>4. q + SCANLINE_WIDTH_BYTES <= r
      BY <3>1, <3>2, <3>3
    <3>5. QED BY <1>2, <1>4, <1>5, <2>2, <3>4, Dims
  <2> HIDE DEF r, s
  <2>4. QED BY <1>1, <1>2, <1>8, <2>2, <2>3
<1>9. QED BY <1>7, <1>8 DEF y, k
-----------------------------------------------------------------------------
(* The picture under each step.                                            *)
LEMMA WhereItIs ==
  ASSUME IInv, at # "off"
  PROVE  /\ data \in [Cells -> Cell] /\ OnPage(CURSOR_X, CURSOR_Y)
         /\ at = "print.inc_y" => b \in Rows
         /\ at = "print.cont" => a \in Columns /\ b \in 0 .. TERM_HEIGHT
         /\ at = "print.draw" => a \in Columns /\ b \in Rows
BY DEF IInv, Memory, Started, Going, Printing

LEMMA AroundCursor ==
  ASSUME Picture, at \in Untouched, OnPage(CURSOR_X, CURSOR_Y)
  PROVE  /\ Around(vram, data, CURSOR_X, CURSOR_Y)
         /\ Free(data, offset(CURSOR_X, CURSOR_Y))
         /\ data[offset(CURSOR_X, CURSOR_Y)] = Nul
<1>1. Around(vram, data, CURSOR_X, CURSOR_Y) /\ Free(data, offset(CURSOR_X, CURSOR_Y))
  BY DEF Picture, Marked, Bare, Around
<1>2. offset(CURSOR_X, CURSOR_Y) \in Cells
  BY OffsetOnPage DEF OnPage
<1>3. data[offset(CURSOR_X, CURSOR_Y)] = Nul
  BY <1>1, <1>2, Sizes DEF Free, Cells
<1>4. QED BY <1>1, <1>3

LEMMA FreeFrom ==
  ASSUME NEW d, NEW m \in Int, NEW n \in Int, m <= n, Free(d, m)
  PROVE  Free(d, n)
BY Sizes DEF Free, Cells

LEMMA Offsets ==
  ASSUME NEW x \in Columns, NEW y \in Rows
  PROVE  /\ offset(x, y) \in Nat /\ offset(0, y + 1) \in Nat
         /\ offset(x, y) <= offset(0, y + 1)
         /\ offset(x + 1, y) = offset(x, y) + 1
         /\ x + 1 = TERM_WIDTH => offset(0, y + 1) = offset(x, y) + 1
<1>1. x \in Nat /\ y \in Nat
  BY Sizes DEF Columns, Rows
<1>2. (y + 1) * TERM_WIDTH = y * TERM_WIDTH + TERM_WIDTH /\ y * TERM_WIDTH \in Nat
  BY <1>1, Sizes
<1>3. offset(x, y) < (y + 1) * TERM_WIDTH
  BY <1>1, LinesInOrder
<1> DEFINE p == y * TERM_WIDTH
<1>4. /\ p \in Nat /\ offset(0, y + 1) = p + TERM_WIDTH + 0 /\ offset(x, y) = p + x
      /\ offset(x + 1, y) = p + (x + 1)
  BY <1>1, <1>2 DEF offset
<1>5. offset(x, y) < p + TERM_WIDTH
  BY <1>2, <1>3
<1> HIDE DEF p
<1>6. QED BY <1>1, <1>4, <1>5, Sizes

LEMMA InitPicture == Init => Picture
BY DEF Init, Picture, Bank, Untouched, Touching

LEMMA SamePicture ==
  ASSUME Picture, UNCHANGED page, at \in Untouched, at' \in Untouched \ Touching
  PROVE  Picture'
BY DEF Picture, page, Untouched, Touching, Bank, Free, Marked, Bare, ImageAt, Image,
   InCell, XOf, YOf, KOf, offset, Cells

LEMMA OtherPicture == Picture /\ UNCHANGED vars => Picture'
<1> SUFFICES ASSUME Picture, UNCHANGED vars PROVE Picture'
  OBVIOUS
<1>1. UNCHANGED <<vram, data, CURSOR_X, CURSOR_Y, at, a, b, c>>
  BY DEF vars
<1>2. QED BY <1>1 DEF Picture

LEMMA PrintCharPicture == ASSUME IInv, Picture, PrintChar PROVE Picture'
<1>1. /\ at = "print" /\ at' \in Touching /\ a' = CURSOR_X /\ b' = CURSOR_Y
      /\ UNCHANGED <<vram, data, CURSOR_X, CURSOR_Y>>
  BY DEF PrintChar, page, Touching
<1>2. QED BY <1>1 DEF Picture, Untouched, Touching

LEMMA PrintNewlinePicture == ASSUME IInv, Picture, PrintNewline PROVE Picture'
<1>1. /\ at = "print.newline" /\ at' = "print.inc_y" /\ vram' = term_set_cursor(Nul)
      /\ UNCHANGED <<data, CURSOR_X, CURSOR_Y, a, b>>
  BY DEF PrintNewline
<1>2. OnPage(CURSOR_X, CURSOR_Y) /\ CURSOR_X \in Columns /\ CURSOR_Y \in Rows
  BY <1>1, WhereItIs DEF OnPage
<1>3. a = CURSOR_X /\ b = CURSOR_Y /\ DOMAIN vram = Bank
  BY <1>1 DEF Picture, Touching
<1>4. /\ Around(vram, data, CURSOR_X, CURSOR_Y)
      /\ Free(data, offset(CURSOR_X, CURSOR_Y))
      /\ data[offset(CURSOR_X, CURSOR_Y)] = Nul
  BY <1>1, <1>2, AroundCursor DEF Untouched, Touching
<1>5. /\ DOMAIN vram' = Bank
      /\ \A i \in Bank : vram'[i] =
           IF InCell(i, CURSOR_X, CURSOR_Y) THEN Nul ELSE vram[i]
  BY <1>1, <1>2, <1>3, CursorSet
<1>6. Bare(vram', data')
  <2>1. ASSUME NEW i \in Bank, InCell(i, CURSOR_X, CURSOR_Y) PROVE ImageAt(data, i) = Nul
    BY <1>2, <1>4, <2>1, ImageInCell
  <2>2. QED BY <1>1, <1>4, <1>5, <2>1 DEF Bare, Around
<1>7. Free(data', offset(0, b' + 1))
  BY <1>1, <1>2, <1>3, <1>4, Offsets, FreeFrom
<1>8. QED BY <1>1, <1>5, <1>6, <1>7 DEF Picture, Untouched, Touching

LEMMA PrintSetPicture == ASSUME IInv, Picture, PrintSet PROVE Picture'
<1>1. /\ at = "print.no_newline" /\ at' = "print.draw"
      /\ data' = [data EXCEPT ![offset(a, b)] = c]
      /\ UNCHANGED <<vram, CURSOR_X, CURSOR_Y, a, b, c>>
  BY DEF PrintSet
<1>2. /\ OnPage(CURSOR_X, CURSOR_Y) /\ CURSOR_X \in Columns /\ CURSOR_Y \in Rows
      /\ data \in [Cells -> Cell]
  BY <1>1, WhereItIs DEF OnPage
<1>3. a = CURSOR_X /\ b = CURSOR_Y /\ DOMAIN vram = Bank
  BY <1>1 DEF Picture, Touching
<1>4. Around(vram, data, a, b) /\ Free(data, offset(a, b))
  BY <1>1, <1>2, <1>3, AroundCursor DEF Untouched, Touching
<1>5. a \in Columns /\ b \in Rows
  BY <1>2, <1>3
<1>6. Around(vram', data', a', b')
  <2>1. \A i \in Bank : ~InCell(i, a, b) => ImageAt(data', i) = ImageAt(data, i)
    <3>1. data' = Set(data, a, b, c)
      BY <1>1 DEF Set
    <3>2. QED BY <1>2, <1>5, <3>1, ImageElsewhere
  <2>2. QED BY <1>1, <1>4, <2>1 DEF Around
<1>7. offset(a, b) \in Cells /\ offset(a, b) \in Nat
  BY <1>5, OffsetOnPage, Offsets
<1>8. data'[offset(a', b')] = c'
  BY <1>1, <1>2, <1>7
<1>9. Free(data', offset(a', b') + 1)
  <2> DEFINE n == offset(a, b)
  <2>1. n \in Nat /\ Free(data, n) /\ data' = [data EXCEPT ![n] = c]
    BY <1>1, <1>4, <1>7
  <2> HIDE DEF n
  <2>2. ASSUME NEW i \in Cells, i >= n + 1 PROVE data'[i] = Nul
    <3>1. i # n /\ i >= n
      BY <2>1, <2>2, Sizes DEF Cells
    <3>2. QED BY <1>2, <2>1, <3>1 DEF Free
  <2>3. Free(data', n + 1)
    BY <2>2 DEF Free
  <2>4. QED BY <1>1, <2>3 DEF n
<1>10. QED BY <1>1, <1>3, <1>6, <1>8, <1>9 DEF Picture, Untouched, Touching

LEMMA PrintDrawPicture == ASSUME IInv, Picture, PrintDraw PROVE Picture'
<1>1. /\ at = "print.draw" /\ vram' = term_draw_char(a, b) /\ a' = a + 1
      /\ at' = IF a + 1 # TERM_WIDTH THEN "print.cont" ELSE "print.inc_y"
      /\ UNCHANGED <<data, CURSOR_X, CURSOR_Y, b, c>>
  BY DEF PrintDraw
<1>2. a \in Columns /\ b \in Rows
  BY <1>1, WhereItIs
<1>3. /\ Free(data, offset(a, b) + 1) /\ data[offset(a, b)] = c
      /\ Around(vram, data, a, b) /\ DOMAIN vram = Bank
  BY <1>1 DEF Picture
<1>4. c # Nul
  BY <1>1, TerminalAssumption DEF IInv, Started
<1>5. /\ DOMAIN vram' = Bank
      /\ \A i \in Bank : vram'[i] =
           IF InCell(i, a, b) THEN font[data[offset(a, b)]][KOf(i)] ELSE vram[i]
  BY <1>1, <1>2, <1>3, CharDrawn
<1>6. Bare(vram', data')
  <2>1. \A i \in Bank : InCell(i, a, b) =>
          ImageAt(data, i) = font[data[offset(a, b)]][KOf(i)]
    BY <1>2, <1>3, <1>4, ImageInCell
  <2>2. QED BY <1>1, <1>3, <1>5, <2>1 DEF Bare, Around
<1>7. /\ a + 1 # TERM_WIDTH => Free(data', offset(a', b'))
      /\ a + 1 = TERM_WIDTH => Free(data', offset(0, b' + 1))
  BY <1>1, <1>2, <1>3, Offsets
<1>8. QED BY <1>1, <1>5, <1>6, <1>7 DEF Picture, Untouched, Touching

LEMMA IncYPicture == ASSUME IInv, Picture, IncY PROVE Picture'
<1>1. /\ at = "print.inc_y" /\ at' = "print.cont" /\ a' = 0 /\ b' = b + 1
      /\ UNCHANGED <<data, vram>>
  BY DEF IncY, page
<1>2. Free(data, offset(0, b + 1)) /\ Bare(vram, data) /\ DOMAIN vram = Bank
  BY <1>1 DEF Picture
<1>3. Free(data', offset(a', b')) /\ Bare(vram', data') /\ DOMAIN vram' = Bank
  BY <1>1, <1>2
<1>4. QED BY <1>1, <1>3 DEF Picture, Untouched, Touching

LEMMA PrintContPicture == ASSUME IInv, Picture, PrintCont PROVE Picture'
<1>1. /\ at = "print.cont" /\ at' \in {"print.no_scroll", "scroll"}
      /\ UNCHANGED <<data, vram, a, b>>
  BY DEF PrintCont, page
<1>2. Free(data, offset(a, b)) /\ Bare(vram, data) /\ DOMAIN vram = Bank
  BY <1>1 DEF Picture
<1>3. Free(data', offset(a', b')) /\ Bare(vram', data') /\ DOMAIN vram' = Bank
  BY <1>1, <1>2
<1>4. QED BY <1>1, <1>3 DEF Picture, Untouched, Touching

LEMMA LastLine ==
  /\ offset(0, TERM_HEIGHT - 1) = DATA_SIZE - TERM_WIDTH
  /\ \A x \in Columns : offset(x, TERM_HEIGHT - 1) >= offset(0, TERM_HEIGHT - 1)
<1> DEFINE p == (TERM_HEIGHT - 1) * TERM_WIDTH
<1>1. p \in Nat /\ p = DATA_SIZE - TERM_WIDTH
  BY Sizes DEF DATA_SIZE
<1>2. \A x \in Columns : offset(x, TERM_HEIGHT - 1) = p + x /\ x \in Nat
  BY Sizes DEF offset, Columns
<1>3. offset(0, TERM_HEIGHT - 1) = p + 0
  BY DEF offset
<1> HIDE DEF p
<1>4. QED BY <1>1, <1>2, <1>3, Sizes

LEMMA DataScrolled ==
  ASSUME NEW d \in [Cells -> Cell], NEW i \in Cells
  PROVE  memset(memcpyDown(d, TERM_WIDTH, DATA_SIZE - TERM_WIDTH),
                DATA_SIZE - TERM_WIDTH, TERM_WIDTH, Nul)[i]
           = IF i < DATA_SIZE - TERM_WIDTH THEN d[TERM_WIDTH + i] ELSE Nul
<1>1. i \in Int /\ i <= DATA_SIZE - 1
  BY Sizes DEF Cells
<1>2. i \in DATA_SIZE - TERM_WIDTH .. DATA_SIZE - TERM_WIDTH + TERM_WIDTH - 1
        <=> ~ (i < DATA_SIZE - TERM_WIDTH)
  BY <1>1, Sizes
<1>3. QED BY <1>2 DEF memset, memcpyDown

LEMMA ScrollDataPicture == ASSUME IInv, Picture, ScrollData PROVE Picture'
<1>1. /\ at = "scroll" /\ at' = "scroll.graphics"
      /\ data' = memset(memcpyDown(data, TERM_WIDTH, DATA_SIZE - TERM_WIDTH),
                        DATA_SIZE - TERM_WIDTH, TERM_WIDTH, Nul)
      /\ UNCHANGED <<vram, CURSOR_X, CURSOR_Y, a, b>>
  BY DEF ScrollData
<1>2. data \in [Cells -> Cell]
  BY <1>1, WhereItIs
<1>3. Bare(vram, data) /\ DOMAIN vram = Bank
  BY <1>1 DEF Picture
<1>4. \A i \in Cells :
        data'[i] = IF i < DATA_SIZE - TERM_WIDTH THEN data[TERM_WIDTH + i] ELSE Nul
  BY <1>1, <1>2, DataScrolled
<1>5. Free(data', offset(0, TERM_HEIGHT - 1))
  <2>1. \A i \in Cells : i >= DATA_SIZE - TERM_WIDTH => ~ (i < DATA_SIZE - TERM_WIDTH)
    BY Sizes DEF Cells
  <2>2. QED BY <1>4, <2>1, LastLine DEF Free
<1>6. ASSUME NEW i \in Bank, i < SCREEN_SIZE_BYTES - RowBytes
      PROVE  vram[i + RowBytes] = ImageAt(data', i)
  <2>1. /\ i + RowBytes \in Bank /\ YOf(i) < TERM_HEIGHT - 1
        /\ YOf(i + RowBytes) = YOf(i) + 1 /\ KOf(i + RowBytes) = KOf(i)
        /\ XOf(i + RowBytes) = XOf(i)
    BY <1>6, RowBelow
  <2>2. vram[i + RowBytes] = Image(data, XOf(i), YOf(i) + 1, KOf(i))
    BY <1>3, <2>1 DEF Bare, ImageAt
  <2>3. CASE XOf(i) \notin Columns
    BY <2>2, <2>3 DEF ImageAt, Image
  <2>4. CASE XOf(i) \in Columns
    <3>1. YOf(i) \in Rows
      BY PlaceOf
    <3>2. /\ offset(XOf(i), YOf(i)) \in Cells
          /\ offset(XOf(i), YOf(i)) < DATA_SIZE - TERM_WIDTH
          /\ offset(XOf(i), YOf(i) + 1) = offset(XOf(i), YOf(i)) + TERM_WIDTH
      BY <2>1, <2>4, <3>1, OffsetOnPage
    <3>3. offset(XOf(i), YOf(i)) + TERM_WIDTH = TERM_WIDTH + offset(XOf(i), YOf(i))
      BY <3>2, Sizes DEF Cells
    <3>4. data'[offset(XOf(i), YOf(i))] = data[offset(XOf(i), YOf(i) + 1)]
      BY <1>4, <3>2, <3>3
    <3>5. QED BY <2>2, <3>4 DEF ImageAt, Image
  <2>5. QED BY <2>3, <2>4
<1>7. Low(vram', data')
  BY <1>1, <1>6 DEF Low
<1>8. DOMAIN vram' = Bank
  BY <1>1, <1>3
<1>9. QED BY <1>1, <1>5, <1>7, <1>8 DEF Picture, Untouched, Touching

LEMMA BankScrolled ==
  ASSUME DOMAIN vram = Bank, NEW i \in Bank
  PROVE  memset(memcpyDown(vram, RowBytes, SCREEN_SIZE_BYTES - RowBytes),
                SCREEN_SIZE_BYTES - RowBytes, RowBytes, Nul)[i]
           = IF i < SCREEN_SIZE_BYTES - RowBytes THEN vram[RowBytes + i] ELSE Nul
<1>1. i \in Int /\ i <= SCREEN_SIZE_BYTES - 1
  BY Dims DEF Bank
<1>2. i \in SCREEN_SIZE_BYTES - RowBytes .. SCREEN_SIZE_BYTES - RowBytes + RowBytes - 1
        <=> ~ (i < SCREEN_SIZE_BYTES - RowBytes)
  BY <1>1, Dims
<1>3. QED BY <1>2 DEF memset, memcpyDown

LEMMA ScrollGraphicsPicture == ASSUME IInv, Picture, ScrollGraphics PROVE Picture'
<1>1. /\ at = "scroll.graphics" /\ at' = "print.no_scroll"
      /\ a' = 0 /\ b' = TERM_HEIGHT - 1
      /\ vram' = memset(memcpyDown(vram, RowBytes, SCREEN_SIZE_BYTES - RowBytes),
                        SCREEN_SIZE_BYTES - RowBytes, RowBytes, Nul)
      /\ UNCHANGED data
  BY DEF ScrollGraphics
<1>2. /\ Free(data, offset(0, TERM_HEIGHT - 1)) /\ Low(vram, data) /\ DOMAIN vram = Bank
  BY <1>1 DEF Picture
<1>3. DOMAIN vram' = Bank
  BY <1>1, <1>2 DEF memset, memcpyDown
<1>4. ASSUME NEW i \in Bank PROVE vram'[i] = ImageAt(data, i)
  <2>1. vram'[i] = IF i < SCREEN_SIZE_BYTES - RowBytes THEN vram[RowBytes + i] ELSE Nul
    BY <1>1, <1>2, BankScrolled
  <2>2. i \in Nat /\ RowBytes + i = i + RowBytes
    BY PlaceOf, Dims
  <2>3. CASE i < SCREEN_SIZE_BYTES - RowBytes
    BY <1>2, <2>1, <2>2, <2>3 DEF Low
  <2>4. CASE ~ (i < SCREEN_SIZE_BYTES - RowBytes)
    <3>1. YOf(i) = TERM_HEIGHT - 1 /\ YOf(i) \in Rows
      BY <2>4, RowBelow, PlaceOf
    <3>2. XOf(i) \in Columns => data[offset(XOf(i), YOf(i))] = Nul
      BY <1>2, <3>1, LastLine, OffsetOnPage DEF Free
    <3>3. ImageAt(data, i) = Nul
      BY <3>2 DEF ImageAt, Image
    <3>4. QED BY <2>1, <2>4, <3>3
  <2>5. QED BY <2>3, <2>4
<1>5. Free(data', offset(a', b')) /\ Bare(vram', data')
  BY <1>1, <1>2, <1>4 DEF Bare
<1>6. QED BY <1>1, <1>3, <1>5 DEF Picture, Untouched, Touching

LEMMA StoreCursorPicture == ASSUME IInv, Picture, StoreCursor PROVE Picture'
<1>1. /\ at = "print.no_scroll" /\ at' = "print.cursor" /\ CURSOR_X' = a /\ CURSOR_Y' = b
      /\ UNCHANGED <<data, vram>>
  BY DEF StoreCursor
<1>2. Free(data, offset(a, b)) /\ Bare(vram, data) /\ DOMAIN vram = Bank
  BY <1>1 DEF Picture
<1>3. Free(data', offset(CURSOR_X', CURSOR_Y')) /\ Bare(vram', data')
      /\ DOMAIN vram' = Bank
  BY <1>1, <1>2
<1>4. QED BY <1>1, <1>3 DEF Picture, Untouched, Touching

LEMMA DrawCursorPicture == ASSUME IInv, Picture, DrawCursor PROVE Picture'
<1>1. /\ at = "print.cursor" /\ at' = "print_str.loop" /\ vram' = term_set_cursor(Solid)
      /\ UNCHANGED <<data, CURSOR_X, CURSOR_Y>>
  BY DEF DrawCursor
<1>2. /\ Free(data, offset(CURSOR_X, CURSOR_Y)) /\ Bare(vram, data) /\ DOMAIN vram = Bank
  BY <1>1 DEF Picture
<1>3. OnPage(CURSOR_X, CURSOR_Y)
  BY <1>1, WhereItIs
<1>4. /\ DOMAIN vram' = Bank
      /\ \A i \in Bank : vram'[i] =
           IF InCell(i, CURSOR_X, CURSOR_Y) THEN Solid ELSE vram[i]
  BY <1>1, <1>2, <1>3, CursorSet
<1>5. Marked(vram', data', CURSOR_X', CURSOR_Y')
  BY <1>1, <1>2, <1>4 DEF Marked, Bare
<1>6. Free(data', offset(CURSOR_X', CURSOR_Y'))
  BY <1>1, <1>2
<1>7. QED BY <1>1, <1>4, <1>5, <1>6 DEF Picture, Untouched, Touching

LEMMA ClearPicture == ASSUME IInv, Picture, TermClear PROVE Picture'
<1>1. /\ at' = "program" /\ CURSOR_X' = 0 /\ CURSOR_Y' = 0
      /\ data' = memset(data, 0, DATA_SIZE, Nul)
      /\ vram' = memset(vram, 0, SCREEN_SIZE_BYTES, Nul)
  BY DEF TermClear
<1>2. DOMAIN data = Cells /\ DOMAIN vram = Bank
  BY DEF IInv, Memory, Picture
<1>3. data' = [i \in Cells |-> Nul] /\ vram' = [i \in Bank |-> Nul]
  <2>1. 0 .. 0 + DATA_SIZE - 1 = Cells /\ 0 .. 0 + SCREEN_SIZE_BYTES - 1 = Bank
    BY Sizes, Dims DEF Cells, Bank
  <2>2. QED BY <1>1, <1>2, <2>1 DEF memset
<1>4. Free(data', 0) /\ Free(data', offset(0, 0))
  BY <1>3 DEF Free
<1>5. ASSUME NEW i \in Bank PROVE ImageAt(data', i) = Nul
  <2>1. XOf(i) \in Columns => offset(XOf(i), YOf(i)) \in Cells
    BY PlaceOf, OffsetOnPage
  <2>2. QED BY <1>3, <2>1 DEF ImageAt, Image
<1>6. Bare(vram', data')
  BY <1>3, <1>5 DEF Bare
<1>7. DOMAIN vram' = Bank
  BY <1>3
<1>8. QED BY <1>1, <1>4, <1>6, <1>7 DEF Picture, Untouched, Touching

LEMMA NextPicture == ASSUME IInv, Picture, [Next]_vars PROVE Picture'
<1>1. CASE UNCHANGED vars
  BY <1>1, OtherPicture
<1>2. CASE Print1
  BY <1>2, PrintCharPicture, PrintNewlinePicture, PrintSetPicture, PrintDrawPicture,
     IncYPicture, PrintContPicture, ScrollDataPicture, ScrollGraphicsPicture,
     StoreCursorPicture, DrawCursorPicture DEF Print1
<1>3. CASE NextChar \/ StringEnds \/ \E s \in Strings : PrintString(s)
  <2>1. /\ UNCHANGED page /\ at \in Untouched /\ at' \in Untouched \ Touching
    BY <1>3 DEF NextChar, StringEnds, PrintString, Untouched, Touching
  <2>2. QED BY <2>1, SamePicture
<1>4. QED BY <1>1, <1>2, <1>3, ClearPicture DEF Next
-----------------------------------------------------------------------------
(* Between two characters the screen's bank is the picture of the page,    *)
(* byte for byte, with the cursor drawn where it is and nowhere else:      *)
(* erasing it, drawing the character and moving both copies up leave       *)
(* nothing behind, for every size of the page, the glyphs and the margins. *)
THEOREM PictureIsOfPage == Spec => []PictureOfPage
<1>1. Init => Picture
  BY InitPicture
<1>2. IInv /\ Picture /\ [Next]_vars => Picture'
  BY NextPicture
<1>3. IInv /\ Picture => PictureOfPage
  <2> SUFFICES ASSUME IInv, Picture, Resting PROVE PictureOfPage
    BY DEF PictureOfPage
  <2>1. at \in {"program", "print_str.loop"} /\ at \in Untouched
    BY DEF Resting, Untouched
  <2>2. OnPage(CURSOR_X, CURSOR_Y) /\ data \in [Cells -> Cell]
    BY <2>1, WhereItIs
  <2>3. ASSUME NEW i \in Bank
        PROVE  /\ Shown(i, TRUE) = IF InCell(i, CURSOR_X, CURSOR_Y) THEN Solid
                                   ELSE ImageAt(data, i)
               /\ Shown(i, FALSE) = ImageAt(data, i)
    BY <2>2 DEF Shown, ImageAt, Image, InCell, XOf, YOf, KOf, OnPage, Columns
  <2>4. DOMAIN vram = Bank
    BY DEF Picture
  <2>5. CASE Marked(vram, data, CURSOR_X, CURSOR_Y)
    BY <2>3, <2>4, <2>5 DEF Marked, PictureOfPage
  <2>6. CASE CURSOR_X = 0 /\ CURSOR_Y = 0 /\ Free(data, 0) /\ Bare(vram, data)
    <3>1. Cleared
      BY <2>2, <2>6, Sizes DEF Cleared, Free, Cells
    <3>2. QED BY <2>3, <2>4, <2>6, <3>1 DEF Bare, PictureOfPage
  <2>7. QED BY <2>1, <2>5, <2>6 DEF Picture
<1>4. QED BY <1>1, <1>2, <1>3, Inductive, PTL DEF Spec
=============================================================================
