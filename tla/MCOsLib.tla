------------------------------ MODULE MCOsLib ------------------------------
(***************************************************************************)
(* Calls of the library: edge bytes for the arithmetic, lengths around the *)
(* 255 bytes of a piece for the copies.                                    *)
(***************************************************************************)
EXTENDS OsLib

Edge == {0, 1, 2, 127, 128, 255}
Few == {0, 1, 3, 255}
Top == 540

Regs(f, a, b, c, d, z) ==
  [r \in Register |-> CASE r = F -> f [] r = A -> a [] r = B -> b [] r = C -> c
                        [] r = D -> d [] r = Z -> z [] OTHER -> 170]
Ask(routine, r, n) == [routine |-> routine, regs |-> r, d0 |-> n]

Bytewise ==
  {Ask(q, Regs(f, a, b, 17, 34, 51), 0) :
     q \in {"mul", "shl", "shr"}, f \in {0, 15}, a \in Edge, b \in Edge}
ByWord ==
  {Ask(q, Regs(15, a, b, c, 34, 51), 0) :
     q \in {"mul16_8", "shl16"}, a \in Few, b \in Few, c \in Few}
OfWords ==
  {Ask("cmp16", Regs(15, a, b, c, d, 51), 0) :
     a \in Few, b \in Few, c \in Few, d \in Few}
  \cup {Ask("mul16", Regs(8, a, b, c, d, 51), 0) :
          a \in Few, b \in Few, c \in {0, 1}, d \in {0, 3, 255}}

OnMemory ==
  {Ask("strlen", Regs(0, 0, b, 17, 34, 51), 0) : b \in {0, 5, 6, 250}}
  \cup {Ask("memcpy", Regs(0, 0, b, 0, d, z), 0) :
          b \in {0, 3, 250}, d \in {1, 4, 255}, z \in {0, 1, 2, 255}}
  \cup {Ask("memcpy16", Regs(8, 0, 3, 0, d, 51), n) :
          d \in {7, 27}, n \in {0, 255, 256, 511}}
  \cup {Ask("memset", Regs(0, 0, b, c, d, 85), 0) :
          b \in {0, 200}, c \in {0, 1}, d \in {0, 1, 40}}

OnScreen ==
  {Ask("set_pixel", Regs(15, x, y, c, 34, 51), 0) :
     x \in {0, 1, 7, 8, 55}, y \in {0, 8}, c \in {0, 1, 255}}

Everything == Bytewise \cup ByWord \cup OfWords \cup OnMemory \cup OnScreen
ByShift == {q \in Bytewise : q.routine = "shr"}

(* Strings end at 5 and at 530; the scratch word is apart, and so are some *)
(* bytes of two scan lines.                                                *)
Screen == {ADDR_BANK + 32 * y + i : y \in {0, 8}, i \in 0 .. 31}
Bytes600 == [a \in (0 .. Top) \cup {D0, D0 + 1} \cup Screen |->
               CASE a \in {5, 530} -> 0
                 [] a \in ADDR_BANK .. D0 - 1 -> 255 * (a % 2)
                 [] OTHER -> 1 + (a % 251)]
=============================================================================
