-------------------------- MODULE MicrocodeProofs --------------------------
(***************************************************************************)
(* Proofs about the microcode assembler, for any instructions, macros,     *)
(* lines and programs of any length and any room a list has: the ROM runs  *)
(* every clear list as it is written.                                      *)
(*                                                                         *)
(* RomRunsLists speaks of the end only. The invariant says what the words  *)
(* are while a program is parsed: those of a list nothing has disturbed    *)
(* are the ones of its steps so far and zero behind them. It takes that    *)
(* the current list is as long as its index says, or the next step would   *)
(* go elsewhere than behind the last one.                                  *)
(***************************************************************************)
EXTENDS Microcode, SequenceTheorems, TLAPS

(* The lines a step can have, and the bits of its word.                    *)
StepSets ==
  {s \in SUBSET {o \in Ops : Type(o) # MTD} :
     ~(\E o \in s, p \in s : Type(o) = MTA /\ Type(p) = MTB)}
Bits(s) == {Bit(o) : o \in s} \cup {15 : o \in {p \in s : Type(p) = MTB}}

TypeOK ==
  /\ code \in [Words -> SUBSET (0 .. 15)]
  /\ listed \in [Lists -> Seq(StepSets)]
  /\ instruction \in Nat /\ reg \in BOOLEAN /\ index \in Nat

(* The word at place j of the list k.                                      *)
Holds(c, k, s) ==
  \A j \in 0 .. Steps - 1 :
    c[k * Steps + j] = IF j < Len(s) THEN Bits(s[j + 1]) ELSE {}
Fits(k) == k \notin disturbed /\ Len(listed[k]) <= Steps
ListsHeld == \A k \in Lists : Fits(k) => Holds(code, k, listed[k])
Current ==
  List(instruction, reg) \in Lists => Len(listed[List(instruction, reg)]) = index
Emitted == phase = "done" => out = Contents

Placed ==
  /\ TypeOK
  /\ ListsHeld
  /\ Current
  /\ Emitted
-----------------------------------------------------------------------------
(* The words of the lists lie apart, Steps of them for each.               *)
LEMMA Sizes == I_COUNT \in Nat /\ Steps \in Nat /\ Steps > 0
BY MicrocodeAssumption, LenProperties DEF I_COUNT

LEMMA PlaceOfStep ==
  ASSUME NEW k \in Lists, NEW j \in 0 .. Steps - 1
  PROVE  k * Steps + j \in Words
<1>1. k \in Nat /\ k <= 2 * I_COUNT - 1 /\ j \in Nat /\ j < Steps
  BY Sizes DEF Lists
<1> DEFINE d == 2 * I_COUNT - 1 - k
           p == k * Steps
           q == d * Steps
           r == 2 * I_COUNT * Steps
<1>2. d \in Nat /\ 2 * I_COUNT = k + 1 + d
  BY <1>1, Sizes
<1>3. r = p + Steps + q
  <2> HIDE DEF d
  <2>1. r = (k + 1 + d) * Steps
    BY <1>2
  <2>2. QED BY <2>1, <1>1, <1>2, Sizes
<1>4. p \in Nat /\ q \in Nat
  <2> HIDE DEF d
  <2>1. QED BY <1>1, <1>2, Sizes
<1> HIDE DEF d, p, q, r
<1>5. p + j \in 0 .. r - 1
  BY <1>1, <1>3, <1>4, Sizes
<1>6. QED BY <1>5 DEF p, r, Words

LEMMA DivUnique ==
  ASSUME NEW m \in Nat, m > 0, NEW p \in Nat, NEW r \in Nat, r < m,
         NEW a \in Nat, a = p * m + r
  PROVE  a \div m = p /\ a % m = r
OBVIOUS

LEMMA ListOfPlace ==
  ASSUME NEW k \in Nat, NEW j \in 0 .. Steps - 1
  PROVE  /\ (k * Steps + j) \div Steps = k
         /\ (k * Steps + j) % Steps = j
<1> DEFINE a == k * Steps + j
<1>1. j \in Nat /\ j < Steps /\ a \in Nat /\ a = k * Steps + j
  BY Sizes
<1> HIDE DEF a
<1>2. a \div Steps = k /\ a % Steps = j
  BY <1>1, Sizes, DivUnique
<1>3. QED BY <1>2 DEF a

LEMMA PlacesApart ==
  ASSUME NEW k \in Nat, NEW l \in Nat, NEW i \in 0 .. Steps - 1,
         NEW j \in 0 .. Steps - 1, k * Steps + i = l * Steps + j
  PROVE  k = l /\ i = j
<1>1. (k * Steps + i) \div Steps = k /\ (k * Steps + i) % Steps = i
  BY ListOfPlace
<1>2. (l * Steps + j) \div Steps = l /\ (l * Steps + j) % Steps = j
  BY ListOfPlace
<1> DEFINE a == k * Steps + i
           b == l * Steps + j
<1>3. a = b
  OBVIOUS
<1> HIDE DEF a, b
<1>4. QED BY <1>1, <1>2, <1>3 DEF a, b

LEMMA ListIsNat == \A i \in Nat, r \in BOOLEAN : List(i, r) \in Nat
BY DEF List
-----------------------------------------------------------------------------
(* The control lines and their bits.                                       *)
LEMMA OpsAre ==
  Ops = {"emem", "asp", "aimm", "lmem", "spinc", "spdec", "jnz", "ldx", "ldy",
         "ldf", "ealu", "ldh", "ldl", "lprt", "ereg", "lreg", "sel", "eop1",
         "eop2", "edev", "ldev", "cc", "ahl"}
BY DEF Ops, MICRO_OPS

LineOf(t, b) ==
  IF t = MTA THEN <<"emem", "asp", "aimm", "lmem", "spinc", "spdec", "jnz">>[b + 1]
  ELSE IF t = MTB THEN <<"ldx", "ldy", "ldf", "ealu", "ldh", "ldl", "lprt">>[b + 1]
  ELSE IF t = MTG
       THEN <<"ereg", "lreg", "sel", "eop1", "eop2", "edev", "ldev", "cc">>[b - 6]
       ELSE "ahl"

LEMMA LinesAre ==
  ASSUME NEW o \in Ops
  PROVE  /\ Type(o) \in {MTA, MTB, MTG, MTD} /\ Bit(o) \in 0 .. 14
         /\ o = LineOf(Type(o), Bit(o))
         /\ Type(o) \in {MTA, MTB} => Bit(o) < 7
         /\ Type(o) = MTG => Bit(o) >= 7
         /\ (Type(o) # MTD /\ Bit(o) = 14) <=> o = "cc"
BY OpsAre DEF Type, Bit, MICRO_OPS, LineOf, MTA, MTB, MTG, MTD

LEMMA LinesDiffer ==
  ASSUME NEW o \in Ops, NEW p \in Ops, Type(o) = Type(p), Bit(o) = Bit(p)
  PROVE  o = p
<1>1. o = LineOf(Type(o), Bit(o)) /\ p = LineOf(Type(p), Bit(p))
  BY LinesAre
<1>2. QED BY <1>1

LEMMA StepsHaveLines ==
  ASSUME NEW s \in StepSets, NEW o \in s
  PROVE  o \in Ops /\ Type(o) \in {MTA, MTB, MTG}
BY LinesAre DEF StepSets

LEMMA BitsOfStep ==
  ASSUME NEW s \in StepSets
  PROVE  /\ Bits(s) \subseteq 0 .. 15
         /\ Bits(s) = {} <=> s = {}
         /\ 15 \in Bits(s) <=> \E o \in s : Type(o) = MTB
         /\ 14 \in Bits(s) <=> "cc" \in s
<1>1. \A o \in s : o \in Ops /\ Type(o) # MTD /\ Bit(o) \in 0 .. 14
  BY LinesAre DEF StepSets
<1>2. Bits(s) \subseteq 0 .. 15
  BY <1>1 DEF Bits
<1>3. Bits(s) = {} <=> s = {}
  BY DEF Bits
<1>4. 15 \in Bits(s) <=> \E o \in s : Type(o) = MTB
  <2>1. \A o \in s : Bit(o) # 15
    BY <1>1
  <2>2. QED BY <2>1 DEF Bits
<1>5. 14 \in Bits(s) <=> "cc" \in s
  <2>1. 14 \in Bits(s) <=> \E o \in s : Bit(o) = 14
    BY DEF Bits
  <2>2. \A o \in s : Bit(o) = 14 <=> o = "cc"
    BY <1>1, LinesAre
  <2>3. QED BY <2>1, <2>2
<1>6. QED BY <1>2, <1>3, <1>4, <1>5

(* A word drives the lines it was made of, and the counter's.              *)
LEMMA DrivenAreNamed ==
  ASSUME NEW s \in StepSets, NEW m \in SUBSET {14}
  PROVE  Driven(Bits(s) \cup m) = s \cup {o \in {"cc"} : 14 \in m}
<1> DEFINE w == Bits(s) \cup m
<1>1. 15 \in w <=> \E o \in s : Type(o) = MTB
  BY BitsOfStep
<1>2. ASSUME NEW o \in s
      PROVE  o \in Driven(w)
  <2>1. o \in Ops /\ Type(o) \in {MTA, MTB, MTG} /\ Type(o) # MTD
    BY StepsHaveLines DEF StepSets
  <2>2. Bit(o) \in w
    BY DEF Bits
  <2>3. Type(o) = MTA => 15 \notin w
    BY <1>1 DEF StepSets
  <2>4. Type(o) = MTB => 15 \in w
    BY <1>1
  <2>5. QED BY <2>1, <2>2, <2>3, <2>4 DEF Driven
<1>3. ASSUME 14 \in m
      PROVE  "cc" \in Driven(w)
  <2>1. "cc" \in Ops
    BY OpsAre
  <2>2. Type("cc") = MTG /\ Bit("cc") = 14
    BY DEF Type, Bit, MICRO_OPS
  <2>3. 14 \in w
    BY <1>3
  <2>4. QED BY <2>1, <2>2, <2>3 DEF Driven, MTA, MTB, MTG, MTD
<1>4. ASSUME NEW o \in Driven(w)
      PROVE  o \in s \/ (14 \in m /\ o = "cc")
  <2>1. o \in Ops /\ Type(o) # MTD /\ Bit(o) \in w
        /\ (Type(o) = MTA => 15 \notin w) /\ (Type(o) = MTB => 15 \in w)
    BY DEF Driven
  <2>2. Type(o) \in {MTA, MTB, MTG} /\ Bit(o) \in 0 .. 14
    BY <2>1, LinesAre
  <2>3. CASE Bit(o) = 14
    <3>1. o = "cc"
      BY <2>1, <2>3, LinesAre
    <3>2. CASE 14 \in m
      BY <3>1, <3>2
    <3>3. CASE 14 \in Bits(s)
      BY <3>1, <3>3, BitsOfStep
    <3>4. QED BY <2>1, <2>3, <3>2, <3>3
  <2>4. CASE Bit(o) # 14
    <3>1. PICK p \in s : Bit(p) = Bit(o)
      BY <2>1, <2>2, <2>4 DEF Bits
    <3>2. p \in Ops /\ Type(p) \in {MTA, MTB, MTG}
      BY StepsHaveLines
    <3>3. Type(o) = MTA => Type(p) # MTB
      BY <1>1, <2>1
    <3>4. Type(o) = MTB => Type(p) # MTA
      BY <1>1, <2>1 DEF StepSets
    <3>5. Type(o) = MTG <=> Type(p) = MTG
      <4>1. /\ Type(o) \in {MTA, MTB} => Bit(o) < 7
            /\ Type(o) = MTG => Bit(o) >= 7
        BY <2>1, LinesAre
      <4>2. /\ Type(p) \in {MTA, MTB} => Bit(p) < 7
            /\ Type(p) = MTG => Bit(p) >= 7
        BY <3>2, LinesAre
      <4>3. QED BY <2>2, <3>1, <3>2, <4>1, <4>2 DEF MTA, MTB, MTG
    <3>6. Type(o) = Type(p)
      BY <2>2, <3>2, <3>3, <3>4, <3>5
    <3>7. o = p
      BY <2>1, <3>1, <3>2, <3>6, LinesDiffer
    <3>8. QED BY <3>7
  <2>5. QED BY <2>3, <2>4
<1> HIDE DEF w
<1>5. Driven(w) = s \cup {o \in {"cc"} : 14 \in m}
  BY <1>2, <1>3, <1>4
<1>6. QED BY <1>5 DEF w
-----------------------------------------------------------------------------
(* What is parsed.                                                         *)
LEMMA NamedIsStep ==
  ASSUME NEW l, IsStep(l)
  PROVE  Named(l) \in StepSets /\ cval(l) = Bits(Named(l))
<1>1. Named(l) \subseteq {o \in Ops : Type(o) # MTD}
  BY DEF Named, Counted
<1>2. QED BY <1>1 DEF IsStep, StepSets, cval, Bits

LEMMA InitPlaced == Init => Placed
<1> SUFFICES ASSUME Init PROVE Placed
  OBVIOUS
<1>1. TypeOK
  <2>1. << >> \in Seq(StepSets)
    OBVIOUS
  <2>2. QED BY <2>1 DEF Init, TypeOK
<1>2. ListsHeld
  <2>1. \A k \in Lists : Len(listed[k]) = 0
    BY DEF Init
  <2>2. \A k \in Lists, j \in 0 .. Steps - 1 : code[k * Steps + j] = {}
    BY PlaceOfStep DEF Init
  <2>3. ASSUME NEW k \in Lists PROVE Holds(code, k, listed[k])
    <3>1. \A j \in 0 .. Steps - 1 : ~(j < 0)
      BY Sizes
    <3>2. QED BY <2>1, <2>2, <3>1 DEF Holds
  <2>4. QED BY <2>3 DEF ListsHeld
<1>3. Current
  BY DEF Init, Current
<1>4. Emitted
  BY DEF Init, Emitted
<1>5. QED BY <1>1, <1>2, <1>3, <1>4 DEF Placed

(* A list is begun: the words it may have had stay, and it is disturbed.   *)
LEMMA BeginPlaced ==
  ASSUME Placed, NEW i \in Nat, NEW r \in BOOLEAN, Parsing, Begin(i, r)
  PROVE  Placed'
<1> DEFINE m == List(i, r)
<1>1. TypeOK'
  <2>1. << >> \in Seq(StepSets)
    OBVIOUS
  <2>2. QED BY <2>1 DEF Placed, TypeOK, Begin
<1>2. ASSUME NEW k \in Lists, Fits(k)'
      PROVE  Holds(code, k, listed[k])'
  <2>0. TypeOK /\ code' = code /\ k \notin disturbed
    BY <1>2 DEF Placed, Begin, Fits
  <2>1. CASE k = m
    <3>1. listed[k] = << >> /\ listed'[k] = << >>
      BY <1>2, <2>0, <2>1 DEF Begin, Fits, TypeOK
    <3>2. Fits(k)
      BY <2>0, <3>1, Sizes DEF Fits
    <3>3. Holds(code, k, listed[k])
      BY <3>2 DEF Placed, ListsHeld
    <3>4. QED BY <2>0, <3>1, <3>3 DEF Holds
  <2>2. CASE k # m
    <3>1. listed'[k] = listed[k]
      BY <2>0, <2>2 DEF Begin, TypeOK
    <3>2. Fits(k)
      BY <1>2, <2>0, <3>1 DEF Fits
    <3>3. Holds(code, k, listed[k])
      BY <3>2 DEF Placed, ListsHeld
    <3>4. QED BY <2>0, <3>1, <3>3 DEF Holds
  <2>3. QED BY <2>1, <2>2
<1>3. Current'
  <2>1. List(i, r) \in Lists => listed'[List(i, r)] = << >>
    BY DEF Begin, Placed, TypeOK
  <2>2. QED BY <2>1 DEF Begin, Current
<1>4. Emitted'
  BY DEF Begin, Emitted, Parsing
<1>5. QED BY <1>1, <1>2, <1>3, <1>4 DEF Placed, ListsHeld

(* A step goes behind the last one of its list, or disturbs another.       *)
LEMMA StepPlaced ==
  ASSUME Placed, NEW l, Step(l)
  PROVE  Placed'
<1> DEFINE m == List(instruction, reg)
<1>0. /\ TypeOK /\ IsStep(l) /\ m \in Nat /\ index \in Nat
      /\ Named(l) \in StepSets /\ cval(l) = Bits(Named(l))
      /\ index' = index + 1 /\ instruction' = instruction /\ reg' = reg
      /\ listed' = [listed EXCEPT ![m] = Append(@, Named(l))]
  <2>1. TypeOK /\ IsStep(l)
    BY DEF Placed, Step
  <2>2. m \in Nat /\ index \in Nat
    BY <2>1, ListIsNat DEF TypeOK
  <2>3. Named(l) \in StepSets /\ cval(l) = Bits(Named(l))
    BY <2>1, NamedIsStep
  <2>4. /\ index' = index + 1 /\ instruction' = instruction /\ reg' = reg
        /\ listed' = [listed EXCEPT ![m] = Append(@, Named(l))]
    BY DEF Step
  <2>5. QED BY <2>1, <2>2, <2>3, <2>4
<1>1. TypeOK'
  <2>1. code' \in [Words -> SUBSET (0 .. 15)]
    <3>1. cval(l) \in SUBSET (0 .. 15)
      BY <1>0, BitsOfStep
    <3>2. code \in [Words -> SUBSET (0 .. 15)]
      BY <1>0 DEF TypeOK
    <3>3. code' = code \/ code' = [code EXCEPT ![Place] = cval(l)]
      BY DEF Step
    <3> DEFINE T == SUBSET (0 .. 15)
    <3> HIDE DEF T
    <3>4. cval(l) \in T /\ code \in [Words -> T]
      BY <3>1, <3>2 DEF T
    <3>5. code' \in [Words -> T]
      BY <3>3, <3>4
    <3>6. QED BY <3>5 DEF T
  <2>2. \A k \in Lists : Append(listed[k], Named(l)) \in Seq(StepSets)
    BY <1>0, AppendProperties DEF TypeOK
  <2>3. listed' \in [Lists -> Seq(StepSets)]
    BY <1>0, <2>2 DEF TypeOK
  <2>4. QED BY <1>0, <2>1, <2>3 DEF TypeOK
<1>2. ASSUME NEW k \in Lists, Fits(k)', NEW j \in 0 .. Steps - 1
      PROVE  code'[k * Steps + j]
               = IF j < Len(listed'[k]) THEN Bits(listed'[k][j + 1]) ELSE {}
  <2>0. k \in Nat /\ k * Steps + j \in Words /\ k \notin disturbed
        /\ k \notin disturbed'
    BY <1>2, PlaceOfStep DEF Fits, Lists, Step
  <2>1. CASE k = m
    <3>1. /\ listed[k] \in Seq(StepSets) /\ listed'[k] = Append(listed[k], Named(l))
          /\ Len(listed[k]) = index
      BY <1>0, <2>1 DEF TypeOK, Placed, Current
    <3>2. /\ Len(listed'[k]) = index + 1 /\ listed'[k][index + 1] = Named(l)
          /\ \A n \in 1 .. index : listed'[k][n] = listed[k][n]
      BY <1>0, <3>1, AppendProperties
    <3>3. index + 1 <= Steps
      BY <1>2, <3>2 DEF Fits
    <3>4. Fits(k) /\ index \in 0 .. Steps - 1
      BY <1>0, <2>0, <3>1, <3>3, Sizes DEF Fits
    <3>5. code[k * Steps + j] = IF j < index THEN Bits(listed[k][j + 1]) ELSE {}
      BY <3>1, <3>4 DEF Placed, ListsHeld, Holds
    <3>6. Place = k * Steps + index /\ Place \in Words
      BY <2>1, <3>4, PlaceOfStep DEF Place
    <3>7. code' = [code EXCEPT ![Place] = Bits(Named(l))]
      BY <1>0, <3>6 DEF Step
    <3>8. CASE j = index
      <4>1. code'[k * Steps + j] = Bits(Named(l))
        BY <1>0, <3>6, <3>7, <3>8 DEF TypeOK
      <4>2. QED BY <1>0, <3>2, <3>8, <4>1
    <3>9. CASE j # index
      <4>1. k * Steps + j # Place
        BY <2>0, <3>4, <3>6, <3>9, PlacesApart
      <4>2. code'[k * Steps + j] = code[k * Steps + j]
        BY <1>0, <2>0, <3>7, <4>1 DEF TypeOK
      <4>3. j < index <=> j < index + 1
        BY <1>0, <3>9
      <4>4. j < index => j + 1 \in 1 .. index
        BY <1>0
      <4>5. QED BY <3>2, <3>5, <4>2, <4>3, <4>4
    <3>10. QED BY <3>8, <3>9
  <2>2. CASE k # m
    <3>1. listed'[k] = listed[k]
      BY <1>0, <2>2 DEF TypeOK
    <3>2. Fits(k)
      BY <1>2, <2>0, <3>1 DEF Fits
    <3>3. code[k * Steps + j] = IF j < Len(listed[k]) THEN Bits(listed[k][j + 1]) ELSE {}
      BY <3>2 DEF Placed, ListsHeld, Holds
    <3>4. k * Steps + j # Place
      <4> SUFFICES ASSUME k * Steps + j = Place PROVE FALSE
        OBVIOUS
      <4>1. CASE index < Steps
        <5>1. index \in 0 .. Steps - 1
          BY <1>0, <4>1, Sizes
        <5>2. k * Steps + j = m * Steps + index
          BY DEF Place
        <5>3. k = m
          BY <1>0, <2>0, <5>1, <5>2, PlacesApart
        <5>4. QED BY <2>2, <5>3
      <4>2. CASE ~(index < Steps)
        <5>1. Place \div Steps = k
          BY <2>0, ListOfPlace
        <5>2. Place \div Steps \in disturbed'
          BY <4>2 DEF Step
        <5>3. QED BY <2>0, <5>1, <5>2
      <4>3. QED BY <4>1, <4>2
    <3>5. code'[k * Steps + j] = code[k * Steps + j]
      BY <1>0, <2>0, <3>4 DEF TypeOK, Step
    <3>6. QED BY <3>1, <3>3, <3>5
  <2>3. QED BY <2>1, <2>2
<1>3. Current'
  <2>1. ASSUME m \in Lists PROVE Len(listed'[m]) = index + 1
    BY <1>0, <2>1, AppendProperties DEF TypeOK, Placed, Current
  <2>2. QED BY <1>0, <2>1 DEF Current, List
<1>4. Emitted'
  BY DEF Step, Emitted, Takes, Parsing
<1>5. ListsHeld'
  BY <1>2 DEF ListsHeld, Holds
<1>6. QED BY <1>1, <1>3, <1>4, <1>5 DEF Placed

LEMMA NextPlaced == Placed /\ [Next]_vars => Placed'
<1> SUFFICES ASSUME Placed, [Next]_vars PROVE Placed'
  OBVIOUS
<1>1. ASSUME NEW l \in Tokens, InstructionLabel(l) PROVE Placed'
  <2>1. PICK i \in DOMAIN I_NAMES : Begin(i - 1, FALSE)
    BY <1>1 DEF InstructionLabel
  <2>2. i - 1 \in Nat
    BY MicrocodeAssumption, LenProperties
  <2>3. Parsing
    BY <1>1 DEF InstructionLabel, Takes
  <2>4. QED BY <2>1, <2>2, <2>3, BeginPlaced
<1>2. ASSUME NEW l \in Tokens, SideLabel(l) PROVE Placed'
  <2>1. Begin(instruction, l[2] = "reg") /\ Parsing /\ instruction \in Nat
        /\ (l[2] = "reg") \in BOOLEAN
    BY <1>2 DEF SideLabel, Takes, Placed, TypeOK
  <2> DEFINE r == l[2] = "reg"
  <2> HIDE DEF r
  <2>2. Begin(instruction, r) /\ r \in BOOLEAN
    BY <2>1 DEF r
  <2>3. QED BY <2>1, <2>2, BeginPlaced
<1>3. ASSUME NEW l \in Tokens, ExpandMacro(l) PROVE Placed'
  BY <1>3 DEF ExpandMacro, Parsing, Placed, TypeOK, ListsHeld, Holds, Fits, Current,
              Emitted, Contents, Ends
<1>4. ASSUME NEW l \in Tokens, Step(l) PROVE Placed'
  BY <1>4, StepPlaced
<1>5. ASSUME NEW l \in Tokens, RejectLine(l) PROVE Placed'
  BY <1>5 DEF RejectLine, Parsing, Placed, TypeOK, ListsHeld, Holds, Fits, Current,
              Emitted
<1>6. ASSUME microcode_emit PROVE Placed'
  <2>1. UNCHANGED <<code, instruction, reg, index, listed, disturbed>>
        /\ (phase' = "done" => out' = Contents)
    BY <1>6 DEF microcode_emit
  <2>2. Contents' = Contents
    BY <2>1 DEF Contents, Ends
  <2>3. Emitted'
    BY <2>1, <2>2 DEF Emitted
  <2>4. QED BY <2>1, <2>3 DEF Placed, TypeOK, ListsHeld, Holds, Fits, Current
<1>7. ASSUME UNCHANGED vars PROVE Placed'
  BY <1>7 DEF vars, Placed, TypeOK, ListsHeld, Holds, Fits, Current, Emitted,
              Contents, Ends
<1>8. QED BY <1>1, <1>2, <1>3, <1>4, <1>5, <1>6, <1>7 DEF Next

THEOREM ListsPlaced == Spec => []Placed
BY InitPlaced, NextPlaced, PTL DEF Spec
-----------------------------------------------------------------------------
(* What is emitted, and how the circuit reads it.                          *)
LEMMA WordIsCode ==
  ASSUME Placed, phase = "done", NEW k \in Lists, NEW j \in 0 .. Steps - 1
  PROVE  Word(k, j) = code[k * Steps + j]
                        \cup {b \in {14} : Ends(k * Steps + j)}
<1> DEFINE n == k * Steps + j
           marked(p) == code[p] \cup (IF Ends(p) THEN {14} ELSE {})
           w == marked(n)
           last == 4 * I_COUNT * Steps - 1
<1>1. n \in Words /\ out = Contents /\ code[n] \subseteq 0 .. 15
  BY PlaceOfStep DEF Placed, Emitted, TypeOK
<1>2. n \in Nat /\ 2 * n \in 0 .. last /\ 2 * n + 1 \in 0 .. last
  <2> DEFINE r == I_COUNT * Steps
  <2>1. r \in Nat
    BY Sizes
  <2>2. Words = 0 .. 2 * r - 1 /\ last = 4 * r - 1
    BY Sizes DEF Words
  <2> HIDE DEF r, n, last
  <2>3. QED BY <1>1, <2>1, <2>2
<1>3. w \subseteq 0 .. 15
  BY <1>1
<1>4. 2 * (Steps * k + j) = 2 * n
  <2>1. k \in Nat
    BY DEF Lists
  <2>2. Steps * k = k * Steps
    BY <2>1, Sizes
  <2>3. QED BY <2>2
<1> DEFINE byte(b) == Bytes(marked(b \div 2))[(b % 2) + 1]
<1>5. \A b \in 0 .. last : out[b] = byte(b)
  BY <1>1 DEF Contents
<1>6. byte(2 * n) = Bytes(w)[1] /\ byte(2 * n + 1) = Bytes(w)[2]
  <2> HIDE DEF n, marked
  <2>1. (2 * n) \div 2 = n /\ (2 * n) % 2 = 0
        /\ (2 * n + 1) \div 2 = n /\ (2 * n + 1) % 2 = 1
    BY <1>2
  <2>2. QED BY <2>1
<1> HIDE DEF n, byte, last, marked
<1>7. out[2 * n] = Bytes(w)[1] /\ out[2 * n + 1] = Bytes(w)[2]
  BY <1>2, <1>5, <1>6
<1>8. Bytes(w)[1] = w \cap (0 .. 7) /\ Bytes(w)[2] = {b - 8 : b \in w \cap (8 .. 15)}
  BY DEF Bytes
<1> HIDE DEF w
<1>9. Word(k, j) = out[2 * n] \cup {b + 8 : b \in out[2 * n + 1]}
  BY <1>4 DEF Word
<1>10. ASSUME NEW b
       PROVE  b \in Word(k, j) <=> b \in w
  <2>1. b \in Word(k, j) <=> \/ b \in w \cap (0 .. 7)
                            \/ \E c \in w \cap (8 .. 15) : b = (c - 8) + 8
    BY <1>7, <1>8, <1>9
  <2>2. \A c \in 8 .. 15 : (c - 8) + 8 = c
    OBVIOUS
  <2>3. b \in Word(k, j) <=> b \in w \cap (0 .. 7) \/ b \in w \cap (8 .. 15)
    BY <2>1, <2>2
  <2>4. b \in 0 .. 15 => b \in 0 .. 7 \/ b \in 8 .. 15
    OBVIOUS
  <2>5. QED BY <1>3, <2>3, <2>4
<1>11. Word(k, j) = w
  BY <1>10
<1>12. QED BY <1>11 DEF w, n, marked

(* The last step of a clear list, and what is behind it, clears the        *)
(* counter; no other does.                                                 *)
LEMMA WordOfStep ==
  ASSUME Placed, phase = "done", NEW k \in Lists, Clear(k),
         NEW j \in 0 .. Steps - 1
  PROVE  Word(k, j) =
           (IF j < Len(listed[k]) THEN Bits(listed[k][j + 1]) ELSE {})
             \cup {b \in {14} : j + 1 >= Len(listed[k])}
<1> DEFINE s == listed[k]
           n == k * Steps + j
<1>1. /\ s \in Seq(StepSets) /\ Len(s) \in Nat /\ Len(s) <= Steps
      /\ k \in Nat /\ j \in Nat /\ n \in Nat
      /\ \A i \in 1 .. Len(s) : s[i] \in StepSets /\ s[i] # {}
  <2>1. s \in Seq(StepSets) /\ Len(s) <= Steps
    BY DEF Clear, Placed, TypeOK
  <2>2. Len(s) \in Nat /\ DOMAIN s = 1 .. Len(s)
    BY <2>1, LenProperties
  <2>3. \A i \in 1 .. Len(s) : s[i] \in StepSets
    BY <2>1, ElementOfSeq
  <2>4. \A i \in 1 .. Len(s) : s[i] # {}
    BY <2>2 DEF Clear
  <2>5. k \in Nat /\ j \in Nat /\ n \in Nat
    BY Sizes DEF Lists
  <2>6. QED BY <2>1, <2>2, <2>3, <2>4, <2>5
<1>2. \A i \in 0 .. Steps - 1 :
        code[k * Steps + i] = IF i < Len(s) THEN Bits(s[i + 1]) ELSE {}
  BY DEF Clear, Placed, ListsHeld, Holds, Fits
<1>3. Ends(n) <=> j + 1 >= Len(s)
  <2>1. n % Steps = j
    BY <1>1, ListOfPlace
  <2>2. CASE j = Steps - 1
    BY <1>1, <2>1, <2>2, Sizes DEF Ends
  <2>3. CASE j # Steps - 1
    <3>1. j + 1 \in 0 .. Steps - 1 /\ n + 1 = k * Steps + (j + 1)
      BY <1>1, <2>3, Sizes
    <3>2. Ends(n) <=> code[k * Steps + (j + 1)] = {}
      BY <2>1, <2>3, <3>1 DEF Ends
    <3>3. CASE j + 1 < Len(s)
      <4>1. j + 2 \in 1 .. Len(s) /\ j + 2 = (j + 1) + 1
        BY <1>1, <3>3
      <4>2. code[k * Steps + (j + 1)] = Bits(s[j + 2])
        BY <1>2, <3>1, <3>3, <4>1
      <4>3. s[j + 2] \in StepSets /\ s[j + 2] # {}
        BY <1>1, <4>1
      <4>4. Bits(s[j + 2]) # {}
        BY <4>3, BitsOfStep
      <4>5. QED BY <1>1, <3>2, <3>3, <4>2, <4>4
    <3>4. CASE ~(j + 1 < Len(s))
      BY <1>1, <1>2, <3>1, <3>2, <3>4
    <3>5. QED BY <3>3, <3>4
  <2>4. QED BY <2>2, <2>3
<1>4. Word(k, j) = code[n] \cup {b \in {14} : Ends(n)}
  BY WordIsCode
<1>5. QED BY <1>2, <1>3, <1>4

LEMMA ClearIsRun ==
  ASSUME Placed, phase = "done", NEW k \in Lists, Clear(k)
  PROVE  Runs(k) = Written(k)
<1> DEFINE s == listed[k]
           end == IF Len(s) = 0 THEN 0 ELSE Len(s) - 1
           clears == {j \in 0 .. Steps - 1 : 14 \in Word(k, j)}
           stop == CHOOSE j \in clears : \A n \in clears : j <= n
           step(j) == IF j < Len(s) THEN s[j + 1] ELSE {}
           mark(j) == {b \in {14} : j + 1 >= Len(s)}
<1>1. /\ s \in Seq(StepSets) /\ Len(s) \in Nat /\ Len(s) <= Steps
      /\ \A i \in 1 .. Len(s) : s[i] \in StepSets
      /\ \A i \in 1 .. Len(s) - 1 : "cc" \notin s[i]
  BY LenProperties, ElementOfSeq DEF Clear, Placed, TypeOK
<1>2. end \in 0 .. Steps - 1
  BY <1>1, Sizes
<1>3. ASSUME NEW j \in 0 .. Steps - 1
      PROVE  /\ step(j) \in StepSets
             /\ Word(k, j) = Bits(step(j)) \cup mark(j)
             /\ 14 \in Word(k, j) <=> j + 1 >= Len(s)
  <2>1. {} \in StepSets /\ Bits({}) = {}
    BY DEF StepSets, Bits
  <2>2. step(j) \in StepSets
    <3>1. j < Len(s) => j + 1 \in 1 .. Len(s)
      BY <1>1
    <3>2. QED BY <1>1, <2>1, <3>1
  <2>3. Word(k, j) = Bits(step(j)) \cup mark(j)
    BY <2>1, WordOfStep
  <2>4. 14 \in Bits(step(j)) => j + 1 >= Len(s)
    <3> SUFFICES ASSUME ~(j + 1 >= Len(s)) PROVE "cc" \notin step(j)
      BY <2>2, BitsOfStep
    <3>1. j + 1 \in 1 .. Len(s) - 1 /\ j < Len(s)
      BY <1>1
    <3>2. QED BY <1>1, <3>1
  <2> HIDE DEF step
  <2>5. QED BY <2>2, <2>3, <2>4
<1>4. /\ end \in clears /\ \A n \in clears : end <= n
  BY <1>1, <1>2, <1>3
<1>5. stop = end
  <2>1. clears \subseteq Nat
    BY Sizes
  <2> HIDE DEF clears, end
  <2>2. \E j \in clears : \A n \in clears : j <= n
    BY <1>4
  <2>3. stop \in clears /\ \A n \in clears : stop <= n
    BY <2>2
  <2> HIDE DEF stop
  <2>4. QED BY <1>4, <2>1, <2>3
<1>6. Runs(k) = [j \in 1 .. stop + 1 |-> Driven(Word(k, j - 1))]
  BY DEF Runs
<1> HIDE DEF stop, clears
<1>7. Runs(k) = [j \in 1 .. end + 1 |-> Driven(Word(k, j - 1))]
  BY <1>5, <1>6
<1>8. ASSUME NEW j \in 0 .. end
      PROVE  Driven(Word(k, j)) = step(j) \cup {o \in {"cc"} : j = end}
  <2>1. j \in 0 .. Steps - 1 /\ (j + 1 >= Len(s) <=> j = end)
    BY <1>1, <1>2, Sizes
  <2>2. mark(j) \in SUBSET {14} /\ (14 \in mark(j) <=> j = end)
    BY <2>1
  <2> HIDE DEF mark, step, end
  <2>3. Driven(Bits(step(j)) \cup mark(j)) = step(j) \cup {o \in {"cc"} : 14 \in mark(j)}
    BY <1>3, <2>1, <2>2, DrivenAreNamed
  <2>4. QED BY <1>3, <2>1, <2>2, <2>3
<1>9. CASE s = << >>
  <2>1. end = 0 /\ step(0) = {} /\ Len(s) = 0
    BY <1>9
  <2>2. Driven(Word(k, 0)) = {"cc"}
    BY <1>8, <2>1
  <2>3. Runs(k) = [j \in 1 .. 1 |-> {"cc"}]
    BY <1>7, <2>1, <2>2
  <2>4. Written(k) = << {"cc"} >>
    BY <1>9 DEF Written
  <2>5. QED BY <2>3, <2>4
<1>10. CASE s # << >>
  <2>1. Len(s) > 0 /\ end = Len(s) - 1 /\ Len(s) \in 1 .. Len(s)
    BY <1>1, <1>10, EmptySeq
  <2>2. Runs(k) = [j \in 1 .. Len(s) |-> Driven(Word(k, j - 1))]
    BY <1>1, <1>7, <2>1
  <2>3. Written(k) = [s EXCEPT ![Len(s)] = @ \cup {"cc"}]
    BY <1>10 DEF Written
  <2>4. ASSUME NEW j \in 1 .. Len(s)
        PROVE  Driven(Word(k, j - 1)) = IF j = Len(s) THEN s[j] \cup {"cc"} ELSE s[j]
    <3>1. /\ j - 1 \in 0 .. end /\ step(j - 1) = s[j]
          /\ j - 1 = end <=> j = Len(s)
      BY <1>1, <2>1
    <3> HIDE DEF step, end
    <3>2. QED BY <1>8, <3>1
  <2>5. DOMAIN s = 1 .. Len(s) /\ s = [j \in 1 .. Len(s) |-> s[j]]
    BY <1>1, LenProperties
  <2>6. [s EXCEPT ![Len(s)] = @ \cup {"cc"}]
          = [j \in 1 .. Len(s) |-> IF j = Len(s) THEN s[j] \cup {"cc"} ELSE s[j]]
    BY <2>1, <2>5
  <2>7. QED BY <2>2, <2>3, <2>4, <2>6
<1>11. QED BY <1>9, <1>10

(* The microcode ROM runs every list that nothing has disturbed, that has  *)
(* room for its steps and whose steps do something, step by step and with  *)
(* the lines its steps name and no other, and ends with its last step:     *)
(* where microcode_emit() marks the end of a list, and which of two lines  *)
(* a shared bit means, agree with what was parsed.                         *)
THEOREM RomIsRight == Spec => []RomRunsLists
<1>1. Placed => RomRunsLists
  BY ClearIsRun DEF RomRunsLists
<1>2. QED BY <1>1, ListsPlaced, PTL
=============================================================================
