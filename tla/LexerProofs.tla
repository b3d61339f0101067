----------------------------- MODULE LexerProofs -----------------------------
(***************************************************************************)
(* Proofs about the lexer and the parse loop, for all programs, files and  *)
(* words: indices stay within what they index, every word of every input   *)
(* is read once, and conditionals without an @else select nothing.         *)
(***************************************************************************)
EXTENDS Lexer, SequenceTheorems, WellFoundedInduction, TLAPS

IfRecord == [size : 0 .. MaxIfs, buffer : Nat, top : 0 .. 3]
-----------------------------------------------------------------------------
(* What the invariant says beyond TypeOK.                                  *)
Shape ==
  /\ inputs # << >> /\ chain \in Seq(Nat) /\ emitted \in Seq(Nat)
  /\ ifs \in IfRecord /\ elsed \in BOOLEAN
  /\ Lexing => input # 0
  /\ input # 0 => current \in 1 .. Len(Text) + 1
  /\ \A i \in DOMAIN inputs : inputs[i].current <= Len(inputs[i].text) + 1
  /\ \A t \in DOMAIN tokens : tokens[t].input <= Len(inputs)

(* As long as no @else wrote into a token, tokens have the kinds of their  *)
(* words.                                                                  *)
KindsKept == ~elsed => \A p \in DOMAIN chain : Kind(chain[p]) = WordKind(Word(chain[p]))

(* The parser is at the start of a line and has assembled the code before. *)
AtLineStart == next = 1 \/ Word(chain[next - 1]) = EOL
EmittedBefore ==
  /\ {emitted[i] : i \in DOMAIN emitted} = {p \in CodeLines : p < next}
  /\ \A i \in 2 .. Len(emitted) : emitted[i - 1] < emitted[i]
Parsed ==
  /\ Lexing => next = 1 /\ emitted = << >>
  /\ outcome \in {"parsing", "done"} /\ ~elsed => AtLineStart /\ EmittedBefore
  /\ outcome = "done" => next = Len(chain) + 1

IInv == TypeOK /\ Shape /\ EachWordOnce /\ KindsKept /\ Parsed
-----------------------------------------------------------------------------
(* The least and the greatest of a set of numbers.                         *)
LEMMA HasLeast ==
  ASSUME NEW S, S \subseteq Nat, S # {}
  PROVE  \E x \in S : \A y \in S : x <= y
<1>1. PICK x \in S : \A y \in S : ~ (<<y, x>> \in OpToRel(<, Nat))
  BY NatLessThanWellFounded, WFMin
<1>2. \A y \in S : y \in Nat /\ x \in Nat /\ ~ (y < x)
  BY <1>1 DEF OpToRel
<1>3. QED BY <1>2

LEMMA MinIsLeast ==
  ASSUME NEW S, S \subseteq Nat, S # {}
  PROVE  Min(S) \in S /\ \A y \in S : Min(S) <= y
BY HasLeast DEF Min

LEMMA MaxIsGreatest ==
  ASSUME NEW n \in Nat, NEW S, S \subseteq 0 .. n, S # {}
  PROVE  Max(S) \in S /\ \A y \in S : Max(S) >= y
<1> DEFINE T == {n - x : x \in S}
<1>1. T \subseteq Nat /\ T # {}
  <2>1. \A x \in S : n - x \in Nat
    OBVIOUS
  <2>2. QED BY <2>1
<1>2. PICK m \in T : \A y \in T : m <= y
  BY <1>1, HasLeast
<1>3. PICK x \in S : m = n - x
  BY <1>2
<1>4. \A y \in S : n - y \in T /\ x \in Int /\ y \in Int
  OBVIOUS
<1>5. \A y \in S : x >= y
  BY <1>2, <1>3, <1>4
<1>6. QED BY <1>5 DEF Max

LEMMA MaxIs ==
  ASSUME NEW n \in Nat, NEW S, S \subseteq 0 .. n, n \in S
  PROVE  Max(S) = n
<1>1. Max(S) \in S /\ Max(S) >= n
  BY MaxIsGreatest
<1>2. Max(S) \in 0 .. n
  BY <1>1
<1>3. QED BY <1>1, <1>2
-----------------------------------------------------------------------------
(* Words and tokens.                                                       *)
LEMMA WordKinds ==
  /\ \A w : WordKind(w) \in {1, 2, 3, 4, 7}
  /\ \A w : WordKind(w) = TK_EOL <=> w = EOL
  /\ \A w : WordKind(w) = TK_AT <=> w = AT
<1>1. AT # EOL
  BY DEF AT, EOL
<1>2. QED
  BY <1>1, ConstantsAssumption
  DEF WordKind, TK_AT, TK_EOL, TK_STRING, TK_NUMBER, TK_SYMBOL

LEMMA Specials == EOL \in Words /\ AT \in Words /\ TF_IGNORE = 1 /\ IgnoreFlag = 2
<1>1. 2 ^ 1 = 2
  OBVIOUS
<1>2. QED BY <1>1 DEF Words, AT, EOL, TF_IGNORE, IgnoreFlag

LEMMA KindsAreBytes ==
  \A k \in {0, 1, 2, 3, 4, 7} : KindBytes(k) \in [1 .. 4 -> 0 .. 7]
<1> SUFFICES ASSUME NEW k \in {0, 1, 2, 3, 4, 7}
             PROVE  KindBytes(k) \in [1 .. 4 -> 0 .. 7]
  OBVIOUS
<1>1. k \in 0 .. 7
  OBVIOUS
<1>2. QED BY <1>1 DEF KindBytes

LEMMA NewTokenIs ==
  ASSUME NEW w \in Words, input \in Nat, current \in Nat
  PROVE  /\ NewToken(w) \in Token
         /\ NewToken(w).word = w /\ NewToken(w).input = input /\ NewToken(w).at = current
         /\ NewToken(w).kind = KindBytes(WordKind(w))
<1>1. KindBytes(WordKind(w)) \in [1 .. 4 -> 0 .. 7]
  BY WordKinds, KindsAreBytes
<1>2. QED BY <1>1 DEF NewToken, Token

(* Only bit 1 of the flags is ever set, and bit 0 is tested.               *)
LEMMA NothingIgnored ==
  ASSUME tokens \in Seq(Token), NEW t \in DOMAIN tokens
  PROVE  ~Ignored(t)
<1>1. tokens[t].flags \in {0, 2}
  <2>1. tokens[t] \in Token
    BY LenProperties, ElementOfSeq
  <2>2. QED BY <2>1, Specials DEF Token
<1>2. 0 \div 1 = 0 /\ 2 \div 1 = 2 /\ 0 % 2 = 0 /\ 2 % 2 = 0
  OBVIOUS
<1>3. QED BY <1>1, <1>2, Specials DEF Ignored
-----------------------------------------------------------------------------
(* Lines of the chain.                                                     *)
LEMMA LineIs ==
  ASSUME TypeOK, Shape
  PROVE  /\ LineStart \in 1 .. Len(chain) + 1
         /\ Line \in Seq(DOMAIN tokens)
         /\ Line # << >> => Kind(chain[Len(chain)]) # TK_EOL
<1> DEFINE ends == {i \in DOMAIN chain : Kind(chain[i]) = TK_EOL}
<1>1. chain \in Seq(Nat) /\ Len(chain) \in Nat /\ DOMAIN chain = 1 .. Len(chain)
  BY DEF Shape
<1>2. {0} \cup ends \subseteq 0 .. Len(chain)
  BY <1>1
<1>3. Max({0} \cup ends) \in {0} \cup ends /\ \A y \in ends : Max({0} \cup ends) >= y
  BY <1>1, <1>2, MaxIsGreatest
<1>4. LineStart \in 1 .. Len(chain) + 1
  <2>1. Max({0} \cup ends) \in 0 .. Len(chain)
    BY <1>2, <1>3
  <2>2. QED BY <1>1, <2>1 DEF LineStart
<1>5. \A i \in LineStart .. Len(chain) : chain[i] \in DOMAIN tokens
  <2>1. \A i \in DOMAIN chain : chain[i] \in DOMAIN tokens
    BY DEF TypeOK
  <2>2. \A i \in LineStart .. Len(chain) : i \in DOMAIN chain
    BY <1>1, <1>4
  <2>3. QED BY <2>1, <2>2
<1>6. /\ Line \in Seq(DOMAIN tokens)
      /\ Len(Line) = IF LineStart <= Len(chain) THEN Len(chain) - LineStart + 1 ELSE 0
  BY <1>1, <1>4, <1>5, SubSeqProperties DEF Line
<1>7. ASSUME Line # << >> PROVE Kind(chain[Len(chain)]) # TK_EOL
  <2>1. LineStart <= Len(chain)
    BY <1>6, <1>7, <1>1, <1>4, EmptySeq
  <2>2. SUFFICES ASSUME Len(chain) \in ends PROVE FALSE
    BY <1>1, <1>4, <2>1
  <2>3. Max({0} \cup ends) >= Len(chain)
    BY <1>3, <2>2
  <2>4. QED BY <1>1, <1>2, <1>3, <2>1, <2>3 DEF LineStart
<1>8. QED BY <1>4, <1>6, <1>7

LEMMA LineEnds ==
  ASSUME chain' \in Seq(Nat), chain' # << >>, Kind(chain[Len(chain)])' = TK_EOL
  PROVE  Line' = << >>
<1> DEFINE ends == {i \in DOMAIN chain' : Kind(chain[i])' = TK_EOL}
<1>1. Len(chain') \in Nat /\ Len(chain') > 0 /\ DOMAIN chain' = 1 .. Len(chain')
  BY EmptySeq
<1>2. Max({0} \cup ends) = Len(chain')
  <2>1. {0} \cup ends \subseteq 0 .. Len(chain') /\ Len(chain') \in {0} \cup ends
    BY <1>1
  <2> HIDE DEF ends
  <2>2. QED BY <1>1, <2>1, MaxIs
<1>3. LineStart' = 1 + Len(chain')
  BY <1>2 DEF LineStart
<1>4. QED BY <1>1, <1>3, SubSeqEmpty DEF Line
-----------------------------------------------------------------------------
(* What the actions of the lexer have in common. A word is read: its token *)
(* is the next in the arena, the others keep all but their kinds, and what *)
(* else is allocated is no token.                                          *)
Grown ==
  LET n == Len(tokens) + 1 IN
  /\ tokens' \in Seq(Token) /\ n \in DOMAIN tokens' /\ tokens'[n] = NewToken(Here)
  /\ \A t \in DOMAIN tokens :
       /\ tokens'[t].word = tokens[t].word /\ tokens'[t].input = tokens[t].input
       /\ tokens'[t].at = tokens[t].at
  /\ \A t \in DOMAIN tokens' : t > n => tokens'[t].input = 0

Linked == chain' = chain \/ chain' = Append(chain, Len(tokens) + 1)

Advanced == inputs' = inputs /\ input' = input /\ current' = current + 1
Pushed == \E name \in {"(define)"} \cup FileNames, text \in Seq(Words) :
            push_input(name, text, current + 1)

KindsSame == \A t \in DOMAIN tokens : tokens'[t].kind = tokens[t].kind

Lexes ==
  /\ InText /\ Grown /\ Linked
  /\ Advanced \/ Pushed
  /\ ifs' \in IfRecord /\ ifs'.buffer <= Len(tokens')
  /\ ifs'.size > 0 /\ ifs'.buffer = Ahead => Line' = << >>
  /\ defines' \in Seq([name : Words, value : Seq(Words)])
  /\ elsed' \in BOOLEAN /\ (~elsed' => ~elsed /\ KindsSame)
  /\ UNCHANGED parseVars
  /\ outcome' \in {"lexing", "error", "crash"}

LEMMA HereIsWord ==
  ASSUME TypeOK, Shape, InText
  PROVE  /\ input \in DOMAIN inputs /\ inputs[input] \in Input
         /\ Text \in Seq(Words) /\ current \in 1 .. Len(Text) /\ Here \in Words
         /\ NewToken(Here) \in Token
         /\ NewToken(Here).word = Here /\ NewToken(Here).input = input
         /\ NewToken(Here).at = current
         /\ NewToken(Here).kind = KindBytes(WordKind(Here))
<1>1. inputs \in Seq(Input) /\ input \in 0 .. Len(inputs) /\ input # 0
  BY DEF TypeOK, InText
<1>2. input \in DOMAIN inputs /\ inputs[input] \in Input
  BY <1>1, LenProperties, ElementOfSeq
<1>3. Text \in Seq(Words)
  BY <1>2 DEF Text, Input
<1>4. current \in 1 .. Len(Text)
  BY <1>3, LenProperties DEF InText, Shape
<1>5. Here \in Words
  BY <1>3, <1>4, ElementOfSeq DEF Here
<1>6. QED BY <1>1, <1>2, <1>3, <1>4, <1>5, NewTokenIs

LEMMA KindIs ==
  ASSUME NEW t, NEW k \in Nat
  PROVE  /\ tokens[t].kind = KindBytes(k) => Kind(t) = k
         /\ tokens'[t].kind = KindBytes(k) => Kind(t)' = k
BY DEF Kind, KindBytes

LEMMA ChainKeeps ==
  ASSUME TypeOK, Shape, Grown, Linked
  PROVE  /\ chain' \in Seq(Nat) /\ Len(chain) <= Len(chain')
         /\ \A i \in DOMAIN chain' : chain'[i] \in DOMAIN tokens'
         /\ \A i \in 2 .. Len(chain') : chain'[i - 1] < chain'[i]
<1>1. /\ chain \in Seq(Nat) /\ Len(chain) \in Nat /\ DOMAIN chain = 1 .. Len(chain)
      /\ \A i \in 1 .. Len(chain) : chain[i] \in 1 .. Len(tokens)
      /\ \A i \in 2 .. Len(chain) : chain[i - 1] < chain[i]
      /\ Len(tokens) \in Nat
  <2>1. tokens \in Seq(Token) /\ \A i \in DOMAIN chain : chain[i] \in DOMAIN tokens
    BY DEF TypeOK
  <2>2. \A i \in 2 .. Len(chain) : chain[i - 1] < chain[i]
    BY DEF TypeOK
  <2>3. QED BY <2>1, <2>2, LenProperties DEF Shape
<1>2. 1 .. Len(tokens) + 1 \subseteq DOMAIN tokens'
  BY <1>1, LenProperties DEF Grown
<1>3. CASE chain' = chain
  BY <1>1, <1>2, <1>3
<1>4. CASE chain' = Append(chain, Len(tokens) + 1)
  <2>1. /\ chain' \in Seq(Nat) /\ Len(chain') = Len(chain) + 1
        /\ \A i \in 1 .. Len(chain) : chain'[i] = chain[i]
        /\ chain'[Len(chain) + 1] = Len(tokens) + 1
    BY <1>1, <1>4, AppendProperties
  <2>2. DOMAIN chain' = 1 .. Len(chain) + 1
    BY <2>1, LenProperties
  <2>3. ASSUME NEW i \in DOMAIN chain' PROVE chain'[i] \in 1 .. Len(tokens) + 1
    <3>1. i \in 1 .. Len(chain) \/ i = Len(chain) + 1
      BY <1>1, <2>2
    <3>2. QED BY <1>1, <2>1, <3>1
  <2>4. ASSUME NEW i \in 2 .. Len(chain') PROVE chain'[i - 1] < chain'[i]
    <3>1. i - 1 \in 1 .. Len(chain) /\ i \in 2 .. Len(chain) + 1
      BY <1>1, <2>1
    <3>2. chain'[i - 1] = chain[i - 1]
      BY <2>1, <3>1
    <3>3. CASE i \in 2 .. Len(chain)
      BY <1>1, <2>1, <3>2, <3>3
    <3>4. CASE i = Len(chain) + 1
      BY <1>1, <2>1, <3>1, <3>2, <3>4
    <3>5. QED BY <1>1, <2>1, <3>3, <3>4
  <2>5. QED BY <1>1, <1>2, <2>1, <2>3, <2>4
<1>5. QED BY <1>3, <1>4 DEF Linked
-----------------------------------------------------------------------------
(* The inputs.                                                             *)
InputsRight(ins, i) ==
  /\ ins \in Seq(Input) /\ ins # << >>
  /\ i \in 0 .. Len(ins)
  /\ \A k \in DOMAIN ins : ins[k].parent < k
  /\ \A k \in DOMAIN ins : ins[k].current <= Len(ins[k].text) + 1

LEMMA InputsAre == TypeOK /\ Shape => InputsRight(inputs, input)
BY DEF TypeOK, Shape, InputsRight

LEMMA AnInput ==
  ASSUME NEW ins, NEW i, InputsRight(ins, i), NEW k \in DOMAIN ins
  PROVE  /\ k \in 1 .. Len(ins) /\ Len(ins) \in Nat
         /\ ins[k] \in Input /\ ins[k].text \in Seq(Words) /\ Len(ins[k].text) \in Nat
         /\ ins[k].current \in 1 .. Len(ins[k].text) + 1
         /\ ins[k].parent \in 0 .. k - 1
<1>1. ins \in Seq(Input) /\ Len(ins) \in Nat /\ k \in 1 .. Len(ins)
  BY LenProperties DEF InputsRight
<1>2. ins[k] \in Input
  BY <1>1, ElementOfSeq
<1>3. /\ ins[k].text \in Seq(Words) /\ ins[k].current \in Nat \ {0}
      /\ ins[k].parent \in Nat
  BY <1>2 DEF Input
<1>4. ins[k].parent < k /\ ins[k].current <= Len(ins[k].text) + 1
  BY DEF InputsRight
<1>5. Len(ins[k].text) \in Nat
  BY <1>3, LenProperties
<1>6. QED BY <1>1, <1>2, <1>3, <1>4, <1>5

(* What push_input leaves. *)
LEMMA PushedInputs ==
  ASSUME TypeOK, Shape, InText,
         NEW name \in {"(define)"} \cup FileNames, NEW text \in Seq(Words),
         push_input(name, text, current + 1)
  PROVE  LET n == Len(inputs) + 1 IN
         /\ InputsRight(inputs', input') /\ input' = n /\ current' = 1
         /\ DOMAIN inputs' = DOMAIN inputs \cup {n} /\ n \notin DOMAIN inputs
         /\ Len(inputs') = n
         /\ inputs'[n].parent = input /\ inputs'[n].text = text
         /\ inputs'[input].current = current + 1
         /\ \A k \in DOMAIN inputs :
              /\ inputs'[k].parent = inputs[k].parent /\ inputs'[k].text = inputs[k].text
              /\ k # input => inputs'[k].current = inputs[k].current
<1> DEFINE n == Len(inputs) + 1
           saved == [inputs[input] EXCEPT !.current = current + 1]
           left == [inputs EXCEPT ![input] = saved]
           new == [name |-> name, text |-> text, current |-> 1, parent |-> input]
<1>1. /\ InputsRight(inputs, input) /\ inputs \in Seq(Input) /\ Len(inputs) \in Nat
      /\ DOMAIN inputs = 1 .. Len(inputs) /\ input \in 1 .. Len(inputs)
      /\ inputs[input] \in Input
  BY InputsAre, HereIsWord, LenProperties DEF InputsRight
<1>2. inputs[input].text \in Seq(Words) /\ current \in 1 .. Len(inputs[input].text)
  BY HereIsWord DEF Text
<1>3. /\ saved \in Input /\ saved.current = current + 1
      /\ saved.text = inputs[input].text /\ saved.parent = inputs[input].parent
  <2>1. Len(inputs[input].text) \in Nat
    BY <1>2, LenProperties
  <2>2. current + 1 \in Nat \ {0}
    BY <1>2, <2>1
  <2>3. QED BY <1>1, <2>2 DEF Input
<1>4. new \in Input
  BY <1>1 DEF Input
<1> HIDE DEF saved, new
<1>5. /\ left \in Seq(Input) /\ Len(left) = Len(inputs)
      /\ \A k \in 1 .. Len(inputs) : left[k] = IF k = input THEN saved ELSE inputs[k]
  BY <1>1, <1>3, ExceptSeq
<1>6. inputs' = Append(left, new) /\ input' = n /\ current' = 1
  BY DEF push_input, saved, new
<1> HIDE DEF left
<1>7. /\ inputs' \in Seq(Input) /\ Len(inputs') = n
      /\ \A k \in 1 .. Len(inputs) : inputs'[k] = left[k]
      /\ inputs'[n] = new
  BY <1>1, <1>4, <1>5, <1>6, AppendProperties
<1>8. DOMAIN inputs' = 1 .. n
  BY <1>7, LenProperties
<1>9. new.parent = input /\ new.text = text /\ new.current = 1 /\ Len(text) \in Nat
  BY LenProperties DEF new
<1>10. ASSUME NEW k \in DOMAIN inputs
       PROVE  /\ inputs'[k].parent = inputs[k].parent /\ inputs'[k].text = inputs[k].text
              /\ k # input => inputs'[k].current = inputs[k].current
  BY <1>1, <1>3, <1>5, <1>7
<1>11. inputs'[input].current = current + 1
  BY <1>1, <1>3, <1>5, <1>7
<1>12. ASSUME NEW k \in DOMAIN inputs'
       PROVE  inputs'[k].parent < k /\ inputs'[k].current <= Len(inputs'[k].text) + 1
  <2>1. CASE k = n
    BY <1>1, <1>7, <1>9, <2>1
  <2>2. CASE k \in DOMAIN inputs
    <3>1. inputs[k].parent < k /\ inputs[k].current <= Len(inputs[k].text) + 1
      BY <1>1, <2>2 DEF InputsRight
    <3>2. current + 1 <= Len(inputs[input].text) + 1
      BY <1>2, LenProperties
    <3>3. QED BY <1>10, <1>11, <2>2, <3>1, <3>2
  <2>3. QED BY <1>1, <1>8, <2>1, <2>2
<1>13. InputsRight(inputs', input') /\ inputs' # << >>
  <2>1. inputs' # << >> /\ input' \in 0 .. Len(inputs')
    BY <1>1, <1>6, <1>7, EmptySeq
  <2>2. QED BY <1>7, <1>12, <2>1 DEF InputsRight
<1>14. QED BY <1>1, <1>6, <1>7, <1>8, <1>9, <1>10, <1>11, <1>13
-----------------------------------------------------------------------------
(* Which inputs wait: a push adds the new one, the end of an input takes   *)
(* it away.                                                                *)
Upward(ins, i, s) == i \in s /\ \A j \in s \ {0} : ins[j].parent \in s

LEMMA PendingIs ==
  ASSUME NEW ins, NEW i
  PROVE  Pending(ins, i) =
           {k \in DOMAIN ins : \A s \in SUBSET (0 .. Len(ins)) : Upward(ins, i, s) => k \in s}
BY DEF Pending, Upward

LEMMA PendingOfPush ==
  ASSUME NEW ins, NEW i, InputsRight(ins, i),
         NEW new, NEW n, InputsRight(new, n), n = Len(ins) + 1, Len(new) = n,
         DOMAIN new = DOMAIN ins \cup {n},
         new[n].parent = i, \A k \in DOMAIN ins : new[k].parent = ins[k].parent,
         NEW k \in DOMAIN ins
  PROVE  k \in Pending(new, n) <=> k \in Pending(ins, i)
<1>1. /\ Len(ins) \in Nat /\ DOMAIN ins = 1 .. Len(ins) /\ k # n
      /\ i \in 0 .. Len(ins)
      /\ \A j \in DOMAIN ins : ins[j].parent \in 0 .. j - 1
  <2>1. Len(ins) \in Nat /\ DOMAIN ins = 1 .. Len(ins) /\ i \in 0 .. Len(ins)
    BY LenProperties DEF InputsRight
  <2>2. \A j \in DOMAIN ins : ins[j].parent \in 0 .. j - 1
    BY AnInput
  <2>3. QED BY <2>1, <2>2
<1>2. ASSUME k \in Pending(ins, i), NEW s \in SUBSET (0 .. n), Upward(new, n, s)
      PROVE  k \in s
  <2> DEFINE t == s \cap (0 .. Len(ins))
  <2>1. i \in s
    BY <1>1, <1>2 DEF Upward
  <2>2. ASSUME NEW j \in t \ {0} PROVE ins[j].parent \in t
    <3>1. j \in DOMAIN ins /\ j \in s \ {0}
      BY <1>1
    <3>2. new[j].parent \in s /\ ins[j].parent \in 0 .. Len(ins)
      BY <1>1, <1>2, <3>1 DEF Upward
    <3>3. QED BY <3>1, <3>2
  <2>3. Upward(ins, i, t) /\ t \in SUBSET (0 .. Len(ins))
    BY <1>1, <2>1, <2>2 DEF Upward
  <2>4. QED BY <1>2, <2>3, PendingIs
<1>3. ASSUME k \in Pending(new, n), NEW s \in SUBSET (0 .. Len(ins)), Upward(ins, i, s)
      PROVE  k \in s
  <2> DEFINE t == s \cup {n}
  <2>1. ASSUME NEW j \in t \ {0} PROVE new[j].parent \in t
    <3>1. CASE j = n
      BY <1>3, <3>1 DEF Upward
    <3>2. CASE j # n
      <4>1. j \in DOMAIN ins /\ j \in s \ {0}
        BY <1>1, <3>2
      <4>2. QED BY <1>3, <4>1 DEF Upward
    <3>3. QED BY <3>1, <3>2
  <2>2. n \in t /\ t \in SUBSET (0 .. Len(new))
    <3>1. n \in 0 .. n /\ 0 .. Len(ins) \subseteq 0 .. n
      BY <1>1
    <3>2. QED BY <1>3, <3>1
  <2> HIDE DEF t
  <2>3. Upward(new, n, t)
    BY <2>1, <2>2 DEF Upward
  <2>4. k \in t
    BY <1>3, <2>2, <2>3, PendingIs
  <2>5. QED BY <1>1, <2>4 DEF t
<1>4. QED BY <1>2, <1>3, PendingIs

LEMMA PendingOfPop ==
  ASSUME NEW ins, NEW i \in DOMAIN ins, InputsRight(ins, i)
  PROVE  Pending(ins, ins[i].parent) = Pending(ins, i) \ {i}
<1> DEFINE p == ins[i].parent
<1>1. /\ Len(ins) \in Nat /\ DOMAIN ins = 1 .. Len(ins) /\ i \in 1 .. Len(ins)
      /\ \A j \in DOMAIN ins : ins[j].parent \in 0 .. j - 1
  BY AnInput, LenProperties DEF InputsRight
<1>2. ASSUME NEW k \in Pending(ins, p) PROVE k \in Pending(ins, i) /\ k # i
  <2>1. Upward(ins, p, 0 .. i - 1) /\ 0 .. i - 1 \in SUBSET (0 .. Len(ins))
    BY <1>1 DEF Upward
  <2>2. k \in 0 .. i - 1
    BY <1>2, <2>1, PendingIs
  <2>3. ASSUME NEW s \in SUBSET (0 .. Len(ins)), Upward(ins, i, s) PROVE k \in s
    <3>1. Upward(ins, p, s)
      BY <1>1, <2>3 DEF Upward
    <3>2. QED BY <1>2, <3>1, PendingIs
  <2>4. QED BY <1>1, <1>2, <2>2, <2>3, PendingIs
<1>3. ASSUME NEW k \in Pending(ins, i), k # i PROVE k \in Pending(ins, p)
  <2>1. ASSUME NEW s \in SUBSET (0 .. Len(ins)), Upward(ins, p, s) PROVE k \in s
    <3> DEFINE t == s \cup {i}
    <3>1. t \in SUBSET (0 .. Len(ins))
      <4>1. i \in 0 .. Len(ins)
        BY <1>1
      <4>2. QED BY <2>1, <4>1
    <3>2. ASSUME NEW j \in t \ {0} PROVE ins[j].parent \in t
      <4>1. j = i \/ j \in s \ {0}
        OBVIOUS
      <4>2. QED BY <2>1, <4>1 DEF Upward
    <3>3. Upward(ins, i, t)
      BY <3>2 DEF Upward
    <3>4. k \in t
      BY <1>3, <3>1, <3>3, PendingIs
    <3>5. QED BY <1>3, <3>4
  <2>2. QED BY <1>3, <2>1, PendingIs
<1>4. QED BY <1>2, <1>3
-----------------------------------------------------------------------------
(* Words are read once: the words 1 to r of an input with the given text.  *)
Own(ts, i) == {t \in DOMAIN ts : ts[t].input = i}
AllRead(ts, i, r, text) ==
  /\ \A k \in 1 .. r : \E t \in Own(ts, i) : ts[t].at = k
  /\ \A t \in Own(ts, i) : ts[t].at \in 1 .. r /\ ts[t].word = text[ts[t].at]
  /\ \A t, u \in Own(ts, i) : t < u => ts[t].at < ts[u].at

LEMMA EachWordOnceIs ==
  /\ EachWordOnce <=> \A i \in DOMAIN inputs : AllRead(tokens, i, Reached(i), inputs[i].text)
  /\ EachWordOnce' <=>
       \A i \in DOMAIN inputs' : AllRead(tokens', i, Reached(i)', inputs'[i].text)
BY DEF EachWordOnce, AllRead, Own

LEMMA ReadOfOwn ==
  ASSUME TypeOK, Shape, EachWordOnce, InText, Grown, NEW i \in DOMAIN inputs
  PROVE  AllRead(tokens', i, IF i = input THEN current ELSE Reached(i), inputs[i].text)
<1> DEFINE n == Len(tokens) + 1
<1>1. AllRead(tokens, i, Reached(i), inputs[i].text)
  BY EachWordOnceIs
<1>2. /\ Len(tokens) \in Nat /\ DOMAIN tokens = 1 .. Len(tokens)
      /\ i \in 1 .. Len(inputs) /\ Len(inputs) \in Nat
      /\ Len(tokens') \in Nat /\ DOMAIN tokens' = 1 .. Len(tokens')
      /\ n \in DOMAIN tokens'
  <2>1. tokens \in Seq(Token) /\ tokens' \in Seq(Token)
    BY DEF TypeOK, Grown
  <2>2. inputs \in Seq(Input)
    BY DEF TypeOK
  <2>3. n \in DOMAIN tokens'
    BY DEF Grown
  <2>4. QED BY <2>1, <2>2, <2>3, LenProperties
<1>3. /\ tokens'[n].input = input /\ tokens'[n].at = current /\ tokens'[n].word = Here
      /\ current \in Nat /\ current >= 1
  BY HereIsWord, LenProperties DEF Grown
<1>4. \A t \in DOMAIN tokens :
        /\ tokens'[t].word = tokens[t].word /\ tokens'[t].input = tokens[t].input
        /\ tokens'[t].at = tokens[t].at
  BY DEF Grown
<1>5. ASSUME NEW t \in Own(tokens', i) PROVE t \in Own(tokens, i) \/ t = n
  <2>1. t \in 1 .. Len(tokens') /\ tokens'[t].input = i
    BY <1>2 DEF Own
  <2>2. ~ (t > n)
    BY <1>2, <2>1 DEF Grown
  <2>3. CASE t \in DOMAIN tokens
    BY <1>4, <2>1, <2>3 DEF Own
  <2>4. QED BY <1>2, <2>1, <2>2, <2>3
<1>6. Own(tokens, i) \subseteq Own(tokens', i)
  <2>1. DOMAIN tokens \subseteq DOMAIN tokens'
    BY <1>2
  <2>2. QED BY <1>4, <2>1 DEF Own
<1>7. CASE i # input
  <2>1. Own(tokens', i) = Own(tokens, i)
    <3>1. n \notin Own(tokens', i)
      BY <1>3, <1>7 DEF Own
    <3>2. QED BY <1>5, <1>6, <3>1
  <2>2. Own(tokens, i) \subseteq DOMAIN tokens
    BY DEF Own
  <2>3. AllRead(tokens', i, Reached(i), inputs[i].text)
    BY <1>1, <1>4, <2>1, <2>2 DEF AllRead
  <2>4. QED BY <1>7, <2>3
<1>8. CASE i = input
  <2>1. Own(tokens', i) = Own(tokens, i) \cup {n}
    <3>1. n \in Own(tokens', i)
      BY <1>2, <1>3, <1>8 DEF Own
    <3>2. QED BY <1>5, <1>6, <3>1
  <2>2. Reached(i) = current - 1 /\ Own(tokens, i) \subseteq 1 .. Len(tokens)
    BY <1>2, <1>8 DEF Reached, Own
  <2>3. ASSUME NEW k \in 1 .. current PROVE \E t \in Own(tokens', i) : tokens'[t].at = k
    <3>1. CASE k = current
      BY <1>3, <2>1, <3>1
    <3>2. CASE k \in 1 .. current - 1
      <4>1. PICK t \in Own(tokens, i) : tokens[t].at = k
        BY <1>1, <2>2, <3>2 DEF AllRead
      <4>2. QED BY <1>2, <1>4, <2>1, <2>2, <4>1
    <3>3. QED BY <1>3, <3>1, <3>2
  <2>4. ASSUME NEW t \in Own(tokens, i)
        PROVE  /\ tokens'[t].at \in 1 .. current - 1
               /\ tokens'[t].word = inputs[i].text[tokens'[t].at]
    <3>1. tokens'[t].at = tokens[t].at /\ tokens'[t].word = tokens[t].word
      BY <1>2, <1>4, <2>2
    <3>2. QED BY <1>1, <2>2, <3>1 DEF AllRead
  <2>5. /\ tokens'[n].at \in 1 .. current
        /\ tokens'[n].word = inputs[i].text[tokens'[n].at]
    BY <1>3, <1>8 DEF Here, Text
  <2>6. ASSUME NEW t \in Own(tokens', i), NEW u \in Own(tokens', i), t < u
        PROVE  tokens'[t].at < tokens'[u].at
    <3>1. CASE t \in Own(tokens, i) /\ u \in Own(tokens, i)
      <4>1. tokens'[t].at = tokens[t].at /\ tokens'[u].at = tokens[u].at
        BY <1>2, <1>4, <2>2, <3>1
      <4>2. QED BY <1>1, <2>6, <3>1, <4>1 DEF AllRead
    <3>2. CASE t \in Own(tokens, i) /\ u = n
      <4>1. tokens'[t].at \in 1 .. current - 1
        BY <2>4, <3>2
      <4>2. QED BY <1>3, <3>2, <4>1
    <3>3. CASE t = n
      BY <1>2, <2>1, <2>2, <2>6, <3>3
    <3>4. QED BY <2>1, <3>1, <3>2, <3>3
  <2>7. \A t \in Own(tokens', i) : /\ tokens'[t].at \in 1 .. current
                                   /\ tokens'[t].word = inputs[i].text[tokens'[t].at]
    <3>1. 1 .. current - 1 \subseteq 1 .. current
      BY <1>3
    <3>2. QED BY <2>1, <2>4, <2>5, <3>1
  <2>8. AllRead(tokens', i, current, inputs[i].text)
    BY <2>3, <2>6, <2>7 DEF AllRead
  <2>9. QED BY <1>8, <2>8
<1>9. QED BY <1>7, <1>8

LEMMA ReadOfNew ==
  ASSUME TypeOK, Shape, InText, Grown, NEW text
  PROVE  AllRead(tokens', Len(inputs) + 1, 0, text)
<1>1. /\ tokens \in Seq(Token) /\ tokens' \in Seq(Token)
      /\ input \in 0 .. Len(inputs) /\ Len(inputs) \in Nat
      /\ Len(tokens) + 1 \in DOMAIN tokens'
  BY LenProperties DEF TypeOK, Grown
<1>2. \A t \in DOMAIN tokens : tokens[t].input <= Len(inputs)
  BY DEF Shape
<1>3. ASSUME NEW t \in DOMAIN tokens' PROVE tokens'[t].input # Len(inputs) + 1
  <2>1. CASE t \in DOMAIN tokens
    <3>1. tokens'[t].input = tokens[t].input
      BY <2>1 DEF Grown
    <3>2. tokens[t] \in Token
      BY <1>1, <2>1, ElementOfSeq, LenProperties
    <3>3. tokens[t].input \in Nat
      BY <3>2 DEF Token
    <3>4. QED BY <1>1, <1>2, <2>1, <3>1, <3>3
  <2>2. CASE t = Len(tokens) + 1
    <3>1. tokens'[t].input = input
      BY <2>2, HereIsWord DEF Grown
    <3>2. QED BY <1>1, <3>1
  <2>3. CASE t > Len(tokens) + 1
    <3>1. tokens'[t].input = 0
      BY <2>3 DEF Grown
    <3>2. QED BY <1>1, <3>1
  <2>4. t \in 1 .. Len(tokens') /\ Len(tokens) \in Nat /\ DOMAIN tokens = 1 .. Len(tokens)
    BY <1>1, LenProperties
  <2>5. QED BY <2>1, <2>2, <2>3, <2>4
<1>4. Own(tokens', Len(inputs) + 1) = {}
  BY <1>3 DEF Own
<1>5. 1 .. 0 = {}
  OBVIOUS
<1>6. QED BY <1>4, <1>5 DEF AllRead

LEMMA WordsWhileLexing ==
  ASSUME TypeOK, Shape, EachWordOnce, Lexes
  PROVE  EachWordOnce'
<1>1. InText /\ Grown /\ (Advanced \/ Pushed)
  BY DEF Lexes
<1>2. /\ input \in DOMAIN inputs /\ InputsRight(inputs, input)
      /\ current \in Nat /\ Len(inputs) \in Nat
  <2>1. current \in 1 .. Len(Text) /\ inputs \in Seq(Input)
    BY <1>1, HereIsWord DEF TypeOK
  <2>2. QED BY <1>1, <2>1, HereIsWord, InputsAre, LenProperties
<1>3. CASE Advanced
  <2>1. inputs' = inputs /\ input' = input /\ current' = current + 1
    BY <1>3 DEF Advanced
  <2>2. ASSUME NEW i \in DOMAIN inputs
        PROVE  Reached(i)' = IF i = input THEN current ELSE Reached(i)
    BY <1>2, <2>1 DEF Reached, Waiting, Pending
  <2>3. \A i \in DOMAIN inputs' : AllRead(tokens', i, Reached(i)', inputs'[i].text)
    BY <1>1, <2>1, <2>2, ReadOfOwn
  <2>4. QED BY <2>3, EachWordOnceIs
<1>4. CASE Pushed
  <2> DEFINE n == Len(inputs) + 1
  <2>1. PICK name \in {"(define)"} \cup FileNames, text \in Seq(Words) :
          push_input(name, text, current + 1)
    BY <1>4 DEF Pushed
  <2>2. /\ InputsRight(inputs', input') /\ input' = n /\ current' = 1
        /\ DOMAIN inputs' = DOMAIN inputs \cup {n} /\ n \notin DOMAIN inputs
        /\ Len(inputs') = n
        /\ inputs'[n].parent = input
        /\ inputs'[input].current = current + 1
        /\ \A k \in DOMAIN inputs :
              /\ inputs'[k].parent = inputs[k].parent /\ inputs'[k].text = inputs[k].text
              /\ k # input => inputs'[k].current = inputs[k].current
    BY <1>1, <2>1, PushedInputs
  <2>3. ASSUME NEW i \in DOMAIN inputs
        PROVE  Reached(i)' = IF i = input THEN current ELSE Reached(i)
    <3>1. i \in Waiting' <=> i \in Waiting
      BY <1>2, <2>2, PendingOfPush DEF Waiting
    <3>2. i # input' /\ i \in DOMAIN inputs'
      BY <2>2
    <3>3. Reached(i)' = IF i \in Waiting' THEN inputs'[i].current - 1 ELSE Len(inputs'[i].text)
      BY <3>2 DEF Reached
    <3>4. CASE i = input
      <4>1. i \in Waiting
        BY <3>4, PendingIs DEF Waiting, Upward
      <4>2. QED BY <1>2, <2>2, <3>1, <3>3, <3>4, <4>1
    <3>5. CASE i # input
      BY <2>2, <3>1, <3>3, <3>5 DEF Reached
    <3>6. QED BY <3>4, <3>5
  <2>4. ASSUME NEW i, i = n PROVE Reached(i)' = 0
    <3>1. i = input' /\ current' = 1
      BY <2>2, <2>4
    <3>2. QED BY <3>1 DEF Reached
  <2>5. ASSUME NEW i \in DOMAIN inputs' PROVE AllRead(tokens', i, Reached(i)', inputs'[i].text)
    <3>1. CASE i \in DOMAIN inputs
      <4>1. AllRead(tokens', i, IF i = input THEN current ELSE Reached(i), inputs[i].text)
        BY <1>1, <3>1, ReadOfOwn
      <4>2. inputs'[i].text = inputs[i].text
        BY <2>2, <3>1
      <4>3. Reached(i)' = IF i = input THEN current ELSE Reached(i)
        BY <2>3, <3>1
      <4>4. QED BY <4>1, <4>2, <4>3
    <3>2. CASE i = n
      <4>1. AllRead(tokens', i, 0, inputs'[i].text)
        BY <1>1, <3>2, ReadOfNew
      <4>2. QED BY <2>4, <3>2, <4>1
    <3>3. QED BY <2>2, <3>1, <3>2
  <2>6. QED BY <2>5, EachWordOnceIs
<1>5. QED BY <1>1, <1>3, <1>4

LEMMA WordsAtEndOfInput ==
  ASSUME TypeOK, Shape, EachWordOnce, PopInput
  PROVE  EachWordOnce'
<1>1. /\ input # 0 /\ current > Len(Text) /\ inputs' = inputs /\ tokens' = tokens
      /\ input' = inputs[input].parent
      /\ current' = IF input' = 0 THEN 0 ELSE inputs[input'].current
  BY DEF PopInput
<1>2. /\ InputsRight(inputs, input) /\ input \in DOMAIN inputs
      /\ Len(inputs) \in Nat /\ DOMAIN inputs = 1 .. Len(inputs)
  <2>1. inputs \in Seq(Input) /\ input \in 0 .. Len(inputs)
    BY DEF TypeOK
  <2>2. QED BY <1>1, <2>1, InputsAre, LenProperties
<1>3. /\ inputs[input].parent \in 0 .. input - 1 /\ input \in 1 .. Len(inputs)
      /\ inputs[input].text \in Seq(Words)
  BY <1>2, AnInput
<1>4. current = Len(inputs[input].text) + 1
  <2>1. current \in 1 .. Len(Text) + 1 /\ Len(Text) \in Nat
    BY <1>1, <1>3, LenProperties DEF Shape, Text
  <2>2. QED BY <1>1, <2>1 DEF Text
<1>5. Waiting' = Waiting \ {input}
  BY <1>1, <1>2, PendingOfPop DEF Waiting
<1>6. ASSUME NEW i \in DOMAIN inputs PROVE Reached(i)' = Reached(i)
  <2>1. CASE i = input
    <3>1. i # input' /\ i \notin Waiting'
      BY <1>1, <1>3, <1>5, <2>1
    <3>2. Reached(i)' = Len(inputs[input].text)
      BY <1>1, <2>1, <3>1 DEF Reached
    <3>3. Reached(i) = current - 1 /\ Len(inputs[input].text) \in Nat
      BY <1>3, <2>1, LenProperties DEF Reached
    <3>4. QED BY <1>4, <3>2, <3>3
  <2>2. CASE i = input' /\ i # input
    <3>1. i \in Waiting' /\ i # 0
      BY <1>1, <1>2, <2>2, PendingIs DEF Waiting, Upward
    <3>2. i \in Waiting
      BY <1>5, <3>1
    <3>3. QED BY <1>1, <2>2, <3>1, <3>2 DEF Reached
  <2>3. CASE i # input' /\ i # input
    <3>1. i \in Waiting' <=> i \in Waiting
      BY <1>5, <2>3
    <3>2. QED BY <1>1, <2>3, <3>1 DEF Reached
  <2>4. QED BY <2>1, <2>2, <2>3
<1>7. \A i \in DOMAIN inputs' : AllRead(tokens', i, Reached(i)', inputs'[i].text)
  BY <1>1, <1>6, EachWordOnceIs
<1>8. QED BY <1>7, EachWordOnceIs
-----------------------------------------------------------------------------
(* The rest of the invariant while the lexer runs.                         *)
LEMMA InputsWhileLexing ==
  ASSUME TypeOK, Shape, Lexes
  PROVE  /\ InputsRight(inputs', input') /\ input' # 0
         /\ current' \in 1 .. Len(inputs'[input'].text) + 1
         /\ Len(inputs') >= Len(inputs)
<1>1. /\ InText /\ (Advanced \/ Pushed) /\ InputsRight(inputs, input) /\ input # 0
      /\ Text \in Seq(Words) /\ current \in 1 .. Len(Text) /\ Len(Text) \in Nat
      /\ Len(inputs) \in Nat
  <2>1. InText /\ (Advanced \/ Pushed) /\ inputs \in Seq(Input)
    BY DEF Lexes, TypeOK
  <2>2. QED BY <2>1, HereIsWord, InputsAre, LenProperties DEF InText
<1>2. CASE Advanced
  BY <1>1, <1>2 DEF Advanced, Text
<1>3. CASE Pushed
  <2>1. PICK name \in {"(define)"} \cup FileNames, text \in Seq(Words) :
          push_input(name, text, current + 1)
    BY <1>3 DEF Pushed
  <2>2. /\ InputsRight(inputs', input') /\ input' = Len(inputs) + 1 /\ current' = 1
        /\ Len(inputs') = Len(inputs) + 1 /\ inputs'[Len(inputs) + 1].text = text
    BY <1>1, <2>1, PushedInputs
  <2>3. Len(text) \in Nat
    BY LenProperties
  <2>4. QED BY <1>1, <2>2, <2>3
<1>4. QED BY <1>1, <1>2, <1>3

LEMMA TokensWhileLexing ==
  ASSUME TypeOK, Shape, Lexes
  PROVE  \A t \in DOMAIN tokens' : tokens'[t].input <= Len(inputs')
<1>1. /\ tokens \in Seq(Token) /\ tokens' \in Seq(Token) /\ input \in 0 .. Len(inputs)
      /\ inputs \in Seq(Input)
      /\ \A t \in DOMAIN tokens : tokens[t].input <= Len(inputs)
  BY DEF TypeOK, Shape, Lexes, Grown
<1>2. /\ Len(inputs) \in Nat /\ Len(inputs') >= Len(inputs) /\ Len(inputs') \in Nat
      /\ DOMAIN tokens = 1 .. Len(tokens) /\ DOMAIN tokens' = 1 .. Len(tokens')
      /\ Len(tokens) \in Nat /\ Len(tokens') \in Nat
  <2>1. inputs' \in Seq(Input)
    BY InputsWhileLexing DEF InputsRight
  <2>2. QED BY <1>1, <2>1, InputsWhileLexing, LenProperties
<1>3. ASSUME NEW t \in DOMAIN tokens' PROVE tokens'[t].input <= Len(inputs')
  <2>1. CASE t \in DOMAIN tokens
    <3>1. tokens[t] \in Token /\ tokens'[t].input = tokens[t].input
      BY <1>1, <2>1, ElementOfSeq, LenProperties DEF Lexes, Grown
    <3>2. tokens[t].input \in Nat /\ tokens[t].input <= Len(inputs)
      BY <1>1, <2>1, <3>1 DEF Token
    <3>3. QED BY <1>2, <3>1, <3>2
  <2>2. CASE t = Len(tokens) + 1
    <3>1. tokens'[t].input = input
      BY <2>2, HereIsWord DEF Lexes, Grown
    <3>2. QED BY <1>1, <1>2, <3>1
  <2>3. CASE t > Len(tokens) + 1
    <3>1. tokens'[t].input = 0
      BY <2>3 DEF Lexes, Grown
    <3>2. QED BY <1>2, <3>1
  <2>4. QED BY <1>2, <2>1, <2>2, <2>3
<1>4. QED BY <1>3

LEMMA KindsWhileLexing ==
  ASSUME TypeOK, Shape, KindsKept, Lexes
  PROVE  KindsKept'
<1> SUFFICES ASSUME ~elsed', NEW p \in DOMAIN chain'
             PROVE  Kind(chain[p])' = WordKind(Word(chain[p]))'
  BY DEF KindsKept
<1>1. /\ ~elsed /\ KindsSame /\ Grown /\ Linked /\ InText
      /\ chain \in Seq(Nat) /\ Len(chain) \in Nat /\ DOMAIN chain = 1 .. Len(chain)
      /\ \A i \in DOMAIN chain : chain[i] \in DOMAIN tokens
  <2>1. \A i \in DOMAIN chain : chain[i] \in DOMAIN tokens
    BY DEF TypeOK
  <2>2. QED BY <2>1, LenProperties DEF Lexes, Shape
<1>2. CASE p \in DOMAIN chain
  <2>1. chain'[p] = chain[p]
    <3>1. chain' = Append(chain, Len(tokens) + 1) => chain'[p] = chain[p]
      <4>1. Len(tokens) \in Nat
        BY LenProperties DEF TypeOK
      <4>2. QED BY <1>1, <1>2, <4>1, AppendProperties
    <3>2. QED BY <1>1, <3>1 DEF Linked
  <2>2. /\ tokens'[chain[p]].kind = tokens[chain[p]].kind
        /\ tokens'[chain[p]].word = tokens[chain[p]].word
    BY <1>1, <1>2 DEF KindsSame, Grown
  <2>3. Kind(chain[p]) = WordKind(Word(chain[p]))
    BY <1>1, <1>2 DEF KindsKept
  <2>4. QED BY <2>1, <2>2, <2>3 DEF Kind, Word, WordKind
<1>3. CASE p \notin DOMAIN chain
  <2>1. chain' = Append(chain, Len(tokens) + 1) /\ Len(tokens) \in Nat
    BY <1>1, <1>3, LenProperties DEF Linked, TypeOK
  <2>2. /\ chain' \in Seq(Nat) /\ Len(chain') = Len(chain) + 1
        /\ chain'[Len(chain) + 1] = Len(tokens) + 1
    BY <1>1, <2>1, AppendProperties
  <2>3. p = Len(chain) + 1
    BY <1>1, <1>3, <2>2, LenProperties
  <2>4. /\ tokens'[chain'[p]].kind = KindBytes(WordKind(Here))
        /\ tokens'[chain'[p]].word = Here
    BY <1>1, <2>2, <2>3, HereIsWord DEF Grown
  <2>5. WordKind(Here) \in Nat
    <3>1. WordKind(Here) \in {1, 2, 3, 4, 7}
      BY WordKinds
    <3>2. QED BY <3>1
  <2>6. Kind(chain[p])' = WordKind(Here)
    BY <2>4, <2>5 DEF Kind, KindBytes
  <2>7. QED BY <2>4, <2>6 DEF Word, WordKind
<1>4. QED BY <1>2, <1>3

LEMMA LexesKeeps == ASSUME IInv, Lexes PROVE IInv'
<1>1. /\ TypeOK /\ Shape /\ EachWordOnce /\ KindsKept /\ Parsed /\ InText
      /\ Grown /\ Linked /\ UNCHANGED parseVars
      /\ outcome' \in {"lexing", "error", "crash"}
  BY DEF IInv, Lexes
<1>2. /\ chain' \in Seq(Nat) /\ Len(chain) <= Len(chain')
      /\ \A i \in DOMAIN chain' : chain'[i] \in DOMAIN tokens'
      /\ \A i \in 2 .. Len(chain') : chain'[i - 1] < chain'[i]
  BY <1>1, ChainKeeps
<1>3. /\ InputsRight(inputs', input') /\ input' # 0
      /\ current' \in 1 .. Len(inputs'[input'].text) + 1
  BY <1>1, InputsWhileLexing
<1>4. /\ outcome = "lexing" /\ next = 1 /\ emitted = << >> /\ next' = 1 /\ emitted' = << >>
  BY <1>1 DEF InText, Lexing, Parsed, parseVars
<1>5. /\ ifs' \in IfRecord /\ ifs'.buffer <= Len(tokens') /\ tokens' \in Seq(Token)
      /\ ifs'.size > 0 /\ ifs'.buffer = Ahead => Line' = << >>
  BY <1>1 DEF Lexes, Grown
<1>6. TypeOK'
  <2>1. /\ inputs' \in Seq(Input) /\ input' \in 0 .. Len(inputs')
        /\ \A i \in DOMAIN inputs' : inputs'[i].parent < i
    BY <1>3 DEF InputsRight
  <2>2. current' \in Nat
    BY <1>3
  <2>3. ifs'.size \in 0 .. MaxIfs /\ ifs'.buffer \in 0 .. Len(tokens')
    BY <1>5, LenProperties DEF IfRecord
  <2>4. next' \in 1 .. Len(chain') + 1
    BY <1>2, <1>4, LenProperties
  <2>5. defines' \in Seq([name : Words, value : Seq(Words)])
    BY DEF Lexes
  <2>6. QED BY <1>1, <1>2, <1>5, <2>1, <2>2, <2>3, <2>4, <2>5 DEF TypeOK
<1>7. Shape'
  <2>1. inputs' # << >> /\ \A i \in DOMAIN inputs' : inputs'[i].current <= Len(inputs'[i].text) + 1
    BY <1>3 DEF InputsRight
  <2>2. emitted' \in Seq(Nat)
    BY <1>4
  <2>3. elsed' \in BOOLEAN
    BY DEF Lexes
  <2>4. \A t \in DOMAIN tokens' : tokens'[t].input <= Len(inputs')
    BY <1>1, TokensWhileLexing
  <2>5. QED BY <1>2, <1>3, <1>5, <2>1, <2>2, <2>3, <2>4 DEF Shape, Text
<1>8. EachWordOnce' /\ KindsKept'
  BY <1>1, WordsWhileLexing, KindsWhileLexing
<1>9. Parsed'
  BY <1>1, <1>4 DEF Parsed, Lexing
<1>10. QED BY <1>6, <1>7, <1>8, <1>9 DEF IInv
-----------------------------------------------------------------------------
(* Each action of the lexer is such a step.                                *)
Defines == Seq([name : Words, value : Seq(Words)])

LEMMA OneMoreToken ==
  ASSUME TypeOK, Shape, InText, tokens' = Append(tokens, NewToken(Here))
  PROVE  /\ Grown /\ KindsSame
         /\ Len(tokens') = Len(tokens) + 1 /\ Len(tokens) \in Nat
<1>1. tokens \in Seq(Token) /\ NewToken(Here) \in Token
  BY HereIsWord DEF TypeOK
<1>2. /\ tokens' \in Seq(Token) /\ Len(tokens') = Len(tokens) + 1
      /\ \A t \in 1 .. Len(tokens) : tokens'[t] = tokens[t]
      /\ tokens'[Len(tokens) + 1] = NewToken(Here)
  BY <1>1, AppendProperties
<1>3. /\ Len(tokens) \in Nat /\ DOMAIN tokens = 1 .. Len(tokens)
      /\ DOMAIN tokens' = 1 .. Len(tokens) + 1
  BY <1>1, <1>2, LenProperties
<1>4. QED BY <1>2, <1>3 DEF Grown, KindsSame

LEMMA AllocatedToken ==
  ASSUME TypeOK, Shape, InText, Allocate(Here)
  PROVE  /\ Grown /\ KindsSame
         /\ ifs' \in IfRecord /\ ifs'.buffer <= Len(tokens')
         /\ ~ (ifs'.size > 0 /\ ifs'.buffer = Ahead)
<1>1. /\ tokens' = Append(tokens, NewToken(Here))
      /\ ifs' = IF ifs.size > 0 /\ ifs.buffer = Ahead
                THEN [ifs EXCEPT !.buffer = Len(tokens) + 1] ELSE ifs
      /\ ifs \in IfRecord /\ ifs.buffer \in 0 .. Len(tokens)
  BY DEF Allocate, Shape, TypeOK
<1>2. /\ Grown /\ KindsSame
      /\ Len(tokens') = Len(tokens) + 1 /\ Len(tokens) \in Nat
  BY <1>1, OneMoreToken
<1>3. CASE ifs.size > 0 /\ ifs.buffer = Ahead
  <2>1. ifs' = [size |-> ifs.size, buffer |-> Len(tokens) + 1, top |-> ifs.top]
    BY <1>1, <1>3 DEF IfRecord
  <2>2. QED BY <1>1, <1>2, <2>1 DEF IfRecord, Ahead
<1>4. CASE ~ (ifs.size > 0 /\ ifs.buffer = Ahead)
  BY <1>1, <1>2, <1>4 DEF Ahead
<1>5. QED BY <1>2, <1>3, <1>4

(* A word or the end of a line that changes nothing but the stream.        *)
LEMMA PlainLexes ==
  ASSUME TypeOK, Shape, InText, lex_push(Here), Advanced,
         UNCHANGED <<defines, elsed, parseVars>>,
         outcome' \in {"lexing", "error", "crash"}
  PROVE  Lexes
<1>1. /\ Grown /\ KindsSame
      /\ ifs' \in IfRecord /\ ifs'.buffer <= Len(tokens')
      /\ ~ (ifs'.size > 0 /\ ifs'.buffer = Ahead)
  BY AllocatedToken DEF lex_push
<1>2. Linked
  BY DEF lex_push, Linked
<1>3. defines' \in Defines /\ elsed' \in BOOLEAN
  BY DEF Defines, TypeOK, Shape
<1>4. QED BY <1>1, <1>2, <1>3 DEF Lexes, Defines

LEMMA LexWordLexes == ASSUME IInv, LexWord PROVE Lexes
BY PlainLexes DEF LexWord, IInv, Advanced, InText, Lexing

LEMMA LexLineLexes == ASSUME IInv, LexLine PROVE Lexes
<1>1. /\ TypeOK /\ Shape /\ InText /\ Advanced /\ Here = EOL
      /\ UNCHANGED <<defines, elsed, parseVars>>
  BY DEF LexLine, EndLine, IInv, Advanced
<1>2. lex_push(Here)
  BY <1>1 DEF LexLine, EndLine
<1>3. outcome' \in {"lexing", "error", "crash"}
  BY <1>1 DEF LexLine, InText, Lexing
<1>4. QED BY <1>1, <1>2, <1>3, PlainLexes

LEMMA StopLexes ==
  ASSUME TypeOK, Shape, InText, Here = EOL, NEW how \in {"error", "crash"}, Stop(how)
  PROVE  Lexes
<1>1. lex_push(Here) /\ Advanced /\ outcome' = how /\ UNCHANGED <<defines, elsed, parseVars>>
  BY DEF Stop, Advanced
<1>2. QED BY <1>1, PlainLexes

LEMMA LexDefinedLexes == ASSUME IInv, LexDefined PROVE Lexes
<1>1. /\ TypeOK /\ Shape /\ InText /\ Allocate(Here)
      /\ push_input("(define)", Newest(Here).value, current + 1)
      /\ UNCHANGED <<chain, defines, elsed, parseVars, outcome>>
      /\ Defined(Here)
  BY DEF LexDefined, IInv, Expands
<1>2. Newest(Here).value \in Seq(Words)
  <2> DEFINE S == {i \in DOMAIN defines : defines[i].name = Here}
  <2>1. /\ defines \in Defines /\ DOMAIN defines = 1 .. Len(defines) /\ Len(defines) \in Nat
        /\ S # {}
    <3>1. defines \in Defines
      BY <1>1 DEF TypeOK, Defines
    <3>2. QED BY <1>1, <3>1, LenProperties DEF Defines, Defined
  <2>2. Min(S) \in S
    <3>1. S \subseteq Nat
      BY <2>1
    <3>2. QED BY <2>1, <3>1, MinIsLeast
  <2>3. defines[Min(S)] \in [name : Words, value : Seq(Words)]
    BY <2>1, <2>2, ElementOfSeq DEF Defines
  <2>4. QED BY <2>3 DEF Newest
<1>3. Pushed
  BY <1>1, <1>2 DEF Pushed
<1>4. defines' \in Defines /\ elsed' \in BOOLEAN /\ Linked
  BY <1>1 DEF Defines, TypeOK, Shape, Linked
<1>5. outcome' \in {"lexing", "error", "crash"}
  BY <1>1 DEF InText, Lexing
<1>6. QED BY <1>1, <1>3, <1>4, <1>5, AllocatedToken DEF Lexes, Defines
-----------------------------------------------------------------------------
(* The directives. A line with one is not empty, so that the token that    *)
(* ends it does not take the place of an if-state.                         *)
LEMMA DirectiveLine ==
  ASSUME TypeOK, Shape, NEW names, RunsDirective(names)
  PROVE  /\ InText /\ Here = EOL
         /\ Line \in Seq(DOMAIN tokens) /\ Len(Line) \in Nat /\ Len(Line) >= 2
         /\ DOMAIN Line = 1 .. Len(Line)
         /\ \A i \in 1 .. Len(Line) : Word(Line[i]) \in Words
         /\ ~ (ifs.size > 0 /\ ifs.buffer = Ahead)
<1>1. InText /\ Here = EOL /\ Len(Line) >= 2
  BY DEF RunsDirective, Directive
<1>2. Line \in Seq(DOMAIN tokens)
  BY LineIs
<1>3. Len(Line) \in Nat /\ DOMAIN Line = 1 .. Len(Line)
  BY <1>2, LenProperties
<1>4. Line # << >>
  BY <1>1, <1>2, EmptySeq
<1>5. ASSUME NEW i \in 1 .. Len(Line) PROVE Word(Line[i]) \in Words
  <2>1. Line[i] \in DOMAIN tokens
    BY <1>2, <1>5, ElementOfSeq
  <2>2. tokens[Line[i]] \in Token
    <3>1. tokens \in Seq(Token)
      BY DEF TypeOK
    <3>2. QED BY <2>1, <3>1, ElementOfSeq, LenProperties
  <2>3. QED BY <2>2 DEF Word, Token
<1>6. ~ (ifs.size > 0 /\ ifs.buffer = Ahead)
  BY <1>4 DEF TypeOK
<1>7. QED BY <1>1, <1>2, <1>3, <1>5, <1>6

LEMMA NextLineIs ==
  ASSUME InText, NextLine, UNCHANGED <<elsed>>
  PROVE  /\ Linked /\ Advanced /\ UNCHANGED parseVars
         /\ outcome' \in {"lexing", "error", "crash"}
BY DEF NextLine, Linked, Advanced, InText, Lexing

(* @endif and @define leave the buffer of if-states where it is.           *)
LEMMA EndifLexes == ASSUME IInv, Endif PROVE Lexes
<1>1. TypeOK /\ Shape /\ RunsDirective({"endif"})
  BY DEF IInv, Endif
<1>2. InText /\ Here = EOL /\ ~ (ifs.size > 0 /\ ifs.buffer = Ahead)
  BY <1>1, DirectiveLine
<1>3. CASE Stop("error")
  BY <1>1, <1>2, <1>3, StopLexes
<1>4. CASE /\ ifs.size > 0 /\ tokens' = Append(tokens, NewToken(EOL))
           /\ ifs' = [ifs EXCEPT !.size = ifs.size - 1]
           /\ NextLine /\ UNCHANGED <<defines, elsed>>
  <2>1. Grown /\ KindsSame /\ Len(tokens') = Len(tokens) + 1 /\ Len(tokens) \in Nat
    BY <1>1, <1>2, <1>4, OneMoreToken
  <2>2. /\ ifs \in IfRecord /\ ifs.buffer \in 0 .. Len(tokens) /\ elsed \in BOOLEAN
        /\ defines \in Defines /\ MaxIfs \in Nat
    BY <1>1, ConstantsAssumption DEF Shape, TypeOK, Defines
  <2>3. ifs' = [size |-> ifs.size - 1, buffer |-> ifs.buffer, top |-> ifs.top]
    BY <1>4, <2>2 DEF IfRecord
  <2>4. ifs.size - 1 \in 0 .. MaxIfs
    BY <1>4, <2>2 DEF IfRecord
  <2>5. ifs' \in IfRecord /\ ifs'.buffer <= Len(tokens') /\ ifs'.buffer # Ahead
    BY <1>2, <1>4, <2>1, <2>2, <2>3, <2>4 DEF IfRecord
  <2>6. QED BY <1>2, <1>4, <2>1, <2>2, <2>5, NextLineIs DEF Lexes, Defines
<1>5. QED BY <1>3, <1>4 DEF Endif

LEMMA DefineLexes == ASSUME IInv, Define PROVE Lexes
<1> DEFINE value == [i \in 1 .. Len(Line) - 3 |-> Word(Line[i + 3])]
           new == [name |-> Word(Line[3]), value |-> value]
<1>1. TypeOK /\ Shape /\ RunsDirective({"define"})
  BY DEF IInv, Define
<1>2. /\ InText /\ Here = EOL /\ ~ (ifs.size > 0 /\ ifs.buffer = Ahead)
      /\ Len(Line) \in Nat /\ \A i \in 1 .. Len(Line) : Word(Line[i]) \in Words
  BY <1>1, DirectiveLine
<1>3. CASE Stop("crash") \/ Stop("error")
  BY <1>1, <1>2, <1>3, StopLexes
<1>4. CASE /\ Len(Line) >= 3 /\ tokens' = Append(tokens, NewToken(EOL))
           /\ defines' = <<new>> \o defines
           /\ NextLine /\ UNCHANGED <<ifs, elsed>>
  <2>1. Grown /\ KindsSame /\ Len(tokens') = Len(tokens) + 1 /\ Len(tokens) \in Nat
    BY <1>1, <1>2, <1>4, OneMoreToken
  <2>2. /\ ifs \in IfRecord /\ ifs.buffer \in 0 .. Len(tokens) /\ elsed \in BOOLEAN
        /\ defines \in Defines
    BY <1>1 DEF Shape, TypeOK, Defines
  <2>3. value \in Seq(Words)
    <3>1. \A i \in 1 .. Len(Line) - 3 : i + 3 \in 1 .. Len(Line)
      BY <1>2
    <3>2. value \in [1 .. Len(Line) - 3 -> Words] /\ Len(Line) - 3 \in Nat
      BY <1>2, <1>4, <3>1
    <3>3. QED BY <3>2, SeqDef
  <2>4. new \in [name : Words, value : Seq(Words)]
    <3>1. Word(Line[3]) \in Words
      BY <1>2, <1>4
    <3>2. QED BY <2>3, <3>1
  <2> HIDE DEF new
  <2>5. defines' \in Defines
    <3>1. <<new>> \in Defines
      BY <2>4 DEF Defines
    <3>2. QED BY <1>4, <2>2, <3>1, ConcatProperties DEF Defines
  <2>6. QED BY <1>2, <1>4, <2>1, <2>2, <2>5, NextLineIs DEF Lexes, Defines
<1>5. QED BY <1>3, <1>4 DEF Define

LEMMA IncludeLexes == ASSUME IInv, Include PROVE Lexes
<1>1. TypeOK /\ Shape /\ RunsDirective({"include"})
  BY DEF IInv, Include
<1>2. InText /\ Here = EOL
  BY <1>1, DirectiveLine
<1>3. CASE Stop("error")
  BY <1>1, <1>2, <1>3, StopLexes
<1>4. CASE /\ Word(Line[3]) \in FileNames
           /\ push_input(Word(Line[3]), Files[Word(Line[3])], current + 1)
           /\ lex_push(EOL)
           /\ UNCHANGED <<defines, elsed, parseVars, outcome>>
  <2>1. Files[Word(Line[3])] \in Seq(Words)
    BY <1>4, ConstantsAssumption DEF Texts
  <2>2. Pushed
    BY <1>4, <2>1 DEF Pushed
  <2>3. /\ Grown /\ KindsSame /\ ifs' \in IfRecord /\ ifs'.buffer <= Len(tokens')
        /\ ~ (ifs'.size > 0 /\ ifs'.buffer = Ahead)
    BY <1>1, <1>2, <1>4, AllocatedToken DEF lex_push
  <2>4. /\ Linked /\ defines' \in Defines /\ elsed' \in BOOLEAN
        /\ outcome' \in {"lexing", "error", "crash"}
    BY <1>1, <1>2, <1>4 DEF lex_push, Linked, Defines, TypeOK, Shape, InText, Lexing
  <2>5. QED BY <1>2, <1>4, <2>2, <2>3, <2>4 DEF Lexes, Defines
<1>5. QED BY <1>3, <1>4 DEF Include

(* @ifdef: the new state lies ahead, or in a cell that is no token.        *)
LEMMA PushLexes ==
  ASSUME TypeOK, Shape, InText, Here = EOL, NEW state \in 1 .. 3, Push(state), NextLine,
         UNCHANGED <<defines, elsed>>
  PROVE  Lexes
<1> DEFINE n == ifs.size + 1
           arena == Append(tokens, NewToken(EOL))
           cell == [KindBytes(0) EXCEPT ![n] = state]
           lost == [word |-> EOL, input |-> 0, at |-> 0, flags |-> 0, kind |-> cell]
<1>1. /\ n \in 1 .. MaxIfs /\ n \in 1 .. 4 /\ MaxIfs \in 1 .. 4 /\ n # 0
      /\ elsed \in BOOLEAN /\ defines \in Defines
      /\ chain \in Seq(Nat) /\ tokens \in Seq(Token) /\ Len(tokens) \in Nat
  <2>1. ifs.size \in 0 .. MaxIfs /\ ifs.size < MaxIfs /\ MaxIfs \in 1 .. 4
    BY ConstantsAssumption DEF Push, TypeOK
  <2>2. elsed \in BOOLEAN /\ chain \in Seq(Nat)
    BY DEF Shape
  <2>3. defines \in Defines /\ tokens \in Seq(Token)
    BY DEF TypeOK, Defines
  <2>4. n \in 1 .. MaxIfs /\ n \in 1 .. 4 /\ n # 0
    BY <2>1
  <2>5. Len(tokens) \in Nat
    BY <2>3, LenProperties
  <2> HIDE DEF n
  <2>6. QED BY <2>1, <2>2, <2>3, <2>4, <2>5
<1>2. Linked /\ Advanced /\ UNCHANGED parseVars /\ outcome' \in {"lexing", "error", "crash"}
      /\ chain' = Append(chain, Len(tokens) + 1)
  BY NextLineIs DEF NextLine
<1>3. CASE ifs' = [size |-> n, buffer |-> Ahead, top |-> state] /\ tokens' = arena
  <2>1. Grown /\ KindsSame /\ Len(tokens') = Len(tokens) + 1
    BY <1>3, OneMoreToken
  <2>2. ifs' \in IfRecord /\ ifs'.buffer <= Len(tokens')
    BY <1>1, <1>3, <2>1 DEF IfRecord, Ahead
  <2>3. Line' = << >>
    <3>1. /\ chain' \in Seq(Nat) /\ chain' # << >>
          /\ chain'[Len(chain')] = Len(tokens) + 1
      BY <1>1, <1>2, AppendProperties
    <3>2. tokens'[Len(tokens) + 1].kind = KindBytes(TK_EOL)
      BY <2>1, HereIsWord, WordKinds DEF Grown
    <3>3. Kind(chain[Len(chain)])' = TK_EOL
      BY <3>1, <3>2 DEF Kind, KindBytes, TK_EOL
    <3>4. QED BY <3>1, <3>3, LineEnds
  <2>4. QED BY <1>1, <1>2, <2>1, <2>2, <2>3 DEF Lexes, Defines
<1>4. CASE /\ ifs' = [size |-> n, buffer |-> Len(arena) + 1, top |-> state]
           /\ tokens' = Append(arena, lost)
  <2>1. NewToken(EOL) \in Token
    BY HereIsWord
  <2>2. /\ arena \in Seq(Token) /\ Len(arena) = Len(tokens) + 1
        /\ \A t \in 1 .. Len(tokens) : arena[t] = tokens[t]
        /\ arena[Len(tokens) + 1] = NewToken(EOL)
    BY <1>1, <2>1, AppendProperties
  <2>3. cell \in [1 .. 4 -> 0 .. 7]
    <3>1. KindBytes(0) \in [1 .. 4 -> 0 .. 7] /\ state \in 0 .. 7
      BY KindsAreBytes
    <3> HIDE DEF n
    <3>2. \A f \in [1 .. 4 -> 0 .. 7] : [f EXCEPT ![n] = state] \in [1 .. 4 -> 0 .. 7]
      BY <3>1
    <3>3. QED BY <3>1, <3>2
  <2> HIDE DEF cell
  <2>4. lost \in Token /\ lost.input = 0
    BY <2>3, Specials DEF Token
  <2> HIDE DEF arena, lost
  <2>5. /\ tokens' \in Seq(Token) /\ Len(tokens') = Len(tokens) + 2
        /\ \A t \in 1 .. Len(tokens) + 1 : tokens'[t] = arena[t]
        /\ tokens'[Len(tokens) + 2] = lost
    <3>1. Len(arena) + 1 = Len(tokens) + 2
      BY <1>1, <2>2
    <3>2. QED BY <1>4, <2>2, <2>4, <3>1, AppendProperties
  <2>6. \A t \in 1 .. Len(tokens) : tokens'[t] = tokens[t]
    BY <1>1, <2>2, <2>5
  <2>7. DOMAIN tokens = 1 .. Len(tokens) /\ DOMAIN tokens' = 1 .. Len(tokens) + 2
    BY <1>1, <2>5, LenProperties
  <2>8. Grown /\ KindsSame
    <3>1. Len(tokens) + 1 \in DOMAIN tokens' /\ tokens'[Len(tokens) + 1] = NewToken(Here)
      BY <1>1, <2>2, <2>5, <2>7
    <3>2. ASSUME NEW t \in DOMAIN tokens', t > Len(tokens) + 1 PROVE tokens'[t].input = 0
      <4>1. t = Len(tokens) + 2
        BY <1>1, <2>7, <3>2
      <4>2. QED BY <2>4, <2>5, <4>1
    <3>3. QED BY <2>5, <2>6, <2>7, <3>1, <3>2 DEF Grown, KindsSame
  <2>9. ifs' \in IfRecord /\ ifs'.buffer <= Len(tokens') /\ ifs'.buffer # Ahead
    BY <1>1, <1>4, <2>2, <2>5 DEF IfRecord, Ahead
  <2>10. QED BY <1>1, <1>2, <2>8, <2>9 DEF Lexes, Defines
<1>5. QED BY <1>3, <1>4 DEF Push

LEMMA IfdefLexes == ASSUME IInv, Ifdef PROVE Lexes
<1> DEFINE holds == (Word(Line[2]) = "ifndef") # Defined(Word(Line[3]))
<1>1. TypeOK /\ Shape /\ RunsDirective({"ifdef", "ifndef"}) /\ UNCHANGED <<defines, elsed>>
  BY DEF IInv, Ifdef
<1>2. InText /\ Here = EOL
  BY <1>1, DirectiveLine
<1>3. CASE Stop("crash") \/ Stop("error")
  BY <1>1, <1>2, <1>3, StopLexes
<1>4. CASE Push(IFF_PARENT_FAILURE) /\ NextLine
  BY <1>1, <1>2, <1>4, PushLexes DEF IFF_PARENT_FAILURE
<1>5. CASE Push(IF holds THEN IFF_SUCCESS ELSE IFF_FAILURE) /\ NextLine
  BY <1>1, <1>2, <1>5, PushLexes DEF IFF_SUCCESS, IFF_FAILURE
<1>6. QED BY <1>3, <1>4, <1>5 DEF Ifdef

(* @else: the state changes where it lies, in the kind of a token.         *)
LEMMA ElseLexes == ASSUME IInv, Else PROVE Lexes
<1>1. TypeOK /\ Shape /\ RunsDirective({"else"})
  BY DEF IInv, Else
<1>2. InText /\ Here = EOL /\ ~ (ifs.size > 0 /\ ifs.buffer = Ahead)
  BY <1>1, DirectiveLine
<1>3. CASE Stop("error")
  BY <1>1, <1>2, <1>3, StopLexes
<1> DEFINE flipped == IF IfState = IFF_PARENT_FAILURE THEN IfState
                      ELSE IF IfState = IFF_SUCCESS THEN IFF_FAILURE ELSE IFF_SUCCESS
           arena == Append(tokens, NewToken(EOL))
           written == [arena[ifs.buffer] EXCEPT !.kind[ifs.size] = flipped]
<1>4. CASE /\ ifs.size > 0
           /\ tokens' = [arena EXCEPT ![ifs.buffer].kind[ifs.size] = flipped]
           /\ elsed' = TRUE /\ NextLine /\ UNCHANGED <<defines, ifs>>
  <2>1. /\ tokens \in Seq(Token) /\ Len(tokens) \in Nat
        /\ ifs \in IfRecord /\ ifs.buffer \in 1 .. Len(tokens) /\ ifs.size \in 1 .. 4
        /\ defines \in Defines
    <3>1. /\ tokens \in Seq(Token) /\ defines \in Defines /\ ifs \in IfRecord
          /\ ifs.buffer \in 0 .. Len(tokens) /\ ifs.size \in 0 .. MaxIfs
      BY <1>1 DEF TypeOK, Shape, Defines
    <3>2. QED BY <1>2, <1>4, <3>1, ConstantsAssumption, LenProperties DEF Ahead
  <2>2. flipped \in 0 .. 7
    BY DEF IFF_PARENT_FAILURE, IFF_SUCCESS, IFF_FAILURE
  <2> HIDE DEF flipped
  <2>3. /\ arena \in Seq(Token) /\ Len(arena) = Len(tokens) + 1
        /\ \A t \in 1 .. Len(tokens) : arena[t] = tokens[t]
        /\ arena[Len(tokens) + 1] = NewToken(EOL)
    <3>1. NewToken(EOL) \in Token
      BY <1>1, <1>2, HereIsWord
    <3>2. QED BY <2>1, <3>1, AppendProperties
  <2>4. arena[ifs.buffer] \in Token
    BY <2>1, <2>3, ElementOfSeq
  <2> HIDE DEF arena
  <2>5. /\ written \in Token
        /\ written.word = arena[ifs.buffer].word /\ written.at = arena[ifs.buffer].at
        /\ written.input = arena[ifs.buffer].input
    <3> DEFINE kind == [arena[ifs.buffer].kind EXCEPT ![ifs.size] = flipped]
    <3>1. kind \in [1 .. 4 -> 0 .. 7]
      BY <2>1, <2>2, <2>4 DEF Token
    <3>2. written = [arena[ifs.buffer] EXCEPT !.kind = kind]
      BY <2>4 DEF Token
    <3> HIDE DEF kind, written
    <3>3. QED BY <2>4, <3>1, <3>2 DEF Token
  <2>6. tokens' = [arena EXCEPT ![ifs.buffer] = written]
    BY <1>4
  <2> HIDE DEF written
  <2>7. /\ tokens' \in Seq(Token) /\ Len(tokens') = Len(tokens) + 1
        /\ \A t \in 1 .. Len(tokens) + 1 :
             tokens'[t] = IF t = ifs.buffer THEN written ELSE arena[t]
    <3>1. ifs.buffer \in 1 .. Len(arena)
      BY <2>1, <2>3
    <3>2. QED BY <2>3, <2>5, <2>6, <3>1, ExceptSeq
  <2>8. /\ DOMAIN tokens = 1 .. Len(tokens) /\ DOMAIN tokens' = 1 .. Len(tokens) + 1
    BY <2>1, <2>7, LenProperties
  <2>9. Grown
    <3>1. Len(tokens) + 1 \in DOMAIN tokens' /\ tokens'[Len(tokens) + 1] = NewToken(Here)
      BY <1>2, <2>1, <2>3, <2>7, <2>8
    <3>2. ASSUME NEW t \in DOMAIN tokens
          PROVE  /\ tokens'[t].word = tokens[t].word /\ tokens'[t].input = tokens[t].input
                 /\ tokens'[t].at = tokens[t].at
      BY <2>1, <2>3, <2>5, <2>7, <2>8
    <3>3. ~ \E t \in DOMAIN tokens' : t > Len(tokens) + 1
      BY <2>1, <2>8
    <3>4. QED BY <2>7, <3>1, <3>2, <3>3 DEF Grown
  <2>10. /\ Linked /\ Advanced /\ UNCHANGED parseVars
         /\ outcome' \in {"lexing", "error", "crash"}
    BY <1>2, <1>4 DEF NextLine, Linked, Advanced, InText, Lexing
  <2>11. ifs' \in IfRecord /\ ifs'.buffer <= Len(tokens') /\ ifs'.buffer # Ahead
    BY <1>4, <2>1, <2>7 DEF Ahead
  <2>12. QED BY <1>2, <1>4, <2>1, <2>9, <2>10, <2>11 DEF Lexes, Defines
<1>5. QED BY <1>3, <1>4 DEF Else
-----------------------------------------------------------------------------
(* The end of an input, and the parse.                                     *)
LEMMA TokensStay ==
  ASSUME UNCHANGED <<tokens, chain>>
  PROVE  /\ Line' = Line /\ CodeLines' = CodeLines
         /\ \A p : Kind(p)' = Kind(p) /\ Word(p)' = Word(p)
         /\ KindsKept /\ elsed' = elsed => KindsKept'
<1>1. \A p : Kind(p)' = Kind(p) /\ Word(p)' = Word(p)
  BY DEF Kind, Word
<1>2. Line' = Line
  BY DEF Line, LineStart, Kind
<1>3. CodeLines' = CodeLines
  BY DEF CodeLines, Word
<1>4. KindsKept /\ elsed' = elsed => KindsKept'
  BY DEF KindsKept, Kind, Word, WordKind
<1>5. QED BY <1>1, <1>2, <1>3, <1>4

LEMMA CodeLinesAre == chain \in Seq(Nat) => CodeLines \subseteq 1 .. Len(chain)
BY LenProperties DEF CodeLines

LEMMA PopInputKeeps == ASSUME IInv, PopInput PROVE IInv'
<1>1. /\ TypeOK /\ Shape /\ EachWordOnce /\ KindsKept /\ Parsed
      /\ InputsRight(inputs, input)
  BY InputsAre DEF IInv
<1>2. /\ outcome = "lexing" /\ input # 0 /\ inputs' = inputs
      /\ input' = inputs[input].parent
      /\ current' = IF input' = 0 THEN 0 ELSE inputs[input'].current
      /\ outcome' = IF input' = 0 THEN "parsing" ELSE outcome
      /\ UNCHANGED <<tokens, chain, defines, ifs, elsed, next, emitted>>
  BY DEF PopInput, Lexing, parseVars
<1>3. /\ input \in DOMAIN inputs /\ Len(inputs) \in Nat /\ DOMAIN inputs = 1 .. Len(inputs)
  <2>1. inputs \in Seq(Input) /\ input \in 0 .. Len(inputs)
    BY <1>1 DEF TypeOK
  <2>2. QED BY <1>2, <2>1, LenProperties
<1>4. input' \in 0 .. Len(inputs) /\ (input' # 0 => input' \in DOMAIN inputs)
  <2>1. inputs[input].parent \in 0 .. input - 1
    BY <1>1, <1>3, AnInput
  <2>2. QED BY <1>2, <1>3, <2>1
<1>5. /\ current' \in Nat
      /\ input' # 0 => current' \in 1 .. Len(inputs[input'].text) + 1
  BY <1>1, <1>2, <1>4, AnInput
<1>6. TypeOK'
  BY <1>1, <1>2, <1>4, <1>5, TokensStay DEF TypeOK
<1>7. Shape'
  BY <1>1, <1>2, <1>5 DEF Shape, Text, Lexing
<1>8. EachWordOnce' /\ KindsKept'
  BY <1>1, <1>2, WordsAtEndOfInput, TokensStay
<1>9. Parsed'
  <2>1. next' = 1 /\ emitted' = << >> /\ outcome' # "done"
    BY <1>1, <1>2 DEF Parsed, Lexing
  <2>2. EmittedBefore'
    <3>1. CodeLines' \subseteq 1 .. Len(chain)
      BY <1>1, <1>2, TokensStay, CodeLinesAre DEF Shape
    <3>2. Len(chain) \in Nat
      BY <1>1, LenProperties DEF Shape
    <3>3. {p \in CodeLines' : p < 1} = {}
      <4>1. \A p \in CodeLines' : p \in 1 .. Len(chain)
        BY <3>1
      <4>2. \A p \in CodeLines' : ~ (p < 1)
        BY <3>2, <4>1
      <4>3. QED BY <4>2
    <3>4. DOMAIN emitted' = {} /\ Len(emitted') = 0 /\ 2 .. 0 = {}
      BY <2>1
    <3>5. {emitted'[i] : i \in DOMAIN emitted'} = {}
      BY <3>4
    <3>6. QED BY <2>1, <3>3, <3>4, <3>5 DEF EmittedBefore
  <2>3. AtLineStart'
    BY <2>1 DEF AtLineStart
  <2>4. QED BY <2>1, <2>2, <2>3 DEF Parsed
<1>10. QED BY <1>6, <1>7, <1>8, <1>9 DEF IInv

(* What a step of the parser leaves alone.                                 *)
LEMMA ParseStays ==
  ASSUME IInv, Parsing, UNCHANGED lexVars, next' \in 1 .. Len(chain) + 1,
         emitted' \in Seq(Nat), outcome' \in {"parsing", "done", "error", "crash"}
  PROVE  /\ TypeOK' /\ Shape' /\ EachWordOnce' /\ KindsKept'
         /\ CodeLines' = CodeLines
<1>1. /\ TypeOK /\ Shape /\ EachWordOnce /\ KindsKept
      /\ UNCHANGED <<inputs, input, current, tokens, chain, defines, ifs, elsed>>
  BY DEF IInv, lexVars
<1>2. TypeOK'
  BY <1>1, TokensStay DEF TypeOK
<1>3. Shape'
  BY <1>1 DEF Shape, Text, Lexing
<1>4. EachWordOnce'
  BY <1>1 DEF EachWordOnce, Reached, Waiting
<1>5. QED BY <1>1, <1>2, <1>3, <1>4, TokensStay

LEMMA NothingSkipped ==
  ASSUME TypeOK, Shape
  PROVE  /\ From(next) = next .. Len(chain)
         /\ next \in 1 .. Len(chain) + 1 /\ Len(chain) \in Nat /\ DOMAIN chain = 1 .. Len(chain)
         /\ From(next) # {} => next \in DOMAIN chain /\ Min(From(next)) = next
<1>1. /\ next \in 1 .. Len(chain) + 1 /\ Len(chain) \in Nat /\ DOMAIN chain = 1 .. Len(chain)
      /\ \A i \in DOMAIN chain : chain[i] \in DOMAIN tokens
  <2>1. next \in 1 .. Len(chain) + 1 /\ \A i \in DOMAIN chain : chain[i] \in DOMAIN tokens
    BY DEF TypeOK
  <2>2. QED BY <2>1, LenProperties DEF Shape
<1>2. tokens \in Seq(Token)
  BY DEF TypeOK
<1>3. \A i \in next .. Len(chain) : ~ Ignored(chain[i])
  <2>1. \A i \in next .. Len(chain) : i \in DOMAIN chain
    BY <1>1
  <2>2. QED BY <1>1, <1>2, <2>1, NothingIgnored
<1>4. From(next) = next .. Len(chain)
  BY <1>3 DEF From
<1>5. ASSUME From(next) # {} PROVE next \in DOMAIN chain /\ Min(From(next)) = next
  <2>1. next \in From(next) /\ next \in DOMAIN chain /\ From(next) \subseteq Nat
    BY <1>1, <1>4, <1>5
  <2>2. Min(From(next)) \in From(next) /\ Min(From(next)) <= next
    BY <2>1, MinIsLeast
  <2>3. QED BY <1>1, <1>4, <2>1, <2>2
<1>6. QED BY <1>1, <1>4, <1>5

LEMMA ParseEndKeeps == ASSUME IInv, ParseEnd PROVE IInv'
<1>1. /\ Parsing /\ From(next) = {} /\ outcome' = "done" /\ outcome = "parsing"
      /\ UNCHANGED lexVars /\ next' = next /\ emitted' = emitted
      /\ chain' = chain /\ tokens' = tokens /\ elsed' = elsed
  BY DEF ParseEnd, parseVars, lexVars, Parsing
<1>2. /\ TypeOK /\ Shape /\ Parsed /\ emitted \in Seq(Nat)
  BY DEF IInv, Shape
<1>3. next = Len(chain) + 1 /\ next \in 1 .. Len(chain) + 1
  BY <1>1, <1>2, NothingSkipped
<1>4. TypeOK' /\ Shape' /\ EachWordOnce' /\ KindsKept' /\ CodeLines' = CodeLines
  BY <1>1, <1>2, <1>3, ParseStays
<1>5. Parsed'
  BY <1>1, <1>2, <1>3, <1>4 DEF Parsed, Lexing, AtLineStart, EmittedBefore, Word
<1>6. QED BY <1>4, <1>5 DEF IInv

(* From one line start to the next there is no other.                      *)
LEMMA OneLine ==
  ASSUME TypeOK, Shape, KindsKept, ~elsed, next \in DOMAIN chain,
         NEW e \in next .. Len(chain), Kind(chain[e]) = TK_EOL,
         \A i \in next .. e - 1 : Kind(chain[i]) # TK_EOL
  PROVE  /\ \A p \in CodeLines : p < e + 1 => p <= next
         /\ Word(chain[e]) = EOL
<1>1. /\ Len(chain) \in Nat /\ DOMAIN chain = 1 .. Len(chain)
      /\ \A p \in DOMAIN chain : Kind(chain[p]) = TK_EOL <=> Word(chain[p]) = EOL
  <2>1. \A p \in DOMAIN chain : Kind(chain[p]) = WordKind(Word(chain[p]))
    BY DEF KindsKept
  <2>2. QED BY <2>1, WordKinds, LenProperties DEF Shape
<1>2. ASSUME NEW p \in CodeLines, p < e + 1 PROVE p <= next
  <2>1. p \in 1 .. Len(chain) /\ (p = 1 \/ Word(chain[p - 1]) = EOL)
    BY <1>1 DEF CodeLines
  <2>2. SUFFICES ASSUME p > next PROVE FALSE
    BY <1>1, <2>1
  <2>3. p - 1 \in next .. e - 1 /\ p - 1 \in DOMAIN chain /\ p # 1
    BY <1>1, <1>2, <2>1, <2>2
  <2>4. QED BY <1>1, <2>1, <2>3
<1>3. QED BY <1>1, <1>2

LEMMA EmittedAfter ==
  ASSUME TypeOK, Shape, EmittedBefore, next \in DOMAIN chain, NEW e \in next .. Len(chain),
         \A p \in CodeLines : p < e + 1 => p <= next,
         next' = e + 1, CodeLines' = CodeLines,
         emitted' = IF next \in CodeLines THEN Append(emitted, next) ELSE emitted
  PROVE  EmittedBefore'
<1>1. /\ Len(chain) \in Nat /\ DOMAIN chain = 1 .. Len(chain)
      /\ emitted \in Seq(Nat) /\ Len(emitted) \in Nat /\ DOMAIN emitted = 1 .. Len(emitted)
      /\ CodeLines \subseteq 1 .. Len(chain)
  BY LenProperties, CodeLinesAre DEF Shape
<1>2. {p \in CodeLines : p < e + 1} = {p \in CodeLines : p < next} \cup (CodeLines \cap {next})
  <2>1. ASSUME NEW p \in CodeLines
        PROVE  p < e + 1 <=> p < next \/ p = next
    <3>1. p \in Nat /\ next \in Nat /\ e \in Nat /\ next <= e /\ (p < e + 1 => p <= next)
      BY <1>1
    <3>2. QED BY <3>1
  <2>2. QED BY <2>1
<1>3. CASE next \notin CodeLines
  BY <1>2, <1>3 DEF EmittedBefore
<1>4. CASE next \in CodeLines
  <2>1. /\ emitted' \in Seq(Nat) /\ Len(emitted') = Len(emitted) + 1
        /\ \A i \in 1 .. Len(emitted) : emitted'[i] = emitted[i]
        /\ emitted'[Len(emitted) + 1] = next
    BY <1>1, <1>4, AppendProperties
  <2>2. DOMAIN emitted' = 1 .. Len(emitted) + 1
    BY <2>1, LenProperties
  <2>3. {emitted'[i] : i \in DOMAIN emitted'} = {emitted[i] : i \in DOMAIN emitted} \cup {next}
    <3>1. 1 .. Len(emitted) + 1 = 1 .. Len(emitted) \cup {Len(emitted) + 1}
      BY <1>1
    <3>2. QED BY <1>1, <2>1, <2>2, <3>1
  <2>4. {emitted'[i] : i \in DOMAIN emitted'} = {p \in CodeLines' : p < next'}
    BY <1>2, <1>4, <2>3 DEF EmittedBefore
  <2>5. ASSUME NEW i \in 2 .. Len(emitted') PROVE emitted'[i - 1] < emitted'[i]
    <3>1. i - 1 \in 1 .. Len(emitted) /\ i \in 2 .. Len(emitted) + 1
      BY <1>1, <2>1
    <3>2. emitted'[i - 1] = emitted[i - 1] /\ emitted[i - 1] < next
      <4>1. emitted[i - 1] \in {p \in CodeLines : p < next}
        BY <1>1, <3>1 DEF EmittedBefore
      <4>2. QED BY <2>1, <3>1, <4>1
    <3>3. CASE i = Len(emitted) + 1
      BY <2>1, <3>2, <3>3
    <3>4. CASE i \in 2 .. Len(emitted)
      <4>1. emitted[i - 1] < emitted[i] /\ i \in 1 .. Len(emitted)
        BY <3>4 DEF EmittedBefore
      <4>2. QED BY <2>1, <3>2, <4>1
    <3>5. QED BY <1>1, <3>1, <3>3, <3>4
  <2>6. QED BY <2>4, <2>5 DEF EmittedBefore
<1>5. QED BY <1>3, <1>4

LEMMA ParseLineKeeps == ASSUME IInv, ParseLine PROVE IInv'
<1> DEFINE t == chain[next]
           symbol == IF Kind(t) = TK_AT THEN next + 1 ELSE next
           w == Word(chain[symbol])
           known == IF Kind(t) = TK_AT THEN LexDirectives \cup DataDirectives ELSE Ops
           e == Min(Eols(next))
<1>1. /\ TypeOK /\ Shape /\ KindsKept /\ Parsed /\ Parsing
      /\ outcome = "parsing" /\ emitted \in Seq(Nat)
  BY DEF IInv, ParseLine, Parsing, Shape
<1>2. /\ next \in DOMAIN chain /\ Min(From(next)) = next
      /\ Len(chain) \in Nat /\ DOMAIN chain = 1 .. Len(chain)
  BY <1>1, NothingSkipped DEF ParseLine
<1>3. \/ /\ Kind(t) = TK_EOL /\ ParseTo(next + 1, outcome) /\ emitted' = emitted
      \/ /\ \E how \in {"crash", "error"} : ParseTo(next, how)
         /\ emitted' = emitted
      \/ /\ Kind(t) # TK_EOL /\ Eols(next) # {} /\ Kind(chain[symbol]) = TK_SYMBOL
         /\ w \in known /\ ParseTo(e + 1, outcome)
         /\ emitted' = IF w \in known \ LexDirectives THEN Append(emitted, next) ELSE emitted
  BY <1>2 DEF ParseLine
<1>4. CASE /\ Kind(t) = TK_EOL /\ ParseTo(next + 1, outcome) /\ emitted' = emitted
  <2>1. /\ next' = next + 1 /\ outcome' = "parsing" /\ UNCHANGED lexVars
        /\ UNCHANGED <<chain, tokens, elsed>>
    BY <1>1, <1>4 DEF ParseTo, lexVars
  <2>2. TypeOK' /\ Shape' /\ EachWordOnce' /\ KindsKept' /\ CodeLines' = CodeLines
    BY <1>1, <1>2, <1>4, <2>1, ParseStays
  <2>3. ASSUME ~elsed PROVE AtLineStart' /\ EmittedBefore'
    <3>1. /\ Word(t) = EOL /\ next \in next .. Len(chain)
          /\ \A p \in CodeLines : p < next + 1 => p <= next
      <4>1. next .. next - 1 = {} /\ next \in next .. Len(chain)
        BY <1>2
      <4>2. \A i \in next .. next - 1 : Kind(chain[i]) # TK_EOL
        BY <4>1
      <4>3. QED BY <1>1, <1>2, <1>4, <2>3, <4>1, <4>2, OneLine
    <3>2. next \notin CodeLines
      <4>1. EOL # AT /\ EOL \notin Ops
        BY ConstantsAssumption DEF EOL, AT
      <4>2. QED BY <3>1, <4>1 DEF CodeLines
    <3>3. EmittedBefore
      BY <1>1, <2>3 DEF Parsed
    <3>4. emitted' = IF next \in CodeLines THEN Append(emitted, next) ELSE emitted
      BY <1>4, <3>2
    <3>5. EmittedBefore'
      BY <1>1, <1>2, <2>1, <2>2, <3>1, <3>3, <3>4, EmittedAfter
    <3>6. AtLineStart'
      BY <1>2, <2>1, <3>1 DEF AtLineStart, Word
    <3>7. QED BY <3>5, <3>6
  <2>4. Parsed'
    BY <2>1, <2>3 DEF Parsed, Lexing
  <2>5. QED BY <2>2, <2>4 DEF IInv
<1>5. CASE /\ \E how \in {"crash", "error"} : ParseTo(next, how)
           /\ emitted' = emitted
  <2>1. /\ next' = next /\ outcome' \in {"crash", "error"} /\ UNCHANGED lexVars
    BY <1>5 DEF ParseTo
  <2>2. TypeOK' /\ Shape' /\ EachWordOnce' /\ KindsKept'
    BY <1>1, <1>2, <1>5, <2>1, ParseStays
  <2>3. Parsed'
    BY <2>1 DEF Parsed, Lexing
  <2>4. QED BY <2>2, <2>3 DEF IInv
<1>6. CASE /\ Kind(t) # TK_EOL /\ Eols(next) # {} /\ Kind(chain[symbol]) = TK_SYMBOL
           /\ w \in known /\ ParseTo(e + 1, outcome)
           /\ emitted' = IF w \in known \ LexDirectives THEN Append(emitted, next) ELSE emitted
  <2>1. /\ next' = e + 1 /\ outcome' = "parsing" /\ UNCHANGED lexVars
        /\ UNCHANGED <<chain, tokens, elsed>>
    BY <1>1, <1>6 DEF ParseTo, lexVars
  <2>2. /\ e \in next .. Len(chain) /\ Kind(chain[e]) = TK_EOL
        /\ \A i \in next .. e - 1 : Kind(chain[i]) # TK_EOL
    <3>1. Eols(next) \subseteq Nat
      BY <1>2 DEF Eols
    <3>2. e \in Eols(next) /\ \A i \in Eols(next) : e <= i
      BY <1>6, <3>1, MinIsLeast
    <3> HIDE DEF e
    <3>3. e \in next .. Len(chain) /\ Kind(chain[e]) = TK_EOL
      BY <3>2 DEF Eols
    <3>4. ASSUME NEW i \in next .. e - 1 PROVE Kind(chain[i]) # TK_EOL
      <4>1. i \in next .. Len(chain) /\ ~ (e <= i)
        BY <1>2, <3>3
      <4>2. QED BY <3>2, <4>1 DEF Eols
    <3>5. QED BY <3>3, <3>4
  <2> HIDE DEF e
  <2>3. emitted' \in Seq(Nat)
    BY <1>1, <1>2, <1>6, AppendProperties
  <2>4. TypeOK' /\ Shape' /\ EachWordOnce' /\ KindsKept' /\ CodeLines' = CodeLines
    <3>1. next' \in 1 .. Len(chain) + 1
      BY <1>2, <2>1, <2>2
    <3>2. QED BY <1>1, <2>1, <2>3, <3>1, ParseStays
  <2>5. ASSUME ~elsed PROVE AtLineStart' /\ EmittedBefore'
    <3>1. /\ Word(chain[e]) = EOL
          /\ \A p \in CodeLines : p < e + 1 => p <= next
      BY <1>1, <1>2, <2>2, <2>5, OneLine
    <3>2. AtLineStart /\ EmittedBefore
      BY <1>1, <2>5 DEF Parsed
    <3>3. Kind(t) = TK_AT <=> Word(t) = AT
      <4>1. Kind(t) = WordKind(Word(t))
        BY <1>1, <1>2, <2>5 DEF KindsKept
      <4>2. QED BY <4>1, WordKinds
    <3>4. next \in CodeLines <=> w \in known \ LexDirectives
      <4>1. /\ AT \notin Ops /\ Ops \cap LexDirectives = {}
            /\ DataDirectives \cap LexDirectives = {}
        BY ConstantsAssumption DEF DataDirectives, LexDirectives
      <4>2. next \in CodeLines <=> \/ Word(t) \in Ops
                                   \/ Word(t) = AT /\ Word(chain[next + 1]) \in DataDirectives
        BY <1>2, <3>2 DEF CodeLines, AtLineStart
      <4>3. CASE Kind(t) = TK_AT
        BY <1>6, <3>3, <4>1, <4>2, <4>3
      <4>4. CASE Kind(t) # TK_AT
        BY <1>6, <3>3, <4>1, <4>2, <4>4
      <4>5. QED BY <4>3, <4>4
    <3>5. emitted' = IF next \in CodeLines THEN Append(emitted, next) ELSE emitted
      BY <1>6, <3>4
    <3>6. EmittedBefore'
      BY <1>1, <1>2, <2>1, <2>2, <2>4, <3>1, <3>2, <3>5, EmittedAfter
    <3>7. AtLineStart'
      BY <1>2, <2>1, <2>2, <3>1 DEF AtLineStart, Word
    <3>8. QED BY <3>6, <3>7
  <2>6. Parsed'
    BY <2>1, <2>2, <2>5, <1>2 DEF Parsed, Lexing
  <2>7. QED BY <2>4, <2>6 DEF IInv
<1>7. QED BY <1>3, <1>4, <1>5, <1>6
-----------------------------------------------------------------------------
LEMMA InitKeeps == Init => IInv
<1> SUFFICES ASSUME Init PROVE IInv
  OBVIOUS
<1>1. PICK p \in Programs :
        inputs = <<[name |-> "main", text |-> p, current |-> 1, parent |-> 0]>>
  BY DEF Init
<1>2. /\ input = 1 /\ current = 1 /\ tokens = << >> /\ chain = << >> /\ defines = << >>
      /\ ifs = [size |-> 0, buffer |-> Ahead, top |-> 0]
      /\ next = 1 /\ emitted = << >> /\ elsed = FALSE /\ outcome = "lexing"
      /\ p \in Seq(Words) /\ Len(p) \in Nat
  BY ConstantsAssumption, LenProperties DEF Init, Texts
<1>3. /\ inputs \in Seq(Input) /\ Len(inputs) = 1 /\ DOMAIN inputs = {1}
      /\ inputs[1].parent = 0 /\ inputs[1].current = 1 /\ inputs[1].text = p
  BY <1>1, <1>2 DEF Input
<1>4. DOMAIN tokens = {} /\ DOMAIN chain = {} /\ Len(chain) = 0 /\ Len(tokens) = 0
  BY <1>2
<1>5. MaxIfs \in Nat
  BY ConstantsAssumption
<1>6. TypeOK
  BY <1>2, <1>3, <1>4, <1>5 DEF TypeOK, Ahead
<1>7. Shape
  <2>1. ifs \in IfRecord
    BY <1>2, <1>5 DEF IfRecord, Ahead
  <2>2. current \in 1 .. Len(Text) + 1
    BY <1>2, <1>3 DEF Text
  <2>3. inputs # << >>
    BY <1>1
  <2>4. \A i \in DOMAIN inputs : inputs[i].current <= Len(inputs[i].text) + 1
    BY <1>2, <1>3
  <2>5. chain \in Seq(Nat) /\ emitted \in Seq(Nat)
    BY <1>2
  <2>6. \A t \in DOMAIN tokens : tokens[t].input <= Len(inputs)
    BY <1>4
  <2>7. input # 0
    BY <1>2
  <2>8. elsed \in BOOLEAN
    BY <1>2, Zenon
  <2>9. QED BY <2>1, <2>2, <2>3, <2>4, <2>5, <2>6, <2>7, <2>8 DEF Shape
<1>8. EachWordOnce
  <2>1. Reached(1) = 0
    BY <1>2 DEF Reached
  <2>2. Own(tokens, 1) = {} /\ 1 .. 0 = {}
    BY <1>4 DEF Own
  <2>3. AllRead(tokens, 1, 0, inputs[1].text)
    BY <2>2 DEF AllRead
  <2>4. QED BY <1>3, <2>1, <2>3, EachWordOnceIs
<1>9. KindsKept /\ Parsed
  BY <1>2, <1>4 DEF KindsKept, Parsed, Lexing
<1>10. QED BY <1>6, <1>7, <1>8, <1>9 DEF IInv

LEMMA StutterKeeps == ASSUME IInv, UNCHANGED vars PROVE IInv'
<1>1. UNCHANGED <<inputs, input, current, tokens, chain, defines, ifs, elsed, next, emitted,
                  outcome>>
  BY DEF vars, lexVars, parseVars
<1>2. TypeOK' /\ Shape'
  BY <1>1, TokensStay DEF IInv, TypeOK, Shape, Text, Lexing
<1>3. EachWordOnce' /\ KindsKept'
  BY <1>1, TokensStay DEF IInv, EachWordOnce, Reached, Waiting
<1>4. Parsed'
  BY <1>1, TokensStay DEF IInv, Parsed, Lexing, AtLineStart, EmittedBefore, Word
<1>5. QED BY <1>2, <1>3, <1>4 DEF IInv

LEMMA NextKeeps == IInv /\ [Next]_vars => IInv'
<1> SUFFICES ASSUME IInv, [Next]_vars PROVE IInv'
  OBVIOUS
<1>1. CASE LexWord
  BY <1>1, LexWordLexes, LexesKeeps
<1>2. CASE LexDefined
  BY <1>2, LexDefinedLexes, LexesKeeps
<1>3. CASE LexLine
  BY <1>3, LexLineLexes, LexesKeeps
<1>4. CASE Ifdef
  BY <1>4, IfdefLexes, LexesKeeps
<1>5. CASE Else
  BY <1>5, ElseLexes, LexesKeeps
<1>6. CASE Endif
  BY <1>6, EndifLexes, LexesKeeps
<1>7. CASE Define
  BY <1>7, DefineLexes, LexesKeeps
<1>8. CASE Include
  BY <1>8, IncludeLexes, LexesKeeps
<1>9. CASE PopInput
  BY <1>9, PopInputKeeps
<1>10. CASE ParseLine
  BY <1>10, ParseLineKeeps
<1>11. CASE ParseEnd
  BY <1>11, ParseEndKeeps
<1>12. CASE UNCHANGED vars
  BY <1>12, StutterKeeps
<1>13. QED
  BY <1>1, <1>2, <1>3, <1>4, <1>5, <1>6, <1>7, <1>8, <1>9, <1>10, <1>11, <1>12 DEF Next

LEMMA Inductive == Spec => []IInv
BY InitKeeps, NextKeeps, PTL DEF Spec

(* Every index the lexer and the parser use stays within what it indexes,  *)
(* for all programs and files: inputs come from earlier ones, the stream   *)
(* goes forward in the arena, and no token takes the place of an if-state  *)
(* that is still to be written to.                                         *)
THEOREM LexerTypes == Spec => []TypeOK
<1>1. IInv => TypeOK
  BY DEF IInv
<1>2. QED BY <1>1, Inductive, PTL

(* However includes and defines nest, each word of each input is read      *)
(* exactly once and in order.                                              *)
THEOREM WordsAreReadOnce == Spec => []EachWordOnce
<1>1. IInv => EachWordOnce
  BY DEF IInv
<1>2. QED BY <1>1, Inductive, PTL

(* Without an @else, conditionals select nothing, in any program that      *)
(* assembles: exactly the lines with an operation or data are assembled.   *)
THEOREM ConditionalsSelectNothing == Spec => []AllAssembled
<1>1. ASSUME IInv PROVE AllAssembled
  <2> SUFFICES ASSUME outcome = "done", ~elsed
               PROVE  /\ {emitted[i] : i \in DOMAIN emitted} = CodeLines
                      /\ \A i \in 2 .. Len(emitted) : emitted[i - 1] < emitted[i]
    BY DEF AllAssembled
  <2>1. EmittedBefore /\ next = Len(chain) + 1 /\ chain \in Seq(Nat)
    BY <1>1 DEF IInv, Parsed, Shape
  <2>2. CodeLines \subseteq 1 .. Len(chain) /\ Len(chain) \in Nat
    BY <2>1, CodeLinesAre, LenProperties
  <2>3. {p \in CodeLines : p < next} = CodeLines
    <3>1. \A p \in CodeLines : p \in 1 .. Len(chain)
      BY <2>2
    <3>2. \A p \in CodeLines : p < next
      BY <2>1, <2>2, <3>1
    <3>3. QED BY <3>2
  <2>4. QED BY <2>1, <2>3 DEF EmittedBefore
<1>2. QED BY <1>1, Inductive, PTL
=============================================================================
