---------------------------- MODULE LabelsProofs ----------------------------
(***************************************************************************)
(* Proofs about labels and patches, for all names, sizes and origins and   *)
(* programs of any length: patches own the bytes they will fill, emitted   *)
(* bytes are changed by their patch only, and in a program that assembles  *)
(* every clear reference holds the address of its label.                   *)
(*                                                                         *)
(* ReferencesRight speaks of the end only. The invariant says of every     *)
(* reference, at any time, that it is settled or that a patch waits for    *)
(* it; that no patch waits for anything else; and that references lie      *)
(* apart, so that applying one patch leaves the others' bytes alone.       *)
(***************************************************************************)
EXTENDS Labels, SequenceTheorems, TLAPS
-----------------------------------------------------------------------------
(* Bytes and words. The bounds are lemmas so that no proof unfolds a range *)
(* of 65536 numbers.                                                       *)
LEMMA ByteRange == \A n : n \in Byte <=> n \in Int /\ 0 <= n /\ n <= ByteMax
<1>1. ByteMax \in Int
  BY DEF ByteMax
<1>2. QED BY <1>1 DEF Byte

LEMMA ByteBounds == \A n : n \in Byte <=> n \in Int /\ 0 <= n /\ n <= 255
<1>1. ByteMax = 255
  BY DEF ByteMax
<1>2. QED BY <1>1, ByteRange

LEMMA WordRange == \A n : n \in Word <=> n \in Int /\ 0 <= n /\ n <= WordMax
<1>1. WordMax \in Int
  BY DEF WordMax
<1>2. QED BY <1>1 DEF Word

LEMMA WordBounds == \A n : n \in Word <=> n \in Int /\ 0 <= n /\ n <= 65535
<1>1. WordMax = 65535
  BY DEF WordMax
<1>2. QED BY <1>1, WordRange

LEMMA HalvesAreBytes ==
  ASSUME NEW w \in Word
  PROVE  Lo(w) \in Byte /\ Hi(w) \in Byte
<1>1. w \in Nat /\ w <= 65535
  BY WordBounds
<1>2. w \div 256 <= 255 /\ w \div 256 \in Nat
  BY <1>1
<1>3. w % 256 \in Int /\ 0 <= w % 256 /\ w % 256 <= 255
  BY <1>1
<1>4. QED BY <1>2, <1>3, ByteBounds DEF Lo, Hi

LEMMA ToWordIsWord == \A n \in Int : ToWord(n) \in Word
BY WordBounds DEF ToWord

LEMMA HalvesMakeWord == \A w \in Word : Pair(Lo(w), Hi(w)) = w
BY WordBounds DEF Pair, Lo, Hi
-----------------------------------------------------------------------------
(* A label answers a reference, whose two bytes hold its value. *)
Answers(lbl, r, o) ==
  /\ lbl.name = r.name
  /\ lbl.sub => lbl.parent = r.scope
  /\ Pair(o[r.at + 1], o[r.at + 2]) = lbl.value
Settled(r, ls, o) == \E l \in DOMAIN ls : Answers(ls[l], r, o)

WaitsFor(p, r) == p.location = r.at /\ p.name = r.name /\ p.label = r.scope
Pending(r, ps) == \E k \in DOMAIN ps : WaitsFor(ps[k], r)

(* References have their bytes within the n bytes of output, in order. *)
Apart(rs, n) ==
  /\ \A i \in DOMAIN rs : rs[i].at \in Nat \ {0} /\ rs[i].at + 2 <= n
  /\ \A i, j \in DOMAIN rs : i < j => rs[i].at + 2 <= rs[j].at

(* PatchSlots of any patches and output. *)
Slot(p, o) ==
  /\ p.location + 2 <= Len(o)
  /\ o[p.location + 1] = Placeholder /\ o[p.location + 2] = Placeholder
Slots(ps, o) ==
  /\ \A i \in DOMAIN ps : Slot(ps[i], o)
  /\ \A i, j \in DOMAIN ps : i < j => ps[j].location + 2 <= ps[i].location

NoStrayPatch(ps, rs) ==
  \A k \in DOMAIN ps : \E i \in DOMAIN rs : WaitsFor(ps[k], rs[i])
AllAnswered(rs, ls, o, ps) ==
  \A i \in DOMAIN rs : Settled(rs[i], ls, o) \/ Pending(rs[i], ps)

IInv ==
  /\ TypeOK
  /\ Len(out) <= MaxSize
  /\ Slots(patches, out)
  /\ Apart(refs, Len(out))
  /\ NoStrayPatch(patches, refs)
  /\ phase # "error" => AllAnswered(refs, labels, out, patches)
  /\ phase = "done" => patches = << >>

(* Labels, references and output only ever grow at their ends. *)
Grows(s, t) == Len(s) <= Len(t) /\ \A i \in 1 .. Len(s) : t[i] = s[i]

-----------------------------------------------------------------------------
LEMMA SlotsArePatchSlots == PatchSlots <=> Slots(patches, out)
BY DEF PatchSlots, Slots, Slot

LEMMA GrowsItself == \A s : Len(s) \in Nat => Grows(s, s)
BY DEF Grows

LEMMA AppendGrows ==
  ASSUME NEW S, NEW s \in Seq(S), NEW e \in S
  PROVE  Grows(s, Append(s, e))
BY AppendProperties, LenProperties DEF Grows

LEMMA ConcatGrows ==
  ASSUME NEW S, NEW s \in Seq(S), NEW t \in Seq(S)
  PROVE  Grows(s, s \o t)
<1>1. Len(s) \in Nat /\ Len(t) \in Nat
  BY LenProperties
<1>2. Len(s \o t) = Len(s) + Len(t)
  BY ConcatProperties
<1>3. \A i \in 1 .. Len(s) + Len(t) : i <= Len(s) => (s \o t)[i] = s[i]
  BY ConcatProperties
<1>4. QED BY <1>1, <1>2, <1>3 DEF Grows

LEMMA SettledStays ==
  ASSUME NEW r, NEW ls \in Seq(Label), NEW ls2 \in Seq(Label),
         NEW o, NEW o2, Len(o) \in Nat,
         Grows(ls, ls2), Grows(o, o2),
         r.at \in Nat \ {0}, r.at + 2 <= Len(o), Settled(r, ls, o)
  PROVE  Settled(r, ls2, o2)
<1>1. PICK l \in DOMAIN ls : Answers(ls[l], r, o)
  BY DEF Settled
<1>2. l \in DOMAIN ls2 /\ ls2[l] = ls[l]
  BY LenProperties DEF Grows
<1>3. o2[r.at + 1] = o[r.at + 1] /\ o2[r.at + 2] = o[r.at + 2]
  <2> DEFINE q == r.at
  <2>1. q \in Nat \ {0} /\ q + 2 <= Len(o)
    OBVIOUS
  <2> HIDE DEF q
  <2>2. q + 1 \in 1 .. Len(o) /\ q + 2 \in 1 .. Len(o)
    BY ONLY <2>1, Len(o) \in Nat
  <2>3. \A i \in 1 .. Len(o) : o2[i] = o[i]
    BY DEF Grows
  <2>4. o2[q + 1] = o[q + 1] /\ o2[q + 2] = o[q + 2]
    BY ONLY <2>2, <2>3
  <2>5. QED BY <2>4 DEF q
<1>4. Answers(ls2[l], r, o2)
  BY <1>1, <1>2, <1>3 DEF Answers
<1>5. QED BY <1>2, <1>4 DEF Settled

LEMMA SlotsStay ==
  ASSUME NEW ps \in Seq(Patch), NEW o, NEW o2, Len(o) \in Nat, Len(o2) \in Nat,
         Slots(ps, o), Grows(o, o2)
  PROVE  Slots(ps, o2)
<1>1. ASSUME NEW i \in DOMAIN ps PROVE ps[i].location \in Nat
  <2>1. ps[i] \in Patch
    BY LenProperties, ElementOfSeq
  <2>2. ps[i].location \in Word
    BY <2>1 DEF Patch
  <2>3. QED BY <2>2, WordBounds
<1>2. ASSUME NEW i \in DOMAIN ps PROVE Slot(ps[i], o2)
  <2>1. Slot(ps[i], o)
    BY DEF Slots
  <2>2. QED BY <1>1, <2>1 DEF Slot, Grows
<1>3. QED BY <1>2 DEF Slots

LEMMA ApartStays ==
  ASSUME NEW rs, NEW n \in Nat, NEW m \in Nat, Apart(rs, n), n <= m
  PROVE  Apart(rs, m)
BY DEF Apart

-----------------------------------------------------------------------------
(* Steps that define labels or emit bytes, and do not touch references or  *)
(* patches.                                                                *)
LEMMA GrowingStep ==
  ASSUME IInv, TypeOK', Grows(labels, labels'), Grows(out, out'),
         Len(out') <= MaxSize, UNCHANGED <<refs, patches>>,
         phase' # "error" => phase # "error",
         phase' = "done" => patches = << >>
  PROVE  IInv'
<1>1. /\ labels \in Seq(Label) /\ labels' \in Seq(Label)
      /\ out \in Seq(Byte) /\ out' \in Seq(Byte) /\ patches \in Seq(Patch)
  BY DEF IInv, TypeOK
<1>2. Len(out) \in Nat /\ Len(out') \in Nat /\ Len(out) <= Len(out')
  BY <1>1, LenProperties DEF Grows
<1>3. Slots(patches, out')
  BY <1>1, <1>2, SlotsStay DEF IInv
<1>4. Apart(refs, Len(out'))
  BY <1>2, ApartStays DEF IInv
<1>5. ASSUME phase' # "error" PROVE AllAnswered(refs, labels', out', patches)
  <2>1. AllAnswered(refs, labels, out, patches)
    BY <1>5 DEF IInv
  <2>2. ASSUME NEW i \in DOMAIN refs
        PROVE  Settled(refs[i], labels', out') \/ Pending(refs[i], patches)
    <3>1. refs[i].at \in Nat \ {0} /\ refs[i].at + 2 <= Len(out)
      BY DEF IInv, Apart
    <3>2. CASE Settled(refs[i], labels, out)
      BY <1>1, <1>2, <3>1, <3>2, SettledStays
    <3>3. QED BY <2>1, <3>2 DEF AllAnswered
  <2>3. QED BY <2>2 DEF AllAnswered
<1>6. QED BY <1>3, <1>4, <1>5 DEF IInv

LEMMA InitHolds == Init => IInv
<1> SUFFICES ASSUME Init PROVE IInv
  OBVIOUS
<1>1. TypeOK
  BY EmptySeq, ConstantsAssumption, WordBounds
     DEF Init, TypeOK, ORG_UNSET, WordMax
<1>2. Len(out) = 0 /\ DOMAIN patches = {} /\ DOMAIN refs = {}
  BY DEF Init
<1>3. QED
  BY <1>1, <1>2, ConstantsAssumption
     DEF Init, IInv, Slots, Apart, NoStrayPatch, AllAnswered
-----------------------------------------------------------------------------
LEMMA LocationIsWord ==
  ASSUME TypeOK
  PROVE  location \in Word
<1>1. Len(out) \in Nat
  BY LenProperties DEF TypeOK
<1>2. (IF org = ORG_UNSET THEN 0 ELSE org) \in Int
  BY WordBounds DEF TypeOK
<1>3. QED BY <1>1, <1>2, ToWordIsWord DEF location

(* Where the parent of the newest label lies.                              *)
LEMMA ParentOfNewest ==
  ASSUME TypeOK
  PROVE  newest \in Nat /\ label_parent(newest) \in Nat
         /\ label_parent(newest) <= newest
<1>1. newest \in Nat /\ DOMAIN labels = 1 .. newest
  BY LenProperties DEF TypeOK, newest
<1>2. CASE newest = 0
  BY <1>1, <1>2 DEF label_parent, NULL
<1>3. CASE newest # 0
  <2>1. newest \in DOMAIN labels
    BY <1>1, <1>3
  <2>2. labels[newest] \in Label
    BY <1>1, <2>1, ElementOfSeq DEF TypeOK, newest
  <2>3. labels[newest].parent \in Nat /\ labels[newest].sub \in BOOLEAN
    BY <2>2 DEF Label
  <2>4. labels[newest].parent <= newest
    BY <1>1, <2>1, <2>3 DEF TypeOK
  <2>5. QED BY <1>1, <1>3, <2>3, <2>4 DEF label_parent, NULL
<1>4. QED BY <1>2, <1>3

LEMMA DefineLabelKeeps ==
  ASSUME IInv, NEW name \in Names, NEW sub \in BOOLEAN, DefineLabel(name, sub)
  PROVE  IInv'
<1> DEFINE new == [name |-> name, sub |-> sub, value |-> location,
                   parent |-> IF sub THEN label_parent(newest) ELSE newest + 1]
<1>1. TypeOK
  BY DEF IInv
<1>2. newest \in Nat /\ label_parent(newest) \in Nat
      /\ label_parent(newest) <= newest
  BY <1>1, ParentOfNewest
<1>3. new \in Label
  BY <1>1, <1>2, LocationIsWord DEF Label
<1>4. /\ new.sub => new.parent < newest + 1
      /\ ~new.sub => new.parent = newest + 1
  BY <1>2
<1>5. labels \in Seq(Label) /\ labels' = Append(labels, new)
  BY <1>1 DEF TypeOK, DefineLabel
<1> HIDE DEF new
<1>6. /\ labels' \in Seq(Label) /\ DOMAIN labels' = 1 .. newest + 1
      /\ labels'[newest + 1] = new
      /\ \A l \in 1 .. newest : labels'[l] = labels[l]
      /\ DOMAIN labels = 1 .. newest
  BY <1>3, <1>5, AppendProperties, LenProperties DEF newest
<1>7. ASSUME NEW l \in DOMAIN labels'
      PROVE  /\ labels'[l].sub => labels'[l].parent < l
             /\ ~labels'[l].sub => labels'[l].parent = l
  <2>1. CASE l = newest + 1
    BY <1>4, <1>6, <2>1
  <2>2. CASE l \in 1 .. newest
    BY <1>1, <1>6, <2>2 DEF TypeOK
  <2>3. QED BY <1>2, <1>6, <2>1, <2>2
<1>8. TypeOK'
  <2>1. budget' \in Nat
    BY <1>1 DEF TypeOK, DefineLabel, Takes
  <2>2. UNCHANGED <<patches, out, org, refs, phase>>
    BY DEF DefineLabel, Takes
  <2>3. QED BY <1>1, <1>6, <1>7, <2>1, <2>2 DEF TypeOK
<1>9. Grows(labels, labels')
  BY <1>3, <1>5, AppendGrows
<1>10. Grows(out, out')
  BY <1>1, LenProperties, GrowsItself DEF TypeOK, DefineLabel
<1>11. Len(out') <= MaxSize /\ UNCHANGED <<refs, patches, phase>>
  BY DEF IInv, DefineLabel, Takes
<1>12. QED BY <1>8, <1>9, <1>10, <1>11, GrowingStep DEF IInv

LEMMA EmitKeeps ==
  ASSUME IInv, NEW n \in Sizes, Emit(n)
  PROVE  IInv'
<1> DEFINE zeros == [i \in 1 .. n |-> 0]
<1>1. TypeOK
  BY DEF IInv
<1>2. n \in Nat
  BY ConstantsAssumption
<1>3. 0 \in Byte
  BY ByteBounds
<1>4. zeros \in Seq(Byte) /\ Len(zeros) = n
  BY <1>2, <1>3
<1>5. out \in Seq(Byte) /\ out' = out \o zeros
  BY <1>1 DEF TypeOK, Emit
<1> HIDE DEF zeros
<1>6. out' \in Seq(Byte) /\ Len(out') = Len(out) + n /\ Grows(out, out')
  BY <1>4, <1>5, ConcatProperties, ConcatGrows
<1>7. UNCHANGED <<labels, patches, org, refs, phase>> /\ Len(out) + n <= MaxSize
  BY DEF Emit, Takes
<1>8. TypeOK'
  <2>1. budget' \in Nat
    BY <1>1 DEF TypeOK, Emit, Takes
  <2>2. QED BY <1>1, <1>6, <1>7, <2>1 DEF TypeOK
<1>9. Grows(labels, labels')
  BY <1>1, <1>7, LenProperties, GrowsItself DEF TypeOK
<1>10. QED BY <1>6, <1>7, <1>8, <1>9, GrowingStep DEF IInv

(* Steps after which labels, patches, output and references are the same.  *)
LEMMA StillStep ==
  ASSUME IInv, TypeOK', UNCHANGED <<labels, patches, out, refs>>,
         phase' # "error" => phase # "error",
         phase' = "done" => patches = << >>
  PROVE  IInv'
<1>1. Grows(labels, labels') /\ Grows(out, out')
  BY LenProperties, GrowsItself DEF IInv, TypeOK
<1>2. QED BY <1>1, GrowingStep DEF IInv

LEMMA OrgKeeps ==
  ASSUME IInv, NEW v \in Origins, Org(v)
  PROVE  IInv'
<1>1. v \in Word
  BY ConstantsAssumption
<1>2. TypeOK'
  BY <1>1 DEF IInv, TypeOK, Org
<1>3. QED BY <1>2, StillStep DEF Org

LEMMA EndOfInputKeeps ==
  ASSUME IInv, EndOfInput
  PROVE  IInv'
<1>1. TypeOK'
  BY DEF IInv, TypeOK, EndOfInput
<1>2. QED BY <1>1, StillStep DEF EndOfInput

LEMMA FinishKeeps ==
  ASSUME IInv, Finish
  PROVE  IInv'
<1>1. TypeOK'
  BY DEF IInv, TypeOK, Finish
<1>2. QED BY <1>1, StillStep DEF Finish

-----------------------------------------------------------------------------
(* A label found from a place under no label has no dot: the parent of one *)
(* with a dot was defined before it, so it is not the newest label.        *)
LEMMA ResolvedAnswers ==
  ASSUME TypeOK, NEW l \in DOMAIN labels, NEW name, NEW from \in Nat,
         Resolves(l, name, from)
  PROVE  /\ labels[l].name = name
         /\ labels[l].sub => labels[l].parent = from /\ from # NULL
<1>1. newest \in Nat /\ l \in 1 .. newest
  BY LenProperties DEF TypeOK, newest
<1>2. Fits(l, name, from)
  BY DEF Resolves
<1>3. labels[l] \in Label
  BY <1>1, ElementOfSeq DEF TypeOK, newest
<1>4. labels[l].parent \in Nat /\ labels[l].sub \in BOOLEAN
  BY <1>3 DEF Label
<1>5. label_parent(l) = labels[l].parent
  BY <1>1 DEF label_parent, NULL
<1>6. labels[l].sub => labels[l].parent < l
  BY DEF TypeOK
<1>7. QED BY <1>1, <1>2, <1>4, <1>5, <1>6 DEF Fits

(* Three bytes are emitted for a reference, and it is noted.               *)
LEMMA ReferenceEmitted ==
  ASSUME IInv, NEW name \in Names, NEW sub \in BOOLEAN, Mentions(name, sub),
         NEW b1 \in Byte, NEW b2 \in Byte, NEW b3 \in Byte,
         out' = out \o <<b1, b2, b3>>
  PROVE  LET r == [at |-> Len(out) + 1, name |-> name, sub |-> sub,
                   scope |-> label_parent(newest)]
         IN  /\ out' \in Seq(Byte) /\ Len(out') = Len(out) + 3 /\ Len(out) \in Nat
             /\ Grows(out, out')
             /\ out'[Len(out) + 2] = b2 /\ out'[Len(out) + 3] = b3
             /\ r \in Ref /\ refs' \in Seq(Ref)
             /\ Len(refs) \in Nat /\ DOMAIN refs = 1 .. Len(refs)
             /\ DOMAIN refs' = 1 .. Len(refs) + 1
             /\ refs'[Len(refs) + 1] = r
             /\ \A i \in 1 .. Len(refs) : refs'[i] = refs[i]
             /\ Apart(refs', Len(out'))
<1> DEFINE r == [at |-> Len(out) + 1, name |-> name, sub |-> sub,
                 scope |-> label_parent(newest)]
           three == <<b1, b2, b3>>
<1>1. TypeOK /\ out \in Seq(Byte) /\ refs \in Seq(Ref)
  BY DEF IInv, TypeOK
<1>2. Len(out) \in Nat /\ Len(refs) \in Nat /\ DOMAIN refs = 1 .. Len(refs)
  BY <1>1, LenProperties
<1>3. three \in Seq(Byte) /\ Len(three) = 3 /\ three[2] = b2 /\ three[3] = b3
  OBVIOUS
<1>4. r \in Ref /\ r.at = Len(out) + 1
  BY <1>1, <1>2, ParentOfNewest DEF Ref
<1>5. refs' = Append(refs, r) /\ out' = out \o three
  BY DEF Mentions
<1> HIDE DEF r, three
<1>6. out' \in Seq(Byte) /\ Len(out') = Len(out) + 3 /\ Grows(out, out')
  BY <1>1, <1>3, <1>5, ConcatProperties, ConcatGrows
<1>7. \A i \in 1 .. Len(out) + 3 :
        out'[i] = IF i <= Len(out) THEN out[i] ELSE three[i - Len(out)]
  BY <1>1, <1>3, <1>5, ConcatProperties
<1>8. out'[Len(out) + 2] = b2 /\ out'[Len(out) + 3] = b3
  BY <1>2, <1>3, <1>7
<1>9. /\ refs' \in Seq(Ref) /\ DOMAIN refs' = 1 .. Len(refs) + 1
      /\ refs'[Len(refs) + 1] = r
      /\ \A i \in 1 .. Len(refs) : refs'[i] = refs[i]
  BY <1>1, <1>4, <1>5, AppendProperties, LenProperties
<1>10. Apart(refs', Len(out'))
  <2>1. Apart(refs, Len(out))
    BY DEF IInv
  <2>2. ASSUME NEW i \in DOMAIN refs'
        PROVE  refs'[i].at \in Nat \ {0} /\ refs'[i].at + 2 <= Len(out')
    <3>1. CASE i = Len(refs) + 1
      BY <1>2, <1>4, <1>6, <1>9, <3>1
    <3>2. CASE i \in 1 .. Len(refs)
      BY <1>2, <1>6, <1>9, <2>1, <3>2 DEF Apart
    <3>3. QED BY <1>2, <1>9, <3>1, <3>2
  <2>3. ASSUME NEW i \in DOMAIN refs', NEW j \in DOMAIN refs', i < j
        PROVE  refs'[i].at + 2 <= refs'[j].at
    <3>1. i \in 1 .. Len(refs)
      BY <1>2, <1>9, <2>3
    <3>2. CASE j = Len(refs) + 1
      BY <1>2, <1>4, <1>9, <2>1, <3>1, <3>2 DEF Apart
    <3>3. CASE j \in 1 .. Len(refs)
      BY <1>2, <1>9, <2>1, <2>3, <3>1, <3>3 DEF Apart
    <3>4. QED BY <1>2, <1>9, <3>2, <3>3
  <2>4. QED BY <2>2, <2>3 DEF Apart
<1>11. QED BY <1>2, <1>4, <1>6, <1>8, <1>9, <1>10 DEF r

LEMMA OpcodeIsByte == Opcode \in Byte /\ Placeholder \in Byte
BY ByteBounds DEF Opcode, Placeholder

LEMMA RefersBackKeeps ==
  ASSUME IInv, NEW name \in Names, NEW sub \in BOOLEAN, RefersBack(name, sub)
  PROVE  IInv'
<1> DEFINE r == [at |-> Len(out) + 1, name |-> name, sub |-> sub,
                 scope |-> label_parent(newest)]
<1>1. TypeOK /\ Mentions(name, sub)
  BY DEF IInv, RefersBack
<1>2. UNCHANGED <<labels, patches, org, phase>> /\ phase = "parsing"
      /\ Len(out) + 3 <= MaxSize
  BY DEF RefersBack, Takes
<1>3. PICK l \in DOMAIN labels :
        /\ Resolves(l, name, NULL)
        /\ out' = out \o <<Opcode, Lo(labels[l].value), Hi(labels[l].value)>>
  BY DEF RefersBack
<1>4. labels[l].name = name /\ ~labels[l].sub
  <2>1. labels[l] \in Label
    BY <1>1, LenProperties, ElementOfSeq DEF TypeOK
  <2>2. labels[l].sub \in BOOLEAN
    BY <2>1 DEF Label
  <2>3. NULL \in Nat
    BY DEF NULL
  <2>4. QED BY <1>1, <1>3, <2>2, <2>3, ResolvedAnswers
<1>5. labels[l].value \in Word
  <2>1. labels[l] \in Label
    BY <1>1, LenProperties, ElementOfSeq DEF TypeOK
  <2>2. QED BY <2>1 DEF Label
<1>6. Lo(labels[l].value) \in Byte /\ Hi(labels[l].value) \in Byte
  BY <1>5, HalvesAreBytes
<1>7. Pair(Lo(labels[l].value), Hi(labels[l].value)) = labels[l].value
  BY <1>5, HalvesMakeWord
<1>8. /\ out' \in Seq(Byte) /\ Len(out') = Len(out) + 3 /\ Len(out) \in Nat
      /\ Grows(out, out')
      /\ out'[Len(out) + 2] = Lo(labels[l].value)
      /\ out'[Len(out) + 3] = Hi(labels[l].value)
      /\ refs' \in Seq(Ref)
      /\ Len(refs) \in Nat /\ DOMAIN refs = 1 .. Len(refs)
      /\ DOMAIN refs' = 1 .. Len(refs) + 1
      /\ refs'[Len(refs) + 1] = r
      /\ \A i \in 1 .. Len(refs) : refs'[i] = refs[i]
      /\ Apart(refs', Len(out'))
  BY ZenonT(40), <1>1, <1>3, <1>6, OpcodeIsByte, ReferenceEmitted
<1>9. r.at = Len(out) + 1 /\ r.name = name
  OBVIOUS
<1> HIDE DEF r
<1>10. TypeOK'
  <2>1. budget' \in Nat
    BY <1>1 DEF TypeOK, RefersBack, Takes
  <2>2. QED BY <1>1, <1>2, <1>8, <2>1 DEF TypeOK
<1>11. Slots(patches', out')
  <2>1. patches \in Seq(Patch)
    BY <1>1 DEF TypeOK
  <2>2. Slots(patches, out)
    BY DEF IInv
  <2>3. Len(out') \in Nat
    BY <1>8
  <2>4. QED BY <1>2, <1>8, <2>1, <2>2, <2>3, SlotsStay
<1>12. NoStrayPatch(patches', refs')
  <2>1. NoStrayPatch(patches, refs)
    BY DEF IInv
  <2>2. QED BY <1>2, <1>8, <2>1 DEF NoStrayPatch
<1>13. AllAnswered(refs', labels', out', patches')
  <2>1. AllAnswered(refs, labels, out, patches) /\ Apart(refs, Len(out))
    BY <1>2 DEF IInv
  <2>2. Settled(refs'[Len(refs) + 1], labels, out')
    <3>1. Answers(labels[l], r, out')
      BY <1>4, <1>7, <1>8, <1>9 DEF Answers
    <3>2. QED BY <1>8, <3>1 DEF Settled
  <2>3. ASSUME NEW i \in 1 .. Len(refs)
        PROVE  Settled(refs[i], labels, out') \/ Pending(refs[i], patches)
    <3>1. refs[i].at \in Nat \ {0} /\ refs[i].at + 2 <= Len(out)
      BY <1>8, <2>1 DEF Apart
    <3>2. labels \in Seq(Label) /\ Grows(labels, labels)
      BY <1>1, LenProperties, GrowsItself DEF TypeOK
    <3>3. CASE Settled(refs[i], labels, out)
      BY <1>8, <3>1, <3>2, <3>3, SettledStays
    <3>4. QED BY <1>8, <2>1, <3>3 DEF AllAnswered
  <2>4. QED BY <1>2, <1>8, <2>2, <2>3 DEF AllAnswered
<1>14. QED BY <1>2, <1>8, <1>10, <1>11, <1>12, <1>13 DEF IInv

(* The new patch has the two bytes behind all others, and waits for the    *)
(* new reference.                                                          *)
LEMMA RefersAheadKeeps ==
  ASSUME IInv, NEW name \in Names, NEW sub \in BOOLEAN, RefersAhead(name, sub)
  PROVE  IInv'
<1> DEFINE r == [at |-> Len(out) + 1, name |-> name, sub |-> sub,
                 scope |-> label_parent(newest)]
           p == [name |-> name, sub |-> sub, label |-> label_parent(newest),
                 location |-> ToWord(Len(out) + 1)]
<1>1. TypeOK /\ Mentions(name, sub)
  BY DEF IInv, RefersAhead
<1>2. UNCHANGED <<labels, org, phase>> /\ phase = "parsing"
      /\ Len(out) + 3 <= MaxSize
  BY DEF RefersAhead, Takes
<1>3. patches' = <<p>> \o patches
      /\ out' = out \o <<Opcode, Placeholder, Placeholder>>
  BY DEF RefersAhead, add_patch
<1>4. /\ out' \in Seq(Byte) /\ Len(out') = Len(out) + 3 /\ Len(out) \in Nat
      /\ Grows(out, out')
      /\ out'[Len(out) + 2] = Placeholder /\ out'[Len(out) + 3] = Placeholder
      /\ r \in Ref /\ refs' \in Seq(Ref)
      /\ Len(refs) \in Nat /\ DOMAIN refs = 1 .. Len(refs)
      /\ DOMAIN refs' = 1 .. Len(refs) + 1
      /\ refs'[Len(refs) + 1] = r
      /\ \A i \in 1 .. Len(refs) : refs'[i] = refs[i]
      /\ Apart(refs', Len(out'))
  BY ZenonT(40), <1>1, <1>3, OpcodeIsByte, ReferenceEmitted
<1>5. ToWord(Len(out) + 1) = Len(out) + 1 /\ Len(out) + 1 \in Word
  <2>1. MaxSize \in Nat /\ MaxSize <= 65535
    BY ConstantsAssumption DEF WordMax
  <2>2. Len(out) + 1 \in Nat /\ Len(out) + 1 <= 65535
    BY ONLY <1>2, <1>4, <2>1
  <2>3. (Len(out) + 1) % 65536 = Len(out) + 1
    BY ONLY <2>2
  <2>4. QED BY <2>2, <2>3, WordBounds DEF ToWord
<1>6. p \in Patch /\ p.location = Len(out) + 1
  BY <1>1, <1>5, ParentOfNewest DEF Patch
<1>7. WaitsFor(p, r)
  BY <1>5 DEF WaitsFor
<1>8. r.at = Len(out) + 1
  OBVIOUS
<1> HIDE DEF r, p
<1>9. patches \in Seq(Patch) /\ <<p>> \in Seq(Patch) /\ Len(<<p>>) = 1
      /\ <<p>>[1] = p
  BY <1>1, <1>6 DEF TypeOK
<1>10. /\ patches' \in Seq(Patch) /\ DOMAIN patches' = 1 .. Len(patches) + 1
       /\ Len(patches) \in Nat /\ DOMAIN patches = 1 .. Len(patches)
       /\ patches'[1] = p
       /\ \A k \in 1 .. Len(patches) : patches'[k + 1] = patches[k]
  <2>1. patches' \in Seq(Patch) /\ Len(patches') = 1 + Len(patches)
    BY <1>3, <1>9, ConcatProperties
  <2>2. Len(patches) \in Nat /\ DOMAIN patches = 1 .. Len(patches)
        /\ DOMAIN patches' = 1 .. Len(patches')
    BY <1>9, <2>1, LenProperties
  <2>3. \A i \in 1 .. 1 + Len(patches) :
          patches'[i] = IF i <= 1 THEN <<p>>[i] ELSE patches[i - 1]
    BY <1>3, <1>9, ConcatProperties
  <2>4. patches'[1] = p
    BY <1>9, <2>2, <2>3
  <2>5. ASSUME NEW k \in 1 .. Len(patches) PROVE patches'[k + 1] = patches[k]
    BY <2>2, <2>3
  <2>6. QED BY <2>1, <2>2, <2>4, <2>5
<1>11. TypeOK'
  <2>1. budget' \in Nat
    BY <1>1 DEF TypeOK, RefersAhead, Takes
  <2>2. QED BY <1>1, <1>2, <1>4, <1>10, <2>1 DEF TypeOK
<1>12. Slots(patches', out')
  <2>1. Slots(patches, out)
    BY DEF IInv
  <2>2. Len(out') \in Nat
    BY <1>4
  <2>3. Slots(patches, out')
    BY <1>4, <1>9, <2>1, <2>2, SlotsStay
  <2>4. Slot(p, out')
    BY <1>4, <1>6 DEF Slot
  <2>5. ASSUME NEW k \in 1 .. Len(patches)
        PROVE  patches[k].location \in Nat
               /\ patches[k].location + 2 <= p.location
    <3>1. patches[k] \in Patch
      BY <1>9, ElementOfSeq
    <3>2. patches[k].location \in Nat
      BY <3>1, WordBounds DEF Patch
    <3>3. patches[k].location + 2 <= Len(out)
      BY <1>10, <2>1 DEF Slots, Slot
    <3>4. QED BY <1>4, <1>6, <3>2, <3>3
  <2>6. ASSUME NEW i \in DOMAIN patches' PROVE Slot(patches'[i], out')
    <3>1. CASE i = 1
      BY <1>10, <2>4, <3>1
    <3>2. CASE i \in 2 .. Len(patches) + 1
      <4>1. i - 1 \in 1 .. Len(patches) /\ (i - 1) + 1 = i
        BY <1>10, <3>2
      <4>2. patches'[i] = patches[i - 1]
        BY <1>10, <4>1
      <4>3. QED BY <1>10, <2>3, <4>1, <4>2 DEF Slots
    <3>3. QED BY <1>10, <3>1, <3>2
  <2>7. ASSUME NEW i \in DOMAIN patches', NEW j \in DOMAIN patches', i < j
        PROVE  patches'[j].location + 2 <= patches'[i].location
    <3>1. j - 1 \in 1 .. Len(patches) /\ (j - 1) + 1 = j
      BY <1>10, <2>7
    <3>2. patches'[j] = patches[j - 1]
      BY <1>10, <3>1
    <3>3. CASE i = 1
      BY <1>10, <2>5, <3>1, <3>2, <3>3
    <3>4. CASE i \in 2 .. Len(patches) + 1
      <4>1. i - 1 \in 1 .. Len(patches) /\ (i - 1) + 1 = i /\ i - 1 < j - 1
        BY <1>10, <2>7, <3>4
      <4>2. patches'[i] = patches[i - 1]
        BY <1>10, <4>1
      <4>3. QED BY <1>10, <2>1, <3>1, <3>2, <4>1, <4>2 DEF Slots
    <3>5. QED BY <1>10, <3>3, <3>4
  <2>8. QED BY <2>6, <2>7 DEF Slots
<1>13. NoStrayPatch(patches', refs')
  <2>1. NoStrayPatch(patches, refs)
    BY DEF IInv
  <2>2. ASSUME NEW k \in DOMAIN patches'
        PROVE  \E i \in DOMAIN refs' : WaitsFor(patches'[k], refs'[i])
    <3>1. CASE k = 1
      BY SMTT(40), <1>4, <1>7, <1>10, <3>1
    <3>2. CASE k \in 2 .. Len(patches) + 1
      <4>1. k - 1 \in 1 .. Len(patches) /\ (k - 1) + 1 = k
        BY <1>10, <3>2
      <4>2. patches'[k] = patches[k - 1]
        BY <1>10, <4>1
      <4>3. PICK i \in DOMAIN refs : WaitsFor(patches[k - 1], refs[i])
        BY <1>10, <2>1, <4>1 DEF NoStrayPatch
      <4>4. QED BY <1>4, <4>2, <4>3
    <3>3. QED BY <1>10, <3>1, <3>2
  <2>3. QED BY <2>2 DEF NoStrayPatch
<1>14. AllAnswered(refs', labels', out', patches')
  <2>1. AllAnswered(refs, labels, out, patches) /\ Apart(refs, Len(out))
    BY <1>2 DEF IInv
  <2>2. Pending(refs'[Len(refs) + 1], patches')
    BY <1>4, <1>7, <1>10 DEF Pending
  <2>3. ASSUME NEW i \in 1 .. Len(refs)
        PROVE  Settled(refs[i], labels, out') \/ Pending(refs[i], patches')
    <3>1. refs[i].at \in Nat \ {0} /\ refs[i].at + 2 <= Len(out)
      BY <1>4, <2>1 DEF Apart
    <3>2. labels \in Seq(Label) /\ Grows(labels, labels)
      BY <1>1, LenProperties, GrowsItself DEF TypeOK
    <3>3. CASE Settled(refs[i], labels, out)
      BY <1>4, <3>1, <3>2, <3>3, SettledStays
    <3>4. CASE Pending(refs[i], patches)
      <4>1. PICK k \in 1 .. Len(patches) : WaitsFor(patches[k], refs[i])
        BY <1>10, <3>4 DEF Pending
      <4>2. k + 1 \in DOMAIN patches' /\ patches'[k + 1] = patches[k]
        BY <1>10, <4>1
      <4>3. QED BY <4>1, <4>2 DEF Pending
    <3>5. QED BY <1>4, <2>1, <3>3, <3>4 DEF AllAnswered
  <2>4. QED BY <1>2, <1>4, <2>2, <2>3 DEF AllAnswered
<1>15. QED BY <1>2, <1>4, <1>11, <1>12, <1>13, <1>14 DEF IInv

-----------------------------------------------------------------------------
(* Output o with x and y written at offset a. *)
Patched(o, a, x, y) == [o EXCEPT ![a + 1] = x, ![a + 2] = y]

LEMMA TwoBytesSet ==
  ASSUME NEW o \in Seq(Byte), NEW a \in Nat, a + 2 <= Len(o),
         NEW x \in Byte, NEW y \in Byte
  PROVE  LET o2 == Patched(o, a, x, y) IN
         /\ o2 \in Seq(Byte) /\ Len(o2) = Len(o)
         /\ o2[a + 1] = x /\ o2[a + 2] = y
         /\ \A i \in 1 .. Len(o) : i # a + 1 /\ i # a + 2 => o2[i] = o[i]
<1> DEFINE o2 == Patched(o, a, x, y)
<1> DEFINE o1 == [o EXCEPT ![a + 1] = x]
<1>1. Len(o) \in Nat /\ a + 1 \in 1 .. Len(o) /\ a + 2 \in 1 .. Len(o)
  BY LenProperties
<1>2. /\ o1 \in Seq(Byte) /\ Len(o1) = Len(o)
      /\ \A j \in 1 .. Len(o) : o1[j] = IF j = a + 1 THEN x ELSE o[j]
  BY <1>1, ExceptSeq
<1>3. o2 = [o1 EXCEPT ![a + 2] = y]
  BY DEF Patched
<1> HIDE DEF o1, o2
<1>4. /\ o2 \in Seq(Byte) /\ Len(o2) = Len(o1)
      /\ \A j \in 1 .. Len(o1) : o2[j] = IF j = a + 2 THEN y ELSE o1[j]
  BY <1>1, <1>2, <1>3, ExceptSeq
<1>5. QED BY <1>1, <1>2, <1>4 DEF o2

LEMMA FirstPatch ==
  ASSUME TypeOK, patches # << >>, patches' = Tail(patches)
  PROVE  /\ Len(patches) \in Nat /\ DOMAIN patches = 1 .. Len(patches)
         /\ 1 \in DOMAIN patches /\ Head(patches) = patches[1]
         /\ Head(patches) \in Patch /\ Head(patches).location \in Nat
         /\ patches' \in Seq(Patch) /\ DOMAIN patches' = 1 .. Len(patches) - 1
         /\ \A k \in 1 .. Len(patches) - 1 : patches'[k] = patches[k + 1]
<1>1. patches \in Seq(Patch)
  BY DEF TypeOK
<1>2. Len(patches) \in Nat \ {0} /\ DOMAIN patches = 1 .. Len(patches)
  BY <1>1, LenProperties, EmptySeq
<1>3. /\ Head(patches) \in Patch
      /\ patches' \in Seq(Patch) /\ Len(patches') = Len(patches) - 1
      /\ \A k \in 1 .. Len(patches') : patches'[k] = patches[k + 1]
  BY <1>1, HeadTailProperties
<1>4. Head(patches) = patches[1]
  BY <1>1, <1>2
<1>5. DOMAIN patches' = 1 .. Len(patches) - 1
  BY <1>3, LenProperties
<1>6. Head(patches).location \in Nat
  BY <1>3, WordBounds DEF Patch
<1>7. QED BY <1>2, <1>3, <1>4, <1>5, <1>6

(* What a patch does when its label is found.                              *)
LEMMA PatchApplied ==
  ASSUME IInv, phase = "patching", patches # << >>, patches' = Tail(patches),
         UNCHANGED <<labels, org, refs, budget, phase>>,
         NEW l \in DOMAIN labels,
         Resolves(l, Head(patches).name, Head(patches).label),
         out' = [out EXCEPT ![Head(patches).location + 1] = Lo(labels[l].value),
                            ![Head(patches).location + 2] = Hi(labels[l].value)]
  PROVE  IInv'
<1> DEFINE p == Head(patches)
           v == labels[l].value
<1>1. TypeOK
  BY DEF IInv
<1>2. /\ Len(patches) \in Nat /\ DOMAIN patches = 1 .. Len(patches)
      /\ 1 \in DOMAIN patches /\ p = patches[1]
      /\ p \in Patch /\ p.location \in Nat
      /\ patches' \in Seq(Patch) /\ DOMAIN patches' = 1 .. Len(patches) - 1
      /\ \A k \in 1 .. Len(patches) - 1 : patches'[k] = patches[k + 1]
  BY <1>1, FirstPatch
<1>3. v \in Word
  <2>1. labels[l] \in Label
    BY <1>1, LenProperties, ElementOfSeq DEF TypeOK
  <2>2. QED BY <2>1 DEF Label
<1>4. Lo(v) \in Byte /\ Hi(v) \in Byte /\ Pair(Lo(v), Hi(v)) = v
  BY <1>3, HalvesAreBytes, HalvesMakeWord
<1>5. labels[l].name = p.name /\ (labels[l].sub => labels[l].parent = p.label)
  <2>1. p.label \in Nat
    BY <1>2 DEF Patch
  <2>2. QED BY <1>1, <2>1, ResolvedAnswers
<1>6. Slots(patches, out) /\ Apart(refs, Len(out))
      /\ NoStrayPatch(patches, refs) /\ AllAnswered(refs, labels, out, patches)
  BY DEF IInv
<1>7. p.location + 2 <= Len(out)
  BY <1>2, <1>6 DEF Slots, Slot
<1>8. out \in Seq(Byte) /\ labels \in Seq(Label) /\ Len(out) \in Nat
  BY <1>1, LenProperties DEF TypeOK
<1>9. out' = Patched(out, p.location, Lo(v), Hi(v))
  BY DEF Patched
<1> HIDE DEF p, v
<1>10. /\ out' \in Seq(Byte) /\ Len(out') = Len(out)
       /\ out'[p.location + 1] = Lo(v) /\ out'[p.location + 2] = Hi(v)
       /\ \A i \in 1 .. Len(out) :
            i # p.location + 1 /\ i # p.location + 2 => out'[i] = out[i]
  <2> DEFINE a == p.location
             x == Lo(v)
             y == Hi(v)
  <2>1. /\ out \in Seq(Byte) /\ a \in Nat /\ a + 2 <= Len(out)
        /\ x \in Byte /\ y \in Byte
    BY <1>2, <1>4, <1>7, <1>8
  <2>2. out' = Patched(out, a, x, y)
    BY <1>9
  <2> HIDE DEF a, x, y
  <2>3. LET o2 == Patched(out, a, x, y) IN
        /\ o2 \in Seq(Byte) /\ Len(o2) = Len(out)
        /\ o2[a + 1] = x /\ o2[a + 2] = y
        /\ \A i \in 1 .. Len(out) : i # a + 1 /\ i # a + 2 => o2[i] = out[i]
    BY ONLY <2>1, TwoBytesSet
  <2>4. QED BY <2>2, <2>3 DEF a, x, y
<1>11. TypeOK'
  BY <1>1, <1>2, <1>10 DEF TypeOK
<1>12. Slots(patches', out')
  <2>1. ASSUME NEW k \in 1 .. Len(patches) - 1 PROVE Slot(patches'[k], out')
    <3>1. patches'[k] = patches[k + 1] /\ k + 1 \in DOMAIN patches /\ 1 < k + 1
      BY <1>2
    <3>2. patches[k + 1].location + 2 <= p.location
      BY <1>2, <1>6, <3>1 DEF Slots
    <3>3. Slot(patches[k + 1], out)
      BY <1>6, <3>1 DEF Slots
    <3>4. patches[k + 1].location \in Nat
      <4>1. patches[k + 1] \in Patch
        BY <1>1, <1>2, <3>1, ElementOfSeq DEF TypeOK
      <4>2. QED BY <4>1, WordBounds DEF Patch
    <3>5. Slot(patches[k + 1], out')
      <4> DEFINE q == patches[k + 1].location
      <4>1. q \in Nat /\ q + 2 <= Len(out) /\ q + 2 <= p.location
            /\ out[q + 1] = Placeholder /\ out[q + 2] = Placeholder
        BY <3>2, <3>3, <3>4 DEF Slot
      <4> HIDE DEF q
      <4>2. /\ q + 1 \in 1 .. Len(out) /\ q + 2 \in 1 .. Len(out)
            /\ q + 1 # p.location + 1 /\ q + 1 # p.location + 2
            /\ q + 2 # p.location + 1 /\ q + 2 # p.location + 2
        BY <1>2, <1>8, <4>1
      <4>3. out'[q + 1] = Placeholder /\ out'[q + 2] = Placeholder
        BY <1>10, <4>1, <4>2
      <4>4. QED BY <1>10, <4>1, <4>3 DEF Slot, q
    <3>6. QED BY <3>1, <3>5
  <2>2. ASSUME NEW i \in 1 .. Len(patches) - 1, NEW j \in 1 .. Len(patches) - 1,
               i < j
        PROVE  patches'[j].location + 2 <= patches'[i].location
    <3>1. i + 1 \in DOMAIN patches /\ j + 1 \in DOMAIN patches /\ i + 1 < j + 1
      BY <1>2, <2>2
    <3>2. QED BY <1>2, <1>6, <3>1 DEF Slots
  <2>3. QED BY <1>2, <2>1, <2>2 DEF Slots
<1>13. NoStrayPatch(patches', refs')
  <2>1. ASSUME NEW k \in DOMAIN patches'
        PROVE  \E i \in DOMAIN refs : WaitsFor(patches'[k], refs[i])
    <3>1. patches'[k] = patches[k + 1] /\ k + 1 \in DOMAIN patches
      BY <1>2
    <3>2. QED BY <1>6, <3>1 DEF NoStrayPatch
  <2>2. QED BY <2>1 DEF NoStrayPatch
<1>14. AllAnswered(refs', labels', out', patches')
  <2>1. PICK j \in DOMAIN refs : WaitsFor(p, refs[j])
    BY <1>2, <1>6 DEF NoStrayPatch
  <2>2. refs[j].at = p.location /\ refs[j].name = p.name
        /\ refs[j].scope = p.label
    BY <2>1 DEF WaitsFor
  <2>3. Settled(refs[j], labels, out')
    <3>1. Answers(labels[l], refs[j], out')
      BY <1>4, <1>5, <1>10, <2>2 DEF Answers, v
    <3>2. QED BY <3>1 DEF Settled
  <2>4. ASSUME NEW i \in DOMAIN refs, i # j
        PROVE  Settled(refs[i], labels, out') \/ Pending(refs[i], patches')
    <3>1. DOMAIN refs = 1 .. Len(refs) /\ Len(refs) \in Nat
      BY <1>1, LenProperties DEF TypeOK
    <3>2. /\ refs[i].at \in Nat \ {0} /\ refs[i].at + 2 <= Len(out)
          /\ (refs[i].at + 2 <= p.location \/ p.location + 2 <= refs[i].at)
      <4>1. refs[i].at \in Nat \ {0} /\ refs[i].at + 2 <= Len(out)
        BY <1>6, <2>4 DEF Apart
      <4>2. i < j \/ j < i
        BY <2>1, <2>4, <3>1
      <4>3. refs[i].at + 2 <= refs[j].at \/ refs[j].at + 2 <= refs[i].at
        BY <1>6, <2>1, <2>4, <4>2 DEF Apart
      <4>4. QED BY <2>2, <4>1, <4>3
    <3>3. CASE Settled(refs[i], labels, out)
      <4>1. PICK m \in DOMAIN labels : Answers(labels[m], refs[i], out)
        BY <3>3 DEF Settled
      <4>2. out'[refs[i].at + 1] = out[refs[i].at + 1]
            /\ out'[refs[i].at + 2] = out[refs[i].at + 2]
        <5> DEFINE q == refs[i].at
        <5>1. q \in Nat /\ q + 2 <= Len(out)
              /\ (q + 2 <= p.location \/ p.location + 2 <= q)
          BY <3>2
        <5> HIDE DEF q
        <5>2. /\ q + 1 \in 1 .. Len(out) /\ q + 2 \in 1 .. Len(out)
              /\ q + 1 # p.location + 1 /\ q + 1 # p.location + 2
              /\ q + 2 # p.location + 1 /\ q + 2 # p.location + 2
          BY <1>2, <1>8, <5>1
        <5>3. out'[q + 1] = out[q + 1] /\ out'[q + 2] = out[q + 2]
          BY <1>10, <5>2
        <5>4. QED BY <5>3 DEF q
      <4>3. Answers(labels[m], refs[i], out')
        BY <4>1, <4>2 DEF Answers
      <4>4. QED BY <4>3 DEF Settled
    <3>4. CASE Pending(refs[i], patches)
      <4>1. PICK k \in DOMAIN patches : WaitsFor(patches[k], refs[i])
        BY <3>4 DEF Pending
      <4>2. k # 1
        BY <1>2, <3>2, <4>1 DEF WaitsFor
      <4>3. k - 1 \in DOMAIN patches' /\ patches'[k - 1] = patches[k]
        <5>1. k - 1 \in 1 .. Len(patches) - 1 /\ (k - 1) + 1 = k
          BY <1>2, <4>2
        <5>2. QED BY <1>2, <5>1
      <4>4. QED BY <4>1, <4>3 DEF Pending
    <3>5. QED BY <1>6, <3>3, <3>4 DEF AllAnswered
  <2>5. UNCHANGED <<labels, refs>>
    OBVIOUS
  <2>6. QED BY <2>3, <2>4, <2>5 DEF AllAnswered
<1>15. Len(out') <= MaxSize /\ Apart(refs', Len(out')) /\ phase' = "patching"
  BY <1>6, <1>10 DEF IInv
<1>16. QED BY <1>11, <1>12, <1>13, <1>14, <1>15 DEF IInv

LEMMA ApplyPatchKeeps ==
  ASSUME IInv, ApplyPatch
  PROVE  IInv'
<1>1. phase = "patching" /\ patches # << >> /\ patches' = Tail(patches)
      /\ UNCHANGED <<labels, org, refs, budget>>
  BY DEF ApplyPatch
<1>2. ASSUME NEW l \in DOMAIN labels,
             Resolves(l, Head(patches).name, Head(patches).label),
             out' = [out EXCEPT
                       ![Head(patches).location + 1] = Lo(labels[l].value),
                       ![Head(patches).location + 2] = Hi(labels[l].value)],
             UNCHANGED phase
      PROVE  IInv'
  BY <1>1, <1>2, PatchApplied
<1>3. CASE phase' = "error" /\ UNCHANGED out
  <2>1. TypeOK /\ Slots(patches, out) /\ NoStrayPatch(patches, refs)
    BY DEF IInv
  <2>2. /\ Len(patches) \in Nat /\ DOMAIN patches = 1 .. Len(patches)
        /\ patches' \in Seq(Patch) /\ DOMAIN patches' = 1 .. Len(patches) - 1
        /\ \A k \in 1 .. Len(patches) - 1 : patches'[k] = patches[k + 1]
    BY <1>1, <2>1, FirstPatch
  <2>3. ASSUME NEW k \in DOMAIN patches'
        PROVE  k + 1 \in DOMAIN patches /\ patches'[k] = patches[k + 1]
    BY <2>2
  <2>4. Slots(patches', out')
    <3>1. \A k \in DOMAIN patches' : Slot(patches'[k], out')
      BY <1>3, <2>1, <2>3 DEF Slots
    <3>2. ASSUME NEW i \in DOMAIN patches', NEW j \in DOMAIN patches', i < j
          PROVE  patches'[j].location + 2 <= patches'[i].location
      <4>1. i + 1 < j + 1
        BY <2>2, <3>2
      <4>2. QED BY <2>1, <2>3, <4>1 DEF Slots
    <3>3. QED BY <3>1, <3>2 DEF Slots
  <2>5. NoStrayPatch(patches', refs')
    BY <1>1, <2>1, <2>3 DEF NoStrayPatch
  <2>6. TypeOK'
    BY <1>1, <1>3, <2>1, <2>2 DEF TypeOK
  <2>7. QED BY <1>1, <1>3, <2>4, <2>5, <2>6 DEF IInv
<1>4. QED BY <1>2, <1>3 DEF ApplyPatch

LEMMA StepKeeps == IInv /\ [Next]_vars => IInv'
<1> SUFFICES ASSUME IInv, [Next]_vars PROVE IInv'
  OBVIOUS
<1>1. CASE \E name \in Names, sub \in BOOLEAN : DefineLabel(name, sub)
  BY <1>1, DefineLabelKeeps
<1>2. CASE \E name \in Names, sub \in BOOLEAN : RefersBack(name, sub)
  BY <1>2, RefersBackKeeps
<1>3. CASE \E name \in Names, sub \in BOOLEAN : RefersAhead(name, sub)
  BY <1>3, RefersAheadKeeps
<1>4. CASE \E n \in Sizes : Emit(n)
  BY <1>4, EmitKeeps
<1>5. CASE \E v \in Origins : Org(v)
  BY <1>5, OrgKeeps
<1>6. CASE EndOfInput
  BY <1>6, EndOfInputKeeps
<1>7. CASE ApplyPatch
  BY <1>7, ApplyPatchKeeps
<1>8. CASE Finish
  BY <1>8, FinishKeeps
<1>9. CASE UNCHANGED vars
  <2>1. TypeOK'
    BY <1>9 DEF IInv, TypeOK, vars
  <2>2. QED BY <1>9, <2>1, StillStep DEF vars, IInv
<1>10. QED
  BY <1>1, <1>2, <1>3, <1>4, <1>5, <1>6, <1>7, <1>8, <1>9 DEF Next

LEMMA IInvAlways == Spec => []IInv
BY InitHolds, StepKeeps, PTL DEF Spec
-----------------------------------------------------------------------------
(* Labels, patches and output keep their types, for programs of any size   *)
(* up to the address space (parse() and assemble() in asm/asm.c).          *)
THEOREM LabelTypes == Spec => []TypeOK
<1>1. IInv => TypeOK
  BY DEF IInv
<1>2. QED BY <1>1, IInvAlways, PTL

(* However many patches there are and whatever is emitted between them,    *)
(* each has two bytes of its own that nothing writes before it is applied  *)
(* (add_patch() in asm/asm.c).                                             *)
THEOREM PatchSlotsReserved == Spec => []PatchSlots
<1>1. IInv => PatchSlots
  BY SlotsArePatchSlots DEF IInv
<1>2. QED BY <1>1, IInvAlways, PTL

(* When a program has been assembled, every reference that is clear holds  *)
(* the address of the label it means, whether the label was defined before *)
(* it or after it and with however many labels of the same name under      *)
(* other labels (resolve_label() and the patches in asm/asm.c).            *)
THEOREM ReferencesAreRight == Spec => []ReferencesRight
<1>1. IInv => ReferencesRight
  <2> SUFFICES ASSUME IInv, phase = "done",
                      NEW i \in DOMAIN refs, Clear(refs[i])
               PROVE  \E l \in DOMAIN labels :
                        Means(refs[i], l) /\ Address(refs[i]) = labels[l].value
    BY DEF ReferencesRight
  <2>1. patches = << >> /\ AllAnswered(refs, labels, out, patches)
    BY DEF IInv
  <2>2. Settled(refs[i], labels, out)
    BY <2>1 DEF AllAnswered, Pending
  <2>3. PICK l \in DOMAIN labels : Answers(labels[l], refs[i], out)
    BY <2>2 DEF Settled
  <2>4. labels[l].sub = refs[i].sub
    BY <2>3 DEF Clear, Answers
  <2>5. Means(refs[i], l) /\ Address(refs[i]) = labels[l].value
    BY <2>3, <2>4 DEF Means, Answers, Address
  <2>6. QED BY <2>5
<1>2. QED BY <1>1, IInvAlways, PTL

(* A byte that has been emitted is changed only by the patch of its place, *)
(* after the last statement (the patches in asm/asm.c).                    *)
THEOREM EmittedBytesKept == Spec => EmittedKept
<1> DEFINE Kept == \A i \in DOMAIN out :
             out'[i] # out[i] =>
               /\ phase = "patching"
               /\ i \in {Head(patches).location + 1, Head(patches).location + 2}
<1>1. IInv /\ [Next]_vars => [Kept]_vars
  <2> SUFFICES ASSUME IInv, Next PROVE Kept
    OBVIOUS
  <2>1. out \in Seq(Byte) /\ DOMAIN out = 1 .. Len(out) /\ Len(out) \in Nat
    BY LenProperties DEF IInv, TypeOK
  <2>2. CASE UNCHANGED out
    BY <2>2
  <2>3. ASSUME NEW t \in Seq(Byte), out' = out \o t PROVE Kept
    <3>1. Grows(out, out')
      BY <2>1, <2>3, ConcatGrows
    <3>2. QED BY <2>1, <3>1 DEF Grows
  <2>4. CASE \E name \in Names, sub \in BOOLEAN : RefersBack(name, sub)
    <3>1. PICK l \in DOMAIN labels :
            out' = out \o <<Opcode, Lo(labels[l].value), Hi(labels[l].value)>>
      BY <2>4 DEF RefersBack
    <3>2. labels[l].value \in Word
      <4>1. labels[l] \in Label
        BY LenProperties, ElementOfSeq DEF IInv, TypeOK
      <4>2. QED BY <4>1 DEF Label
    <3>3. <<Opcode, Lo(labels[l].value), Hi(labels[l].value)>> \in Seq(Byte)
      BY <3>2, HalvesAreBytes, OpcodeIsByte
    <3>4. QED BY <2>3, <3>1, <3>3
  <2>5. CASE \E name \in Names, sub \in BOOLEAN : RefersAhead(name, sub)
    <3>1. out' = out \o <<Opcode, Placeholder, Placeholder>>
      BY <2>5 DEF RefersAhead
    <3>2. <<Opcode, Placeholder, Placeholder>> \in Seq(Byte)
      BY OpcodeIsByte
    <3>3. QED BY <2>3, <3>1, <3>2
  <2>6. CASE \E n \in Sizes : Emit(n)
    <3>1. PICK n \in Nat : out' = out \o [i \in 1 .. n |-> 0]
      BY <2>6, ConstantsAssumption DEF Emit
    <3>2. 0 \in Byte
      BY ByteBounds
    <3>3. [i \in 1 .. n |-> 0] \in Seq(Byte)
      BY <3>2
    <3>4. QED BY <2>3, <3>1, <3>3
  <2>7. CASE ApplyPatch
    <3>1. phase = "patching"
      BY <2>7 DEF ApplyPatch
    <3>2. ASSUME NEW x, NEW y,
                 out' = [out EXCEPT ![Head(patches).location + 1] = x,
                                    ![Head(patches).location + 2] = y]
          PROVE  Kept
      BY <2>1, <3>1, <3>2
    <3>3. CASE UNCHANGED out
      BY <3>3
    <3>4. QED BY <2>7, <3>2, <3>3 DEF ApplyPatch
  <2>8. CASE \/ \E name \in Names, sub \in BOOLEAN : DefineLabel(name, sub)
             \/ \E v \in Origins : Org(v)
             \/ EndOfInput \/ Finish
    BY <2>2, <2>8 DEF DefineLabel, Org, EndOfInput, Finish
  <2>9. QED BY <2>4, <2>5, <2>6, <2>7, <2>8 DEF Next
<1>2. QED BY <1>1, IInvAlways, PTL DEF Spec, EmittedKept

=============================================================================
