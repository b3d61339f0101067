------------------------------- MODULE Labels -------------------------------
(***************************************************************************)
(* Labels and patches of the assembler (asm/asm.c). The parser takes one   *)
(* statement after the other. A label is a name for the location reached;  *)
(* a label with a dot belongs to the label without a dot before it. The    *)
(* address operand of an instruction is resolved at once if it can be;     *)
(* otherwise two bytes are left open for it and filled in after the last   *)
(* statement.                                                              *)
(***************************************************************************)
EXTENDS Bytes, Sequences

CONSTANTS
  Names,       \* names of labels (none is the name of a register)
  Sizes,       \* sizes of statements without labels
  Origins,     \* operands of @org
  MaxSize,     \* bound: bytes of output
  MaxStatements

ASSUME ConstantsAssumption ==
  /\ Sizes \subseteq Nat /\ Origins \subseteq Word
  /\ MaxSize \in Nat /\ MaxSize <= WordMax
  /\ MaxStatements \in Nat

VARIABLES
  labels,      \* ctx->labels, in the order of definition
  patches,     \* ctx->patches not yet applied, the latest first
  out,         \* ctx->out
  org,         \* ctx->org
  refs,        \* history: the references, in the order of their operands
  budget,      \* statements still to come
  phase        \* "parsing", "patching", "done" or "error"

vars == <<labels, patches, out, org, refs, budget, phase>>

ORG_UNSET == WordMax

location == ToWord((IF org = ORG_UNSET THEN 0 ELSE org) + Len(out))
-----------------------------------------------------------------------------
(* Slip: the newest label counts as the parent, with a dot or without.     *)
label_parentNewest(l) == l

(* A pointer to a label is its number, NULL is 0. label_parent() walks to  *)
(* the label without a dot before a label; what it finds does not change   *)
(* after the label is defined, and is kept with it.                        *)
NULL == 0
newest == Len(labels)
label_parent(l) == IF l = NULL THEN NULL ELSE labels[l].parent

(* resolve_label(): the newest label of the name is taken that has no dot, *)
(* or whose parent is from. The dot of the reference is not looked at.     *)
Fits(l, name, from) ==
  /\ labels[l].name = name
  /\ labels[l].sub => label_parent(l) = (IF from = NULL THEN newest ELSE from)
Resolves(l, name, from) ==
  /\ l \in DOMAIN labels /\ Fits(l, name, from)
  /\ \A k \in l + 1 .. newest : ~Fits(k, name, from)
Unresolved(name, from) == \A l \in DOMAIN labels : ~Fits(l, name, from)
-----------------------------------------------------------------------------
Takes(n) ==
  /\ phase = "parsing" /\ budget > 0 /\ Len(out) + n <= MaxSize
  /\ budget' = budget - 1
  /\ UNCHANGED phase

DefineLabel(name, sub) ==
  /\ Takes(0)
  /\ labels' = Append(labels,
       [name |-> name, sub |-> sub, value |-> location,
        parent |-> IF sub THEN label_parent(newest) ELSE newest + 1])
  /\ UNCHANGED <<patches, out, org, refs>>

(* LDA with a label as operand: the opcode and an address. *)
Opcode == 80
Placeholder == 240     \* 0xF0

Mentions(name, sub) ==
  refs' = Append(refs, [at |-> Len(out) + 1, name |-> name, sub |-> sub,
                        scope |-> label_parent(newest)])

RefersBack(name, sub) ==
  /\ Takes(3)
  /\ \E l \in DOMAIN labels :
       /\ Resolves(l, name, NULL)
       /\ out' = out \o <<Opcode, Lo(labels[l].value), Hi(labels[l].value)>>
  /\ Mentions(name, sub)
  /\ UNCHANGED <<labels, patches, org>>

(* Slip: the patch is applied one byte late.                               *)
add_patchLate(name, sub) ==
  patches' = <<[name |-> name, sub |-> sub, label |-> label_parent(newest),
                location |-> ToWord(Len(out) + 2)]>> \o patches

add_patch(name, sub) ==
  patches' = <<[name |-> name, sub |-> sub, label |-> label_parent(newest),
                location |-> ToWord(Len(out) + 1)]>> \o patches

RefersAhead(name, sub) ==
  /\ Takes(3)
  /\ Unresolved(name, NULL)
  /\ out' = out \o <<Opcode, Placeholder, Placeholder>>
  /\ add_patch(name, sub)
  /\ Mentions(name, sub)
  /\ UNCHANGED <<labels, org>>

(* Instructions and data without labels. *)
Emit(n) ==
  /\ Takes(n)
  /\ out' = out \o [i \in 1 .. n |-> 0]
  /\ UNCHANGED <<labels, patches, org, refs>>

Org(v) ==
  /\ phase = "parsing" /\ budget > 0
  /\ budget' = budget - 1
  /\ IF org = ORG_UNSET THEN org' = v /\ UNCHANGED phase
     ELSE phase' = "error" /\ UNCHANGED org
  /\ UNCHANGED <<labels, patches, out, refs>>

EndOfInput ==
  /\ phase = "parsing"
  /\ phase' = "patching"
  /\ UNCHANGED <<labels, patches, out, org, refs, budget>>

(* Slip: the address is written over the opcode before it.                 *)
ApplyPatchEarly ==
  /\ phase = "patching" /\ patches # << >>
  /\ LET p == Head(patches) IN
     \E l \in DOMAIN labels :
          /\ Resolves(l, p.name, p.label)
          /\ out' = [out EXCEPT ![p.location] = Lo(labels[l].value),
                                ![p.location + 1] = Hi(labels[l].value)]
          /\ UNCHANGED phase
  /\ patches' = Tail(patches)
  /\ UNCHANGED <<labels, org, refs, budget>>

ApplyPatch ==
  /\ phase = "patching" /\ patches # << >>
  /\ LET p == Head(patches) IN
     \/ \E l \in DOMAIN labels :
          /\ Resolves(l, p.name, p.label)
          /\ out' = [out EXCEPT ![p.location + 1] = Lo(labels[l].value),
                                ![p.location + 2] = Hi(labels[l].value)]
          /\ UNCHANGED phase
     \/ /\ Unresolved(p.name, p.label)
        /\ phase' = "error"
        /\ UNCHANGED out
  /\ patches' = Tail(patches)
  /\ UNCHANGED <<labels, org, refs, budget>>

Finish ==
  /\ phase = "patching" /\ patches = << >>
  /\ phase' = "done"
  /\ UNCHANGED <<labels, patches, out, org, refs, budget>>

Init ==
  /\ labels = << >> /\ patches = << >> /\ out = << >> /\ org = ORG_UNSET
  /\ refs = << >>
  /\ budget = MaxStatements
  /\ phase = "parsing"

Next ==
  \/ \E name \in Names, sub \in BOOLEAN : DefineLabel(name, sub)
  \/ \E name \in Names, sub \in BOOLEAN : RefersBack(name, sub)
  \/ \E name \in Names, sub \in BOOLEAN : RefersAhead(name, sub)
  \/ \E n \in Sizes : Emit(n)
  \/ \E v \in Origins : Org(v)
  \/ EndOfInput \/ ApplyPatch \/ Finish

Spec == Init /\ [][Next]_vars
-----------------------------------------------------------------------------
Label == [name : Names, sub : BOOLEAN, value : Word, parent : Nat]
Patch == [name : Names, sub : BOOLEAN, label : Nat, location : Word]
Ref == [name : Names, sub : BOOLEAN, scope : Nat, at : Nat]

(* Values, origins and bytes keep their widths, and a label's parent is    *)
(* itself or was defined before it.                                        *)
TypeOK ==
  /\ labels \in Seq(Label) /\ patches \in Seq(Patch) /\ refs \in Seq(Ref)
  /\ out \in Seq(Byte) /\ org \in Word
  /\ \A l \in DOMAIN labels :
       /\ labels[l].sub => labels[l].parent < l
       /\ ~labels[l].sub => labels[l].parent = l
  /\ budget \in Nat
  /\ phase \in {"parsing", "patching", "done", "error"}

(* Every patch still to be applied has two bytes of the output to itself,  *)
(* which hold the placeholder until then.                                  *)
PatchSlots ==
  \A i \in DOMAIN patches : LET a == patches[i].location IN
    /\ a + 2 <= Len(out)
    /\ out[a + 1] = Placeholder /\ out[a + 2] = Placeholder
    /\ \A j \in DOMAIN patches : i < j => patches[j].location + 2 <= a

(* What has been emitted is changed by the patch of its place only.        *)
EmittedKept ==
  [][\A i \in DOMAIN out :
       out'[i] # out[i] =>
         /\ phase = "patching"
         /\ i \in {Head(patches).location + 1, Head(patches).location + 2}]_vars

(* The label a reference means: with a dot, the one with a dot and the     *)
(* same label before it; without, the one without. A reference is clear if *)
(* there is only one such label, and no label of the other kind has its    *)
(* name.                                                                   *)
Means(r, l) ==
  /\ labels[l].name = r.name /\ labels[l].sub = r.sub
  /\ r.sub => labels[l].parent = r.scope
Clear(r) ==
  /\ \A l, k \in DOMAIN labels : Means(r, l) /\ Means(r, k) => l = k
  /\ \A l \in DOMAIN labels : labels[l].name = r.name => labels[l].sub = r.sub
Address(r) == Pair(out[r.at + 1], out[r.at + 2])

(* In a program that assembles, the operand of every clear reference is    *)
(* the location of the label it means, which may be behind or ahead, under *)
(* other labels and after other references.                                *)
ReferencesRight ==
  phase = "done" =>
    \A i \in DOMAIN refs :
      Clear(refs[i]) =>
        \E l \in DOMAIN labels :
          Means(refs[i], l) /\ Address(refs[i]) = labels[l].value
=============================================================================
