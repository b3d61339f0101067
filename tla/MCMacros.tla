----------------------------- MODULE MCMacros -----------------------------
(***************************************************************************)
(* Small instances of Macros: programs that compute, compare and jump,     *)
(* store and load words, call and return.                                  *)
(***************************************************************************)
EXTENDS Macros

FlowBytes == {0, 255}
PageEdge == {32768, 33023, 33024}    \* 0x8000, 0x80FF, 0x8100
FarTargets == {513}
PageSites == {0, 247}                \* 0xF7 + 9 is 0x100
=============================================================================
