---------------------------- MODULE MCMicrocode ----------------------------
(***************************************************************************)
(* Two instructions whose lists have room for two steps each, and lines of *)
(* microcode.asm and some it has not.                                      *)
(***************************************************************************)
EXTENDS Microcode

TwoInstructions == <<"mw", "cmp">>
TwoMacros == {"load", "load_and_flags"}
MacroBodies ==
  [load |-> << <<"ereg", "ldx">>, <<"~", "sel", "ealu", "lreg">> >>,
   load_and_flags |-> << <<"load">>, <<"ldf">> >>]
SomeLines ==
  { <<"mw", ":">>, <<"cmp", ":">>, <<"nop", ":">>,
    <<".", "const", ":">>, <<".", "reg", ":">>, <<".", "imm", ":">>,
    <<"asp", "eop1", "lmem">>, <<"eop1", "ldl">>, <<"ahl", "~", "sel">>,
    <<"ealu", "emem">>, <<"~", "~", "sel">>, <<"sel", "cc">>,
    <<"load">>, <<"load_and_flags">> }
=============================================================================
