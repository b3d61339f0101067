------------------------------ MODULE LifoStack ------------------------------
(***************************************************************************)
(* What SPEC.txt promises of PUSH and POP when programs keep the stack to  *)
(* its own region: a stack of bytes. A push takes any byte; a pop puts the *)
(* newest byte in one register; any other instruction leaves the stack     *)
(* alone.                                                                  *)
(***************************************************************************)
EXTENDS Integers, SequencesExt

VARIABLES stack, registers

Push ==
  /\ \E v \in 0 .. 255 : stack' = Append(stack, v)
  /\ UNCHANGED registers

Pop ==
  /\ stack # << >>
  /\ stack' = Front(stack)
  /\ \E r \in DOMAIN registers :
       registers' = [registers EXCEPT ![r] = Last(stack)]

Compute == UNCHANGED stack

Init == stack = << >>
Next == Push \/ Pop \/ Compute
Spec == Init /\ [][Next]_<<stack, registers>>
=============================================================================
