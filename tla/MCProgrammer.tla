---------------------------- MODULE MCProgrammer ----------------------------
(***************************************************************************)
(* A programmer whose bytes have four values, with an EEPROM of eight      *)
(* cells in an address space of sixteen.                                   *)
(***************************************************************************)
EXTENDS Programmer

User_(op, a, d, v) == [op |-> op, addr |-> a, data |-> d, verify |-> v]

Session ==
  {User_("ping", 0, << >>, FALSE), User_("clear", 0, << >>, FALSE),
   User_("read", 7, <<0, 0>>, FALSE),
   User_("byte", 15, <<1>>, FALSE), User_("byte", 3, <<0>>, FALSE),
   User_("file", 1, <<0, 2, 3, 1>>, TRUE),
   User_("image", 14, <<2, 3, 1>>, FALSE)}

(* The last cell, and a bus nobody drives, may read as the end of a command. *)
Used == {[a \in 0 .. 7 |-> IF a = 7 THEN 3 ELSE a % 3]}

(* The long command is not followed beyond a restart.                      *)
ClearUndisturbed == Undisturbed \/ job.op \notin {"clear", "check"}
=============================================================================
