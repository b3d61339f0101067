------------------------------ MODULE MCLabels ------------------------------
(* All programs of a few statements with two names for labels. *)
EXTENDS Labels

Edges == {253, 65534}    \* locations cross 0x0100, or wrap around to 0
=============================================================================
