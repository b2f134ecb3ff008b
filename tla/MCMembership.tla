---------------------------- MODULE MCMembership ----------------------------
(***************************************************************************)
(* The instance of Membership for TLC: every specification of up to five   *)
(* bytes over an alphabet with operations of each kind, whose bytes are    *)
(* also the literals: small numbers and one that is negative as an INT8.   *)
(***************************************************************************)
EXTENDS Membership

(* AND, NOT, LET, UINT8, UINT16, INT8, REPOSITORY, SUB, DIV, no operation. *)
SomeBytes == {0, 2, 7, 9, 10, 11, 13, 15, 16, 255}

(* Values 0 to 9: a zero, negative ones and a node id.                     *)
Readings == [i \in 0..9 |-> CASE i = 0 -> 0 [] i = 2 -> -39 [] i = 7 -> 2047
                              [] OTHER -> i]
=============================================================================
