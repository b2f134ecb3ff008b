----------------------------- MODULE MCTikiMgr -----------------------------
(***************************************************************************)
(* Instances of TikiMgr for TLC.                                           *)
(***************************************************************************)
EXTENDS TikiMgr

CONSTANTS n, a, s1, q1, q2

OneId == {q1}
TwoIds == {q1, q2}
OneScope == {s1}

(* Every statement selects from the one scope.                             *)
FromsDef == [q \in Ids |-> Scopes]

OneOther  == {a}
TwoTables == {1, 2}
FewPeriods == {0, 1, 3}
=============================================================================
