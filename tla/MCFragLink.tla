---------------------------- MODULE MCFragLink ----------------------------
(***************************************************************************)
(* The instance of FragLink for TLC: a child a, its parent r, a message of *)
(* three fragments and one of a single fragment.                           *)
(***************************************************************************)
EXTENDS FragLink, TLC

CONSTANTS a, r, m1, m2

OneChild     == {a, r}
OneLink      == {<<a, r>>}
TheLink      == <<a, r>>
LinkMessages == {m1, m2}
LinkSources  == [m \in LinkMessages |-> a]
LinkFrags    == m1 :> 3 @@ m2 :> 1
===========================================================================
