--------------------------- MODULE MCFragUnicast ---------------------------
(***************************************************************************)
(* Instances of FragUnicast for TLC.                                       *)
(***************************************************************************)
EXTENDS FragUnicast, TLC

CONSTANTS a, b, r,      \* two children and their parent
          a1, a2, b1, r1 \* messages of a, of b, and one r itself composes

TwoChildren == {a, b, r}
TwoLinks    == {<<a, r>>, <<b, r>>}

AllMessages == {a1, a2, b1, r1}
AllSources  == a1 :> a @@ a2 :> a @@ b1 :> b @@ r1 :> r
AllFrags    == a1 :> 3 @@ a2 :> 3 @@ b1 :> 2 @@ r1 :> 1

ChildMessages == {a1, a2, b1}
ChildSources  == [m \in ChildMessages |-> AllSources[m]]
ChildFrags    == [m \in ChildMessages |-> 2]

=============================================================================
