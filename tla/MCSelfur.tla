------------------------------ MODULE MCSelfur ------------------------------
(* Small networks for Selfur.                                              *)
EXTENDS Selfur, TLC

CONSTANTS sink, a, b, s1, s2

Both(E) == E \cup {<<l[2], l[1]>> : l \in E}

(* a and b hear the root and each other.                                   *)
RingLinks == Both({<<sink, a>>, <<a, b>>, <<b, sink>>})

(* b hears the root through a only.                                        *)
LineLinks == Both({<<sink, a>>, <<a, b>>})

OneScope  == s1 :> sink
TwoScopes == s1 :> sink @@ s2 :> sink

=============================================================================
