------------------------------ MODULE ScopeSet ------------------------------
(***************************************************************************)
(* What scopes.c promises of its list of scopes, as a set: a scope is      *)
(* opened in a known one, and removing a scope removes it and whatever is  *)
(* below it, nothing more and nothing less.  Scopes takes its removals     *)
(* from here; ScopeList shows that the code's walk over the list           *)
(* implements them.                                                        *)
(***************************************************************************)
CONSTANTS Ids, World

VARIABLE scopes    \* the scopes known, each [id, super], the world included

WorldScope == [id |-> World, super |-> World]

Init == scopes = {WorldScope}

Open(p, i) ==
  /\ \E s \in scopes : s.id = p
  /\ ~ \E s \in scopes : s.id = i
  /\ scopes' = scopes \cup {[id |-> i, super |-> p]}

(* The least set of scopes that has s in it, and with a scope its subs.    *)
Below(s) ==
  {t \in scopes :
     \A D \in SUBSET scopes :
       s \in D /\ (\A d \in D, u \in scopes : u.super = d.id => u \in D) => t \in D}

Remove(s) == s # WorldScope /\ scopes' = scopes \ Below(s)

Next ==
  \/ \E p \in Ids \cup {World}, i \in Ids : Open(p, i)
  \/ \E s \in scopes : Remove(s)

Spec == Init /\ [][Next]_scopes

=============================================================================
