----------------------------- MODULE ScopeList -----------------------------
(***************************************************************************)
(* The list `scopes` of scopes.c, and remove_scope's walk over it, which   *)
(* removes elements of the list it is walking and calls itself from the    *)
(* middle of the walk.                                                     *)
(*                                                                         *)
(* The walk is taken apart into the iterations of its loop, with C's call  *)
(* stack as a variable, so that what holds between two iterations can be   *)
(* stated.  Handlers run to completion: nothing else happens to the list   *)
(* until the stack is empty again.                                         *)
(***************************************************************************)
EXTENDS Naturals, SequencesExt

CONSTANTS Ids, World,
          MaxScopes,   (* SCOPES_MAX_SCOPES                                *)
          Nil          (* NULL                                             *)

(* What the walk tells apart of a struct scope.                            *)
Scope == [id : Ids \cup {World}, super : Ids \cup {World}]

ASSUME ScopeListAssumption ==
  /\ World \notin Ids
  /\ Nil \notin Scope
  /\ MaxScopes \in Nat

VARIABLES
  list,     (* the list, as the sequence of its elements                   *)
  frames,   (* the calls of remove_scope_recursively under way, the        *)
            (* innermost last: their argument and their two locals         *)
  before    (* HISTORY: the scopes in the list when the walk began, {}     *)
            (* when there is none                                          *)

vars == <<list, frames, before>>

WorldScope == [id |-> World, super |-> World]

Init == list = <<WorldScope>> /\ frames = <<>> /\ before = {}

IdKnown(i) == \E k \in DOMAIN list : list[k].id = i

PushScope(l, s) == <<s>> \o l          \* MUTANT: list_push

(* list_add appends.                                                       *)
AddScope(l, s) == Append(l, s)

Place(l, s) == CHOOSE k \in DOMAIN l : l[k] = s

(* The element after s, by its `next` pointer; NULL at the end, and for an *)
(* element list_remove has taken off.                                      *)
NextOf(l, s) ==
  IF s \in ToSet(l) /\ Place(l, s) < Len(l) THEN l[Place(l, s) + 1] ELSE Nil

(* list_head.                                                              *)
HeadOf(l) == IF l = <<>> THEN Nil ELSE Head(l)

(* MUTANT: remove_single_scope frees the scope and leaves it on the list.  *)
LeftOn(l, s) == l

(* list_remove, by which remove_single_scope takes s off the list.         *)
Unlink(l, s) == IF s \in ToSet(l) THEN RemoveAt(l, Place(l, s)) ELSE l

(* MUTANT: the walk goes on behind the element it should go back to.       *)
ResumeBehind(l, previous) ==
  NextOf(l, IF previous = Nil THEN HeadOf(l) ELSE previous)

(* Where the walk goes on once it has removed the current element: behind  *)
(* the element returned here, which is not looked at again.                *)
Resume(l, previous) == IF previous = Nil THEN HeadOf(l) ELSE previous

(* remove_scope_recursively is called for s.                               *)
Call(s) == [scope |-> s, current |-> HeadOf(list), previous |-> Nil]

(* `previous = current; current = current->next`, for current = s in list  *)
(* l.                                                                      *)
GoOn(f, l, s) ==
  [f EXCEPT !.previous = s, !.current = IF s = Nil THEN Nil ELSE NextOf(l, s)]

Open(p, i) ==
  /\ frames = <<>>
  /\ IdKnown(p)
  /\ ~ IdKnown(i)
  /\ Len(list) <= MaxScopes
  /\ list' = AddScope(list, [id |-> i, super |-> p])
  /\ UNCHANGED <<frames, before>>

(* remove_scope, up to its call of remove_scope_recursively.               *)
RemoveScope(k) ==
  /\ frames = <<>>
  /\ list[k] # WorldScope
  /\ frames' = <<Call(list[k])>>
  /\ before' = ToSet(list)
  /\ UNCHANGED list

Top == Last(frames)

(* The current element is no sub of the call's scope.                      *)
Pass ==
  /\ frames # <<>>
  /\ Top.current # Nil
  /\ Top.current.super # Top.scope.id
  /\ frames' = [frames EXCEPT ![Len(frames)] = GoOn(@, list, Top.current)]
  /\ UNCHANGED <<list, before>>

(* It is one: what is below it goes first.                                 *)
Descend ==
  /\ frames # <<>>
  /\ Top.current # Nil
  /\ Top.current.super = Top.scope.id
  /\ frames' = Append(frames, Call(Top.current))
  /\ UNCHANGED <<list, before>>

(* The inner call is through with the list: its caller removes its current *)
(* element and goes on.                                                    *)
Return ==
  /\ Len(frames) > 1
  /\ Top.current = Nil
  /\ LET caller == frames[Len(frames) - 1]
         rest   == Unlink(list, caller.current)
     IN  /\ list' = rest
         /\ frames' = [Front(frames) EXCEPT ![Len(frames) - 1] =
                         GoOn(@, rest, Resume(rest, caller.previous))]
  /\ UNCHANGED before

(* The outermost call is: remove_scope removes the scope itself.           *)
Finish ==
  /\ Len(frames) = 1
  /\ Top.current = Nil
  /\ list' = Unlink(list, Top.scope)
  /\ frames' = <<>>
  /\ before' = {}

Walk == Pass \/ Descend \/ Return \/ Finish

Next ==
  \/ \E p \in Ids \cup {World}, i \in Ids : Open(p, i)
  \/ \E k \in DOMAIN list : RemoveScope(k)
  \/ Walk

Spec == Init /\ [][Next]_vars

---------------------------------------------------------------------------
(* The order the walk relies on, and keeps at each of its steps: the world *)
(* comes first, and a scope after its super scope.  (The walk never tests  *)
(* an element that becomes the head of the list, and it goes back to an    *)
(* element that the inner walk must not have removed.)                     *)
SuperFirst ==
  /\ list[1] = WorldScope
  /\ \A k \in 2 .. Len(list) : \E j \in 1 .. k - 1 : list[j].id = list[k].super

(* remove_scope removes the scope and all scopes below it, at every depth, *)
(* wherever they are in the list, and no other scope.  What others see of  *)
(* the list changes when it returns.                                       *)
Known == IF frames = <<>> THEN ToSet(list) ELSE before

Set == INSTANCE ScopeSet WITH scopes <- Known

ImplementsScopeSet == Set!Spec

(* What the innermost call has still to look at.                           *)
Left ==
  IF Top.current = Nil THEN 0 ELSE Len(list) - Place(list, Top.current) + 1

(* The walk ends, although it looks at elements of the list again and      *)
(* again: each of its steps shortens the list, or else calls itself for a  *)
(* scope further down, or else has less of the list left in the same call. *)
WalkProgress ==
  [][Walk =>
       \/ Len(list') < Len(list)
       \/ /\ list' = list /\ frames' # <<>>
          /\ \/ Place(list, Top'.scope) > Place(list, Top.scope)
             \/ Top'.scope = Top.scope /\ Left' < Left]_vars

=============================================================================
