---------------------------- MODULE ScopesProofs ----------------------------
(***************************************************************************)
(* Proofs about Scopes, for any scope ids, applications and roots, any     *)
(* number of slots and any table sizes.                                    *)
(***************************************************************************)
EXTENDS Scopes, FiniteSetTheorems, TLAPS

(* The inductive invariant: the four properties need each other.           *)
ScopesInv ==
  /\ TypeOK
  /\ Forest
  /\ TtlTimersMatch
  /\ JoinedIsMember

---------------------------------------------------------------------------
(***************************************************************************)
(* Subtree, the least set with a scope that is closed under sub-scopes.    *)
(***************************************************************************)

(* It is such a set...                                                     *)
LEMMA SubtreeClosed ==
  ASSUME NEW s \in listed
  PROVE  /\ s \in Subtree(s)
         /\ Subtree(s) \subseteq listed
         /\ ClosedUnderSub(Subtree(s))
<1>1. s \in Subtree(s) /\ Subtree(s) \subseteq listed
  BY DEF Subtree
<1>2. ClosedUnderSub(Subtree(s))
  <2> SUFFICES ASSUME NEW u \in Subtree(s), NEW t \in listed, mem[t].super = mem[u].id
               PROVE  t \in Subtree(s)
    BY DEF ClosedUnderSub
  <2>1. ASSUME NEW D \in SUBSET listed, s \in D, ClosedUnderSub(D)
        PROVE  t \in D
    <3>1. u \in D
      BY <2>1 DEF Subtree
    <3> QED BY <2>1, <3>1 DEF ClosedUnderSub
  <2> QED BY <2>1 DEF Subtree
<1> QED BY <1>1, <1>2

(* ... and the least.                                                      *)
LEMMA SubtreeLeast ==
  ASSUME NEW s, NEW D \in SUBSET listed, s \in D, ClosedUnderSub(D)
  PROVE  Subtree(s) \subseteq D
BY DEF Subtree

---------------------------------------------------------------------------
(***************************************************************************)
(* remove_scope.                                                           *)
(***************************************************************************)

LEMMA RemoveType ==
  ASSUME TypeOK, NEW s \in Slots, NEW use \in 0 .. UseMax, NEW entries,
         Remove(s, use, entries)
  PROVE  /\ mem' \in [Slots -> Scope]
         /\ listed' \subseteq Slots
         /\ armed' \subseteq Slots
         /\ counter' \in 0 .. CounterMax
         /\ joined' \subseteq Ids
<1> DEFINE R == Subtree(s)
           N == {t \in R : entries[mem[t].id] = NoRoot}
<1>1. \A t \in Slots :
        [mem[t] EXCEPT !.member = @ /\ t \notin R, !.use = IF t = s THEN use ELSE @] \in Scope
  BY DEF TypeOK, Scope
<1>2. mem' \in [Slots -> Scope]
  BY <1>1 DEF Remove
<1>3. Cardinality(N) \in Nat
  <2>1. IsFiniteSet(Slots)
    BY FS_Interval, ScopesAssumption DEF Slots
  <2>2. N \subseteq Slots
    BY DEF Subtree, TypeOK
  <2> QED BY <2>1, <2>2, FS_Subset, FS_CardinalityType
<1>4. counter' \in 0 .. CounterMax
  <2> DEFINE n == Cardinality(N)
  <2>1. counter' = IF n <= counter THEN counter - n ELSE 0
    BY DEF Remove, CounterAfter
  <2>2. counter \in 0 .. CounterMax /\ CounterMax \in Nat /\ n \in Nat
    BY <1>3, ScopesAssumption DEF TypeOK
  <2> HIDE DEF n
  <2> QED BY <2>1, <2>2
<1>5. listed' \subseteq Slots /\ armed' \subseteq Slots /\ joined' \subseteq Ids
  BY DEF Remove, ArmedAfter, JoinedAfter, TypeOK
<1> QED BY <1>2, <1>4, <1>5

(* What a removal leaves is what it leaves alone.                          *)
LEMMA RemoveKeeps ==
  ASSUME TypeOK, NEW s \in listed, NEW use, NEW entries, Remove(s, use, entries)
  PROVE  /\ \A t \in Slots : mem'[t].id = mem[t].id /\ mem'[t].super = mem[t].super
         /\ \A t \in listed' : mem'[t].member = mem[t].member
         /\ listed' \subseteq listed
BY DEF Remove, TypeOK, Scope

LEMMA RemoveForest ==
  ASSUME TypeOK, Forest, NEW s \in listed, NEW use, NEW entries,
         Remove(s, use, entries)
  PROVE  Forest'
<1>1. /\ \A t \in Slots : mem'[t].id = mem[t].id /\ mem'[t].super = mem[t].super
      /\ listed' \subseteq listed /\ listed \subseteq Slots
      /\ listed' = listed \ Subtree(s)
  BY RemoveKeeps DEF TypeOK, Remove
<1>2. \A t, u \in listed' : mem'[t].id = mem'[u].id => t = u
  BY <1>1 DEF Forest
<1>3. ASSUME NEW t \in listed'
      PROVE  mem'[t].id # World /\ Known(mem[t].super)'
  <2>1. mem[t].id # World
    BY <1>1 DEF Forest
  <2>2. CASE mem[t].super = World
    BY <1>1, <2>1, <2>2 DEF Known
  <2>3. CASE mem[t].super # World
    <3>1. PICK u \in listed : mem[u].id = mem[t].super
      BY <1>1, <2>3 DEF Forest, Known, Lookup
    <3>2. u \notin Subtree(s)
      BY <1>1, <3>1, SubtreeClosed DEF ClosedUnderSub
    <3>3. u \in listed' /\ mem'[u].id = mem[t].super
      BY <1>1, <3>1, <3>2
    <3> QED BY <1>1, <2>1, <3>3 DEF Known, Lookup
  <2> QED BY <2>2, <2>3
<1> QED BY <1>1, <1>2, <1>3 DEF Forest, Known, Lookup

LEMMA RemoveJoined ==
  ASSUME TypeOK, JoinedIsMember, NEW s \in listed, NEW use, NEW entries,
         Remove(s, use, entries),
         \A i \in Ids : HasEntry(i) => HasEntry(i)'
  PROVE  JoinedIsMember'
<1> SUFFICES ASSUME NEW i \in joined'
             PROVE  HasEntry(i)' /\ \E t \in listed' : mem'[t].id = i /\ mem'[t].member
  BY DEF JoinedIsMember, Lookup, HasEntry
<1>1. i \in joined /\ i \in Ids
  BY DEF Remove, JoinedAfter, TypeOK
<1>2. PICK t \in listed : mem[t].id = i /\ mem[t].member
  BY <1>1 DEF JoinedIsMember, Lookup
<1>3. t \notin Subtree(s)
  BY <1>2 DEF Remove, JoinedAfter
<1>4. t \in listed' /\ t \in Slots
  BY <1>3 DEF Remove, TypeOK
<1>5. mem'[t].id = i /\ mem'[t].member
  BY <1>2, <1>4, RemoveKeeps
<1> QED BY <1>1, <1>4, <1>5 DEF JoinedIsMember

LEMMA RemoveTimers ==
  ASSUME TtlTimersMatch, NEW s, NEW use, NEW entries, Remove(s, use, entries)
  PROVE  TtlTimersMatch'
BY DEF TtlTimersMatch, Remove, ArmedAfter

---------------------------------------------------------------------------
(***************************************************************************)
(* TypeOK.                                                                 *)
(***************************************************************************)

LEMMA AnnounceType ==
  ASSUME TypeOK, NEW s \in Slots, NEW kind \in {"open", "close"}
  PROVE  Announce(kind, s) \in Note
BY DEF Announce, Note, TypeOK, Scope

LEMMA EntryAfterType ==
  ASSUME TypeOK, NEW q \in Roots, NEW i \in Ids
  PROVE  /\ EntryAfter(q, i) \in [Ids -> Roots \cup {NoRoot}]
         /\ \A j \in Ids : HasEntry(j) => EntryAfter(q, i)[j] # NoRoot
BY ScopesAssumption DEF EntryAfter, HasEntry, TypeOK

LEMMA TypeInit == Init => TypeOK
<1> SUFFICES ASSUME Init PROVE TypeOK
  OBVIOUS
<1>1. ZeroedScope \in Scope
  BY ScopesAssumption DEF ZeroedScope, Scope, AnyId
<1>2. subs \in [SubSlots -> Subscriber]
  BY DEF Init
<1>3. /\ mem \in [Slots -> Scope] /\ listed \subseteq Slots /\ armed \subseteq Slots
      /\ ann \in 0 .. MaxScopes /\ counter \in 0 .. CounterMax
  BY <1>1, ScopesAssumption DEF Init
<1> QED BY <1>2, <1>3 DEF Init, TypeOK, Note

(* The calls of the applications.                                          *)
LEMMA TypeCall ==
  ASSUME TypeOK, NEW a \in Apps, Call(a)
  PROVE  TypeOK'
<1>1. Quiet \in Note
  BY DEF Note
<1>2. CASE Register(a)
  <2>1. subs' \in [SubSlots -> Subscriber]
    <3>1. [app |-> a, used |-> TRUE] \in Subscriber
      BY DEF Subscriber
    <3>2. PICK u \in SubSlots : subs' = [subs EXCEPT ![u] = [app |-> a, used |-> TRUE]]
      BY <1>2 DEF Register
    <3> QED BY <3>1, <3>2 DEF TypeOK
  <2> QED BY <1>1, <1>2, <2>1 DEF Register, routing, TypeOK
<1>3. CASE Unregister(a)
  <2>1. subs' \in [SubSlots -> Subscriber]
    BY <1>3 DEF Unregister, TypeOK, Subscriber
  <2> QED BY <1>1, <1>3, <2>1 DEF Unregister, routing, TypeOK
<1>4. ASSUME NEW pi \in Opens, OpenNew(a, pi[1], pi[2])
      PROVE  TypeOK'
  <2>1. pi[1] \in AnyId /\ pi[2] \in Ids
    BY ScopesAssumption DEF AnyId
  <2>2. PICK u \in SubSlots, s \in Slots :
          /\ mem' = [mem EXCEPT ![s] = [id |-> pi[2], super |-> pi[1], owner |-> u, use |-> 1,
                       member |-> TRUE, creator |-> TRUE, dynamic |-> FALSE]]
          /\ listed' = listed \cup {s} /\ armed' = armed \cup {s} /\ ann' = s
    BY <1>4 DEF OpenNew
  <2>3. [id |-> pi[2], super |-> pi[1], owner |-> u, use |-> 1,
         member |-> TRUE, creator |-> TRUE, dynamic |-> FALSE] \in Scope
    BY <2>1, ScopesAssumption DEF Scope, SubSlots, AnyId
  <2>4. mem' \in [Slots -> Scope] /\ ann' \in 0 .. MaxScopes
    BY <2>2, <2>3, ScopesAssumption DEF TypeOK, Slots
  <2>5. counter' \in 0 .. CounterMax
    BY <1>4, ScopesAssumption DEF OpenNew, TypeOK
  <2>6. joined' \subseteq Ids
    BY <1>4, <2>1 DEF OpenNew, RoutingJoin, TypeOK
  <2>7. locked' \in BOOLEAN
    BY <1>4 DEF OpenNew
  <2> QED BY <1>1, <1>4, <2>2, <2>4, <2>5, <2>6, <2>7 DEF OpenNew, TypeOK
<1>5. ASSUME NEW i \in Ids, OpenKnown(a, i)
      PROVE  TypeOK'
  <2>1. mem' \in [Slots -> Scope]
    BY <1>5, ScopesAssumption DEF OpenKnown, Lookup, TypeOK, Scope
  <2> QED BY <1>1, <1>5, <2>1 DEF OpenKnown, routing, TypeOK
<1>6. ASSUME NEW i \in Ids, CloseShared(a, i)
      PROVE  TypeOK'
  <2>1. mem' \in [Slots -> Scope]
    BY <1>6, ScopesAssumption DEF CloseShared, Lookup, TypeOK, Scope
  <2> QED BY <1>1, <1>6, <2>1 DEF CloseShared, routing, TypeOK
<1>7. ASSUME NEW i \in Ids, CloseLast(a, i)
      PROVE  TypeOK'
  <2>1. PICK s \in listed : note' = Announce("close", s) /\ Remove(s, 0, entry)
    BY <1>7 DEF CloseLast, Lookup
  <2>2. note' \in Note
    BY <2>1, AnnounceType DEF TypeOK
  <2>3. 0 \in 0 .. UseMax
    BY ScopesAssumption
  <2> QED BY <1>7, <2>1, <2>2, <2>3, RemoveType DEF CloseLast, TypeOK
<1> QED BY <1>2, <1>3, <1>4, <1>5, <1>6, <1>7 DEF Call

(* The messages of other nodes.                                            *)
LEMMA TypeReceive ==
  ASSUME TypeOK, NEW q \in Roots, NEW pi \in Announced, Receive(q, pi[1], pi[2])
  PROVE  TypeOK'
<1> DEFINE p == pi[1]
           i == pi[2]
<1>1. p \in AnyId /\ i \in Ids
  BY ScopesAssumption DEF AnyId
<1>2. EntryAfter(q, i) \in [Ids -> Roots \cup {NoRoot}]
  BY <1>1, EntryAfterType
<1>3. Quiet \in Note /\ [kind |-> "heard", id |-> i] \in Note
  BY <1>1 DEF Note
<1>4. CASE HearOpen(q, p, i)
  BY <1>2, <1>3, <1>4 DEF HearOpen, TypeOK
<1>5. ASSUME NEW member \in BOOLEAN, NEW dynamic \in BOOLEAN, Learn(q, p, i, member, dynamic)
      PROVE  TypeOK'
  <2>1. PICK u \in UsedSubs, s \in Slots :
          /\ mem' = [mem EXCEPT ![s] = [id |-> i, super |-> p, owner |-> u, use |-> 0,
                       member |-> member, creator |-> FALSE, dynamic |-> dynamic]]
          /\ listed' = listed \cup {s} /\ armed' = armed \cup {s}
    BY <1>5 DEF Learn
  <2>2. [id |-> i, super |-> p, owner |-> u, use |-> 0,
         member |-> member, creator |-> FALSE, dynamic |-> dynamic] \in Scope
    BY <1>1, ScopesAssumption DEF Scope, UsedSubs, SubSlots, AnyId
  <2>3. mem' \in [Slots -> Scope]
    BY <2>1, <2>2 DEF TypeOK
  <2>4. joined' \subseteq Ids
    BY <1>1, <1>5 DEF Learn, RoutingJoin, TypeOK
  <2> QED BY <1>2, <1>3, <1>5, <2>1, <2>3, <2>4 DEF Learn, TypeOK
<1>6. ASSUME NEW s \in Slots, Refresh(q, p, i, s)
      PROVE  TypeOK'
  BY <1>2, <1>3, <1>6 DEF Refresh, TypeOK
<1>7. ASSUME NEW s \in Slots, DropOnOpen(q, p, i, s)
      PROVE  TypeOK'
  <2>1. s \in listed /\ mem[s].use \in 0 .. UseMax
    BY <1>7 DEF DropOnOpen, Subordinate, Lookup, TypeOK, Scope
  <2> QED BY <1>2, <1>3, <1>7, <2>1, RemoveType DEF DropOnOpen, TypeOK
<1>8. ASSUME NEW s \in Slots, ReceiveClose(q, p, i, s)
      PROVE  TypeOK'
  <2>1. s \in listed /\ mem[s].use \in 0 .. UseMax
    BY <1>8 DEF ReceiveClose, Subordinate, Lookup, TypeOK, Scope
  <2> QED BY <1>3, <1>8, <2>1, RemoveType DEF ReceiveClose, TypeOK
<1> QED BY <1>4, <1>5, <1>6, <1>7, <1>8 DEF Receive

LEMMA TypeNext == TypeOK /\ [Next]_vars => TypeOK'
<1> SUFFICES ASSUME TypeOK, [Next]_vars PROVE TypeOK'
  OBVIOUS
<1>1. Quiet \in Note
  BY DEF Note
<1>2. CASE AnnounceDelayed
  <2>1. ann \in Slots /\ 0 \in 0 .. MaxScopes
    BY <1>2, ScopesAssumption DEF AnnounceDelayed, TypeOK, Slots
  <2>2. note' \in Note
    BY <1>2, <2>1, AnnounceType DEF AnnounceDelayed
  <2> QED BY <1>2, <2>1, <2>2 DEF AnnounceDelayed, routing, TypeOK
<1>3. ASSUME NEW s \in Slots, TimeoutOfOwn(s)
      PROVE  TypeOK'
  <2>1. note' \in Note
    BY <1>3, AnnounceType DEF TimeoutOfOwn
  <2> QED BY <1>3, <2>1 DEF TimeoutOfOwn, ResetTimer, routing, TypeOK
<1>4. ASSUME NEW s \in Slots, TimeoutOfOther(s)
      PROVE  TypeOK'
  <2>1. mem[s].use \in 0 .. UseMax
    BY DEF TypeOK, Scope
  <2> QED BY <1>1, <1>4, <2>1, RemoveType DEF TimeoutOfOther, TypeOK
<1>5. ASSUME NEW fit \in SUBSET listed, Recheck(fit)
      PROVE  TypeOK'
  <2>1. mem' \in [Slots -> Scope]
    BY <1>5 DEF Recheck, TypeOK, Scope
  <2>2. joined' \subseteq Ids
    BY <1>5 DEF Recheck, TypeOK
  <2> QED BY <1>1, <1>5, <2>1, <2>2 DEF Recheck, TypeOK
<1>6. ASSUME NEW q \in Roots, HearTree(q) \/ RouteExpires(q)
      PROVE  TypeOK'
  BY <1>1, <1>6 DEF HearTree, RouteExpires, TypeOK
<1>7. CASE RefreshTree \/ LockExpires
  BY <1>1, <1>7 DEF RefreshTree, LockExpires, TypeOK
<1>8. CASE UNCHANGED vars
  BY <1>8 DEF vars, TypeOK
<1> QED
  BY <1>2, <1>3, <1>4, <1>5, <1>6, <1>7, <1>8, TypeCall, TypeReceive DEF Next

(* Type correctness of the scope layer, for every instance.                *)
THEOREM TypeCorrect == Spec => []TypeOK
BY TypeInit, TypeNext, PTL DEF Spec

---------------------------------------------------------------------------
(***************************************************************************)
(* The inductive invariant.                                                *)
(***************************************************************************)

(* A step that lists no other scopes, and leaves their ids, super scopes,  *)
(* timers and memberships alone.                                           *)
LEMMA SameScopes ==
  ASSUME ScopesInv, TypeOK',
         \A t \in Slots : /\ mem'[t].id = mem[t].id
                          /\ mem'[t].super = mem[t].super
                          /\ mem'[t].member = mem[t].member,
         listed' = listed, armed' = armed,
         joined' \subseteq joined,
         \A i \in joined' : HasEntry(i)'
  PROVE  ScopesInv'
<1>1. listed \subseteq Slots
  BY DEF ScopesInv, TypeOK
<1>2. Forest'
  BY <1>1 DEF ScopesInv, Forest, Known, Lookup
<1>3. TtlTimersMatch'
  BY DEF ScopesInv, TtlTimersMatch
<1>4. JoinedIsMember'
  BY <1>1 DEF ScopesInv, JoinedIsMember, Lookup
<1> QED BY <1>2, <1>3, <1>4 DEF ScopesInv

(* A scope removed with what is below it, by whatever step.                *)
LEMMA RemovedScopes ==
  ASSUME ScopesInv, TypeOK', NEW s \in listed, NEW use, NEW entries,
         Remove(s, use, entries),
         \A i \in Ids : HasEntry(i) => HasEntry(i)'
  PROVE  ScopesInv'
BY RemoveForest, RemoveTimers, RemoveJoined DEF ScopesInv

(* A new scope: in a known one, under an id that was not known.            *)
LEMMA AddedScope ==
  ASSUME ScopesInv, TypeOK',
         NEW s \in Slots \ listed, NEW new \in Scope,
         new.id \in Ids, ~ Known(new.id), Known(new.super),
         mem' = [mem EXCEPT ![s] = new],
         listed' = listed \cup {s}, armed' = armed \cup {s},
         joined' \subseteq joined \cup {new.id},
         new.id \in joined' => HasEntry(new.id)' /\ new.member,
         \A i \in Ids : HasEntry(i) => HasEntry(i)'
  PROVE  ScopesInv'
<1>1. /\ listed \subseteq Slots /\ joined \subseteq Ids
      /\ mem \in [Slots -> Scope]
  BY DEF ScopesInv, TypeOK
<1>2. mem'[s] = new /\ \A t \in listed : mem'[t] = mem[t]
  BY <1>1
<1>3. \A t \in listed : mem[t].id # new.id
  BY DEF Known, Lookup
<1>4. \A t, u \in listed' : mem'[t].id = mem'[u].id => t = u
  BY <1>2, <1>3 DEF ScopesInv, Forest
<1>5. \A i : Known(i) => i = World \/ \E u \in listed' : mem'[u].id = i
  BY <1>2 DEF Known, Lookup
<1>6. \A t \in listed' :
        /\ mem'[t].id # World
        /\ mem'[t].super = World \/ \E u \in listed' : mem'[u].id = mem'[t].super
  BY <1>2, <1>5, ScopesAssumption DEF ScopesInv, Forest
<1>7. Forest'
  BY <1>4, <1>6 DEF Forest, Known, Lookup
<1>8. TtlTimersMatch'
  BY DEF ScopesInv, TtlTimersMatch
<1>9. JoinedIsMember'
  <2> SUFFICES ASSUME NEW i \in joined'
               PROVE  HasEntry(i)' /\ \E t \in listed' : mem'[t].id = i /\ mem'[t].member
    BY DEF JoinedIsMember, Lookup, HasEntry
  <2>1. CASE i = new.id
    BY <1>2, <2>1
  <2>2. CASE i # new.id
    <3>1. i \in joined /\ i \in Ids
      BY <1>1, <2>2
    <3>2. PICK t \in listed : mem[t].id = i /\ mem[t].member
      BY <3>1 DEF ScopesInv, JoinedIsMember, Lookup
    <3> QED BY <1>2, <3>1, <3>2 DEF ScopesInv, JoinedIsMember
  <2> QED BY <2>1, <2>2
<1> QED BY <1>7, <1>8, <1>9 DEF ScopesInv

LEMMA InvInit == Init => ScopesInv
<1> SUFFICES ASSUME Init PROVE ScopesInv
  OBVIOUS
<1>1. Forest /\ TtlTimersMatch /\ JoinedIsMember
  BY DEF Init, Forest, TtlTimersMatch, JoinedIsMember
<1> QED BY <1>1, TypeInit DEF ScopesInv

LEMMA InvCall ==
  ASSUME ScopesInv, NEW a \in Apps, Call(a)
  PROVE  ScopesInv'
<1>1. TypeOK'
  BY TypeCall DEF ScopesInv
<1>2. listed \subseteq Slots /\ mem \in [Slots -> Scope] /\ joined \subseteq Ids
  BY DEF ScopesInv, TypeOK
<1>3. \A i \in joined : HasEntry(i)
  BY DEF ScopesInv, JoinedIsMember
<1>4. CASE Register(a) \/ Unregister(a)
  BY <1>1, <1>3, <1>4, SameScopes DEF Register, Unregister, routing, HasEntry
<1>5. ASSUME NEW pi \in Opens, OpenNew(a, pi[1], pi[2])
      PROVE  ScopesInv'
  <2>1. pi[1] \in AnyId /\ pi[2] \in Ids
    BY ScopesAssumption DEF AnyId
  <2>2. PICK u \in SubSlots, s \in Slots :
          /\ IsFirstFree(s, Slots, listed)
          /\ mem' = [mem EXCEPT ![s] = [id |-> pi[2], super |-> pi[1], owner |-> u, use |-> 1,
                       member |-> TRUE, creator |-> TRUE, dynamic |-> FALSE]]
          /\ listed' = listed \cup {s} /\ armed' = armed \cup {s}
    BY <1>5 DEF OpenNew
  <2> DEFINE new == [id |-> pi[2], super |-> pi[1], owner |-> u, use |-> 1,
                     member |-> TRUE, creator |-> TRUE, dynamic |-> FALSE]
  <2>3. s \in Slots \ listed /\ new \in Scope
    BY <2>1, <2>2, ScopesAssumption DEF IsFirstFree, Scope, SubSlots, AnyId
  <2>4. ~ Known(pi[2]) /\ Known(pi[1]) /\ entry' = entry
    BY <1>5 DEF OpenNew
  <2>5. /\ joined' \subseteq joined \cup {pi[2]}
        /\ pi[2] \in joined' => HasEntry(pi[2])
    BY <1>3, <1>5 DEF OpenNew, RoutingJoin, HasEntry
  <2>6. \A i \in Ids : HasEntry(i)' <=> HasEntry(i)
    BY <2>4 DEF HasEntry
  <2>7. /\ new.id = pi[2] /\ new.super = pi[1] /\ new.member /\ mem' = [mem EXCEPT ![s] = new]
    BY <2>2
  <2> HIDE DEF new
  <2> QED BY <1>1, <2>1, <2>2, <2>3, <2>4, <2>5, <2>6, <2>7, AddedScope
<1>6. ASSUME NEW i \in Ids, OpenKnown(a, i) \/ CloseShared(a, i)
      PROVE  ScopesInv'
  <2>1. \A t \in Slots : /\ mem'[t].id = mem[t].id
                         /\ mem'[t].super = mem[t].super
                         /\ mem'[t].member = mem[t].member
    BY <1>2, <1>6 DEF OpenKnown, CloseShared, Lookup, Scope
  <2> QED BY <1>1, <1>3, <1>6, <2>1, SameScopes DEF OpenKnown, CloseShared, routing, HasEntry
<1>7. ASSUME NEW i \in Ids, CloseLast(a, i)
      PROVE  ScopesInv'
  <2>1. PICK s \in listed : Remove(s, 0, entry)
    BY <1>7 DEF CloseLast, Lookup
  <2>2. entry' = entry
    BY <1>7 DEF CloseLast
  <2> QED BY <1>1, <2>1, <2>2, RemovedScopes DEF HasEntry
<1> QED BY <1>4, <1>5, <1>6, <1>7 DEF Call

LEMMA InvReceive ==
  ASSUME ScopesInv, NEW q \in Roots, NEW pi \in Announced, Receive(q, pi[1], pi[2])
  PROVE  ScopesInv'
<1> DEFINE p == pi[1]
           i == pi[2]
<1>1. TypeOK' /\ TypeOK
  BY TypeReceive DEF ScopesInv
<1>2. p \in AnyId /\ i \in Ids
  BY ScopesAssumption DEF AnyId
<1>3. listed \subseteq Slots /\ mem \in [Slots -> Scope] /\ joined \subseteq Ids
  BY DEF ScopesInv, TypeOK
<1>4. \A j \in joined : HasEntry(j)
  BY DEF ScopesInv, JoinedIsMember
<1>5. ASSUME entry' = EntryAfter(q, i)
      PROVE  \A j \in Ids : HasEntry(j) => HasEntry(j)'
  BY <1>1, <1>2, <1>5, EntryAfterType DEF HasEntry
<1>6. CASE HearOpen(q, p, i)
  BY <1>1, <1>3, <1>4, <1>5, <1>6, SameScopes DEF HearOpen
<1>7. ASSUME NEW member \in BOOLEAN, NEW dynamic \in BOOLEAN, Learn(q, p, i, member, dynamic)
      PROVE  ScopesInv'
  <2>1. PICK u \in UsedSubs, s \in Slots :
          /\ IsFirstFree(s, Slots, listed)
          /\ mem' = [mem EXCEPT ![s] = [id |-> i, super |-> p, owner |-> u, use |-> 0,
                       member |-> member, creator |-> FALSE, dynamic |-> dynamic]]
          /\ listed' = listed \cup {s} /\ armed' = armed \cup {s}
    BY <1>7 DEF Learn
  <2> DEFINE new == [id |-> i, super |-> p, owner |-> u, use |-> 0,
                     member |-> member, creator |-> FALSE, dynamic |-> dynamic]
  <2>2. s \in Slots \ listed /\ new \in Scope
    BY <1>2, <2>1, ScopesAssumption DEF IsFirstFree, Scope, UsedSubs, SubSlots, AnyId
  <2>3. ~ Known(i) /\ Known(p) /\ entry' = EntryAfter(q, i)
    BY <1>7 DEF Learn, Heeded
  <2>4. i \notin joined
    BY <2>3 DEF ScopesInv, JoinedIsMember, Known
  <2>5. /\ joined' \subseteq joined \cup {i}
        /\ i \in joined' => HasEntry(i)' /\ member
    BY <1>7, <2>3, <2>4 DEF Learn, RoutingJoin, HasEntry
  <2>6. new.id = i /\ new.super = p /\ new.member = member /\ mem' = [mem EXCEPT ![s] = new]
    BY <2>1
  <2> HIDE DEF new
  <2> QED BY <1>1, <1>2, <1>5, <2>1, <2>2, <2>3, <2>5, <2>6, AddedScope
<1>8. ASSUME NEW s \in Slots, Refresh(q, p, i, s)
      PROVE  ScopesInv'
  <2>1. s \in listed /\ armed' = armed
    BY <1>8 DEF Refresh, Subordinate, Lookup, ScopesInv, TtlTimersMatch
  <2> QED BY <1>1, <1>3, <1>4, <1>5, <1>8, <2>1, SameScopes DEF Refresh
<1>9. ASSUME NEW s \in Slots, DropOnOpen(q, p, i, s)
      PROVE  ScopesInv'
  <2>1. s \in listed /\ Remove(s, mem[s].use, EntryAfter(q, i)) /\ entry' = EntryAfter(q, i)
    BY <1>9 DEF DropOnOpen, Subordinate, Lookup
  <2> QED BY <1>1, <1>5, <2>1, RemovedScopes
<1>10. ASSUME NEW s \in Slots, ReceiveClose(q, p, i, s)
       PROVE  ScopesInv'
  <2>1. s \in listed /\ Remove(s, mem[s].use, entry) /\ entry' = entry
    BY <1>10 DEF ReceiveClose, Subordinate, Lookup
  <2> QED BY <1>1, <2>1, RemovedScopes DEF HasEntry
<1> QED BY <1>6, <1>7, <1>8, <1>9, <1>10 DEF Receive

LEMMA InvRecheck ==
  ASSUME ScopesInv, NEW fit \in SUBSET listed, Recheck(fit)
  PROVE  ScopesInv'
<1> DEFINE Dynamic == {s \in listed : mem[s].dynamic /\ ~ mem[s].creator}
<1>1. TypeOK'
  BY TypeNext DEF ScopesInv, Next
<1>2. listed \subseteq Slots /\ mem \in [Slots -> Scope] /\ joined \subseteq Ids
  BY DEF ScopesInv, TypeOK
<1>3. /\ listed' = listed /\ armed' = armed /\ entry' = entry
      /\ mem' = [s \in Slots |->
                   IF s \in Dynamic THEN [mem[s] EXCEPT !.member = (s \in fit)] ELSE mem[s]]
      /\ fit \subseteq Dynamic
  BY DEF Recheck
<1>4. \A t \in Slots : mem'[t].id = mem[t].id /\ mem'[t].super = mem[t].super
  BY <1>2, <1>3 DEF Scope
<1>5. \A t \in fit : mem'[t].member
  BY <1>2, <1>3 DEF Scope
<1>6. \A t \in listed \ Dynamic : mem'[t].member = mem[t].member
  BY <1>2, <1>3
<1>7. Forest'
  BY <1>2, <1>3, <1>4 DEF ScopesInv, Forest, Known, Lookup
<1>8. TtlTimersMatch'
  BY <1>3 DEF ScopesInv, TtlTimersMatch
<1>9. JoinedIsMember'
  <2> SUFFICES ASSUME NEW i \in joined'
               PROVE  HasEntry(i)' /\ \E t \in listed' : mem'[t].id = i /\ mem'[t].member
    BY DEF JoinedIsMember, Lookup, HasEntry
  <2>1. CASE \E t \in fit : mem[t].id = i /\ HasEntry(i)
    BY <1>2, <1>3, <1>4, <1>5, <2>1 DEF HasEntry
  <2>2. CASE /\ i \in joined
             /\ \A t \in Dynamic \ fit : mem[t].member => mem[t].id # i
    <3>1. PICK t \in listed : mem[t].id = i /\ mem[t].member
      BY <2>2 DEF ScopesInv, JoinedIsMember, Lookup
    <3>2. t \in fit \/ t \notin Dynamic
      BY <2>2, <3>1
    <3>3. mem'[t].member /\ mem'[t].id = i
      BY <1>2, <1>4, <1>5, <1>6, <3>1, <3>2
    <3> QED BY <1>3, <2>2, <3>3 DEF ScopesInv, JoinedIsMember, HasEntry
  <2>3. \/ \E t \in fit : mem[t].id = i /\ HasEntry(i)
        \/ i \in joined /\ \A t \in Dynamic \ fit : mem[t].member => mem[t].id # i
    BY DEF Recheck
  <2> QED BY <2>1, <2>2, <2>3
<1> QED BY <1>1, <1>7, <1>8, <1>9 DEF ScopesInv

LEMMA InvNext == ScopesInv /\ [Next]_vars => ScopesInv'
<1> SUFFICES ASSUME ScopesInv, [Next]_vars PROVE ScopesInv'
  OBVIOUS
<1>1. TypeOK' /\ TypeOK
  BY TypeNext DEF ScopesInv
<1>2. \A i \in joined : HasEntry(i)
  BY DEF ScopesInv, JoinedIsMember
<1>3. CASE AnnounceDelayed
  BY <1>1, <1>2, <1>3, SameScopes DEF AnnounceDelayed, routing, HasEntry
<1>4. ASSUME NEW s \in Slots, TimeoutOfOwn(s)
      PROVE  ScopesInv'
  <2>1. armed' = armed
    BY <1>4 DEF TimeoutOfOwn, ResetTimer
  <2> QED BY <1>1, <1>2, <1>4, <2>1, SameScopes DEF TimeoutOfOwn, routing, HasEntry
<1>5. ASSUME NEW s \in Slots, TimeoutOfOther(s)
      PROVE  ScopesInv'
  <2>1. s \in listed /\ Remove(s, mem[s].use, entry) /\ entry' = entry
    BY <1>5 DEF TimeoutOfOther, ScopesInv, TtlTimersMatch
  <2> QED BY <1>1, <2>1, RemovedScopes DEF HasEntry
<1>6. ASSUME NEW q \in Roots, HearTree(q)
      PROVE  ScopesInv'
  BY <1>1, <1>2, <1>6, SameScopes DEF HearTree, HasEntry
<1>7. ASSUME NEW q \in Roots, RouteExpires(q)
      PROVE  ScopesInv'
  <2>1. joined' \subseteq joined /\ joined \subseteq Ids
    BY <1>1, <1>7 DEF RouteExpires, TypeOK
  <2>2. \A i \in joined' : HasEntry(i)'
    BY <1>2, <1>7, <2>1 DEF RouteExpires, HasEntry
  <2>3. mem' = mem /\ listed' = listed /\ armed' = armed
    BY <1>7 DEF RouteExpires
  <2> QED BY <1>1, <2>1, <2>2, <2>3, SameScopes
<1>8. CASE RefreshTree \/ LockExpires
  BY <1>1, <1>2, <1>8, SameScopes DEF RefreshTree, LockExpires, HasEntry
<1>9. CASE UNCHANGED vars
  BY <1>1, <1>2, <1>9, SameScopes DEF vars, HasEntry
<1> QED
  BY <1>3, <1>4, <1>5, <1>6, <1>7, <1>8, <1>9, InvCall, InvReceive, InvRecheck DEF Next

(* The scopes of a node are always a forest below the world.               *)
THEOREM ForestCorrect == Spec => []Forest
<1>1. ScopesInv => Forest
  BY DEF ScopesInv
<1> QED BY <1>1, InvInit, InvNext, PTL DEF Spec

(* A ttl timer runs for the listed scopes, and for no freed slot.          *)
THEOREM TimersCorrect == Spec => []TtlTimersMatch
<1>1. ScopesInv => TtlTimersMatch
  BY DEF ScopesInv
<1> QED BY <1>1, InvInit, InvNext, PTL DEF Spec

(* The routing layer never takes the node for a member of a scope it is    *)
(* not a member of.                                                        *)
THEOREM JoinedCorrect == Spec => []JoinedIsMember
<1>1. ScopesInv => JoinedIsMember
  BY DEF ScopesInv
<1> QED BY <1>1, InvInit, InvNext, PTL DEF Spec

---------------------------------------------------------------------------
(***************************************************************************)
(* Scopes created here, in scopes created here.                            *)
(***************************************************************************)

(* Removing a scope outside such a tree takes nothing of it away: what is  *)
(* not in the tree is closed under sub-scopes.                             *)
LEMMA OutsideOwnTree ==
  ASSUME ScopesInv, NEW A \in SUBSET listed, OwnTree(A), NEW s \in listed \ A
  PROVE  Subtree(s) \cap A = {}
<1> DEFINE D == listed \ A
<1>1. ClosedUnderSub(D)
  <2> SUFFICES ASSUME NEW d \in D, NEW t \in A, mem[t].super = mem[d].id
               PROVE  FALSE
    BY DEF ClosedUnderSub
  <2>1. PICK u \in A : mem[u].id = mem[t].super
    BY DEF OwnTree, ScopesInv, Forest
  <2>2. u = d
    BY <2>1 DEF ScopesInv, Forest
  <2> QED BY <2>2
<1> QED BY <1>1, SubtreeLeast

(* No step but the last close of one of its scopes removes any of them.    *)
THEOREM OwnTreeCorrect == Spec => OwnTreeRemains
<1>1. ScopesInv /\ [Next]_vars => [OwnTreeStep]_vars
  <2> SUFFICES ASSUME ScopesInv, [Next]_vars,
                      NEW A \in SUBSET listed, OwnTree(A), ~ (A \subseteq listed')
               PROVE  \E s \in A : mem[s].use = 1 /\ mem'[s].use = 0
    BY DEF OwnTreeStep
  <2>1. ASSUME NEW s \in listed, NEW use, NEW entries, Remove(s, use, entries)
        PROVE  s \in A
    <3> SUFFICES ASSUME s \notin A PROVE FALSE
      OBVIOUS
    <3>1. Subtree(s) \cap A = {}
      BY <2>1, OutsideOwnTree
    <3>2. listed' = listed \ Subtree(s)
      BY <2>1 DEF Remove
    <3> QED BY <3>1, <3>2
  <2>2. ASSUME NEW s \in listed, ~ mem[s].creator, NEW use, NEW entries, Remove(s, use, entries)
        PROVE  FALSE
    BY <2>1, <2>2 DEF OwnTree
  <2>3. ASSUME NEW a \in Apps, NEW i \in Ids, CloseLast(a, i)
        PROVE  \E s \in A : mem[s].use = 1 /\ mem'[s].use = 0
    <3>1. PICK s \in listed : mem[s].use = 1 /\ Remove(s, 0, entry)
      BY <2>3 DEF CloseLast, Lookup
    <3>2. s \in A
      BY <2>1, <3>1
    <3>3. mem'[s].use = 0
      <4>1. s \in Slots /\ mem[s] \in Scope
        BY DEF ScopesInv, TypeOK
      <4>2. mem'[s] = [mem[s] EXCEPT !.member = @ /\ s \notin Subtree(s), !.use = 0]
        BY <3>1, <4>1 DEF Remove
      <4> QED BY <4>1, <4>2 DEF Scope
    <3> QED BY <3>1, <3>2, <3>3
  <2>4. ASSUME NEW q \in Roots, NEW pi \in Announced, NEW s \in Slots,
               DropOnOpen(q, pi[1], pi[2], s) \/ ReceiveClose(q, pi[1], pi[2], s)
        PROVE  FALSE
    <3>1. s \in listed /\ ~ mem[s].creator
      BY <2>4 DEF DropOnOpen, ReceiveClose, Subordinate, Lookup
    <3>2. \E entries : Remove(s, mem[s].use, entries)
      BY <2>4 DEF DropOnOpen, ReceiveClose
    <3> QED BY <2>2, <3>1, <3>2
  <2>5. ASSUME NEW s \in Slots, TimeoutOfOther(s)
        PROVE  FALSE
    <3>1. s \in listed /\ ~ mem[s].creator /\ Remove(s, mem[s].use, entry)
      BY <2>5 DEF TimeoutOfOther, Reannounces, ScopesInv, TtlTimersMatch
    <3> QED BY <2>2, <3>1
  <2>6. ASSUME listed \subseteq listed' PROVE FALSE
    BY <2>6
  <2>7. ASSUME NEW a \in Apps, Call(a)
        PROVE  \E s \in A : mem[s].use = 1 /\ mem'[s].use = 0
    BY <2>3, <2>6, <2>7
       DEF Call, Register, Unregister, OpenNew, OpenKnown, CloseShared
  <2>8. ASSUME NEW q \in Roots, NEW pi \in Announced, Receive(q, pi[1], pi[2])
        PROVE  FALSE
    BY <2>4, <2>6, <2>8 DEF Receive, HearOpen, Learn, Refresh
  <2> QED
    BY <2>5, <2>6, <2>7, <2>8
       DEF Next, AnnounceDelayed, TimeoutOfOwn, Recheck, HearTree, RouteExpires,
           RefreshTree, LockExpires, vars
<1> QED BY <1>1, InvInit, InvNext, PTL DEF Spec, OwnTreeRemains

=============================================================================
