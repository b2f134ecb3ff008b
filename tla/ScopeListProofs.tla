-------------------------- MODULE ScopeListProofs --------------------------
(***************************************************************************)
(* Proofs about ScopeList, for any scope ids and any length of the list:   *)
(* remove_scope's walk keeps the list in order, gets nearer its end with   *)
(* each step, and removes what ScopeSet says.                              *)
(***************************************************************************)
EXTENDS ScopeList, SequenceTheorems, TLAPS

---------------------------------------------------------------------------
(***************************************************************************)
(* Lists without repetitions: places, next pointers, list_remove.          *)
(***************************************************************************)

Injective(l) == \A j, k \in DOMAIN l : l[j] = l[k] => j = k

(* In a list without repetitions, an element has one place.                *)
LEMMA PlaceOf ==
  ASSUME NEW S, NEW l \in Seq(S), Injective(l), NEW p \in DOMAIN l
  PROVE  Place(l, l[p]) = p /\ l[p] \in ToSet(l)
BY DEF Place, ToSet, Injective

(* What follows its `next` pointer.                                        *)
LEMMA NextOfPlace ==
  ASSUME NEW S, NEW l \in Seq(S), Injective(l), NEW p \in DOMAIN l
  PROVE  NextOf(l, l[p]) = IF p < Len(l) THEN l[p + 1] ELSE Nil
BY PlaceOf DEF NextOf

(* What list_remove leaves.                                                *)
LEMMA UnlinkPlace ==
  ASSUME NEW S, NEW l \in Seq(S), Injective(l), NEW p \in DOMAIN l
  PROVE  LET r == Unlink(l, l[p])
         IN  /\ r \in Seq(S)
             /\ Len(r) = Len(l) - 1
             /\ \A q \in 1 .. Len(r) : r[q] = IF q < p THEN l[q] ELSE l[q + 1]
<1> DEFINE a == SubSeq(l, 1, p - 1)
           b == SubSeq(l, p + 1, Len(l))
<1>1. p \in 1 .. Len(l) /\ Len(l) \in Nat /\ \A i \in 1 .. Len(l) : l[i] \in S
  BY LenProperties, ElementOfSeq
<1>2. Unlink(l, l[p]) = a \o b
  BY PlaceOf DEF Unlink, RemoveAt
<1>3. /\ a \in Seq(S) /\ Len(a) = p - 1
      /\ \A i \in 1 .. p - 1 : a[i] = l[i]
  <2>1. 1 \in Int /\ p - 1 \in Int /\ \A i \in 1 .. p - 1 : l[i] \in S
    BY <1>1
  <2>2. /\ a \in Seq(S) /\ Len(a) = IF 1 <= p - 1 THEN p - 1 - 1 + 1 ELSE 0
        /\ \A i \in 1 .. p - 1 - 1 + 1 : a[i] = l[1 + i - 1]
    BY <2>1, SubSeqProperties
  <2> QED BY <1>1, <2>2
<1>4. /\ b \in Seq(S) /\ Len(b) = Len(l) - p
      /\ \A i \in 1 .. Len(l) - p : b[i] = l[p + i]
  <2>1. p + 1 \in Int /\ Len(l) \in Int /\ \A i \in p + 1 .. Len(l) : l[i] \in S
    BY <1>1
  <2>2. /\ b \in Seq(S) /\ Len(b) = IF p + 1 <= Len(l) THEN Len(l) - (p + 1) + 1 ELSE 0
        /\ \A i \in 1 .. Len(l) - (p + 1) + 1 : b[i] = l[p + 1 + i - 1]
    BY <2>1, SubSeqProperties
  <2> QED BY <1>1, <2>2
<1>5. /\ a \o b \in Seq(S) /\ Len(a \o b) = Len(a) + Len(b)
      /\ \A i \in 1 .. Len(a) + Len(b) :
           (a \o b)[i] = IF i <= Len(a) THEN a[i] ELSE b[i - Len(a)]
  BY <1>3, <1>4, ConcatProperties
<1> HIDE DEF a, b
<1>6. Len(a \o b) = Len(l) - 1
  BY <1>1, <1>3, <1>4, <1>5
<1>7. ASSUME NEW q \in 1 .. Len(l) - 1
      PROVE  (a \o b)[q] = IF q < p THEN l[q] ELSE l[q + 1]
  <2>1. CASE q < p
    <3>1. q \in 1 .. p - 1 /\ q \in 1 .. (p - 1) + (Len(l) - p) /\ q <= p - 1
      BY <1>1, <2>1
    <3>2. (a \o b)[q] = a[q]
      BY <1>3, <1>4, <1>5, <3>1
    <3> QED BY <1>3, <2>1, <3>1, <3>2
  <2>2. CASE ~ (q < p)
    <3>1. PICK i \in 1 .. Len(l) - p : i = q - (p - 1)
      BY <1>1, <2>2
    <3>2. Len(a) = p - 1 /\ Len(b) = Len(l) - p /\ p \in Nat /\ q \in Nat
      BY <1>1, <1>3, <1>4
    <3>3. (a \o b)[q] = b[i]
      <4>1. Len(a) + Len(b) = Len(l) - 1
        BY <1>1, <3>2
      <4>2. (a \o b)[q] = IF q <= Len(a) THEN a[q] ELSE b[q - Len(a)]
        BY <1>5, <4>1
      <4>3. ~ (q <= p - 1)
        BY <2>2, <3>2
      <4> QED BY <3>1, <3>2, <4>2, <4>3
    <3>4. p + i = q + 1
      <4>1. p \in Nat /\ q \in Nat /\ i = q - (p - 1)
        BY <3>1, <3>2
      <4> QED BY <4>1
    <3>5. b[i] = l[q + 1]
      <4>1. b[i] = l[p + i]
        BY <1>4, <3>1
      <4> QED BY <3>4, <4>1
    <3> QED BY <2>2, <3>3, <3>5
  <2> QED BY <2>1, <2>2
<1> QED BY <1>2, <1>5, <1>6, <1>7

(* It takes that element off and no other, and repeats none.               *)
LEMMA UnlinkSet ==
  ASSUME NEW S, NEW l \in Seq(S), Injective(l), NEW p \in DOMAIN l
  PROVE  /\ ToSet(Unlink(l, l[p])) = ToSet(l) \ {l[p]}
         /\ Injective(Unlink(l, l[p]))
<1> DEFINE r == Unlink(l, l[p])
<1>1. /\ r \in Seq(S) /\ Len(r) = Len(l) - 1
      /\ \A q \in 1 .. Len(r) : r[q] = IF q < p THEN l[q] ELSE l[q + 1]
  BY UnlinkPlace
<1>2. /\ DOMAIN l = 1 .. Len(l) /\ Len(l) \in Nat /\ p \in 1 .. Len(l)
      /\ DOMAIN r = 1 .. Len(r)
  BY <1>1, LenProperties
<1> HIDE DEF r
<1>3. ASSUME NEW x \in ToSet(r) PROVE x \in ToSet(l) \ {l[p]}
  <2>1. PICK q \in 1 .. Len(r) : x = r[q]
    BY <1>2 DEF ToSet
  <2>2. PICK k \in 1 .. Len(l) : k # p /\ x = l[k]
    <3>1. CASE q < p
      BY <1>1, <1>2, <2>1, <3>1
    <3>2. CASE ~ (q < p)
      BY <1>1, <1>2, <2>1, <3>2
    <3> QED BY <3>1, <3>2
  <2> QED BY <1>2, <2>2 DEF ToSet, Injective
<1>4. ASSUME NEW x \in ToSet(l) \ {l[p]} PROVE x \in ToSet(r)
  <2>1. PICK k \in 1 .. Len(l) : k # p /\ x = l[k]
    BY <1>2 DEF ToSet
  <2>2. PICK q \in 1 .. Len(r) : x = r[q]
    <3>1. CASE k < p
      BY <1>1, <1>2, <2>1, <3>1
    <3>2. CASE ~ (k < p)
      <4>1. k - 1 \in 1 .. Len(r) /\ ~ (k - 1 < p) /\ k - 1 + 1 = k
        BY <1>1, <1>2, <2>1, <3>2
      <4> QED BY <1>1, <2>1, <4>1
    <3> QED BY <3>1, <3>2
  <2> QED BY <1>2, <2>2 DEF ToSet
<1>5. Injective(r)
  <2> SUFFICES ASSUME NEW j \in 1 .. Len(r), NEW k \in 1 .. Len(r), r[j] = r[k]
               PROVE  j = k
    BY <1>2 DEF Injective
  <2> DEFINE at(i) == IF i < p THEN i ELSE i + 1
  <2>1. /\ at(j) \in 1 .. Len(l) /\ at(k) \in 1 .. Len(l)
        /\ r[j] = l[at(j)] /\ r[k] = l[at(k)]
    BY <1>1, <1>2
  <2>2. at(j) = at(k)
    BY <1>2, <2>1 DEF Injective
  <2> QED BY <1>2, <2>2
<1> QED BY <1>3, <1>4, <1>5 DEF r

---------------------------------------------------------------------------
(***************************************************************************)
(* The inductive invariant.  SuperFirst alone is not inductive: that no    *)
(* scope is left behind its super scope depends on how far each call under *)
(* way has come.                                                           *)
(***************************************************************************)

Frame == [scope : Scope, current : Scope \cup {Nil}, previous : Scope \cup {Nil}]

ListType ==
  /\ list \in Seq(Scope)
  /\ frames \in Seq(Frame)
  /\ before \in SUBSET Scope

IdsUnique == \A j, k \in DOMAIN list : list[j].id = list[k].id => j = k

(* The list between two operations, and between two steps of a walk.       *)
ListInv ==
  /\ list \in Seq(Scope) /\ Len(list) > 0
  /\ IdsUnique
  /\ SuperFirst

(* A call has come to place p of list l: `previous` is there, `current` is *)
(* behind it, and none of the first p elements is a sub of its scope.      *)
CallAt(l, f, p) ==
  /\ f.scope \in ToSet(l) /\ f.scope # WorldScope
  /\ f.previous = IF p = 0 THEN Nil ELSE l[p]
  /\ f.current = IF p < Len(l) THEN l[p + 1] ELSE Nil
  /\ \A q \in 1 .. p : l[q].super # f.scope.id

Calls == \A i \in 1 .. Len(frames) : \E p \in 0 .. Len(list) : CallAt(list, frames[i], p)

(* A call that has called itself did so for its current element, a sub.    *)
Chain ==
  \A i \in 1 .. Len(frames) - 1 :
    /\ frames[i].current = frames[i + 1].scope
    /\ frames[i].current.super = frames[i].scope.id

(* An inner call is for a scope further down the list.                     *)
Deeper ==
  \A i, j \in 1 .. Len(frames) :
    i < j => Place(list, frames[i].scope) < Place(list, frames[j].scope)

(* ScopeSet's Below, of the scopes in S.                                   *)
BelowIn(S, s) ==
  {t \in S :
     \A D \in SUBSET S :
       s \in D /\ (\A d \in D, u \in S : u.super = d.id => u \in D) => t \in D}

(* Whatever the walk has removed, or is looking below, is to be removed.   *)
History ==
  frames # <<>> =>
    /\ ToSet(list) \subseteq before
    /\ \A s, t \in before : s.id = t.id => s = t
    /\ \A i \in 1 .. Len(frames) : frames[i].scope \in BelowIn(before, frames[1].scope)
    /\ before \ ToSet(list) \subseteq BelowIn(before, frames[1].scope)

WalkInv == ListType /\ ListInv /\ Calls /\ Chain /\ Deeper /\ History

---------------------------------------------------------------------------
(* What ListInv says of single elements: the list is not empty, repeats    *)
(* nothing, and only its first element is the world.                       *)
LEMMA ListFacts ==
  ASSUME ListInv
  PROVE  /\ Len(list) \in Nat /\ Len(list) > 0 /\ DOMAIN list = 1 .. Len(list)
         /\ \A k \in 1 .. Len(list) : list[k] \in Scope
         /\ Injective(list)
         /\ HeadOf(list) = list[1] /\ list # <<>>
         /\ \A k \in 1 .. Len(list) : list[k].id = World => k = 1
<1>1. list \in Seq(Scope) /\ Len(list) \in Nat /\ DOMAIN list = 1 .. Len(list)
  BY LenProperties DEF ListInv
<1>2. \A k \in 1 .. Len(list) : list[k] \in Scope
  BY <1>1, ElementOfSeq
<1>3. Injective(list)
  BY DEF ListInv, IdsUnique, Injective
<1>4. list # <<>>
  BY <1>1, EmptySeq DEF ListInv
<1>5. Len(list) > 0 /\ HeadOf(list) = list[1]
  BY <1>1, <1>4, EmptySeq DEF HeadOf, ListInv
<1>6. list[1].id = World
  BY DEF ListInv, SuperFirst, WorldScope
<1>7. \A k \in 1 .. Len(list) : list[k].id = World => k = 1
  BY <1>1, <1>5, <1>6 DEF ListInv, IdsUnique
<1> QED BY <1>1, <1>2, <1>3, <1>4, <1>5, <1>7

(* Taking off an element that has no sub keeps the order.                  *)
LEMMA UnlinkKeepsOrder ==
  ASSUME ListInv, NEW p \in DOMAIN list, list[p] # WorldScope,
         \A q \in DOMAIN list : list[q].super # list[p].id,
         list' = Unlink(list, list[p])
  PROVE  ListInv' /\ ToSet(list') = ToSet(list) \ {list[p]}
<1>1. /\ Len(list) \in Nat /\ Len(list) > 0 /\ DOMAIN list = 1 .. Len(list)
      /\ Injective(list) /\ list \in Seq(Scope)
  BY ListFacts DEF ListInv
<1>2. /\ list' \in Seq(Scope) /\ Len(list') = Len(list) - 1
      /\ \A q \in 1 .. Len(list') : list'[q] = IF q < p THEN list[q] ELSE list[q + 1]
  BY <1>1, UnlinkPlace
<1>3. DOMAIN list' = 1 .. Len(list') /\ Len(list') \in Nat
  BY <1>2, LenProperties
<1>4. p > 1 /\ p \in Nat /\ p <= Len(list)
  BY <1>1 DEF ListInv, SuperFirst
<1> DEFINE at(q) == IF q < p THEN q ELSE q + 1
<1>5. ASSUME NEW q \in 1 .. Len(list')
      PROVE  at(q) \in 1 .. Len(list) /\ at(q) # p /\ list'[q] = list[at(q)]
  <2>1. Len(list') = Len(list) - 1 /\ Len(list) \in Nat
    BY <1>1, <1>2
  <2>2. q \in Nat /\ 1 <= q /\ q <= Len(list) - 1
    BY <2>1
  <2>3. list'[q] = IF q < p THEN list[q] ELSE list[q + 1]
    BY <1>2
  <2> QED BY <1>1, <1>4, <2>2, <2>3
<1>6. IdsUnique'
  <2> SUFFICES ASSUME NEW j \in 1 .. Len(list'), NEW k \in 1 .. Len(list'),
                      list'[j].id = list'[k].id
               PROVE  j = k
    BY <1>3 DEF IdsUnique
  <2>1. at(j) = at(k)
    <3>1. at(j) \in DOMAIN list /\ at(k) \in DOMAIN list
      BY <1>1, <1>5
    <3>2. list[at(j)].id = list[at(k)].id
      BY <1>5
    <3> HIDE DEF at
    <3> QED BY <3>1, <3>2 DEF ListInv, IdsUnique
  <2>2. j \in Nat /\ k \in Nat /\ p \in Nat
    BY <1>3, <1>4
  <2> QED BY <2>1, <2>2
<1>7. list'[1] = WorldScope /\ Len(list') > 0
  <2>1. Len(list') = Len(list) - 1 /\ Len(list) \in Nat /\ p > 1 /\ p <= Len(list) /\ p \in Nat
    BY <1>1, <1>2, <1>4
  <2>2. 1 \in 1 .. Len(list') /\ Len(list') > 0
    BY <2>1
  <2>3. list'[1] = list[1]
    BY <1>2, <1>4, <2>2
  <2> QED BY <2>2, <2>3 DEF ListInv, SuperFirst
<1>8. ASSUME NEW k \in 2 .. Len(list')
      PROVE  \E j \in 1 .. k - 1 : list'[j].id = list'[k].super
  <2>1. /\ k \in 1 .. Len(list') /\ at(k) \in 2 .. Len(list)
        /\ at(k) \in 1 .. Len(list) /\ list'[k] = list[at(k)]
    BY <1>3, <1>4, <1>5
  <2>2. PICK i \in 1 .. at(k) - 1 : list[i].id = list[at(k)].super
    BY <2>1 DEF ListInv, SuperFirst
  <2>3. i # p
    BY <1>1, <2>1, <2>2
  <2> DEFINE j == IF i < p THEN i ELSE i - 1
  <2>4. j \in 1 .. k - 1 /\ at(j) = i /\ j \in 1 .. Len(list')
    BY <1>3, <1>4, <2>2, <2>3
  <2> QED BY <1>5, <2>1, <2>2, <2>4
<1>9. ListInv'
  BY <1>2, <1>6, <1>7, <1>8 DEF ListInv, SuperFirst
<1> QED BY <1>1, <1>9, UnlinkSet

(* The innermost call.                                                     *)
LEMMA TopFrame ==
  ASSUME ListType, frames # <<>>
  PROVE  /\ Len(frames) \in Nat /\ Len(frames) > 0 /\ DOMAIN frames = 1 .. Len(frames)
         /\ Len(frames) \in 1 .. Len(frames)
         /\ Top = frames[Len(frames)] /\ Top \in Frame
         /\ \A i \in 1 .. Len(frames) : frames[i] \in Frame
<1>1. frames \in Seq(Frame) /\ Len(frames) \in Nat /\ DOMAIN frames = 1 .. Len(frames)
  BY LenProperties DEF ListType
<1>2. Len(frames) # 0
  BY <1>1, EmptySeq
<1> QED BY <1>1, <1>2, ElementOfSeq DEF Top, Last

(* The scope of a call, by its place: a sub of it is further down.         *)
LEMMA SubIsBehind ==
  ASSUME ListInv, NEW p \in 1 .. Len(list), NEW s \in ToSet(list), s # WorldScope,
         list[p].super = s.id
  PROVE  /\ list[p] # WorldScope
         /\ list[p] \in ToSet(list)
         /\ Place(list, s) \in 1 .. p - 1
         /\ Place(list, list[p]) = p
<1>1. PICK k \in 1 .. Len(list) : s = list[k]
  BY ListFacts DEF ToSet
<1>2. Place(list, s) = k /\ Place(list, list[p]) = p /\ list[p] \in ToSet(list)
  BY <1>1, ListFacts, PlaceOf DEF ListInv
<1>3. list[1] = WorldScope
  BY DEF ListInv, SuperFirst
<1>4. s.id # World
  BY <1>1, <1>3, ListFacts
<1>5. list[p] # WorldScope
  BY <1>4 DEF WorldScope
<1>6. p \in 2 .. Len(list)
  BY <1>3, <1>5, ListFacts
<1>7. PICK j \in 1 .. p - 1 : list[j].id = list[p].super
  BY <1>6 DEF ListInv, SuperFirst
<1>8. j = k
  BY <1>1, <1>6, <1>7, ListFacts DEF ListInv, IdsUnique
<1> QED BY <1>2, <1>5, <1>7, <1>8

(* A scope whose super scope is to be removed is.                          *)
LEMMA SubIsBelow ==
  ASSUME NEW S, NEW s, NEW d \in BelowIn(S, s), NEW u \in S, u.super = d.id
  PROVE  u \in BelowIn(S, s)
BY DEF BelowIn

---------------------------------------------------------------------------
(***************************************************************************)
(* WalkInv is inductive.                                                   *)
(***************************************************************************)

(* Outside a walk, the list is all that WalkInv speaks of.                 *)
LEMMA NoCalls ==
  ASSUME ListInv, frames = <<>>, before \in SUBSET Scope
  PROVE  WalkInv
<1>1. Len(frames) = 0 /\ frames \in Seq(Frame)
  BY EmptySeq
<1>2. Calls /\ Chain /\ Deeper
  BY <1>1 DEF Calls, Chain, Deeper
<1>3. ListType /\ History
  BY <1>1 DEF ListType, ListInv, History
<1> QED BY <1>2, <1>3 DEF WalkInv

LEMMA WorldIsScope == WorldScope \in Scope
BY DEF WorldScope, Scope

LEMMA WalkInit == Init => WalkInv
<1> SUFFICES ASSUME Init PROVE WalkInv
  OBVIOUS
<1>1. list = <<WorldScope>> /\ frames = <<>> /\ before = {}
  BY DEF Init
<1>2. list \in Seq(Scope) /\ Len(list) = 1 /\ list[1] = WorldScope
  BY <1>1, WorldIsScope
<1>3. ListInv
  BY <1>2, LenProperties DEF ListInv, IdsUnique, SuperFirst
<1> QED BY <1>1, <1>3, NoCalls

(* A scope is opened behind all others, and its super scope is known.      *)
LEMMA OpenKeepsWalk ==
  ASSUME WalkInv, NEW p \in Ids \cup {World}, NEW i \in Ids, Open(p, i)
  PROVE  WalkInv'
<1> DEFINE s == [id |-> i, super |-> p]
           n == Len(list)
<1>1. list' = Append(list, s) /\ frames' = <<>> /\ before' = before /\ s \in Scope
  BY DEF Open, AddScope, Scope
<1>2. list \in Seq(Scope) /\ n \in Nat /\ n > 0 /\ DOMAIN list = 1 .. n
  BY ListFacts DEF WalkInv, ListInv
<1>3. /\ list' \in Seq(Scope) /\ Len(list') = n + 1
      /\ \A k \in 1 .. n : list'[k] = list[k]
      /\ list'[n + 1] = s
  BY <1>1, <1>2, AppendProperties
<1>4. DOMAIN list' = 1 .. n + 1
  BY <1>3, LenProperties
<1>5. IdsUnique'
  <2>1. \A k \in 1 .. n : list[k].id # i
    BY <1>2 DEF Open, IdKnown
  <2>2. s.id = i
    OBVIOUS
  <2> SUFFICES ASSUME NEW j \in 1 .. n + 1, NEW k \in 1 .. n + 1, list'[j].id = list'[k].id
               PROVE  j = k
    BY <1>4 DEF IdsUnique
  <2>3. CASE j \in 1 .. n /\ k \in 1 .. n
    BY <1>2, <1>3, <2>3 DEF WalkInv, ListInv, IdsUnique
  <2>4. CASE j = n + 1 \/ k = n + 1
    <3>1. \A h \in 1 .. n + 1 : h \in 1 .. n \/ h = n + 1
      BY <1>2
    <3> QED BY <1>3, <2>1, <2>2, <2>4, <3>1
  <2> QED BY <1>2, <2>3, <2>4
<1>6. SuperFirst'
  <2>1. list'[1] = WorldScope
    BY <1>2, <1>3 DEF WalkInv, ListInv, SuperFirst
  <2> SUFFICES ASSUME NEW k \in 2 .. n + 1
               PROVE  \E j \in 1 .. k - 1 : list'[j].id = list'[k].super
    BY <1>3, <2>1 DEF SuperFirst
  <2>2. CASE k = n + 1
    <3>1. PICK j \in 1 .. n : list[j].id = p
      BY <1>2 DEF Open, IdKnown
    <3> QED BY <1>2, <1>3, <2>2, <3>1
  <2>3. CASE k \in 2 .. n
    <3>1. PICK j \in 1 .. k - 1 : list[j].id = list[k].super
      BY <2>3 DEF WalkInv, ListInv, SuperFirst
    <3>2. j \in 1 .. n /\ k \in 1 .. n
      BY <1>2, <2>3
    <3> QED BY <1>3, <3>1, <3>2
  <2> QED BY <1>2, <2>2, <2>3
<1>7. ListInv'
  BY <1>2, <1>3, <1>5, <1>6 DEF ListInv
<1>8. before' \in SUBSET Scope
  BY <1>1 DEF WalkInv, ListType
<1>9. Len(frames') = 0 /\ frames' \in Seq(Frame)
  BY <1>1, EmptySeq
<1>10. Calls' /\ Chain' /\ Deeper'
  BY <1>9 DEF Calls, Chain, Deeper
<1>11. ListType' /\ History'
  BY <1>1, <1>7, <1>8, <1>9 DEF ListType, ListInv, History
<1> QED BY <1>7, <1>10, <1>11 DEF WalkInv

(* A call begins at the head of the list.                                  *)
LEMMA CallBegins ==
  ASSUME ListInv, NEW s \in ToSet(list), s # WorldScope
  PROVE  s \in Scope /\ Call(s) \in Frame /\ CallAt(list, Call(s), 0)
<1>1. s \in Scope
  BY ListFacts DEF ToSet
<1>2. Len(list) \in Nat /\ Len(list) > 0 /\ HeadOf(list) = list[1] /\ list[1] \in Scope
  BY ListFacts
<1>3. Call(s) = [scope |-> s, current |-> list[1], previous |-> Nil]
  BY <1>2 DEF Call
<1> QED BY <1>1, <1>2, <1>3 DEF Frame, CallAt

(* remove_scope calls remove_scope_recursively.                            *)
LEMMA RemoveBegins ==
  ASSUME WalkInv, NEW k \in DOMAIN list, RemoveScope(k)
  PROVE  WalkInv'
<1> DEFINE s == list[k]
<1>1. /\ frames' = <<Call(s)>> /\ before' = ToSet(list) /\ list' = list
      /\ s # WorldScope /\ s \in ToSet(list)
  BY DEF RemoveScope, ToSet
<1>2. s \in Scope /\ Call(s) \in Frame /\ CallAt(list, Call(s), 0)
  BY <1>1, CallBegins DEF WalkInv
<1>3. /\ frames' \in Seq(Frame) /\ Len(frames') = 1 /\ frames'[1] = Call(s)
      /\ Call(s).scope = s
  BY <1>1, <1>2 DEF Call
<1>4. ListInv' /\ before' \in SUBSET Scope
  <2>1. ToSet(list) \subseteq Scope
    BY ListFacts DEF ToSet, WalkInv
  <2> QED BY <1>1, <2>1 DEF WalkInv, ListInv, IdsUnique, SuperFirst
<1>5. Calls'
  <2>1. 0 \in 0 .. Len(list)
    BY ListFacts DEF WalkInv
  <2> QED BY <1>1, <1>2, <1>3, <2>1 DEF Calls
<1>6. Chain' /\ Deeper'
  BY <1>3 DEF Chain, Deeper
<1>7. History'
  <2>1. \A t, u \in ToSet(list) : t.id = u.id => t = u
    BY DEF WalkInv, ListInv, IdsUnique, ToSet
  <2>2. s \in BelowIn(ToSet(list), s)
    BY <1>1 DEF BelowIn
  <2> QED BY <1>1, <1>3, <2>1, <2>2 DEF History
<1> QED BY <1>1, <1>3, <1>4, <1>5, <1>6, <1>7 DEF WalkInv, ListType, ListInv

(* How far the innermost call has come.                                    *)
LEMMA TopPlace ==
  ASSUME WalkInv, frames # <<>>
  PROVE  \E p \in 0 .. Len(list) :
           /\ CallAt(list, Top, p)
           /\ Top.current = Nil => p = Len(list)
           /\ Top.current # Nil =>
                p + 1 \in 1 .. Len(list) /\ Top.current = list[p + 1]
<1>1. PICK p \in 0 .. Len(list) : CallAt(list, Top, p)
  BY TopFrame DEF WalkInv, Calls
<1>2. Len(list) \in Nat /\ \A k \in 1 .. Len(list) : list[k] # Nil
  BY ListFacts, ScopeListAssumption DEF WalkInv
<1>3. p < Len(list) => p + 1 \in 1 .. Len(list) /\ Top.current = list[p + 1]
  BY <1>1, <1>2 DEF CallAt
<1>4. ~ (p < Len(list)) => p = Len(list) /\ Top.current = Nil
  BY <1>1, <1>2 DEF CallAt
<1> QED BY <1>1, <1>2, <1>3, <1>4

(* The loop goes past an element that is no sub.                           *)
LEMMA PassKeepsWalk ==
  ASSUME WalkInv, Pass
  PROVE  /\ WalkInv' /\ frames' # <<>>
         /\ Top'.scope = Top.scope
         /\ Left' < Left
<1> DEFINE n == Len(frames)
           g == GoOn(Top, list, Top.current)
<1>1. /\ frames # <<>> /\ Top.current # Nil /\ Top.current.super # Top.scope.id
      /\ list' = list /\ before' = before
  BY DEF Pass
<1>2. /\ n \in Nat /\ n > 0 /\ n \in 1 .. n /\ DOMAIN frames = 1 .. n
      /\ Top = frames[n] /\ Top \in Frame
  BY <1>1, TopFrame DEF WalkInv
<1>3. frames' = [frames EXCEPT ![n] = g]
  BY <1>2 DEF Pass
<1>4. PICK p \in 0 .. Len(list) :
        CallAt(list, Top, p) /\ p + 1 \in 1 .. Len(list) /\ Top.current = list[p + 1]
  BY <1>1, TopPlace
<1>5. /\ Len(list) \in Nat /\ DOMAIN list = 1 .. Len(list) /\ Injective(list)
      /\ list \in Seq(Scope) /\ \A k \in 1 .. Len(list) : list[k] \in Scope
  BY ListFacts DEF WalkInv, ListInv
<1>6. g = [Top EXCEPT !.previous = list[p + 1],
                      !.current = IF p + 1 < Len(list) THEN list[p + 2] ELSE Nil]
  <2>1. NextOf(list, list[p + 1]) = IF p + 1 < Len(list) THEN list[p + 1 + 1] ELSE Nil
    BY <1>4, <1>5, NextOfPlace
  <2>2. p + 1 + 1 = p + 2
    BY <1>4, <1>5
  <2> QED BY <1>1, <1>4, <2>1, <2>2 DEF GoOn
<1>7. /\ g.scope = Top.scope
      /\ g.previous = list[p + 1]
      /\ g.current = IF p + 1 < Len(list) THEN list[p + 2] ELSE Nil
  BY <1>2, <1>6 DEF Frame
<1>8. g \in Frame
  <2>1. p + 1 < Len(list) => p + 2 \in 1 .. Len(list)
    BY <1>4, <1>5
  <2> QED BY <1>2, <1>4, <1>5, <1>6, <2>1 DEF Frame
<1>9. CallAt(list, g, p + 1)
  <2>1. \A q \in 1 .. p + 1 : q \in 1 .. p \/ q = p + 1
    BY <1>4, <1>5
  <2>2. p + 1 # 0 /\ p + 1 + 1 = p + 2
    BY <1>4, <1>5
  <2> QED BY <1>1, <1>4, <1>7, <2>1, <2>2 DEF CallAt
<1> HIDE DEF g
<1>10. /\ frames' \in Seq(Frame) /\ Len(frames') = n
       /\ \A i \in 1 .. n : frames'[i] = IF i = n THEN g ELSE frames[i]
  BY <1>2, <1>3, <1>8, ExceptSeq DEF WalkInv, ListType
<1>11. \A i \in 1 .. n : frames'[i].scope = frames[i].scope
  BY <1>2, <1>7, <1>10
<1>12. Calls'
  <2> SUFFICES ASSUME NEW i \in 1 .. n
               PROVE  \E q \in 0 .. Len(list) : CallAt(list, frames'[i], q)
    BY <1>1, <1>10 DEF Calls
  <2>1. CASE i = n
    <3>1. p + 1 \in 0 .. Len(list)
      BY <1>4, <1>5
    <3> QED BY <1>9, <1>10, <2>1, <3>1
  <2>2. CASE i # n
    BY <1>10, <2>2 DEF WalkInv, Calls
  <2> QED BY <2>1, <2>2
<1>13. Chain'
  <2> SUFFICES ASSUME NEW i \in 1 .. n - 1
               PROVE  /\ frames'[i].current = frames'[i + 1].scope
                      /\ frames'[i].current.super = frames'[i].scope.id
    BY <1>10 DEF Chain
  <2> n \in Nat
    BY <1>2
  <2> HIDE DEF n
  <2>1. i \in 1 .. n /\ i + 1 \in 1 .. n /\ i # n
    OBVIOUS
  <2>2. frames'[i] = frames[i]
    BY <1>10, <2>1
  <2> QED BY <1>11, <2>1, <2>2 DEF WalkInv, Chain, n
<1>14. Deeper'
  BY <1>1, <1>10, <1>11 DEF WalkInv, Deeper
<1>15. History'
  <2>1. 1 \in 1 .. n
    BY <1>2
  <2> QED BY <1>1, <1>10, <1>11, <2>1 DEF WalkInv, History
<1>16. ListInv' /\ ListType'
  BY <1>1, <1>10 DEF WalkInv, ListInv, ListType, IdsUnique, SuperFirst
<1>17. Top' = g
  BY <1>2, <1>10 DEF Top, Last
<1>18. Left' < Left
  <2>1. Left = Len(list) - (p + 1) + 1
    BY <1>1, <1>4, <1>5, PlaceOf DEF Left
  <2>2. CASE p + 1 < Len(list)
    <3>1. p + 2 \in 1 .. Len(list)
      BY <1>4, <1>5, <2>2
    <3>2. g.current = list[p + 2] /\ list[p + 2] # Nil /\ Place(list, list[p + 2]) = p + 2
      BY <1>5, <1>7, <2>2, <3>1, PlaceOf, ScopeListAssumption
    <3>3. Left' = Len(list) - (p + 2) + 1
      BY <1>1, <1>17, <3>2 DEF Left
    <3> QED BY <1>4, <1>5, <2>1, <3>3
  <2>3. CASE ~ (p + 1 < Len(list))
    <3>1. Left' = 0
      BY <1>7, <1>17, <2>3 DEF Left
    <3> QED BY <1>4, <1>5, <2>1, <3>1
  <2> QED BY <2>2, <2>3
<1>19. frames' # <<>>
  <2>1. frames' \in Seq(Frame) /\ Len(frames') = n
    BY <1>10
  <2>2. n # 0
    BY <1>2
  <2> HIDE DEF n
  <2> QED BY <2>1, <2>2, EmptySeq
<1> QED
  BY <1>7, <1>12, <1>13, <1>14, <1>15, <1>16, <1>17, <1>18, <1>19 DEF WalkInv

(* The loop calls itself for a sub, which is further down the list.        *)
LEMMA DescendKeepsWalk ==
  ASSUME WalkInv, Descend
  PROVE  /\ WalkInv'
         /\ frames' # <<>>
         /\ Place(list, Top'.scope) > Place(list, Top.scope)
<1> DEFINE n == Len(frames)
           s == Top.current
<1>1. /\ frames # <<>> /\ s # Nil /\ s.super = Top.scope.id
      /\ list' = list /\ before' = before /\ frames' = Append(frames, Call(s))
  BY DEF Descend
<1>2. /\ n \in Nat /\ n > 0 /\ n \in 1 .. n /\ DOMAIN frames = 1 .. n
      /\ Top = frames[n] /\ Top \in Frame
  BY <1>1, TopFrame DEF WalkInv
<1>3. PICK p \in 0 .. Len(list) :
        CallAt(list, Top, p) /\ p + 1 \in 1 .. Len(list) /\ s = list[p + 1]
  BY <1>1, TopPlace
<1>4. /\ s # WorldScope /\ s \in ToSet(list)
      /\ Place(list, Top.scope) < Place(list, s)
  <2>1. Top.scope \in ToSet(list) /\ Top.scope # WorldScope
    BY <1>3 DEF CallAt
  <2>2. /\ s # WorldScope /\ s \in ToSet(list)
        /\ Place(list, Top.scope) \in 1 .. p + 1 - 1
        /\ Place(list, s) = p + 1
    BY <1>1, <1>3, <2>1, SubIsBehind DEF WalkInv
  <2> QED BY <2>2
<1>5. s \in Scope /\ Call(s) \in Frame /\ CallAt(list, Call(s), 0) /\ Call(s).scope = s
  BY <1>4, CallBegins DEF WalkInv, Call
<1>6. /\ frames' \in Seq(Frame) /\ frames' # <<>> /\ Len(frames') = n + 1
      /\ \A i \in 1 .. n : frames'[i] = frames[i]
      /\ frames'[n + 1] = Call(s)
  BY <1>1, <1>5, AppendProperties DEF WalkInv, ListType
<1>7. \A i \in 1 .. n + 1 : i \in 1 .. n \/ i = n + 1
  BY <1>2
<1>8. Calls'
  <2>1. 0 \in 0 .. Len(list)
    BY ListFacts DEF WalkInv
  <2> QED BY <1>1, <1>5, <1>6, <1>7, <2>1 DEF WalkInv, Calls
<1>9. Chain'
  <2> SUFFICES ASSUME NEW i \in 1 .. n
               PROVE  /\ frames'[i].current = frames'[i + 1].scope
                      /\ frames'[i].current.super = frames'[i].scope.id
    BY <1>2, <1>6 DEF Chain
  <2>1. CASE i = n
    BY <1>1, <1>2, <1>5, <1>6, <2>1
  <2>2. CASE i # n
    <3> n \in Nat
      BY <1>2
    <3> HIDE DEF n
    <3>1. i \in 1 .. n - 1 /\ i + 1 \in 1 .. n
      BY <2>2
    <3> QED BY <1>6, <3>1 DEF WalkInv, Chain, n
  <2> QED BY <2>1, <2>2
<1>10. Deeper'
  <2> SUFFICES ASSUME NEW i \in 1 .. n + 1, NEW j \in 1 .. n + 1, i < j
               PROVE  Place(list, frames'[i].scope) < Place(list, frames'[j].scope)
    BY <1>1, <1>6 DEF Deeper
  <2>1. \A h \in 1 .. n : Place(list, frames[h].scope) \in Nat
    <3> SUFFICES ASSUME NEW h \in 1 .. n PROVE Place(list, frames[h].scope) \in Nat
      OBVIOUS
    <3>1. frames[h].scope \in ToSet(list)
      BY DEF WalkInv, Calls, CallAt
    <3>2. PICK k \in 1 .. Len(list) : frames[h].scope = list[k]
      BY <3>1, ListFacts DEF WalkInv, ToSet
    <3> QED BY <3>2, ListFacts, PlaceOf DEF WalkInv, ListInv
  <2>2. i \in 1 .. n /\ frames'[i] = frames[i]
    BY <1>2, <1>6
  <2>3. CASE j = n + 1
    <3>1. Place(list, frames[i].scope) <= Place(list, frames[n].scope)
      BY <1>2, <2>1, <2>2 DEF WalkInv, Deeper
    <3>2. Place(list, s) \in Nat
      BY <1>3, ListFacts, PlaceOf DEF WalkInv, ListInv
    <3> QED BY <1>2, <1>4, <1>5, <1>6, <2>1, <2>2, <2>3, <3>1, <3>2
  <2>4. CASE j # n + 1
    BY <1>6, <1>7, <2>2, <2>4 DEF WalkInv, Deeper
  <2> QED BY <2>3, <2>4
<1>11. History'
  <2>1. 1 \in 1 .. n /\ frames'[1] = frames[1]
    BY <1>2, <1>6
  <2>2. Top.scope \in BelowIn(before, frames[1].scope) /\ s \in before
    BY <1>1, <1>2, <1>4 DEF WalkInv, History
  <2>3. s \in BelowIn(before, frames[1].scope)
    BY <1>1, <2>2, SubIsBelow
  <2> QED BY <1>1, <1>5, <1>6, <1>7, <2>1, <2>3 DEF WalkInv, History
<1>12. ListInv' /\ ListType'
  BY <1>1, <1>6 DEF WalkInv, ListInv, ListType, IdsUnique, SuperFirst
<1>13. Top'.scope = s
  BY <1>5, <1>6 DEF Top, Last
<1>14. Place(list, Top'.scope) > Place(list, Top.scope)
  BY <1>4, <1>13
<1> QED BY <1>6, <1>8, <1>9, <1>10, <1>11, <1>12, <1>14 DEF WalkInv

(* What is in front of an element that is taken off stays where it was.    *)
LEMMA UnlinkKeepsFront ==
  ASSUME ListInv, NEW p \in DOMAIN list, list[p] # WorldScope,
         NEW k \in 1 .. Len(list), k < p
  PROVE  LET rest == Unlink(list, list[p])
         IN  /\ k \in 1 .. Len(rest) /\ rest[k] = list[k]
             /\ Place(rest, list[k]) = k /\ list[k] \in ToSet(rest)
<1> DEFINE rest == Unlink(list, list[p])
<1>1. /\ Len(list) \in Nat /\ Injective(list) /\ list \in Seq(Scope)
      /\ DOMAIN list = 1 .. Len(list)
  BY ListFacts DEF ListInv
<1>2. /\ rest \in Seq(Scope) /\ Len(rest) = Len(list) - 1
      /\ \A q \in 1 .. Len(rest) : rest[q] = IF q < p THEN list[q] ELSE list[q + 1]
  BY <1>1, UnlinkPlace
<1>3. Injective(rest) /\ DOMAIN rest = 1 .. Len(rest)
  BY <1>1, <1>2, UnlinkSet, LenProperties
<1> HIDE DEF rest
<1>4. k \in 1 .. Len(rest)
  BY <1>1, <1>2
<1>5. rest[k] = list[k]
  BY <1>2, <1>4
<1>6. Place(rest, rest[k]) = k /\ rest[k] \in ToSet(rest)
  BY <1>2, <1>3, <1>4, PlaceOf
<1> QED BY <1>4, <1>5, <1>6 DEF rest

(* A call whose place is in front of such an element does not notice.      *)
LEMMA UnlinkKeepsCall ==
  ASSUME ListInv, NEW p \in DOMAIN list, list[p] # WorldScope,
         NEW f, NEW q \in 0 .. Len(list), CallAt(list, f, q), q + 1 < p,
         NEW k \in 1 .. Len(list), f.scope = list[k], k < p
  PROVE  CallAt(Unlink(list, list[p]), f, q)
<1> DEFINE rest == Unlink(list, list[p])
<1>1. Len(list) \in Nat /\ DOMAIN list = 1 .. Len(list)
  BY ListFacts
<1>2. \A h \in 1 .. q + 1 : h \in 1 .. Len(list) /\ h < p
  BY <1>1
<1>3. \A h \in 1 .. q + 1 : h \in 1 .. Len(rest) /\ rest[h] = list[h]
  BY <1>2, UnlinkKeepsFront
<1>4. f.scope \in ToSet(rest)
  BY UnlinkKeepsFront
<1>5. Len(rest) \in Nat
  <2>1. rest \in Seq(Scope)
    BY <1>1, ListFacts, UnlinkPlace DEF ListInv
  <2> QED BY <2>1, LenProperties
<1> HIDE DEF rest
<1>6. q + 1 \in 1 .. q + 1 /\ q < Len(list)
  BY <1>1
<1>7. q < Len(rest) /\ rest[q + 1] = list[q + 1]
  BY <1>3, <1>5, <1>6
<1>8. \A h \in 1 .. q : h \in 1 .. q + 1
  OBVIOUS
<1>9. q # 0 => q \in 1 .. q + 1
  OBVIOUS
<1>10. CallAt(rest, f, q)
  BY <1>3, <1>4, <1>6, <1>7, <1>8, <1>9 DEF CallAt
<1> QED BY <1>10 DEF rest

(* The scope of every call under way is in the list, and not the world.    *)
LEMMA CallScope ==
  ASSUME WalkInv, NEW i \in 1 .. Len(frames)
  PROVE  /\ frames[i].scope # WorldScope
         /\ frames[i].scope \in ToSet(list)
         /\ \E k \in 1 .. Len(list) :
              frames[i].scope = list[k] /\ Place(list, frames[i].scope) = k
<1>1. frames[i].scope \in ToSet(list) /\ frames[i].scope # WorldScope
  BY DEF WalkInv, Calls, CallAt
<1>2. PICK k \in 1 .. Len(list) : frames[i].scope = list[k]
  BY <1>1, ListFacts DEF WalkInv, ToSet
<1> QED BY <1>1, <1>2, ListFacts, PlaceOf DEF WalkInv, ListInv

(* The inner call has seen the whole list: its scope has no sub any more.  *)
LEMMA NoSubLeft ==
  ASSUME WalkInv, frames # <<>>, Top.current = Nil
  PROVE  \A q \in DOMAIN list : list[q].super # Top.scope.id
<1>1. CallAt(list, Top, Len(list))
  BY TopPlace
<1> QED BY <1>1, ListFacts DEF WalkInv, CallAt

(* Back in the caller, the element is taken off and the loop goes on.      *)
LEMMA ReturnKeepsWalk ==
  ASSUME WalkInv, Return
  PROVE  WalkInv' /\ frames' # <<>> /\ Len(list') < Len(list)
<1> DEFINE n == Len(frames)
           m == n - 1
           c == frames[m]
           x == frames[n].scope
           rest == Unlink(list, x)
           g == GoOn(c, rest, Resume(rest, c.previous))
<1>1. frames # <<>> /\ n > 1 /\ Top.current = Nil
  <2>1. n > 1 /\ Top.current = Nil
    BY DEF Return
  <2> QED BY <2>1, EmptySeq
<1>2. /\ n \in Nat /\ n \in 1 .. n /\ Top = frames[n]
      /\ \A i \in 1 .. n : frames[i] \in Frame
  BY <1>1, TopFrame DEF WalkInv
<1>3. m \in Nat /\ m \in 1 .. m /\ m \in 1 .. n /\ m + 1 = n /\ m < n /\ m \in 1 .. n - 1
  BY <1>1, <1>2
<1>4. c.current = x /\ c.current.super = c.scope.id
  BY <1>3 DEF WalkInv, Chain
<1>5. /\ list' = rest /\ before' = before
      /\ frames' = [Front(frames) EXCEPT ![m] = GoOn(@, rest, Resume(rest, c.previous))]
  BY <1>4 DEF Return
<1>6. /\ Len(list) \in Nat /\ DOMAIN list = 1 .. Len(list) /\ Injective(list)
      /\ list \in Seq(Scope) /\ \A k \in 1 .. Len(list) : list[k] \in Scope /\ list[k] # Nil
      /\ list[1] = WorldScope
  BY ListFacts, ScopeListAssumption DEF WalkInv, ListInv, SuperFirst
<1>7. PICK p \in 1 .. Len(list) : x = list[p] /\ Place(list, x) = p
  BY <1>2, CallScope
<1>8. x # WorldScope /\ x \in ToSet(list)
  BY <1>2, CallScope
<1>9. ListInv' /\ ToSet(rest) = ToSet(list) \ {x}
  BY <1>1, <1>2, <1>5, <1>6, <1>7, <1>8, NoSubLeft, UnlinkKeepsOrder DEF WalkInv
<1>10. rest \in Seq(Scope) /\ Len(rest) = Len(list) - 1 /\ Injective(rest)
  <2>1. rest = Unlink(list, list[p]) /\ p \in DOMAIN list
    BY <1>6, <1>7
  <2> HIDE DEF rest
  <2>2. rest \in Seq(Scope) /\ Len(rest) = Len(list) - 1
    BY <1>6, <2>1, UnlinkPlace
  <2> QED BY <1>6, <2>1, <2>2, UnlinkSet
<1>11. PICK q \in 0 .. Len(list) : CallAt(list, c, q)
  BY <1>3 DEF WalkInv, Calls
<1>12. q + 1 = p
  <2>1. c.current \in Scope
    BY <1>4, <1>6, <1>7
  <2>2. q < Len(list)
    BY <1>6, <1>11, <2>1, ScopeListAssumption DEF CallAt
  <2>3. q + 1 \in 1 .. Len(list) /\ x = list[q + 1]
    BY <1>4, <1>6, <1>11, <2>2 DEF CallAt
  <2> QED BY <1>6, <1>7, <2>3 DEF Injective
<1>13. p > 1 /\ q \in 1 .. Len(list) /\ q < p /\ q # 0 /\ q < Len(list)
  <2>1. p # 1
    BY <1>6, <1>7, <1>8
  <2> QED BY <1>6, <1>7, <1>12, <2>1
<1>14. \A k \in 1 .. Len(list) : k < p =>
         /\ k \in 1 .. Len(rest) /\ rest[k] = list[k]
         /\ Place(rest, list[k]) = k /\ list[k] \in ToSet(rest)
  BY <1>6, <1>7, <1>8, UnlinkKeepsFront DEF WalkInv
<1>15. \A i \in 1 .. m : \E k \in 1 .. Len(list) :
         frames[i].scope = list[k] /\ Place(list, frames[i].scope) = k /\ k < p
  <2> SUFFICES ASSUME NEW i \in 1 .. m
               PROVE  \E k \in 1 .. Len(list) :
                        frames[i].scope = list[k] /\ Place(list, frames[i].scope) = k /\ k < p
    OBVIOUS
  <2>1. i \in 1 .. n /\ i < n
    BY <1>2, <1>3
  <2> QED BY <1>2, <1>7, <2>1, CallScope DEF WalkInv, Deeper
<1>16. /\ g.scope = c.scope /\ g.previous = rest[q]
       /\ g.current = IF q < Len(rest) THEN rest[q + 1] ELSE Nil
       /\ g \in Frame
  <2>1. c \in Frame /\ c.previous = list[q] /\ list[q] # Nil
    BY <1>2, <1>3, <1>6, <1>11, <1>13 DEF CallAt
  <2>2. Resume(rest, c.previous) = rest[q] /\ rest[q] # Nil /\ rest[q] \in Scope
        /\ q \in 1 .. Len(rest)
    BY <1>6, <1>13, <1>14, <2>1 DEF Resume
  <2>3. DOMAIN rest = 1 .. Len(rest) /\ Len(rest) \in Nat
    BY <1>10, LenProperties
  <2> HIDE DEF rest
  <2>4. NextOf(rest, rest[q]) = IF q < Len(rest) THEN rest[q + 1] ELSE Nil
    BY <1>10, <2>2, <2>3, NextOfPlace
  <2>5. g = [c EXCEPT !.previous = rest[q],
                      !.current = IF q < Len(rest) THEN rest[q + 1] ELSE Nil]
    BY <2>2, <2>4 DEF GoOn
  <2>6. q < Len(rest) => rest[q + 1] \in Scope
    BY <1>10, <2>2, <2>3, ElementOfSeq
  <2> QED BY <2>1, <2>2, <2>5, <2>6 DEF Frame
<1>17. CallAt(rest, g, q)
  <2>1. c.scope \in ToSet(rest)
    BY <1>3, <1>14, <1>15
  <2>2. \A h \in 1 .. q : rest[h] = list[h]
    <3>1. \A h \in 1 .. q : h \in 1 .. Len(list) /\ h < p
      BY <1>13
    <3> QED BY <1>14, <3>1
  <2> HIDE DEF g, rest
  <2> QED BY <1>11, <1>13, <1>16, <2>1, <2>2 DEF CallAt
<1>18. /\ frames' \in Seq(Frame) /\ Len(frames') = m
       /\ \A i \in 1 .. m : frames'[i] = IF i = m THEN g ELSE frames[i]
  <2>1. /\ Front(frames) \in Seq(Frame) /\ Len(Front(frames)) = m
        /\ \A i \in 1 .. m : Front(frames)[i] = frames[i]
    <3>1. 1 \in Int /\ m \in Int /\ \A i \in 1 .. m : frames[i] \in Frame
      BY <1>2, <1>3
    <3>2. /\ SubSeq(frames, 1, m) \in Seq(Frame)
          /\ Len(SubSeq(frames, 1, m)) = IF 1 <= m THEN m - 1 + 1 ELSE 0
          /\ \A i \in 1 .. m - 1 + 1 : SubSeq(frames, 1, m)[i] = frames[1 + i - 1]
      BY <3>1, SubSeqProperties
    <3>3. m - 1 + 1 = m /\ 1 <= m
      BY <1>3
    <3>4. \A i \in 1 .. m : 1 + i - 1 = i
      OBVIOUS
    <3> QED BY <3>2, <3>3, <3>4 DEF Front
  <2>2. Front(frames)[m] = c
    BY <1>3, <2>1
  <2>3. DOMAIN Front(frames) = 1 .. m
    BY <2>1, LenProperties
  <2>4. frames' = [Front(frames) EXCEPT ![m] = g]
    BY <1>3, <1>5, <2>2, <2>3
  <2> g \in Frame /\ m \in 1 .. Len(Front(frames))
    BY <1>3, <1>16, <2>1
  <2> HIDE DEF g, m
  <2>5. /\ [Front(frames) EXCEPT ![m] = g] \in Seq(Frame)
        /\ Len([Front(frames) EXCEPT ![m] = g]) = Len(Front(frames))
        /\ \A i \in 1 .. Len(Front(frames)) :
             [Front(frames) EXCEPT ![m] = g][i] = IF i = m THEN g ELSE Front(frames)[i]
    BY <2>1, ExceptSeq
  <2> QED BY <2>1, <2>4, <2>5
<1> HIDE DEF rest, g
<1>19. \A i \in 1 .. m : frames'[i].scope = frames[i].scope
  BY <1>3, <1>16, <1>18
<1>20. Calls'
  <2>1. Len(rest) \in Nat
    BY <1>10, LenProperties
  <2> SUFFICES ASSUME NEW i \in 1 .. m
               PROVE  \E h \in 0 .. Len(rest) : CallAt(rest, frames'[i], h)
    BY <1>5, <1>18 DEF Calls
  <2>2. CASE i = m
    <3>1. q \in 0 .. Len(rest)
      BY <1>6, <1>10, <1>13
    <3> QED BY <1>17, <1>18, <2>2, <3>1
  <2>3. CASE i # m
    <3>1. /\ i \in 1 .. n /\ i \in 1 .. n - 1 /\ i + 1 \in 1 .. n /\ i + 1 \in 1 .. m
          /\ frames'[i] = frames[i]
      <4>1. i \in 1 .. n /\ i \in 1 .. n - 1 /\ i + 1 \in 1 .. n /\ i + 1 \in 1 .. m
        <5> m \in Nat /\ m + 1 = n /\ n \in Nat
          BY <1>2, <1>3
        <5> HIDE DEF m, n
        <5> QED BY <2>3
      <4> QED BY <1>18, <2>3, <4>1
    <3>2. PICK h \in 0 .. Len(list) : CallAt(list, frames[i], h)
      BY <3>1 DEF WalkInv, Calls
    <3>3. PICK k \in 1 .. Len(list) :
            frames[i + 1].scope = list[k] /\ Place(list, frames[i + 1].scope) = k /\ k < p
      BY <1>15, <3>1
    <3>4. frames[i].current = list[k]
      BY <3>1, <3>3 DEF WalkInv, Chain
    <3>5. h + 1 = k
      <4>1. h < Len(list)
        BY <1>6, <3>2, <3>4 DEF CallAt
      <4>2. h + 1 \in 1 .. Len(list) /\ list[h + 1] = list[k]
        BY <1>6, <3>2, <3>4, <4>1 DEF CallAt
      <4> QED BY <1>6, <4>2 DEF Injective
    <3>6. PICK j \in 1 .. Len(list) : frames[i].scope = list[j] /\ j < p
      BY <1>15
    <3>7. CallAt(rest, frames[i], h)
      <4>1. h + 1 < p
        BY <3>3, <3>5
      <4> QED
        BY <1>6, <1>7, <1>8, <3>2, <3>6, <4>1, UnlinkKeepsCall DEF WalkInv, rest
    <3>8. h \in 0 .. Len(rest)
      BY <1>6, <1>10, <3>2, <3>3, <3>5
    <3> QED BY <3>1, <3>7, <3>8
  <2> QED BY <2>2, <2>3
<1>21. Chain'
  <2> SUFFICES ASSUME NEW i \in 1 .. m - 1
               PROVE  /\ frames'[i].current = frames'[i + 1].scope
                      /\ frames'[i].current.super = frames'[i].scope.id
    BY <1>18 DEF Chain
  <2>1. i \in 1 .. m /\ i + 1 \in 1 .. m /\ i # m /\ i \in 1 .. n - 1
    <3> m \in Nat /\ m + 1 = n /\ n \in Nat
      BY <1>2, <1>3
    <3> HIDE DEF m, n
    <3> QED OBVIOUS
  <2>2. frames'[i] = frames[i]
    BY <1>18, <2>1
  <2> QED BY <1>19, <2>1, <2>2 DEF WalkInv, Chain
<1>22. Deeper'
  <2> SUFFICES ASSUME NEW i \in 1 .. m, NEW j \in 1 .. m, i < j
               PROVE  Place(rest, frames'[i].scope) < Place(rest, frames'[j].scope)
    BY <1>5, <1>18 DEF Deeper
  <2>1. i \in 1 .. n /\ j \in 1 .. n
    BY <1>2, <1>3
  <2>2. Place(list, frames[i].scope) < Place(list, frames[j].scope)
    BY <2>1 DEF WalkInv, Deeper
  <2>3. \A h \in 1 .. m : Place(rest, frames[h].scope) = Place(list, frames[h].scope)
    BY <1>14, <1>15
  <2> QED BY <1>19, <2>2, <2>3
<1>23. History'
  <2>1. 1 \in 1 .. m /\ 1 \in 1 .. n
    BY <1>3
  <2>2. /\ ToSet(list) \subseteq before
        /\ \A i \in 1 .. n : frames[i].scope \in BelowIn(before, frames[1].scope)
        /\ before \ ToSet(list) \subseteq BelowIn(before, frames[1].scope)
        /\ \A s, t \in before : s.id = t.id => s = t
    BY <1>1 DEF WalkInv, History
  <2>3. \A i \in 1 .. m : i \in 1 .. n
    BY <1>2, <1>3
  <2>4. x \in BelowIn(before, frames[1].scope)
    BY <1>2, <2>2
  <2> QED BY <1>5, <1>9, <1>18, <1>19, <2>1, <2>2, <2>3, <2>4 DEF History
<1>24. ListType'
  BY <1>5, <1>9, <1>18 DEF WalkInv, ListType, ListInv
<1>25. Len(list') < Len(list)
  BY <1>5, <1>6, <1>10
<1>26. frames' # <<>>
  <2>1. frames' \in Seq(Frame) /\ Len(frames') = m
    BY <1>18
  <2>2. m # 0
    BY <1>3
  <2> HIDE DEF m
  <2> QED BY <2>1, <2>2, EmptySeq
<1> QED BY <1>9, <1>20, <1>21, <1>22, <1>23, <1>24, <1>25, <1>26 DEF WalkInv

(* remove_scope is left with the scope itself.                             *)
LEMMA FinishKeepsWalk ==
  ASSUME WalkInv, Finish
  PROVE  /\ WalkInv'
         /\ frames[1].scope \in ToSet(list)
         /\ ToSet(list') = ToSet(list) \ {frames[1].scope}
         /\ Len(list') < Len(list)
<1> DEFINE x == frames[1].scope
<1>1. /\ Len(frames) = 1 /\ Top.current = Nil /\ Top = frames[1]
      /\ list' = Unlink(list, x) /\ frames' = <<>> /\ before' = {}
  BY DEF Finish, Top, Last
<1>2. frames # <<>>
  BY <1>1, EmptySeq
<1>3. PICK p \in 1 .. Len(list) : x = list[p]
  BY <1>1, CallScope
<1>4. x # WorldScope /\ x \in ToSet(list)
  BY <1>1, CallScope
<1>5. /\ Len(list) \in Nat /\ DOMAIN list = 1 .. Len(list) /\ Injective(list)
      /\ list \in Seq(Scope) /\ ListInv
  BY ListFacts DEF WalkInv, ListInv
<1>6. \A q \in DOMAIN list : list[q].super # list[p].id
  BY <1>1, <1>2, <1>3, NoSubLeft
<1>7. list' = Unlink(list, list[p]) /\ p \in DOMAIN list
  BY <1>1, <1>3, <1>5
<1>8. ListInv' /\ ToSet(list') = ToSet(list) \ {x}
  BY <1>3, <1>4, <1>5, <1>6, <1>7, UnlinkKeepsOrder
<1>9. Len(list') < Len(list)
  <2>1. Len(list') = Len(list) - 1
    BY <1>5, <1>7, UnlinkPlace
  <2> QED BY <1>5, <2>1
<1>10. Len(frames') = 0 /\ frames' \in Seq(Frame)
  BY <1>1, EmptySeq
<1>11. Calls' /\ Chain' /\ Deeper'
  BY <1>10 DEF Calls, Chain, Deeper
<1>12. ListType' /\ History'
  BY <1>1, <1>8, <1>10 DEF ListType, ListInv, History
<1> QED BY <1>4, <1>8, <1>9, <1>11, <1>12 DEF WalkInv

LEMMA WalkNext == WalkInv /\ [Next]_vars => WalkInv'
<1> SUFFICES ASSUME WalkInv, [Next]_vars PROVE WalkInv'
  OBVIOUS
<1>1. CASE UNCHANGED vars
  BY <1>1 DEF vars, WalkInv, ListType, ListInv, IdsUnique, SuperFirst, Calls, Chain, Deeper,
              History
<1>2. CASE Walk
  BY <1>2, PassKeepsWalk, DescendKeepsWalk, ReturnKeepsWalk, FinishKeepsWalk DEF Walk
<1> QED BY <1>1, <1>2, OpenKeepsWalk, RemoveBegins DEF Next

LEMMA WalkInvariant == Spec => []WalkInv
BY WalkInit, WalkNext, PTL DEF Spec

(* A scope is never in the list without its super scope in front of it,    *)
(* between two iterations of a walk as little as between two operations.   *)
THEOREM SuperFirstCorrect == Spec => []SuperFirst
<1>1. WalkInv => SuperFirst
  BY DEF WalkInv, ListInv
<1> QED BY <1>1, WalkInvariant, PTL

(* remove_scope's walk cannot run for ever: Len(list), the place of the    *)
(* innermost call's scope and what that call has left are bounded.         *)
THEOREM WalkProgressCorrect == Spec => WalkProgress
<1> DEFINE Nearer ==
             \/ Len(list') < Len(list)
             \/ /\ list' = list /\ frames' # <<>>
                /\ \/ Place(list, Top'.scope) > Place(list, Top.scope)
                   \/ Top'.scope = Top.scope /\ Left' < Left
<1>1. WalkInv /\ Walk => Nearer
  <2> SUFFICES ASSUME WalkInv, Walk PROVE Nearer
    OBVIOUS
  <2>1. CASE Pass
    BY <2>1, PassKeepsWalk DEF Pass
  <2>2. CASE Descend
    BY <2>2, DescendKeepsWalk DEF Descend
  <2>3. CASE Return
    BY <2>3, ReturnKeepsWalk
  <2>4. CASE Finish
    BY <2>4, FinishKeepsWalk
  <2> QED BY <2>1, <2>2, <2>3, <2>4 DEF Walk
<1>2. WalkInv /\ [Next]_vars => [Walk => Nearer]_vars
  BY <1>1
<1> QED BY <1>2, WalkInvariant, PTL DEF Spec, WalkProgress

---------------------------------------------------------------------------
(***************************************************************************)
(* ScopeList implements ScopeSet.                                          *)
(***************************************************************************)

(* What the walk has removed when it is done is what is below the scope.   *)
LEMMA FinishRemovesBelow ==
  ASSUME WalkInv, Finish
  PROVE  Set!Remove(frames[1].scope) /\ frames[1].scope \in Known
<1> DEFINE x == frames[1].scope
           gone == before \ ToSet(list')
<1>1. Len(frames) = 1 /\ frames' = <<>>
  BY DEF Finish
<1>2. frames # <<>>
  BY <1>1, EmptySeq
<1>3. Known = before /\ Known' = ToSet(list')
  BY <1>1, <1>2 DEF Known
<1>4. /\ ToSet(list) \subseteq before
      /\ \A s, t \in before : s.id = t.id => s = t
      /\ x \in BelowIn(before, x)
      /\ before \ ToSet(list) \subseteq BelowIn(before, x)
  BY <1>1, <1>2 DEF WalkInv, History
<1>5. WalkInv' /\ ToSet(list') = ToSet(list) \ {x} /\ x \in ToSet(list)
  BY FinishKeepsWalk
<1>6. gone \subseteq BelowIn(before, x)
  BY <1>4, <1>5
<1>7. ASSUME NEW d \in gone, NEW u \in before, u.super = d.id
      PROVE  u \in gone
  <2> SUFFICES ASSUME u \in ToSet(list') PROVE FALSE
    OBVIOUS
  <2>1. /\ list' \in Seq(Scope) /\ Len(list') \in Nat /\ DOMAIN list' = 1 .. Len(list')
        /\ list'[1] = WorldScope
        /\ \A k \in 2 .. Len(list') : \E j \in 1 .. k - 1 : list'[j].id = list'[k].super
    BY <1>5, LenProperties DEF WalkInv, ListInv, SuperFirst
  <2>2. PICK k \in 1 .. Len(list') : u = list'[k]
    BY <2>1 DEF ToSet
  <2>3. PICK j \in 1 .. Len(list') : list'[j].id = u.super
    <3>1. CASE k = 1
      BY <2>1, <2>2, <3>1 DEF WorldScope
    <3>2. CASE k # 1
      <4>1. k \in 2 .. Len(list')
        BY <2>1, <3>2
      <4>2. PICK j \in 1 .. k - 1 : list'[j].id = list'[k].super
        BY <2>1, <4>1
      <4>3. j \in 1 .. Len(list')
        BY <2>1, <4>1
      <4> QED BY <2>2, <4>2, <4>3
    <3> QED BY <3>1, <3>2
  <2>4. list'[j] \in ToSet(list')
    BY <2>1 DEF ToSet
  <2>5. list'[j] \in before
    BY <1>4, <1>5, <2>4
  <2>6. list'[j] = d
    BY <1>4, <1>7, <2>3, <2>5
  <2> QED BY <2>4, <2>6
<1>8. BelowIn(before, x) \subseteq gone
  <2>1. gone \in SUBSET before /\ x \in gone
    BY <1>4, <1>5
  <2> HIDE DEF gone
  <2> QED BY <1>7, <2>1 DEF BelowIn
<1>9. ToSet(list') = before \ BelowIn(before, x)
  BY <1>4, <1>5, <1>6, <1>8
<1>10. Set!Below(x) = BelowIn(before, x)
  BY <1>3 DEF Set!Below, BelowIn
<1>11. x # WorldScope /\ Set!WorldScope = WorldScope
  BY <1>1, CallScope DEF Set!WorldScope, WorldScope
<1> QED BY <1>3, <1>4, <1>5, <1>9, <1>10, <1>11 DEF Set!Remove

(* Opening a scope adds it to the set.                                     *)
LEMMA OpenAdds ==
  ASSUME WalkInv, NEW p \in Ids \cup {World}, NEW i \in Ids, Open(p, i)
  PROVE  Set!Open(p, i)
<1> DEFINE s == [id |-> i, super |-> p]
           n == Len(list)
<1>1. list' = Append(list, s) /\ frames = <<>> /\ frames' = <<>> /\ s \in Scope
  BY DEF Open, AddScope, Scope
<1>2. list \in Seq(Scope) /\ n \in Nat /\ DOMAIN list = 1 .. n
  BY ListFacts DEF WalkInv, ListInv
<1>3. /\ list' \in Seq(Scope) /\ Len(list') = n + 1
      /\ \A k \in 1 .. n : list'[k] = list[k]
      /\ list'[n + 1] = s
  BY <1>1, <1>2, AppendProperties
<1>4. DOMAIN list' = 1 .. n + 1
  BY <1>3, LenProperties
<1>5. \A k \in 1 .. n + 1 : k \in 1 .. n \/ k = n + 1
  BY <1>2
<1>6. ToSet(list') = ToSet(list) \cup {s}
  <2>1. 1 .. n \subseteq 1 .. n + 1 /\ n + 1 \in 1 .. n + 1
    BY <1>2
  <2> QED BY <1>2, <1>3, <1>4, <1>5, <2>1 DEF ToSet
<1>7. Known = ToSet(list) /\ Known' = ToSet(list')
  BY <1>1 DEF Known
<1>8. (\E t \in Known : t.id = p) /\ ~ \E t \in Known : t.id = i
  BY <1>7 DEF Open, IdKnown, ToSet
<1> QED BY <1>6, <1>7, <1>8 DEF Set!Open

(* The list, as others see it between two operations, is ScopeSet's set:   *)
(* the walk, its recursion and its restarts remove what is below a scope   *)
(* and nothing else, for any number of scopes in any order of opening.     *)
THEOREM ScopeSetImplemented == Spec => ImplementsScopeSet
<1>1. Init => Set!Init
  <2> SUFFICES ASSUME Init PROVE Set!Init
    OBVIOUS
  <2>1. list = <<WorldScope>> /\ Known = ToSet(list)
    BY DEF Init, Known
  <2>2. ToSet(list) = {WorldScope}
    BY <2>1 DEF ToSet
  <2> QED BY <2>1, <2>2 DEF Set!Init, Set!WorldScope, WorldScope
<1>2. WalkInv /\ [Next]_vars => [Set!Next]_Known
  <2> SUFFICES ASSUME WalkInv, [Next]_vars PROVE [Set!Next]_Known
    OBVIOUS
  <2>1. CASE \E p \in Ids \cup {World}, i \in Ids : Open(p, i)
    BY <2>1, OpenAdds DEF Set!Next
  <2>2. ASSUME NEW k \in DOMAIN list, RemoveScope(k)
        PROVE  Known' = Known
    <3>1. frames = <<>> /\ frames' = <<Call(list[k])>> /\ before' = ToSet(list)
      BY <2>2 DEF RemoveScope
    <3> QED BY <3>1 DEF Known
  <2>3. CASE Pass \/ Descend \/ Return
    <3>1. frames # <<>> /\ before' = before
      BY <2>3, EmptySeq DEF Pass, Descend, Return
    <3>2. frames' # <<>>
      BY <2>3, PassKeepsWalk, DescendKeepsWalk, ReturnKeepsWalk
    <3> QED BY <3>1, <3>2 DEF Known
  <2>4. CASE Finish
    BY <2>4, FinishRemovesBelow DEF Set!Next
  <2>5. CASE UNCHANGED vars
    BY <2>5 DEF vars, Known
  <2> QED BY <2>1, <2>2, <2>3, <2>4, <2>5 DEF Next, Walk
<1> QED BY <1>1, <1>2, WalkInvariant, PTL DEF Spec, ImplementsScopeSet, Set!Spec

=============================================================================
