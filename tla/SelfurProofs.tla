---------------------------- MODULE SelfurProofs ----------------------------
(***************************************************************************)
(* Proofs about Selfur, for every network, every loss and every overlap of *)
(* floods.  Types hold in general; the shape of the tree and what follows  *)
(* from it for the activations hold of ONE root, before its sequence       *)
(* number comes round: with two roots netflood forgets what it has relayed *)
(* (the README has the circle), and after the wrap-around an old update    *)
(* may pass for a new one.                                                 *)
(***************************************************************************)
EXTENDS Selfur, WellFoundedInduction, TLAPS

---------------------------------------------------------------------------
(***************************************************************************)
(* Types.                                                                  *)
(***************************************************************************)

LEMMA SeqnoType ==
  ASSUME NEW k \in Nat, k # 0
  PROVE  Seqno(k) \in 0 .. SeqMod - 1
BY SelfurAssumption DEF Seqno

LEMMA NoneIsNone ==
  /\ NoUpdate \notin Update
  /\ Idle \notin Message
  /\ \A r \in Roots : r \in Nodes /\ r # NoNode
BY SelfurAssumption DEF NoUpdate, Update, Idle, Message

LEMMA AudienceType ==
  ASSUME NEW p \in Nodes, NEW H \in Audience(p)
  PROVE  H \subseteq Nodes /\ p \notin H
<1>1. H \subseteq Neighbours(p)
  BY DEF Audience
<1>2. Neighbours(p) \subseteq Nodes \ {p}
  BY SelfurAssumption DEF Neighbours
<1> QED BY <1>1, <1>2

(* What a node has in its queue after it has heard an update.              *)
LEMMA PendingType ==
  ASSUME TypeOK, NEW n \in Nodes, NEW u \in Update
  PROVE  /\ PendingAfter(n, u) \in Update \cup {NoUpdate}
         /\ Relays(n, u) => PendingAfter(n, u) = [root |-> u.root, number |-> u.number, hops |-> u.hops + 1]
<1>1. CASE Relays(n, u)
  <2>1. u.hops + 1 \in 0 .. HopsMax
    BY <1>1, SelfurAssumption DEF Relays, Update
  <2>2. [u EXCEPT !.hops = @ + 1] = [root |-> u.root, number |-> u.number, hops |-> u.hops + 1]
    BY DEF Update
  <2> QED BY <1>1, <2>1, <2>2 DEF PendingAfter, Update
<1>2. CASE ~ Relays(n, u)
  BY <1>2 DEF PendingAfter, TypeOK
<1> QED BY <1>1, <1>2

(* A broadcast keeps the types.                                            *)
LEMMA BroadcastType ==
  ASSUME TypeOK,
         NEW p \in Nodes, NEW u \in Update, NEW H \in Audience(p),
         NEW kept \in Update \cup {NoUpdate},
         Broadcast(p, u, H, kept),
         sent' \in [Roots -> 0 .. MaxUpdates]
  PROVE  TypeOK'
<1>0. /\ u.root \in Roots
      /\ u.number \in 1 .. MaxUpdates
      /\ u.hops \in 0 .. HopsMax
  BY DEF Update
<1>1. Seqno(u.number) \in 0 .. SeqMod - 1
  BY <1>0, SeqnoType, SelfurAssumption
<1>2. route' \in [Nodes -> [Roots -> Nodes \cup {NoNode}]]
  BY DEF Broadcast, TypeOK
<1>3. hop' \in [Nodes -> 0 .. HopsMax + 1]
  <2>1. u.hops + 1 \in 0 .. HopsMax + 1
    BY <1>0, SelfurAssumption
  <2> QED BY <2>1 DEF Broadcast, TypeOK
<1>4. last' \in [Nodes -> (Roots \cup {NoNode}) \X (0 .. SeqMod - 1)]
  BY <1>0, <1>1 DEF Broadcast, TypeOK
<1>5. pending' \in [Nodes -> Update \cup {NoUpdate}]
  <2>1. \A n \in Nodes : PendingAfter(n, u) \in Update \cup {NoUpdate}
    BY PendingType
  <2> QED BY <2>1 DEF Broadcast, TypeOK
<1>6. heard' \in [Nodes -> [Roots -> 0 .. MaxUpdates]]
  <2>1. u.number \in 0 .. MaxUpdates
    BY <1>0, SelfurAssumption
  <2> QED BY <2>1 DEF Broadcast, TypeOK
<1>7. \A e \in entries : NextHop(e)' # NoNode
  <2> SUFFICES ASSUME NEW e \in entries PROVE NextHop(e)' # NoNode
    OBVIOUS
  <2>1. e[1] \in Nodes /\ RootOf[e[2]] \in Roots
    BY SelfurAssumption DEF TypeOK, Pairs
  <2>2. route'[e[1]] = route[e[1]] \/ route'[e[1]] = [route[e[1]] EXCEPT ![u.root] = p]
    BY <2>1 DEF Broadcast
  <2>3. route[e[1]] \in [Roots -> Nodes \cup {NoNode}] /\ route[e[1]][RootOf[e[2]]] # NoNode
    BY <2>1 DEF TypeOK, NextHop
  <2> QED BY <2>1, <2>2, <2>3, SelfurAssumption DEF NextHop
<1>8. /\ entries' \subseteq Pairs
      /\ member' \cup forwarder' \cup activate' \cup suppress' \subseteq entries'
      /\ lost' \subseteq Pairs
  BY DEF Broadcast, TypeOK, SuppressAfter, ActivateAfter
<1>9. tx' \in [Nodes -> Message \cup {Idle}]
  BY DEF Broadcast, TypeOK
<1>10. entries' = entries
  BY DEF Broadcast
<1> QED BY <1>2, <1>3, <1>4, <1>5, <1>6, <1>7, <1>8, <1>9, <1>10 DEF TypeOK

LEMMA TypeInit == Init => TypeOK
BY SelfurAssumption DEF Init, TypeOK, NextHop, Update

(* The update a root is about to build its tree with.                      *)
LEMMA NewUpdateType ==
  ASSUME TypeOK, NEW r \in Roots, sent[r] < MaxUpdates
  PROVE  [root |-> r, number |-> sent[r] + 1, hops |-> 0] \in Update
BY SelfurAssumption DEF TypeOK, Update

LEMMA TypeNext == TypeOK /\ [Next]_vars => TypeOK'
<1> SUFFICES ASSUME TypeOK, [Next]_vars PROVE TypeOK'
  OBVIOUS
<1>1. ASSUME NEW r \in Roots, BuildTree(r)
      PROVE  TypeOK'
  <2> DEFINE u == [root |-> r, number |-> sent[r] + 1, hops |-> 0]
  <2>1. PICK H \in Audience(r), kept \in {pending[r], NoUpdate} : Broadcast(r, u, H, kept)
    BY <1>1 DEF BuildTree
  <2>2. u \in Update /\ r \in Nodes
    BY <1>1, NewUpdateType, NoneIsNone DEF BuildTree
  <2>3. kept \in Update \cup {NoUpdate}
    BY <2>2 DEF TypeOK
  <2>4. sent' \in [Roots -> 0 .. MaxUpdates]
    BY <1>1, SelfurAssumption DEF BuildTree, TypeOK
  <2> QED BY <2>1, <2>2, <2>3, <2>4, BroadcastType
<1>2. ASSUME NEW p \in Nodes, Rebroadcast(p)
      PROVE  TypeOK'
  <2>1. PICK H \in Audience(p) : Broadcast(p, pending[p], H, NoUpdate)
    BY <1>2 DEF Rebroadcast
  <2>2. pending[p] \in Update
    BY <1>2 DEF Rebroadcast, TypeOK
  <2>3. sent' \in [Roots -> 0 .. MaxUpdates]
    BY <1>2 DEF Rebroadcast, TypeOK
  <2> QED BY <2>1, <2>2, <2>3, BroadcastType
<1>3. ASSUME NEW n \in Nodes, NEW r \in Roots, RouteExpires(n, r)
      PROVE  TypeOK'
  <2> DEFINE gone == {e \in entries : e[1] = n /\ RootOf[e[2]] = r}
  <2>1. route' \in [Nodes -> [Roots -> Nodes \cup {NoNode}]]
    BY <1>3 DEF RouteExpires, TypeOK
  <2>2. \A e \in entries \ gone : NextHop(e)' # NoNode
    BY <1>3, SelfurAssumption DEF RouteExpires, TypeOK, NextHop, Pairs
  <2>3. /\ entries' = entries \ gone /\ member' = member \ gone
        /\ forwarder' = forwarder \ gone /\ activate' = activate \ gone
        /\ suppress' = suppress \ gone /\ lost' = lost \ gone
        /\ UNCHANGED <<sent, hop, last, pending, heard, tx>>
    BY <1>3 DEF RouteExpires
  <2> QED BY <2>1, <2>2, <2>3 DEF TypeOK
<1>4. ASSUME NEW n \in Nodes, ActivationRound(n)
      PROVE  TypeOK'
  <2>1. \A e \in Due(n) : e \in Pairs /\ [to |-> NextHop(e), scope |-> e[2]] \in Message
    <3> SUFFICES ASSUME NEW e \in Due(n)
                 PROVE  e \in Pairs /\ [to |-> NextHop(e), scope |-> e[2]] \in Message
      OBVIOUS
    <3>1. e \in Pairs /\ NextHop(e) # NoNode
      BY DEF Due, TypeOK
    <3>2. NextHop(e) \in Nodes
      BY <3>1, SelfurAssumption DEF NextHop, TypeOK, Pairs
    <3> QED BY <3>1, <3>2 DEF Message, Pairs
  <2>2. tx' \in [Nodes -> Message \cup {Idle}] /\ lost' \subseteq Pairs
    <3>1. Due(n) \subseteq Pairs /\ lost \subseteq Pairs
      BY <2>1 DEF TypeOK
    <3>2. CASE tx[n] = Idle
      <4>1. PICK e \in Due(n) : /\ tx' = [tx EXCEPT ![n] = [to |-> NextHop(e), scope |-> e[2]]]
                               /\ lost' = lost \cup (Due(n) \ {e})
        BY <1>4, <3>2 DEF ActivationRound
      <4>2. tx' \in [Nodes -> Message \cup {Idle}]
        BY <2>1, <4>1 DEF TypeOK
      <4> QED BY <3>1, <4>1, <4>2
    <3>3. CASE tx[n] # Idle
      <4>1. tx' = tx /\ lost' = lost \cup Due(n)
        BY <1>4, <3>3 DEF ActivationRound
      <4> QED BY <3>1, <4>1 DEF TypeOK
    <3> QED BY <3>2, <3>3
  <2> QED BY <1>4, <2>2 DEF ActivationRound, TypeOK, tree, NextHop
<1>5. ASSUME NEW n \in Nodes, DeliverActivation(n)
      PROVE  TypeOK'
  <2> DEFINE e == <<tx[n].to, tx[n].scope>>
  <2>1. tx[n] \in Message
    BY <1>5 DEF DeliverActivation, TypeOK
  <2>2. e \in Pairs /\ <<n, tx[n].scope>> \in Pairs
    BY <2>1 DEF Message, Pairs
  <2>3. /\ forwarder' \subseteq entries /\ activate' \subseteq entries /\ suppress' \subseteq entries
    BY <1>5 DEF DeliverActivation, ReceiveActivation, SuppressedBy, TypeOK
  <2>4. tx' \in [Nodes -> Message \cup {Idle}]
    BY <1>5 DEF DeliverActivation, TypeOK
  <2>5. lost' \subseteq Pairs
    BY <1>5, <2>2 DEF DeliverActivation, TypeOK
  <2> QED BY <1>5, <2>3, <2>4, <2>5 DEF DeliverActivation, TypeOK, tree, NextHop
<1>6. ASSUME NEW n \in Nodes, GiveUp(n)
      PROVE  TypeOK'
  <2>1. tx[n] \in Message
    BY <1>6 DEF GiveUp, TypeOK
  <2>2. <<n, tx[n].scope>> \in Pairs
    BY <2>1 DEF Message, Pairs
  <2> QED BY <1>6, <2>2 DEF GiveUp, TypeOK, tree, status, NextHop
<1>7. ASSUME NEW s \in ScopeIds, HearOpen(s)
      PROVE  TypeOK'
  <2>1. PICK H \in SUBSET {n \in Nodes : CanAdd(n, s)} : entries' = entries \cup (H \X {s})
    BY <1>7 DEF HearOpen
  <2>2. \A e \in H \X {s} : e \in Pairs /\ NextHop(e) # NoNode
    BY DEF CanAdd, NextHop, Pairs
  <2> QED BY <1>7, <2>1, <2>2 DEF HearOpen, TypeOK, tree, status, NextHop
<1>8. ASSUME NEW n \in Nodes, NEW s \in ScopeIds, Join(n, s) \/ Leave(n, s)
      PROVE  TypeOK'
  BY <1>8 DEF Join, Leave, TypeOK, tree, NextHop
<1>9. CASE UNCHANGED vars
  BY <1>9 DEF vars, tree, status, TypeOK, NextHop
<1> QED BY <1>1, <1>2, <1>3, <1>4, <1>5, <1>6, <1>7, <1>8, <1>9 DEF Next

(* Tables, status bits and connections are typed in every reachable state  *)
(* of any network: only an entry has status bits, and it has a route.      *)
THEOREM TypeCorrect == Spec => []TypeOK
BY TypeInit, TypeNext, PTL DEF Spec

---------------------------------------------------------------------------
(***************************************************************************)
(* The shape of the tree.                                                  *)
(***************************************************************************)

(* One root, before its sequence number comes round.                       *)
OneRoot ==
  /\ \A q1, q2 \in Roots : q1 = q2
  /\ MaxUpdates <= SeqMod

(* The number of the last update n has relayed, or as root has sent.       *)
Relayed(n) == IF last[n][1] = NoNode THEN 0 ELSE last[n][2] + 1

(* What waits in a queue is the update relayed last, and it carries the    *)
(* node's own hop count unless the node has taken a newer one since.       *)
QueueInv(n, r) ==
  pending[n] # NoUpdate =>
    /\ n # r
    /\ pending[n].number = Relayed(n)
    /\ heard[n][r] = Relayed(n) => pending[n].hops = hop[n]

(* A node has taken what it has relayed.                                   *)
HeardInv(n, r) == n # r => Relayed(n) <= heard[n][r]

(* A next hop other than the root has relayed at least what the node has   *)
(* taken, and is one hop closer unless it has taken something newer.       *)
RouteInv(n, r) ==
  LET p == route[n][r] IN
  p # NoNode =>
    /\ n # r
    /\ p # r => /\ heard[n][r] <= Relayed(p)
                /\ heard[n][r] = heard[p][r] => hop[n] = hop[p] + 1

TreeInv == \A n \in Nodes, r \in Roots : QueueInv(n, r) /\ HeardInv(n, r) /\ RouteInv(n, r)

LEMMA RelayedType ==
  ASSUME TypeOK, NEW n \in Nodes
  PROVE  Relayed(n) \in Nat
BY SelfurAssumption DEF Relayed, TypeOK

(* What a node takes is newer than all it has relayed.                     *)
LEMMA TakesNewer ==
  ASSUME OneRoot, TypeOK, NEW n \in Nodes, NEW u \in Update
  PROVE  /\ Seqno(u.number) = u.number - 1
         /\ Takes(n, u) <=> (n # u.root /\ u.number > Relayed(n))
<1>1. u.root \in Roots /\ u.number \in 1 .. MaxUpdates
  BY DEF Update
<1>2. u.number - 1 \in 0 .. SeqMod - 1
  BY <1>1, SelfurAssumption DEF OneRoot
<1>3. Seqno(u.number) = u.number - 1
  BY <1>2, SelfurAssumption DEF Seqno
<1>4. last[n][1] \in Roots \cup {NoNode} /\ last[n][2] \in Nat
  BY SelfurAssumption DEF TypeOK
<1>5. last[n][1] = NoNode \/ last[n][1] = u.root
  BY <1>1, <1>4 DEF OneRoot
<1>6. u.root # NoNode
  BY <1>1, NoneIsNone
<1> QED BY <1>1, <1>3, <1>4, <1>5, <1>6 DEF Takes, IsKnown, Relayed

(* A node that has a route to the only root has memory for it.             *)
LEMMA RoomForRoute ==
  ASSUME NEW n \in Nodes, NEW r \in Roots, route[n][r] # NoNode
  PROVE  HasRoom(n, r)
BY DEF HasRoom, RoutesOf

(* What a broadcast of u by p does at a node n with route p0 to the root.  *)
LEMMA TreeBroadcast ==
  ASSUME OneRoot, TypeOK, TreeInv,
         NEW p \in Nodes, NEW u \in Update, NEW H \in Audience(p),
         NEW kept \in Update \cup {NoUpdate},
         Broadcast(p, u, H, kept),
         kept = NoUpdate,
         p # u.root => u = pending[p],
         TypeOK'
  PROVE  TreeInv'
<1> DEFINE r == u.root
<1>0. /\ r \in Roots /\ r \in Nodes /\ r # NoNode
      /\ \A q \in Roots : q = r
      /\ u.number \in Nat /\ u.number > 0 /\ u.hops \in Nat
      /\ H \subseteq Nodes /\ p \notin H
  BY NoneIsNone, AudienceType, SelfurAssumption DEF Update, OneRoot
<1>1. \A n \in Nodes : /\ Takes(n, u) <=> (n # r /\ u.number > Relayed(n))
                       /\ Relayed(n) \in Nat /\ heard[n][r] \in Nat /\ hop[n] \in Nat
  BY <1>0, TakesNewer, RelayedType, SelfurAssumption DEF TypeOK
<1>2. \A n \in Nodes : Relayed(n)' = IF n \in H /\ Relays(n, u) THEN u.number
                                     ELSE IF n = p /\ p = r THEN u.number ELSE Relayed(n)
  <2>1. Seqno(u.number) = u.number - 1
    BY <1>0, TakesNewer
  <2> QED BY <1>0, <2>1, SelfurAssumption DEF Relayed, Broadcast, TypeOK
<1>3. \A n \in Nodes : n \in H /\ Takes(n, u) =>
        heard'[n][r] = u.number /\ hop'[n] = u.hops + 1
  BY <1>0 DEF Broadcast, TypeOK
<1>4. \A n \in Nodes : ~ (n \in H /\ Takes(n, u)) =>
        heard'[n] = heard[n] /\ hop'[n] = hop[n] /\ route'[n] = route[n]
  BY DEF Broadcast, TypeOK
<1>5. \A n \in Nodes : Relays(n, u) => Takes(n, u)
  BY DEF Relays
<1> SUFFICES ASSUME NEW n \in Nodes
             PROVE  QueueInv(n, r)' /\ HeardInv(n, r)' /\ RouteInv(n, r)'
  BY <1>0 DEF TreeInv
<1>6. QueueInv(n, r) /\ HeardInv(n, r) /\ RouteInv(n, r) /\ QueueInv(p, r) /\ HeardInv(p, r)
  BY <1>0 DEF TreeInv
<1>7. HeardInv(n, r)'
  <2>1. CASE n \in H /\ Takes(n, u)
    BY <2>1, <1>0, <1>1, <1>2, <1>3 DEF HeardInv
  <2>2. CASE ~ (n \in H /\ Takes(n, u))
    BY <2>2, <1>0, <1>1, <1>2, <1>4, <1>5, <1>6 DEF HeardInv
  <2> QED BY <2>1, <2>2
<1>8. QueueInv(n, r)'
  <2>1. CASE n = p
    <3>1. pending'[n] = NoUpdate
      BY <2>1 DEF Broadcast
    <3> QED BY <3>1 DEF QueueInv
  <2>2. CASE n # p /\ n \in H /\ Relays(n, u)
    <3>1. pending'[n] = [root |-> u.root, number |-> u.number, hops |-> u.hops + 1]
      BY <2>2, PendingType DEF Broadcast
    <3>2. pending'[n].number = u.number /\ pending'[n].hops = u.hops + 1
      BY <3>1
    <3> QED BY <2>2, <3>2, <1>1, <1>2, <1>3, <1>5 DEF QueueInv
  <2>3. CASE n # p /\ n \in H /\ Takes(n, u) /\ ~ Relays(n, u)
    <3>1. pending'[n] = NoUpdate \/ pending'[n] = pending[n]
      BY <2>3 DEF Broadcast, PendingAfter
    <3>2. heard'[n][r] = u.number /\ Relayed(n)' = Relayed(n) /\ u.number > Relayed(n)
      BY <2>3, <1>1, <1>2, <1>3
    <3> QED BY <3>1, <3>2, <1>1, <1>6 DEF QueueInv
  <2>4. CASE n # p /\ ~ (n \in H /\ Takes(n, u))
    <3>1. pending'[n] = NoUpdate \/ pending'[n] = pending[n]
      BY <2>4, <1>5 DEF Broadcast, PendingAfter
    <3>2. heard'[n] = heard[n] /\ hop'[n] = hop[n] /\ Relayed(n)' = Relayed(n)
      BY <2>4, <1>2, <1>4, <1>5
    <3> QED BY <3>1, <3>2, <1>6 DEF QueueInv
  <2> QED BY <2>1, <2>2, <2>3, <2>4, <1>5
<1>9. RouteInv(n, r)'
  <2>1. CASE n \in H /\ Takes(n, u) /\ HasRoom(n, r)
    <3>1. route'[n][r] = p /\ n # r /\ heard'[n][r] = u.number /\ hop'[n] = u.hops + 1
      BY <2>1, <1>0, <1>1, <1>3 DEF Broadcast, TypeOK
    <3>2. CASE p = r
      BY <3>1, <3>2 DEF RouteInv
    <3>3. CASE p # r
      <4>1. u = pending[p] /\ pending[p] # NoUpdate
        BY <3>3, NoneIsNone
      <4>2. u.number = Relayed(p) /\ (heard[p][r] = Relayed(p) => u.hops = hop[p])
        BY <4>1, <1>6 DEF QueueInv
      <4>3. Relayed(p)' = Relayed(p) /\ heard'[p] = heard[p] /\ hop'[p] = hop[p]
        BY <1>0, <1>2, <1>4, <3>3
      <4> QED BY <3>1, <3>3, <4>2, <4>3, <1>1 DEF RouteInv
    <3> QED BY <3>2, <3>3
  <2>2. CASE n \in H /\ Takes(n, u) /\ ~ HasRoom(n, r)
    <3>1. route'[n] = route[n] /\ route[n][r] = NoNode
      BY <2>2, <1>0, RoomForRoute DEF Broadcast
    <3> QED BY <3>1 DEF RouteInv
  <2>3. CASE ~ (n \in H /\ Takes(n, u))
    <3>1. route'[n] = route[n] /\ heard'[n] = heard[n] /\ hop'[n] = hop[n]
      BY <2>3, <1>4
    <3>2. CASE route[n][r] \in {NoNode, r}
      BY <3>1, <3>2, <1>6 DEF RouteInv
    <3>3. ASSUME NEW p0 \in Nodes, p0 = route[n][r], p0 # r
          PROVE  RouteInv(n, r)'
      <4>1. heard[n][r] <= Relayed(p0) /\ (heard[n][r] = heard[p0][r] => hop[n] = hop[p0] + 1)
        BY <3>3, <1>6, NoneIsNone, SelfurAssumption DEF RouteInv
      <4>2. /\ heard[n][r] <= Relayed(p0)'
            /\ heard[n][r] = heard'[p0][r] => hop[n] = hop'[p0] + 1
        <5>1. CASE p0 \in H /\ Takes(p0, u)
          <6>1. heard'[p0][r] = u.number /\ u.number > Relayed(p0)
            BY <5>1, <1>1, <1>3
          <6>2. Relayed(p0)' = u.number \/ Relayed(p0)' = Relayed(p0)
            BY <1>2
          <6> QED BY <4>1, <6>1, <6>2, <1>0, <1>1
        <5>2. CASE ~ (p0 \in H /\ Takes(p0, u))
          <6>1. heard'[p0] = heard[p0] /\ hop'[p0] = hop[p0] /\ Relayed(p0)' = Relayed(p0)
            BY <5>2, <3>3, <1>2, <1>4, <1>5
          <6> QED BY <4>1, <6>1
        <5> QED BY <5>1, <5>2
      <4>3. n # r
        BY <3>3, <1>6, SelfurAssumption DEF RouteInv
      <4> QED BY <3>1, <3>3, <4>2, <4>3 DEF RouteInv
    <3> QED BY <3>2, <3>3, <1>0 DEF TypeOK
  <2> QED BY <2>1, <2>2, <2>3
<1> QED BY <1>7, <1>8, <1>9

LEMMA TreeInit == Init => TreeInv
BY DEF Init, TreeInv, QueueInv, HeardInv, RouteInv, Relayed

LEMMA TreeNext == OneRoot /\ TypeOK /\ TreeInv /\ [Next]_vars => TreeInv'
<1> SUFFICES ASSUME OneRoot, TypeOK, TreeInv, [Next]_vars PROVE TreeInv'
  OBVIOUS
<1>0. TypeOK'
  BY TypeNext
<1>1. ASSUME NEW r \in Roots, BuildTree(r)
      PROVE  TreeInv'
  <2> DEFINE u == [root |-> r, number |-> sent[r] + 1, hops |-> 0]
  <2>1. PICK H \in Audience(r), kept \in {pending[r], NoUpdate} : Broadcast(r, u, H, kept)
    BY <1>1 DEF BuildTree
  <2>2. u \in Update /\ u.root = r /\ r \in Nodes
    BY <1>1, NewUpdateType, NoneIsNone DEF BuildTree
  <2>3. kept = NoUpdate
    BY <2>1, <2>2 DEF TreeInv, QueueInv
  <2> QED BY <2>1, <2>2, <2>3, <1>0, TreeBroadcast
<1>2. ASSUME NEW p \in Nodes, Rebroadcast(p)
      PROVE  TreeInv'
  <2>1. PICK H \in Audience(p) : Broadcast(p, pending[p], H, NoUpdate)
    BY <1>2 DEF Rebroadcast
  <2>2. pending[p] \in Update
    BY <1>2 DEF Rebroadcast, TypeOK
  <2> QED BY <2>1, <2>2, <1>0, TreeBroadcast
<1>3. ASSUME NEW n \in Nodes, NEW r \in Roots, RouteExpires(n, r)
      PROVE  TreeInv'
  <2>1. \A m \in Nodes, q \in Roots : route'[m][q] = route[m][q] \/ route'[m][q] = NoNode
    BY <1>3 DEF RouteExpires, TypeOK
  <2>2. UNCHANGED <<sent, hop, last, pending, heard>>
    BY <1>3 DEF RouteExpires
  <2> SUFFICES ASSUME NEW m \in Nodes, NEW q \in Roots
               PROVE  QueueInv(m, q)' /\ HeardInv(m, q)' /\ RouteInv(m, q)'
    BY DEF TreeInv
  <2>3. QueueInv(m, q) /\ HeardInv(m, q) /\ RouteInv(m, q)
    BY DEF TreeInv
  <2>4. QueueInv(m, q)' /\ HeardInv(m, q)'
    BY <2>2, <2>3 DEF QueueInv, HeardInv, Relayed
  <2>5. RouteInv(m, q)'
    BY <2>1, <2>2, <2>3 DEF RouteInv, Relayed
  <2> QED BY <2>4, <2>5
<1>4. CASE UNCHANGED tree
  BY <1>4 DEF tree, TreeInv, QueueInv, HeardInv, RouteInv, Relayed
<1> QED BY <1>1, <1>2, <1>3, <1>4
        DEF Next, vars, ActivationRound, DeliverActivation, GiveUp, HearOpen, Join, Leave

---------------------------------------------------------------------------
(***************************************************************************)
(* No routing circle.                                                      *)
(***************************************************************************)

(* A non-empty set of things with a natural number each has one with the   *)
(* least.                                                                  *)
LEMMA LeastOf ==
  ASSUME NEW S, S # {}, NEW f, \A n \in S : f[n] \in Nat
  PROVE  \E n \in S : \A m \in S : f[n] <= f[m]
<1> DEFINE N == {f[n] : n \in S}
<1>1. N \subseteq Nat /\ N # {}
  OBVIOUS
<1>2. PICK k \in N : \A j \in N : k <= j
  <2>1. PICK k \in N : \A j \in N : <<j, k>> \notin OpToRel(<, Nat)
    <3> HIDE DEF N
    <3> QED BY <1>1, NatLessThanWellFounded, WFMin
  <2>2. ASSUME NEW j \in N PROVE k <= j
    <3>1. j \in Nat /\ k \in Nat
      BY <1>1
    <3>2. ~ (j < k)
      BY <2>1, <3>1 DEF OpToRel
    <3> QED BY <3>1, <3>2
  <2> QED BY <2>2
<1> QED BY <1>2

LEMMA TreeIsLoopFree == TypeOK /\ TreeInv => LoopFree
<1> SUFFICES ASSUME TypeOK, TreeInv, NEW r \in Roots, NEW S \in (SUBSET Nodes) \ {{}},
                    \A n \in S : route[n][r] \in S
             PROVE  FALSE
  BY DEF LoopFree
<1>1. \A n \in S : n \in Nodes /\ heard[n][r] \in 0 .. MaxUpdates /\ hop[n] \in Nat
  BY SelfurAssumption DEF TypeOK
(* Nobody in S has the root for a next hop, so next hops are not older ... *)
<1>2. \A n \in S : /\ heard[n][r] <= heard[route[n][r]][r]
                   /\ heard[n][r] = heard[route[n][r]][r] => hop[n] = hop[route[n][r]] + 1
  <2> SUFFICES ASSUME NEW n \in S
               PROVE  /\ heard[n][r] <= heard[route[n][r]][r]
                      /\ heard[n][r] = heard[route[n][r]][r] => hop[n] = hop[route[n][r]] + 1
    OBVIOUS
  <2>1. PICK p \in S : p = route[n][r]
    OBVIOUS
  <2>2. n \in Nodes /\ p \in Nodes /\ p # NoNode /\ route[p][r] # NoNode
    BY <2>1, SelfurAssumption
  <2>3. RouteInv(n, r) /\ RouteInv(p, r) /\ HeardInv(p, r)
    BY <2>2 DEF TreeInv
  <2>4. p # r
    BY <2>2, <2>3 DEF RouteInv
  <2>5. heard[n][r] <= Relayed(p) /\ (heard[n][r] = heard[p][r] => hop[n] = hop[p] + 1)
    BY <2>1, <2>2, <2>3, <2>4 DEF RouteInv
  <2>6. Relayed(p) <= heard[p][r]
    BY <2>3, <2>4 DEF HeardInv
  <2>7. Relayed(p) \in Nat /\ heard[n][r] \in Nat /\ heard[p][r] \in Nat
    BY <2>2, <1>1, RelayedType
  <2> QED BY <2>1, <2>5, <2>6, <2>7
(* ... and those of the nodes that have heard the latest have heard it too.*)
<1>3. PICK n0 \in S : \A m \in S : heard[m][r] <= heard[n0][r]
  <2> DEFINE f == [n \in S |-> MaxUpdates - heard[n][r]]
  <2>1. \A n \in S : f[n] \in Nat
    BY <1>1, SelfurAssumption
  <2>2. PICK n0 \in S : \A m \in S : f[n0] <= f[m]
    <3> HIDE DEF f
    <3> QED BY <2>1, LeastOf
  <2>3. \A m \in S : heard[m][r] <= heard[n0][r]
    BY <2>2, <1>1, SelfurAssumption
  <2> QED BY <2>3
<1> DEFINE T == {n \in S : heard[n][r] = heard[n0][r]}
<1>4. \A n \in T : route[n][r] \in T /\ hop[n] = hop[route[n][r]] + 1
  <2> SUFFICES ASSUME NEW n \in T
               PROVE  route[n][r] \in T /\ hop[n] = hop[route[n][r]] + 1
    OBVIOUS
  <2>1. PICK p \in S : p = route[n][r]
    OBVIOUS
  <2>2. heard[p][r] <= heard[n0][r] /\ heard[n][r] <= heard[p][r] /\ heard[n][r] = heard[n0][r]
    BY <2>1, <1>2, <1>3
  <2>3. heard[p][r] = heard[n][r]
    BY <2>2, <1>1
  <2> QED BY <2>1, <2>2, <2>3, <1>2
<1>5. PICK n1 \in T : \A m \in T : hop[n1] <= hop[m]
  <2>1. T # {} /\ \A n \in T : hop[n] \in Nat
    BY <1>1
  <2> HIDE DEF T
  <2> QED BY <2>1, LeastOf
<1>6. hop[n1] \in Nat /\ hop[route[n1][r]] \in Nat
  BY <1>1, <1>4
<1> QED BY <1>4, <1>5, <1>6

(* No circle of routes, however many nodes there are, whatever the floods  *)
(* miss and however they overlap.                                          *)
THEOREM LoopFreeCorrect == OneRoot => (Spec => []LoopFree)
<1> SUFFICES ASSUME OneRoot PROVE Spec => []LoopFree
  OBVIOUS
<1>1. Init => TypeOK /\ TreeInv
  BY TypeInit, TreeInit
<1>2. (TypeOK /\ TreeInv) /\ [Next]_vars => (TypeOK /\ TreeInv)'
  BY TypeNext, TreeNext
<1>3. TypeOK /\ TreeInv => LoopFree
  BY TreeIsLoopFree
<1> QED BY <1>1, <1>2, <1>3, PTL DEF Spec

---------------------------------------------------------------------------
(***************************************************************************)
(* Activations.  Whether an entry is served can change only when the next  *)
(* hop takes a tree update or loses its route, and both put the entry      *)
(* behind; whether it is behind changes only when it takes one itself, and *)
(* then it is reset.                                                       *)
(***************************************************************************)
Excused(e) == Served(e) \/ Behind(e)

ActivationInv == SuppressionJustified /\ UpstreamActivated

(* The parts of an entry, its next hop, and what TreeInv says of the two.  *)
LEMMA EntryFacts ==
  ASSUME OneRoot, TypeOK, TreeInv, NEW e \in entries
  PROVE  /\ e[1] \in Nodes /\ e[2] \in ScopeIds /\ e = <<e[1], e[2]>>
         /\ RootOf[e[2]] \in Roots
         /\ NextHop(e) \in Nodes
         /\ e[1] # RootOf[e[2]]
         /\ NextHop(e) # RootOf[e[2]] => heard[e[1]][RootOf[e[2]]] <= Relayed(NextHop(e))
<1>1. e[1] \in Nodes /\ e[2] \in ScopeIds /\ e = <<e[1], e[2]>> /\ RootOf[e[2]] \in Roots
  BY SelfurAssumption DEF TypeOK, Pairs
<1>2. NextHop(e) \in Nodes /\ NextHop(e) # NoNode
  BY <1>1, SelfurAssumption DEF TypeOK, NextHop
<1>3. RouteInv(e[1], RootOf[e[2]])
  BY <1>1 DEF TreeInv
<1> QED BY <1>1, <1>2, <1>3 DEF RouteInv, NextHop

(* The entries that do not take the update stay as they were, or fall      *)
(* behind with it.                                                         *)
LEMMA BroadcastExcused ==
  ASSUME OneRoot, TypeOK, TreeInv,
         NEW p \in Nodes, NEW u \in Update, NEW H \in Audience(p), NEW kept,
         Broadcast(p, u, H, kept),
         NEW e \in entries, e \notin Rerouted(u, H)
  PROVE  NextHop(e)' = NextHop(e) /\ (Excused(e) => Excused(e)')
<1> DEFINE r == RootOf[e[2]]
<1>0. /\ e[1] \in Nodes /\ e[2] \in ScopeIds /\ r \in Roots /\ u.root = r
      /\ NextHop(e) \in Nodes /\ route[e[1]][r] # NoNode /\ H \subseteq Nodes
      /\ NextHop(e) # r => heard[e[1]][r] <= Relayed(NextHop(e))
  BY EntryFacts, AudienceType, SelfurAssumption DEF OneRoot, Update, NextHop
<1>1. ~ (e[1] \in H /\ Takes(e[1], u))
  BY <1>0, RoomForRoute DEF Rerouted
<1>2. route'[e[1]] = route[e[1]] /\ heard'[e[1]] = heard[e[1]]
  BY <1>0, <1>1 DEF Broadcast
<1>3. NextHop(e)' = NextHop(e)
  BY <1>2 DEF NextHop
<1> SUFFICES ASSUME Excused(e), NEW q \in Nodes, q = NextHop(e), q # r PROVE Excused(e)'
  BY <1>0, <1>3 DEF Excused, Served
<1>4. CASE q \in H /\ Takes(q, u)
  <2>1. u.number > Relayed(q) /\ u.number \in Nat
    BY <1>4, TakesNewer DEF Update
  <2>2. heard'[q][r] = u.number
    BY <1>0, <1>4 DEF Broadcast, TypeOK
  <2>3. heard[e[1]][r] \in Nat /\ Relayed(q) \in Nat
    BY <1>0, RelayedType DEF TypeOK
  <2>4. heard'[q][r] > heard'[e[1]][r]
    BY <1>0, <1>2, <2>1, <2>2, <2>3
  <2> QED BY <1>3, <2>4 DEF Excused, Behind
<1>5. CASE ~ (q \in H /\ Takes(q, u))
  <2>1. route'[q] = route[q] /\ heard'[q] = heard[q]
    BY <1>5 DEF Broadcast
  <2>2. <<q, e[2]>> \notin Rerouted(u, H)
    BY <1>5 DEF Rerouted
  <2>3. <<q, e[2]>> \in forwarder => <<q, e[2]>> \in forwarder'
    BY <2>2 DEF Broadcast
  <2> QED BY <1>2, <1>3, <2>1, <2>3 DEF Excused, Served, Behind
<1> QED BY <1>4, <1>5

LEMMA BroadcastActivation ==
  ASSUME OneRoot, TypeOK, TreeInv, ActivationInv,
         NEW p \in Nodes, NEW u \in Update, NEW H \in Audience(p), NEW kept,
         Broadcast(p, u, H, kept)
  PROVE  ActivationInv'
<1> DEFINE R == Rerouted(u, H)
<1>0. /\ forwarder' = forwarder \ R /\ suppress' = suppress \ R
      /\ activate' = (activate \ R) \cup (member \cap R) /\ lost' = lost \ R
      /\ UNCHANGED <<entries, member, tx>>
  BY DEF Broadcast, SuppressAfter, ActivateAfter
<1>1. \A e \in entries \ R : NextHop(e)' = NextHop(e) /\ (Excused(e) => Excused(e)')
  BY BroadcastExcused
<1>2. SuppressionJustified'
  <2> SUFFICES ASSUME NEW e \in suppress' PROVE (Served(e) \/ Behind(e))'
    BY DEF SuppressionJustified
  <2>1. e \in suppress /\ e \in entries \ R
    BY <1>0 DEF TypeOK
  <2> QED BY <2>1, <1>1 DEF ActivationInv, SuppressionJustified, Excused
<1>3. UpstreamActivated'
  <2> SUFFICES ASSUME NEW e \in member' \cup forwarder'
               PROVE  (Served(e) \/ Underway(e) \/ Behind(e) \/ e \in lost)'
    BY DEF UpstreamActivated
  <2>1. CASE e \in R
    <3>1. e \in activate' \ suppress'
      BY <2>1, <1>0
    <3> QED BY <3>1 DEF Underway
  <2>2. CASE e \notin R
    <3>1. e \in member \cup forwarder /\ e \in entries \ R
      BY <2>2, <1>0 DEF TypeOK
    <3>2. Excused(e) \/ Underway(e) \/ e \in lost
      BY <3>1 DEF ActivationInv, UpstreamActivated, Excused
    <3>3. NextHop(e)' = NextHop(e) /\ (Excused(e) => Excused(e)')
      BY <3>1, <1>1
    <3>4. Underway(e) => Underway(e)'
      BY <2>2, <3>3, <1>0 DEF Underway
    <3>5. e \in lost => e \in lost'
      BY <2>2, <1>0
    <3> QED BY <3>2, <3>3, <3>4, <3>5 DEF Excused
  <2> QED BY <2>1, <2>2
<1> QED BY <1>2, <1>3 DEF ActivationInv

(* Where the tree stays as it is, so does every next hop; and what is      *)
(* served stays served as long as forwarders stay.                         *)
LEMMA SameTree ==
  ASSUME UNCHANGED tree, forwarder \subseteq forwarder', NEW e
  PROVE  NextHop(e)' = NextHop(e) /\ (Served(e) => Served(e)') /\ (Behind(e) => Behind(e)')
BY DEF tree, NextHop, Served, Behind

LEMMA ActivationInit == Init => ActivationInv
BY DEF Init, ActivationInv, SuppressionJustified, UpstreamActivated

LEMMA RouteExpiresActivation ==
  ASSUME OneRoot, TypeOK, TreeInv, ActivationInv,
         NEW n \in Nodes, NEW r \in Roots, RouteExpires(n, r)
  PROVE  ActivationInv'
<1> DEFINE gone == {e \in entries : e[1] = n /\ RootOf[e[2]] = r}
<1>0. /\ route' = [route EXCEPT ![n][r] = NoNode]
      /\ entries' = entries \ gone /\ member' = member \ gone
      /\ forwarder' = forwarder \ gone /\ activate' = activate \ gone
      /\ suppress' = suppress \ gone /\ lost' = lost \ gone
      /\ UNCHANGED <<heard, tx>>
  BY DEF RouteExpires
(* Without its route the node is no forwarder, and those behind it know.   *)
<1>1. ASSUME NEW e \in entries \ gone
      PROVE  NextHop(e)' = NextHop(e) /\ (Excused(e) => Excused(e)')
  <2>1. /\ e[1] \in Nodes /\ e[2] \in ScopeIds /\ RootOf[e[2]] \in Roots
        /\ NextHop(e) \in Nodes
    BY EntryFacts
  <2>2. NextHop(e)' = NextHop(e)
    BY <1>0, <2>1 DEF NextHop, TypeOK
  <2> SUFFICES ASSUME Excused(e), NEW q \in Nodes, q = NextHop(e) PROVE Excused(e)'
    BY <2>1, <2>2
  <2>3. CASE q = n /\ RootOf[e[2]] = r
    <3>1. route'[q][RootOf[e[2]]] = NoNode
      BY <2>3, <1>0 DEF TypeOK
    <3> QED BY <2>2, <3>1 DEF Excused, Behind
  <2>4. CASE ~ (q = n /\ RootOf[e[2]] = r)
    <3>1. <<q, e[2]>> \notin gone
      BY <2>4
    <3>2. route'[q][RootOf[e[2]]] = route[q][RootOf[e[2]]]
      BY <2>1, <2>4, <1>0 DEF TypeOK
    <3> QED BY <1>0, <2>2, <3>1, <3>2 DEF Excused, Served, Behind
  <2> QED BY <2>3, <2>4
<1>2. SuppressionJustified'
  <2> SUFFICES ASSUME NEW e \in suppress' PROVE (Served(e) \/ Behind(e))'
    BY DEF SuppressionJustified
  <2>1. e \in suppress /\ e \in entries \ gone
    BY <1>0 DEF TypeOK
  <2> QED BY <2>1, <1>1 DEF ActivationInv, SuppressionJustified, Excused
<1>3. UpstreamActivated'
  <2> SUFFICES ASSUME NEW e \in member' \cup forwarder'
               PROVE  (Served(e) \/ Underway(e) \/ Behind(e) \/ e \in lost)'
    BY DEF UpstreamActivated
  <2>1. e \in member \cup forwarder /\ e \in entries \ gone
    BY <1>0 DEF TypeOK
  <2>2. Excused(e) \/ Underway(e) \/ e \in lost
    BY <2>1 DEF ActivationInv, UpstreamActivated, Excused
  <2>3. NextHop(e)' = NextHop(e) /\ (Excused(e) => Excused(e)')
    BY <2>1, <1>1
  <2>4. (Underway(e) => Underway(e)') /\ (e \in lost => e \in lost')
    BY <1>0, <2>1, <2>3 DEF Underway
  <2> QED BY <2>2, <2>3, <2>4 DEF Excused
<1> QED BY <1>2, <1>3 DEF ActivationInv

LEMMA DeliverActivationActivation ==
  ASSUME OneRoot, TypeOK, TreeInv, ActivationInv,
         NEW n \in Nodes, DeliverActivation(n)
  PROVE  ActivationInv'
<1> DEFINE d == <<tx[n].to, tx[n].scope>>
<1>0. /\ tx[n] \in Message /\ UNCHANGED <<tree, entries, member>>
      /\ forwarder \subseteq forwarder' /\ activate \subseteq activate' /\ suppress \subseteq suppress'
  BY DEF DeliverActivation, ReceiveActivation, TypeOK
<1>1. \A e : NextHop(e)' = NextHop(e) /\ (Served(e) => Served(e)') /\ (Behind(e) => Behind(e)')
  BY <1>0, SameTree
(* Whom the new forwarder suppresses, it serves.                           *)
<1>2. \A e \in suppress' \ suppress : Served(e)'
  <2> SUFFICES ASSUME NEW e \in suppress' \ suppress PROVE Served(e)'
    OBVIOUS
  <2>1. PICK H \in Audience(d[1]) : ReceiveActivation(d, H)
    BY DEF DeliverActivation
  <2>2. e \in SuppressedBy(d[1], d[2], H) /\ d \in forwarder'
    BY <2>1 DEF ReceiveActivation
  <2>3. NextHop(e) = d[1] /\ e[2] = d[2]
    BY <2>2 DEF SuppressedBy
  <2> QED BY <1>1, <2>2, <2>3 DEF Served
<1>3. SuppressionJustified'
  <2> SUFFICES ASSUME NEW e \in suppress' PROVE (Served(e) \/ Behind(e))'
    BY DEF SuppressionJustified
  <2>1. e \in suppress => Served(e) \/ Behind(e)
    BY DEF ActivationInv, SuppressionJustified
  <2> QED BY <1>1, <1>2, <2>1
<1>4. UpstreamActivated'
  <2> SUFFICES ASSUME NEW e \in member' \cup forwarder', ~ Served(e)', ~ Behind(e)'
               PROVE  Underway(e)' \/ e \in lost'
    BY DEF UpstreamActivated
  <2>1. ~ Served(e) /\ ~ Behind(e) /\ e \notin suppress'
    BY <1>1, <1>3 DEF SuppressionJustified
  <2>2. CASE e \in member \cup forwarder
    <3>1. (e \in activate /\ e \notin suppress) \/ tx[e[1]] = [to |-> NextHop(e), scope |-> e[2]] \/ e \in lost
      BY <2>1, <2>2 DEF ActivationInv, UpstreamActivated, Underway
    <3>2. CASE e \in activate
      BY <1>0, <2>1, <3>2 DEF Underway
    <3>3. CASE tx[e[1]] = [to |-> NextHop(e), scope |-> e[2]]
      <4>0. e \in entries /\ e = <<e[1], e[2]>>
        BY <2>2, EntryFacts DEF TypeOK
      <4>1. CASE e[1] = n
        <5>1. tx[n].to = NextHop(e) /\ tx[n].scope = e[2]
          BY <3>3, <4>1
        <5>2. d \notin entries
          <6>1. d \notin forwarder'
            BY <1>1, <2>1, <5>1 DEF Served
          <6> QED BY <6>1 DEF DeliverActivation, ReceiveActivation
        <5>3. e \in lost' \/ tx' = tx
          BY <4>0, <4>1, <5>1, <5>2 DEF DeliverActivation
        <5> QED BY <1>1, <3>3, <5>3 DEF Underway
      <4>2. CASE e[1] # n
        <5>1. tx'[e[1]] = tx[e[1]]
          BY <4>2 DEF DeliverActivation
        <5> QED BY <1>1, <3>3, <5>1 DEF Underway
      <4> QED BY <4>1, <4>2
    <3>4. CASE e \in lost
      <4>1. ~ (e = d /\ PassesOn(e))
        BY <2>2 DEF PassesOn
      <4>2. e \in lost'
        BY <3>4, <4>1 DEF DeliverActivation
      <4> QED BY <4>2
    <3> QED BY <3>1, <3>2, <3>3, <3>4
  <2>3. CASE e \notin member \cup forwarder
    <3>1. PICK H \in Audience(d[1]) : ReceiveActivation(d, H)
      BY <1>0, <2>3 DEF DeliverActivation
    <3>2. e = d /\ PassesOn(e)
      BY <1>0, <2>3, <3>1 DEF ReceiveActivation, PassesOn
    <3>3. e \in activate'
      BY <3>1, <3>2 DEF ReceiveActivation
    <3> QED BY <2>1, <3>3 DEF Underway
  <2> QED BY <2>2, <2>3
<1> QED BY <1>3, <1>4 DEF ActivationInv

LEMMA ActivationNext ==
  OneRoot /\ TypeOK /\ TreeInv /\ ActivationInv /\ [Next]_vars => ActivationInv'
<1> SUFFICES ASSUME OneRoot, TypeOK, TreeInv, ActivationInv, [Next]_vars PROVE ActivationInv'
  OBVIOUS
<1>1. ASSUME NEW r \in Roots, BuildTree(r)
      PROVE  ActivationInv'
  <2> DEFINE u == [root |-> r, number |-> sent[r] + 1, hops |-> 0]
  <2>1. PICK H \in Audience(r), kept \in {pending[r], NoUpdate} : Broadcast(r, u, H, kept)
    BY <1>1 DEF BuildTree
  <2>2. u \in Update /\ r \in Nodes
    BY <1>1, NewUpdateType, NoneIsNone DEF BuildTree
  <2> QED BY <2>1, <2>2, BroadcastActivation
<1>2. ASSUME NEW p \in Nodes, Rebroadcast(p)
      PROVE  ActivationInv'
  <2>1. PICK H \in Audience(p) : Broadcast(p, pending[p], H, NoUpdate)
    BY <1>2 DEF Rebroadcast
  <2>2. pending[p] \in Update
    BY <1>2 DEF Rebroadcast, TypeOK
  <2> QED BY <2>1, <2>2, BroadcastActivation
<1>3. ASSUME NEW n \in Nodes, NEW r \in Roots, RouteExpires(n, r)
      PROVE  ActivationInv'
  BY <1>3, RouteExpiresActivation
<1>4. ASSUME NEW n \in Nodes, ActivationRound(n)
      PROVE  ActivationInv'
  <2>0. UNCHANGED <<tree, entries, member, forwarder, suppress>> /\ activate' = activate \ Due(n)
    BY <1>4 DEF ActivationRound
  <2>1. \A e : NextHop(e)' = NextHop(e) /\ (Served(e) => Served(e)') /\ (Behind(e) => Behind(e)')
    BY <2>0, SameTree
  (* What was due is on its way now, or is known to be lost.               *)
  <2>2. \A e \in Due(n) : e[1] = n
    BY DEF Due
  <2>3. \A e \in Due(n) : tx'[n] = [to |-> NextHop(e), scope |-> e[2]] \/ e \in lost'
    BY <1>4 DEF ActivationRound, TypeOK
  <2>4. lost \subseteq lost' /\ \A m \in Nodes : tx[m] # Idle => tx'[m] = tx[m]
    BY <1>4 DEF ActivationRound, TypeOK
  <2>5. \A e \in entries : Underway(e) => Underway(e)' \/ e \in lost'
    <3> SUFFICES ASSUME NEW e \in entries, Underway(e) PROVE Underway(e)' \/ e \in lost'
      OBVIOUS
    <3>1. CASE e \in Due(n)
      BY <3>1, <2>1, <2>2, <2>3 DEF Underway
    <3>2. CASE e \in (activate \ suppress) \ Due(n)
      BY <3>2, <2>0 DEF Underway
    <3>3. CASE tx[e[1]] = [to |-> NextHop(e), scope |-> e[2]]
      <4>1. e[1] \in Nodes /\ NextHop(e) \in Nodes /\ e[2] \in ScopeIds
        BY EntryFacts
      <4>2. tx[e[1]] # Idle
        BY <3>3, <4>1, NoneIsNone DEF Message
      <4> QED BY <3>3, <4>1, <4>2, <2>1, <2>4 DEF Underway
    <3> QED BY <3>1, <3>2, <3>3 DEF Underway
  <2>6. member \cup forwarder \subseteq entries
    BY DEF TypeOK
  <2> QED BY <2>0, <2>1, <2>4, <2>5, <2>6 DEF ActivationInv, SuppressionJustified, UpstreamActivated
<1>5. ASSUME NEW n \in Nodes, DeliverActivation(n)
      PROVE  ActivationInv'
  BY <1>5, DeliverActivationActivation
<1>6. ASSUME NEW n \in Nodes, GiveUp(n)
      PROVE  ActivationInv'
  <2>0. /\ UNCHANGED <<tree, entries, member, forwarder, activate, suppress>>
        /\ tx' = [tx EXCEPT ![n] = Idle] /\ lost' = lost \cup {<<n, tx[n].scope>>}
    BY <1>6 DEF GiveUp, status
  <2>1. \A e : NextHop(e)' = NextHop(e) /\ (Served(e) => Served(e)') /\ (Behind(e) => Behind(e)')
    BY <2>0, SameTree
  <2>2. \A e \in entries : Underway(e) => Underway(e)' \/ e \in lost'
    <3> SUFFICES ASSUME NEW e \in entries, Underway(e) PROVE Underway(e)' \/ e \in lost'
      OBVIOUS
    <3>1. CASE e \in activate \ suppress
      BY <3>1, <2>0 DEF Underway
    <3>2. CASE tx[e[1]] = [to |-> NextHop(e), scope |-> e[2]]
      <4>1. e[1] \in Nodes /\ e = <<e[1], e[2]>>
        BY EntryFacts
      <4>2. CASE e[1] = n
        <5>1. tx[n].scope = e[2]
          BY <3>2, <4>2
        <5> QED BY <2>0, <4>1, <4>2, <5>1
      <4>3. CASE e[1] # n
        <5>1. tx'[e[1]] = tx[e[1]]
          BY <2>0, <4>1, <4>3 DEF TypeOK
        <5> QED BY <3>2, <2>1, <5>1 DEF Underway
      <4> QED BY <4>2, <4>3
    <3> QED BY <3>1, <3>2 DEF Underway
  <2>3. member \cup forwarder \subseteq entries
    BY DEF TypeOK
  <2> QED BY <2>0, <2>1, <2>2, <2>3 DEF ActivationInv, SuppressionJustified, UpstreamActivated
<1>7. ASSUME NEW s \in ScopeIds, HearOpen(s)
      PROVE  ActivationInv'
  <2>0. UNCHANGED <<tree, status, tx, lost>>
    BY <1>7 DEF HearOpen
  <2> QED BY <2>0 DEF tree, status, ActivationInv, SuppressionJustified, UpstreamActivated,
                      Served, Behind, Underway, NextHop
<1>8. ASSUME NEW n \in Nodes, NEW s \in ScopeIds, Join(n, s)
      PROVE  ActivationInv'
  <2> DEFINE j == <<n, s>>
  <2>0. /\ UNCHANGED <<tree, forwarder, suppress, tx>>
        /\ member' = member \cup {j} /\ activate' = activate \cup {j} /\ lost' = lost \ {j}
    BY <1>8 DEF Join
  <2>1. \A e : NextHop(e)' = NextHop(e) /\ (Served(e) => Served(e)') /\ (Behind(e) => Behind(e)')
    BY <2>0, SameTree
  <2>2. \A e : Underway(e) => Underway(e)'
    BY <2>0, <2>1 DEF Underway
  <2>3. j \in suppress \/ Underway(j)'
    BY <2>0 DEF Underway
  <2> QED BY <2>0, <2>1, <2>2, <2>3 DEF ActivationInv, SuppressionJustified, UpstreamActivated
<1>9. ASSUME NEW n \in Nodes, NEW s \in ScopeIds, Leave(n, s)
      PROVE  ActivationInv'
  <2>0. UNCHANGED <<tree, forwarder, activate, suppress, tx, lost>> /\ member' \subseteq member
    BY <1>9 DEF Leave
  <2> QED BY <2>0 DEF tree, ActivationInv, SuppressionJustified, UpstreamActivated,
                      Served, Behind, Underway, NextHop
<1>10. CASE UNCHANGED vars
  BY <1>10 DEF vars, tree, status, ActivationInv, SuppressionJustified, UpstreamActivated,
               Served, Behind, Underway, NextHop
<1> QED BY <1>1, <1>2, <1>3, <1>4, <1>5, <1>6, <1>7, <1>8, <1>9, <1>10 DEF Next

LEMMA ActivationCorrect == OneRoot => (Spec => [](TypeOK /\ TreeInv /\ ActivationInv))
<1> SUFFICES ASSUME OneRoot PROVE Spec => [](TypeOK /\ TreeInv /\ ActivationInv)
  OBVIOUS
<1>1. Init => TypeOK /\ TreeInv /\ ActivationInv
  BY TypeInit, TreeInit, ActivationInit
<1>2. (TypeOK /\ TreeInv /\ ActivationInv) /\ [Next]_vars => (TypeOK /\ TreeInv /\ ActivationInv)'
  BY TypeNext, TreeNext, ActivationNext
<1> QED BY <1>1, <1>2, PTL DEF Spec

(* An activation is suppressed only where the next hop forwards already,   *)
(* or where the node has missed a tree update and must wait for the next.  *)
THEOREM SuppressionCorrect == OneRoot => (Spec => []SuppressionJustified)
<1> SUFFICES ASSUME OneRoot PROVE Spec => []SuppressionJustified
  OBVIOUS
<1>1. TypeOK /\ TreeInv /\ ActivationInv => SuppressionJustified
  BY DEF ActivationInv
<1> QED BY <1>1, ActivationCorrect, PTL

(* Between a member or forwarder and its next hop nothing is forgotten.    *)
THEOREM UpstreamCorrect == OneRoot => (Spec => []UpstreamActivated)
<1> SUFFICES ASSUME OneRoot PROVE Spec => []UpstreamActivated
  OBVIOUS
<1>1. TypeOK /\ TreeInv /\ ActivationInv => UpstreamActivated
  BY DEF ActivationInv
<1> QED BY <1>1, ActivationCorrect, PTL

=============================================================================
