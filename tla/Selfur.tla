------------------------------- MODULE Selfur -------------------------------
(***************************************************************************)
(* Tree routing (scopes-selfur.c) on all nodes of a network: the flood     *)
(* that builds a root's tree, the routes it leaves behind, and the         *)
(* activation of forwarders from a scope's members up to the root.         *)
(*                                                                         *)
(* A tree update is flooded by netflood over ipolite (external): a node    *)
(* that has taken it queues a copy for one to two seconds, and drops that  *)
(* copy when it hears another one first.  A broadcast reaches any subset   *)
(* of the sender's neighbours, all of them in the same step: the radio is  *)
(* immediate, and each receiver only touches its own state.  Activations   *)
(* travel over ONE runicast connection per node (external): acknowledged,  *)
(* retransmitted, given up after some retries, never queued, and handed    *)
(* to the receiver again when the acknowledgement was lost.                *)
(*                                                                         *)
(* What the scope layer does with OPEN and DATA is Scopes; here a scope's  *)
(* OPEN leaves a scope entry behind, and members come and go.  Hop count   *)
(* reports and the lock timer are not part of this module.  Queue buffers  *)
(* are assumed to be available.                                            *)
(***************************************************************************)
EXTENDS Naturals, FiniteSets

CONSTANTS
  Nodes,      (* the nodes                                                 *)
  Links,      (* the pairs of nodes in radio range, both ways              *)
  Roots,      (* the nodes that create scopes                              *)
  ScopeIds,   (* the scopes                                                *)
  RootOf,     (* RootOf[s]: the creator of scope s                         *)
  NoNode,     (* no route, no originator heard yet: rimeaddr_null          *)
  SeqMod,     (* sequence numbers are counted modulo this (256: uint8_t)   *)
  HopsMax,    (* netflood's HOPS_MAX                                       *)
  MaxRoutes,  (* SELFUR_MAX_ROUTING_ENTRIES                                *)
  MaxEntries, (* SELFUR_MAX_SCOPE_ENTRIES                                  *)
  Reliable,   (* TRUE: nobody in range misses a message, and routes are    *)
              (* refreshed before they expire                              *)
  MaxUpdates  (* BOUND: tree updates of one root                           *)

ASSUME SelfurAssumption ==
  /\ Links \subseteq Nodes \X Nodes
  /\ \A l \in Links : l[1] # l[2]
  /\ Roots \subseteq Nodes
  /\ RootOf \in [ScopeIds -> Roots]
  /\ NoNode \notin Nodes
  /\ SeqMod \in Nat \ {0}
  /\ HopsMax \in Nat
  /\ MaxRoutes \in Nat
  /\ MaxEntries \in Nat
  /\ Reliable \in BOOLEAN
  /\ MaxUpdates \in Nat

VARIABLES
  sent,      (* sent[r]: how often r has built its tree; tree_seqno is     *)
             (* this number modulo SeqMod                                  *)
  route,     (* route[n][r]: next_hop of n's routing_entry for root r      *)
  hop,       (* hop_count                                                  *)
  last,      (* tree_update.last_originator and last_originator_seqno      *)
  pending,   (* the tree update n is about to rebroadcast                  *)
  heard,     (* HISTORY: heard[n][r], the number of the last tree update   *)
             (* of r that n took                                           *)
  entries,   (* the <<node, scope>> that have a scope_entry                *)
  member,    (* ... and the status bits of the entries, each as the set of *)
  forwarder, (* the entries that have it                                   *)
  activate,
  suppress,
  tx,        (* the activation n's runicast connection is transmitting     *)
  lost       (* HISTORY: the <<node, scope>> whose last activation came to *)
             (* nothing: refused by a busy connection, given up, or        *)
             (* ignored by a next hop without an entry                     *)

tree   == <<sent, route, hop, last, pending, heard>>
status == <<member, forwarder, activate, suppress>>
vars   == <<tree, entries, status, tx, lost>>

Update   == [root : Roots, number : 1 .. MaxUpdates, hops : 0 .. HopsMax]
NoUpdate == [root |-> NoNode]
Message  == [to : Nodes, scope : ScopeIds]
Idle     == [to |-> NoNode]
Pairs    == Nodes \X ScopeIds

(* The sequence number the number-th tree update of a root travels with.   *)
Seqno(number) == (number - 1) % SeqMod

Init ==
  /\ sent = [r \in Roots |-> 0]
  /\ route = [n \in Nodes |-> [r \in Roots |-> NoNode]]
  /\ hop = [n \in Nodes |-> 0]
  /\ last = [n \in Nodes |-> <<NoNode, 0>>]
  /\ pending = [n \in Nodes |-> NoUpdate]
  /\ heard = [n \in Nodes |-> [r \in Roots |-> 0]]
  /\ entries = {}
  /\ member = {}
  /\ forwarder = {}
  /\ activate = {}
  /\ suppress = {}
  /\ tx = [n \in Nodes |-> Idle]
  /\ lost = {}

---------------------------------------------------------------------------
(***************************************************************************)
(* Who hears a broadcast.                                                  *)
(***************************************************************************)
Neighbours(n) == {l[2] : l \in {k \in Links : k[1] = n}}

Audience(n) == IF Reliable THEN {Neighbours(n)} ELSE SUBSET Neighbours(n)

(***************************************************************************)
(* The tree update, as netflood's recv_from_ipolite and                    *)
(* receive_tree_update take it at node n.                                  *)
(***************************************************************************)

(* MUTANT: the sequence number last rebroadcast is taken once more.        *)
KnownButLast(n, u) == last[n][1] = u.root /\ Seqno(u.number) < last[n][2]

(* An update of the originator heard last, not newer than the one heard.   *)
IsKnown(n, u) == last[n][1] = u.root /\ Seqno(u.number) <= last[n][2]

Takes(n, u)  == n # u.root /\ ~ IsKnown(n, u)
Relays(n, u) == Takes(n, u) /\ u.hops < HopsMax

(* lookup_routing_entry, or memory for a new one.                          *)
RoutesOf(n) == {r \in Roots : route[n][r] # NoNode}
HasRoom(n, r) == r \in RoutesOf(n) \/ Cardinality(RoutesOf(n)) < MaxRoutes

(* ipolite's recv: n hears the update it is itself about to rebroadcast.   *)
IsCopy(n, u) ==
  /\ pending[n] # NoUpdate
  /\ pending[n].root = u.root
  /\ Seqno(pending[n].number) = Seqno(u.number)

PendingAfter(n, u) ==
  IF Relays(n, u) THEN [u EXCEPT !.hops = @ + 1]
  ELSE IF IsCopy(n, u) THEN NoUpdate
  ELSE pending[n]

(* The entries that belong to the tree, at the nodes that update a route.  *)
Rerouted(u, H) ==
  {e \in entries : /\ e[1] \in H
                   /\ Takes(e[1], u)
                   /\ HasRoom(e[1], u.root)
                   /\ RootOf[e[2]] = u.root}

(* MUTANT: the suppression of an earlier tree is kept.                     *)
SuppressKept(R) == suppress

(* update_routing_entry: all but the membership is forgotten, and members  *)
(* activate anew.                                                          *)
SuppressAfter(R) == suppress \ R
ActivateAfter(R) == (activate \ R) \cup (member \cap R)

(* Node p broadcasts update u, its own or the queued one, and nodes H hear *)
(* it; kept is what p has in its queue then.                               *)
Broadcast(p, u, H, kept) ==
  /\ last' = [n \in Nodes |->
       IF (n = p /\ p = u.root) \/ (n \in H /\ Relays(n, u))
         THEN <<u.root, Seqno(u.number)>> ELSE last[n]]
  /\ pending' = [n \in Nodes |->
       IF n = p THEN kept ELSE IF n \in H THEN PendingAfter(n, u) ELSE pending[n]]
  /\ route' = [n \in Nodes |->
       IF n \in H /\ Takes(n, u) /\ HasRoom(n, u.root)
         THEN [route[n] EXCEPT ![u.root] = p] ELSE route[n]]
  /\ hop'   = [n \in Nodes |-> IF n \in H /\ Takes(n, u) THEN u.hops + 1 ELSE hop[n]]
  /\ heard' = [n \in Nodes |->
       IF n \in H /\ Takes(n, u) THEN [heard[n] EXCEPT ![u.root] = u.number] ELSE heard[n]]
  /\ forwarder' = forwarder \ Rerouted(u, H)
  /\ suppress'  = SuppressAfter(Rerouted(u, H))
  /\ activate'  = ActivateAfter(Rerouted(u, H))
  /\ lost' = lost \ Rerouted(u, H)
  /\ UNCHANGED <<entries, member, tx>>

(* build_routing_tree at root r: the first scope is opened there, or the   *)
(* tree is refreshed.  Should r be about to rebroadcast another root's     *)
(* update, ipolite_send frees that copy and its timer sends what has       *)
(* become of it (undefined: still the copy, or nothing).                   *)
BuildTree(r) ==
  LET u == [root |-> r, number |-> sent[r] + 1, hops |-> 0] IN
  /\ sent[r] < MaxUpdates
  /\ sent' = [sent EXCEPT ![r] = @ + 1]
  /\ \E H \in Audience(r), kept \in {pending[r], NoUpdate} : Broadcast(r, u, H, kept)

(* The queued copy of node p is due.                                       *)
Rebroadcast(p) ==
  /\ pending[p] # NoUpdate
  /\ \E H \in Audience(p) : Broadcast(p, pending[p], H, NoUpdate)
  /\ UNCHANGED sent

(* remove_routing_entry: the route's ttl is over.                          *)
RouteExpires(n, r) ==
  LET gone == {e \in entries : e[1] = n /\ RootOf[e[2]] = r} IN
  /\ ~ Reliable
  /\ r \in RoutesOf(n)
  /\ route' = [route EXCEPT ![n][r] = NoNode]
  /\ entries'   = entries \ gone
  /\ member'    = member \ gone
  /\ forwarder' = forwarder \ gone
  /\ activate'  = activate \ gone
  /\ suppress'  = suppress \ gone
  /\ lost'      = lost \ gone
  /\ UNCHANGED <<sent, hop, last, pending, heard, tx>>

---------------------------------------------------------------------------
(***************************************************************************)
(* Scope entries and membership.                                           *)
(***************************************************************************)

(* MUTANT: without a look at the route.                                    *)
CanAddAnywhere(n, s) ==
  /\ <<n, s>> \notin entries
  /\ Cardinality({t \in ScopeIds : <<n, t>> \in entries}) < MaxEntries

(* add_scope_entry, by receive_flood_data for an OPEN of s, where there is *)
(* a route to its root, no entry yet, and memory.                          *)
CanAdd(n, s) ==
  /\ route[n][RootOf[s]] # NoNode
  /\ <<n, s>> \notin entries
  /\ Cardinality({t \in ScopeIds : <<n, t>> \in entries}) < MaxEntries

HearOpen(s) ==
  LET all == {n \in Nodes : CanAdd(n, s)} IN
  /\ \E H \in (IF Reliable THEN {all} ELSE SUBSET all) \ {{}} :
       entries' = entries \cup (H \X {s})
  /\ UNCHANGED <<tree, status, tx, lost>>

(* join, when the scope layer makes the node a member.                     *)
Join(n, s) ==
  /\ <<n, s>> \in entries \ member
  /\ member' = member \cup {<<n, s>>}
  /\ activate' = activate \cup {<<n, s>>}
  /\ lost' = lost \ {<<n, s>>}
  /\ UNCHANGED <<tree, entries, forwarder, suppress, tx>>

(* leave.  ACTIVATE and FORWARDER stay.                                    *)
Leave(n, s) ==
  /\ <<n, s>> \in member
  /\ member' = member \ {<<n, s>>}
  /\ UNCHANGED <<tree, entries, forwarder, activate, suppress, tx, lost>>

---------------------------------------------------------------------------
(***************************************************************************)
(* Activation.                                                             *)
(***************************************************************************)
NextHop(e) == route[e[1]][RootOf[e[2]]]

(* The entries activation_process finds due at n.                          *)
Due(n) == {e \in entries : e[1] = n /\ e \in activate \ suppress}

(* activation_process: ACTIVATE is cleared for all that are due, and the   *)
(* first of them is transmitted if the connection is idle.  The order of   *)
(* the list is left open.  Under Reliable an acknowledgement takes less    *)
(* than the second between two rounds.                                     *)
ActivationRound(n) ==
  /\ Due(n) # {}
  /\ Reliable => tx[n] = Idle
  /\ activate' = activate \ Due(n)
  /\ IF tx[n] = Idle
       THEN \E e \in Due(n) :
              /\ tx' = [tx EXCEPT ![n] = [to |-> NextHop(e), scope |-> e[2]]]
              /\ lost' = lost \cup (Due(n) \ {e})
       ELSE /\ lost' = lost \cup Due(n)
            /\ UNCHANGED tx
  /\ UNCHANGED <<tree, entries, member, forwarder, suppress>>

(* MUTANT: an activation is not passed on.                                 *)
NotPassedOn(e) == FALSE

(* receive_activation passes an activation on unless it has before.        *)
PassesOn(e) == e \notin member \cup forwarder

(* receive_suppress at the nodes that hear p.                              *)
SuppressedBy(p, s, H) == {e \in entries : e[1] \in H /\ e[2] = s /\ NextHop(e) = p}

(* receive_activation at the addressee, which becomes a forwarder and, the *)
(* first time, says so to all in range.                                    *)
ReceiveActivation(e, H) ==
  /\ e \in entries
  /\ forwarder' = forwarder \cup {e}
  /\ activate' = activate \cup {x \in {e} : PassesOn(x)}
  /\ suppress' = IF e \in forwarder THEN suppress ELSE suppress \cup SuppressedBy(e[1], e[2], H)

(* The frame tx[n] reaches its addressee; its acknowledgement may get lost *)
(* and the frame be transmitted again.                                     *)
DeliverActivation(n) ==
  LET e == <<tx[n].to, tx[n].scope>> IN
  /\ tx[n] # Idle
  /\ \/ \E H \in Audience(tx[n].to) : ReceiveActivation(e, H)
     \/ e \notin entries /\ UNCHANGED <<forwarder, activate, suppress>>
  /\ \E acked \in (IF Reliable THEN {TRUE} ELSE BOOLEAN) :
       /\ tx' = IF acked THEN [tx EXCEPT ![n] = Idle] ELSE tx
       /\ lost' = (lost \ {x \in {e} \cap entries : PassesOn(x)})
                  \cup IF acked /\ e \notin entries THEN {<<n, tx[n].scope>>} ELSE {}
  /\ UNCHANGED <<tree, entries, member>>

(* The last retransmission has not been acknowledged.                      *)
GiveUp(n) ==
  /\ ~ Reliable
  /\ tx[n] # Idle
  /\ tx' = [tx EXCEPT ![n] = Idle]
  /\ lost' = lost \cup {<<n, tx[n].scope>>}
  /\ UNCHANGED <<tree, entries, status>>

---------------------------------------------------------------------------
Next ==
  \/ \E r \in Roots : BuildTree(r)
  \/ \E n \in Nodes : \/ Rebroadcast(n)
                      \/ ActivationRound(n)
                      \/ DeliverActivation(n)
                      \/ GiveUp(n)
                      \/ \E r \in Roots : RouteExpires(n, r)
  \/ \E s \in ScopeIds : HearOpen(s) \/ \E n \in Nodes : Join(n, s) \/ Leave(n, s)

Spec == Init /\ [][Next]_vars

(* activation_process is woken by its timer, and the radio delivers.       *)
Fairness ==
  \A n \in Nodes : /\ WF_vars(Rebroadcast(n))
                   /\ WF_vars(ActivationRound(n))
                   /\ WF_vars(DeliverActivation(n))

FairSpec == Spec /\ Fairness

---------------------------------------------------------------------------
(***************************************************************************)
(* Properties.                                                             *)
(***************************************************************************)

(* The tables, status bits and connections are typed; only an entry has    *)
(* status bits, and an entry has a route.                                  *)
TypeOK ==
  /\ sent \in [Roots -> 0 .. MaxUpdates]
  /\ route \in [Nodes -> [Roots -> Nodes \cup {NoNode}]]
  /\ hop \in [Nodes -> 0 .. HopsMax + 1]
  /\ last \in [Nodes -> (Roots \cup {NoNode}) \X (0 .. SeqMod - 1)]
  /\ pending \in [Nodes -> Update \cup {NoUpdate}]
  /\ heard \in [Nodes -> [Roots -> 0 .. MaxUpdates]]
  /\ entries \subseteq Pairs
  /\ \A e \in entries : NextHop(e) # NoNode
  /\ member \cup forwarder \cup activate \cup suppress \subseteq entries
  /\ tx \in [Nodes -> Message \cup {Idle}]
  /\ lost \subseteq Pairs

(* Following the routes to a root never leads in a circle, whatever the    *)
(* floods miss, however they overlap and whichever routes expire: a set of *)
(* nodes that all have a route has a node whose next hop is outside it.    *)
LoopFree ==
  \A r \in Roots : \A S \in (SUBSET Nodes) \ {{}} :
    \E n \in S : route[n][r] \notin S

(* A node whose next hop is ahead of it, or off the tree altogether: it    *)
(* has missed a tree update, and only the next one puts that right.        *)
Behind(e) ==
  LET p == NextHop(e) r == RootOf[e[2]] IN
  heard[p][r] > heard[e[1]][r] \/ route[p][r] = NoNode

(* The next hop of an entry passes the scope's messages on.                *)
Served(e) == NextHop(e) = RootOf[e[2]] \/ <<NextHop(e), e[2]>> \in forwarder

(* An activation is suppressed only where none is needed.                  *)
SuppressionJustified == \A e \in suppress : Served(e) \/ Behind(e)

(* An activation is on its way.                                            *)
Underway(e) ==
  \/ e \in activate \ suppress
  \/ tx[e[1]] = [to |-> NextHop(e), scope |-> e[2]]

(* Between a member or a forwarder of a scope and its next hop nothing is  *)
(* ever forgotten: the next hop forwards, or an activation is on its way,  *)
(* or one of the ways to lose one has been met (lost, Behind).             *)
UpstreamActivated ==
  \A e \in member \cup forwarder : Served(e) \/ Underway(e) \/ Behind(e) \/ e \in lost

(* A member's next hop comes to forward for it, unless a tree update or    *)
(* an OPEN has not got through to both.                                    *)
MemberServed ==
  \A e \in Pairs :
    (e \in member) ~>
      (e \in member => Served(e) \/ Behind(e) \/ <<NextHop(e), e[2]>> \notin entries)

=============================================================================
