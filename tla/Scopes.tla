------------------------------- MODULE Scopes -------------------------------
(***************************************************************************)
(* The scope layer of one node (scopes.c) over the part of its routing     *)
(* layer that it calls (scopes-selfur.c: add, remove, join, leave, send,   *)
(* and the tables those read).  The other nodes are the environment: they  *)
(* flood tree updates, OPEN and CLOSE messages.                            *)
(*                                                                         *)
(* A struct scope lives in a slot of scopes_mem.  Freeing a slot does not  *)
(* clear it, and one static timer holds a pointer to a slot, so slots and  *)
(* scopes are kept apart.  The world scope is static, always known, never  *)
(* removed, and every node is a member of it.                              *)
(*                                                                         *)
(* Scope specifications and the interpreter that evaluates them            *)
(* (membership->check), and the forwarder status of the routing layer, are *)
(* inputs here: any answer is possible at any time.                        *)
(***************************************************************************)
EXTENDS Integers, FiniteSets

CONSTANTS
  Ids,            (* scope ids other than the world's                      *)
  World,          (* SCOPES_WORLD_SCOPE_ID                                 *)
  Opens,          (* the <<super id, id>> the applications of this node    *)
                  (* open                                                  *)
  Announced,      (* the <<super id, id>> other nodes announce             *)
  Apps,           (* subscriber ids                                        *)
  Roots,          (* the other nodes that create scopes                    *)
  NoRoot,         (* no scope entry in the routing layer                   *)
  MaxScopes,      (* SCOPES_MAX_SCOPES                                     *)
  MaxSubscribers, (* SCOPES_MAX_SUBSCRIBER                                 *)
  MaxRoutes,      (* SELFUR_MAX_ROUTING_ENTRIES                            *)
  MaxEntries,     (* SELFUR_MAX_SCOPE_ENTRIES                              *)
  UseMax,         (* BOUND: use_counter of a scope                         *)
  CounterMax      (* BOUND: scope_counter                                  *)

ASSUME ScopesAssumption ==
  /\ World \notin Ids
  /\ Opens \subseteq (Ids \cup {World}) \X Ids
  /\ Announced \subseteq (Ids \cup {World}) \X Ids
  /\ NoRoot \notin Roots
  /\ MaxScopes \in Nat \ {0}
  /\ MaxSubscribers \in Nat \ {0}
  /\ MaxRoutes \in Nat
  /\ MaxEntries \in Nat
  /\ UseMax \in Nat \ {0}
  /\ CounterMax \in Nat

VARIABLES
  mem,      (* scopes_mem: what each slot holds, in use or not             *)
  listed,   (* the slots in the list `scopes`                              *)
  armed,    (* the slots whose ttl_timer is running                        *)
  ann,      (* the slot anndelay_timer will announce, 0: not running       *)
  subs,     (* subscribers_mem                                             *)
  counter,  (* scopes-selfur.c's scope_counter                             *)
  routes,   (* the roots that have a routing_entry                         *)
  entry,    (* the root of the tree of each id's scope_entry, or NoRoot    *)
  joined,   (* the ids whose scope_entry has SELFUR_STATUS_MEMBER          *)
  locked,   (* lock_timer is running                                       *)
  note      (* HISTORY: what this step announced, or heard announced       *)

routing == <<counter, routes, entry, joined, locked>>
vars == <<mem, listed, armed, ann, subs, counter, routes, entry, joined, locked, note>>

Slots    == 1 .. MaxScopes
SubSlots == 1 .. MaxSubscribers
AnyId    == Ids \cup {World}

Scope == [id : AnyId, super : AnyId, owner : 0 .. MaxSubscribers, use : 0 .. UseMax,
          member : BOOLEAN, creator : BOOLEAN, dynamic : BOOLEAN]

(* A slot that memb_init has zeroed.                                       *)
ZeroedScope == [id |-> World, super |-> World, owner |-> 0, use |-> 0,
                member |-> FALSE, creator |-> FALSE, dynamic |-> FALSE]

Subscriber == [app : Apps, used : BOOLEAN]

Quiet == [kind |-> "quiet"]
Note  == {Quiet}
         \cup [kind : {"open", "close"}, id : AnyId, super : AnyId]
         \cup [kind : {"heard"}, id : Ids]

(* scopes_init and scopes-selfur.c's init.                                 *)
Init ==
  /\ mem = [s \in Slots |-> ZeroedScope]
  /\ listed = {}
  /\ armed = {}
  /\ ann = 0
  /\ subs \in [SubSlots -> {u \in Subscriber : ~ u.used}]
  /\ counter = 0
  /\ routes = {}
  /\ entry = [i \in Ids |-> NoRoot]
  /\ joined = {}
  /\ locked = FALSE
  /\ note = Quiet

---------------------------------------------------------------------------
(***************************************************************************)
(* Looking things up.                                                      *)
(***************************************************************************)

(* lookup_scope_id, for an id other than the world's.                      *)
Lookup(i)  == {s \in listed : mem[s].id = i}
Known(i)   == i = World \/ Lookup(i) # {}

(* HAS_STATUS(scope, SCOPES_STATUS_MEMBER), for a known scope.             *)
IsMember(i) == i = World \/ \E s \in Lookup(i) : mem[s].member

(* memb_alloc takes the first free block.                                  *)
IsFirstFree(s, Block, used) ==
  /\ s \in Block \ used
  /\ \A t \in Block \ used : s <= t

(* lookup_subscriber_id.                                                   *)
UsedSubs == {u \in SubSlots : subs[u].used}
SubscriberOf(u, a) == u \in UsedSubs /\ subs[u].app = a

(* The routing layer refuses to send while the tree is being built, and    *)
(* tells nobody.                                                           *)
Announce(kind, s) ==
  IF locked THEN Quiet ELSE [kind |-> kind, id |-> mem[s].id, super |-> mem[s].super]

HasEntry(i) == entry[i] # NoRoot

(* routing->join: the member status is kept in the scope entry, if any.    *)
RoutingJoin(i, entries, members) ==
  IF entries[i] # NoRoot THEN members \cup {i} ELSE members

---------------------------------------------------------------------------
(***************************************************************************)
(* remove_scope: the scope, its sub-scopes, their sub-scopes...            *)
(***************************************************************************)

(* A set of scopes that has with a scope its sub-scopes.                   *)
ClosedUnderSub(D) ==
  \A s \in D, t \in listed : mem[t].super = mem[s].id => t \in D

SubtreeShallow(s) == {s}           \* MUTANT: the sub-scopes are left behind

(* What remove_scope_recursively and remove_single_scope remove: ScopeList *)
(* walks the list as the code does, and comes to the same.                 *)
Subtree(s) ==
  {t \in listed : \A D \in SUBSET listed : s \in D /\ ClosedUnderSub(D) => t \in D}

(* MUTANT: decremented without looking whether it is positive.             *)
CounterUnfloored(R, entries) ==
  counter - Cardinality({t \in R : entries[mem[t].id] = NoRoot})

(* routing->remove: a scope without an entry is taken for a local one.     *)
CounterAfter(R, entries) ==
  LET n == Cardinality({t \in R : entries[mem[t].id] = NoRoot})
  IN  IF n <= counter THEN counter - n ELSE 0

(* MUTANT: routing->leave is not called.                                   *)
JoinedKept(R) == joined

(* leave_scope, for those of the scopes the node is a member of.           *)
JoinedAfter(R) == joined \ {mem[t].id : t \in {u \in R : mem[u].member}}

(* MUTANT: the ttl timer is not stopped.                                   *)
ArmedKept(R) == armed

(* remove_single_scope stops the timer.                                    *)
ArmedAfter(R) == armed \ R

(* The slots of the removed scopes lose the member status and keep the     *)
(* rest; `use` is the use counter of the scope the removal began with.     *)
Remove(s, use, entries) ==
  LET R == Subtree(s) IN
  /\ mem' = [t \in Slots |->
               [mem[t] EXCEPT !.member = @ /\ t \notin R, !.use = IF t = s THEN use ELSE @]]
  /\ listed' = listed \ R
  /\ armed' = ArmedAfter(R)
  /\ counter' = CounterAfter(R, entries)
  /\ joined' = JoinedAfter(R)

---------------------------------------------------------------------------
(***************************************************************************)
(* The calls of the applications.                                          *)
(***************************************************************************)

(* scopes_register.                                                        *)
Register(a) ==
  /\ \A u \in UsedSubs : subs[u].app # a
  /\ \E u \in SubSlots :
       /\ IsFirstFree(u, SubSlots, UsedSubs)
       /\ subs' = [subs EXCEPT ![u] = [app |-> a, used |-> TRUE]]
  /\ note' = Quiet
  /\ UNCHANGED <<mem, listed, armed, ann, routing>>

(* scopes_unregister: the scopes keep their pointer to the freed block,    *)
(* whose status still says SCOPES_APPLICATION_SUBSCRIBED.                  *)
Unregister(a) ==
  /\ \E u \in SubSlots :
       /\ SubscriberOf(u, a)
       /\ subs' = [subs EXCEPT ![u].used = FALSE]
  /\ note' = Quiet
  /\ UNCHANGED <<mem, listed, armed, ann, routing>>

(* scopes_open of a scope that is known: one more user, whoever calls.     *)
(* The counter of a scope created elsewhere is never read, and not kept.   *)
OpenKnown(a, i) ==
  /\ \E u \in SubSlots : SubscriberOf(u, a)
  /\ \E s \in Lookup(i) :
       /\ mem[s].creator
       /\ mem[s].use < UseMax
       /\ mem' = [mem EXCEPT ![s].use = @ + 1]
  /\ note' = Quiet
  /\ UNCHANGED <<listed, armed, ann, subs, routing>>

(* scopes_open of a new scope i in p: add_scope, join_scope and the delay  *)
(* before the announcement, on the one timer there is.                     *)
OpenNew(a, p, i) ==
  /\ ~ Known(i)
  /\ Known(p)
  /\ counter < CounterMax
  /\ \E u \in SubSlots, s \in Slots :
       /\ SubscriberOf(u, a)
       /\ IsFirstFree(s, Slots, listed)
       /\ mem' = [mem EXCEPT ![s] = [id |-> i, super |-> p, owner |-> u, use |-> 1,
                    member |-> TRUE, creator |-> TRUE, dynamic |-> FALSE]]
       /\ listed' = listed \cup {s}
       /\ armed' = armed \cup {s}
       /\ ann' = s
  /\ locked' = (locked \/ counter = 0)
  /\ counter' = counter + 1
  /\ joined' = RoutingJoin(i, entry, joined)
  /\ note' = Quiet
  /\ UNCHANGED <<subs, routes, entry>>

(* The tests of scopes_close.                                              *)
CloseAllowed(a, s) ==
  /\ \E u \in SubSlots : SubscriberOf(u, a)
  /\ mem[s].creator
  /\ subs[mem[s].owner].app = a

(* scopes_close, when other users remain.                                  *)
CloseShared(a, i) ==
  /\ \E s \in Lookup(i) :
       /\ CloseAllowed(a, s)
       /\ mem[s].use > 1
       /\ mem' = [mem EXCEPT ![s].use = @ - 1]
  /\ note' = Quiet
  /\ UNCHANGED <<listed, armed, ann, subs, routing>>

(* scopes_close by the last user.  anndelay_timer is left as it is.        *)
CloseLast(a, i) ==
  /\ \E s \in Lookup(i) :
       /\ CloseAllowed(a, s)
       /\ mem[s].use = 1
       /\ note' = Announce("close", s)
       /\ Remove(s, 0, entry)
  /\ UNCHANGED <<ann, subs, routes, entry, locked>>

---------------------------------------------------------------------------
(***************************************************************************)
(* Messages of other nodes.  receive_flood_data takes those of the roots   *)
(* it has a route to, and adds a scope entry for an OPEN before it hands   *)
(* the message to scopes_receive.                                          *)
(***************************************************************************)

EntryAfter(q, i) ==
  IF HasEntry(i) \/ Cardinality({j \in Ids : HasEntry(j)}) >= MaxEntries
    THEN entry ELSE [entry EXCEPT ![i] = q]

(* scopes_receive goes on with an OPEN if the super scope is known and the *)
(* node is a member of it.                                                 *)
Heeded(p) == Known(p) /\ IsMember(p)

(* MUTANT: the creator is not asked for.                                   *)
SubordinateAny(s, p, i) == s \in Lookup(i) /\ mem[s].super = p

(* A known scope an OPEN or a CLOSE is about: it has to be in the scope    *)
(* the message says, and not to have been created here.                    *)
Subordinate(s, p, i) == s \in Lookup(i) /\ mem[s].super = p /\ ~ mem[s].creator

(* OPEN of which only the routing layer takes notice: the super scope is   *)
(* not heeded, the scope was created here or in another super scope, the   *)
(* owner is not subscribed here, there is no slot, or no reason to keep it.*)
HearOpen(q, p, i) ==
  /\ q \in routes
  /\ ~ (Heeded(p) /\ \E s \in listed : Subordinate(s, p, i))
  /\ entry' = EntryAfter(q, i)
  /\ note' = Quiet
  /\ UNCHANGED <<mem, listed, armed, ann, subs, counter, routes, joined, locked>>

(* OPEN of a new scope there is a reason to keep: the node should be a     *)
(* member, the scope is dynamic, or the node forwards for it.              *)
Learn(q, p, i, member, dynamic) ==
  /\ q \in routes
  /\ Heeded(p)
  /\ ~ Known(i)
  /\ \E u \in UsedSubs, s \in Slots :
       /\ IsFirstFree(s, Slots, listed)
       /\ mem' = [mem EXCEPT ![s] = [id |-> i, super |-> p, owner |-> u, use |-> 0,
                    member |-> member, creator |-> FALSE, dynamic |-> dynamic]]
       /\ listed' = listed \cup {s}
       /\ armed' = armed \cup {s}
  /\ entry' = EntryAfter(q, i)
  /\ joined' = IF member THEN RoutingJoin(i, EntryAfter(q, i), joined) ELSE joined
  /\ note' = [kind |-> "heard", id |-> i]
  /\ UNCHANGED <<ann, subs, counter, routes, locked>>

(* OPEN of a known scope there is still a reason to keep.                  *)
Refresh(q, p, i, s) ==
  /\ q \in routes
  /\ Heeded(p)
  /\ Subordinate(s, p, i)
  /\ entry' = EntryAfter(q, i)
  /\ armed' = armed \cup {s}
  /\ note' = [kind |-> "heard", id |-> i]
  /\ UNCHANGED <<mem, listed, ann, subs, counter, routes, joined, locked>>

(* OPEN of a known scope there is no reason left to keep.                  *)
DropOnOpen(q, p, i, s) ==
  /\ q \in routes
  /\ Heeded(p)
  /\ Subordinate(s, p, i)
  /\ entry' = EntryAfter(q, i)
  /\ Remove(s, mem[s].use, EntryAfter(q, i))
  /\ note' = Quiet
  /\ UNCHANGED <<ann, subs, routes, locked>>

(* CLOSE.                                                                  *)
ReceiveClose(q, p, i, s) ==
  /\ q \in routes
  /\ Known(p)
  /\ Subordinate(s, p, i)
  /\ Remove(s, mem[s].use, entry)
  /\ note' = Quiet
  /\ UNCHANGED <<ann, subs, routes, entry, locked>>

---------------------------------------------------------------------------
(***************************************************************************)
(* Timers and processes.                                                   *)
(***************************************************************************)

(* anndelay_timer: whatever the slot holds by now is announced.            *)
AnnounceDelayed ==
  /\ ann # 0
  /\ note' = Announce("open", ann)
  /\ ann' = 0
  /\ UNCHANGED <<mem, listed, armed, subs, routing>>

(* MUTANT: what was created elsewhere is re-announced, too.                *)
ReannouncesAll(s) == TRUE

(* handle_scope_timeout: IS_SUBSCRIBED(scope->owner) holds of every block  *)
(* that scopes_register ever filled in.                                    *)
Reannounces(s) == mem[s].creator

(* MUTANT: the timer is not set again.                                     *)
NotReset(s) == armed \ {s}

(* The expired timer is set again after the re-announcement.               *)
ResetTimer(s) == armed \cup {s}

TimeoutOfOwn(s) ==
  /\ s \in armed
  /\ Reannounces(s)
  /\ note' = Announce("open", s)
  /\ armed' = ResetTimer(s)
  /\ UNCHANGED <<mem, listed, ann, subs, routing>>

TimeoutOfOther(s) ==
  /\ s \in armed
  /\ ~ Reannounces(s)
  /\ Remove(s, mem[s].use, entry)
  /\ note' = Quiet
  /\ UNCHANGED <<ann, subs, routes, entry, locked>>

(* scopes_process: the node's membership in dynamic scopes that were       *)
(* created elsewhere is evaluated anew; `fit` are those it should be in.   *)
Recheck(fit) ==
  LET Dynamic == {s \in listed : mem[s].dynamic /\ ~ mem[s].creator}
      Leaving == {s \in Dynamic \ fit : mem[s].member}
      Joining == {s \in fit : ~ mem[s].member}
  IN
  /\ fit \subseteq Dynamic
  /\ mem' = [s \in Slots |->
               IF s \in Dynamic THEN [mem[s] EXCEPT !.member = (s \in fit)] ELSE mem[s]]
  /\ joined' = (joined \ {mem[s].id : s \in Leaving})
               \cup {i \in {mem[s].id : s \in Joining} : i \in Ids /\ HasEntry(i)}
  /\ note' = Quiet
  /\ UNCHANGED <<listed, armed, ann, subs, counter, routes, entry, locked>>

(* receive_tree_update of a root that has no routing entry.                *)
HearTree(q) ==
  /\ q \notin routes
  /\ Cardinality(routes) < MaxRoutes
  /\ routes' = routes \cup {q}
  /\ note' = Quiet
  /\ UNCHANGED <<mem, listed, armed, ann, subs, counter, entry, joined, locked>>

(* remove_routing_entry: a root has not refreshed its tree for too long.   *)
RouteExpires(q) ==
  /\ q \in routes
  /\ routes' = routes \ {q}
  /\ entry' = [i \in Ids |-> IF entry[i] = q THEN NoRoot ELSE entry[i]]
  /\ joined' = {i \in joined : entry[i] # q}
  /\ note' = Quiet
  /\ UNCHANGED <<mem, listed, armed, ann, subs, counter, locked>>

(* tree_update_process: the periodic build_routing_tree.                   *)
RefreshTree ==
  /\ counter > 0
  /\ locked' = TRUE
  /\ note' = Quiet
  /\ UNCHANGED <<mem, listed, armed, ann, subs, counter, routes, entry, joined>>

LockExpires ==
  /\ locked
  /\ locked' = FALSE
  /\ note' = Quiet
  /\ UNCHANGED <<mem, listed, armed, ann, subs, counter, routes, entry, joined>>

---------------------------------------------------------------------------
Call(a) ==
  \/ Register(a)
  \/ Unregister(a)
  \/ \E pi \in Opens : OpenNew(a, pi[1], pi[2])
  \/ \E i \in Ids : OpenKnown(a, i) \/ CloseShared(a, i) \/ CloseLast(a, i)

Receive(q, p, i) ==
  \/ HearOpen(q, p, i)
  \/ \E member, dynamic \in BOOLEAN : Learn(q, p, i, member, dynamic)
  \/ \E s \in Slots : Refresh(q, p, i, s) \/ DropOnOpen(q, p, i, s) \/ ReceiveClose(q, p, i, s)

Next ==
  \/ \E a \in Apps : Call(a)
  \/ \E q \in Roots, pi \in Announced : Receive(q, pi[1], pi[2])
  \/ AnnounceDelayed
  \/ \E s \in Slots : TimeoutOfOwn(s) \/ TimeoutOfOther(s)
  \/ \E fit \in SUBSET listed : Recheck(fit)
  \/ \E q \in Roots : HearTree(q) \/ RouteExpires(q)
  \/ RefreshTree
  \/ LockExpires

Spec == Init /\ [][Next]_vars

(* A running ttl timer is set anew, by a re-announcement, or fires.        *)
TimerOf(s) ==
  \/ TimeoutOfOwn(s)
  \/ TimeoutOfOther(s)
  \/ \E q \in Roots, pi \in Announced : Refresh(q, pi[1], pi[2], s)

Fairness ==
  /\ \A s \in Slots : WF_vars(TimerOf(s))
  /\ WF_vars(LockExpires)

FairSpec == Spec /\ Fairness

---------------------------------------------------------------------------
(***************************************************************************)
(* Properties.                                                             *)
(***************************************************************************)

(* The tables of the scope and the routing layer have their types.         *)
TypeOK ==
  /\ mem \in [Slots -> Scope]
  /\ listed \subseteq Slots
  /\ armed \subseteq Slots
  /\ ann \in 0 .. MaxScopes
  /\ subs \in [SubSlots -> Subscriber]
  /\ counter \in 0 .. CounterMax
  /\ routes \subseteq Roots
  /\ entry \in [Ids -> Roots \cup {NoRoot}]
  /\ joined \subseteq Ids
  /\ locked \in BOOLEAN
  /\ note \in Note

(* The listed scopes form a forest below the world: no id is listed twice, *)
(* and a listed scope's super scope is listed, so that no removal leaves a *)
(* sub-scope behind that no CLOSE can reach.                               *)
Forest ==
  /\ \A s, t \in listed : mem[s].id = mem[t].id => s = t
  /\ \A s \in listed : mem[s].id # World /\ Known(mem[s].super)

(* A ttl timer runs exactly for the listed scopes: one that stopped would  *)
(* make a scope immortal, or unannounced; one left running would remove    *)
(* the scope its slot is given to next.                                    *)
TtlTimersMatch == armed = listed

(* What the routing layer activates and forwards for is a scope the node   *)
(* is in fact a member of.                                                 *)
JoinedIsMember ==
  \A i \in joined : HasEntry(i) /\ \E s \in Lookup(i) : mem[s].member

(* A set of listed scopes created here, each in the world or in another    *)
(* scope of the set.                                                       *)
OwnTree(A) ==
  \A s \in A : /\ mem[s].creator
               /\ mem[s].super = World \/ \E t \in A : mem[t].id = mem[s].super

(* A scope created here, in scopes created here, goes only when the last   *)
(* user of it or of one of those closes it: no message, no timeout and no  *)
(* call for another scope removes it.                                      *)
OwnTreeStep ==
  \A A \in SUBSET listed :
    OwnTree(A) /\ ~ (A \subseteq listed') =>
      \E s \in A : mem[s].use = 1 /\ mem'[s].use = 0

OwnTreeRemains == [][OwnTreeStep]_vars

(* Soft state: a scope created elsewhere that is not announced for ever is *)
(* forgotten for good.                                                     *)
ForgottenUnlessHeard ==
  \A i \in Ids :
    \/ []<>(note = [kind |-> "heard", id |-> i])
    \/ <>[](\A s \in Lookup(i) : mem[s].creator)

(* A scope created here that stays open is announced again and again,      *)
(* unless the tree is rebuilt again and again.                             *)
AnnouncedAgain ==
  \A i \in Ids :
    \/ []<>(~ \E s \in Lookup(i) : mem[s].creator)
    \/ []<>(note.kind = "open" /\ note.id = i)
    \/ []<>locked

=============================================================================
