# Verification of SCoPES and TikiDB

The repository holds the software of a wireless sensor network that watches the
climate of a house. Three programs were written for it:

* **SCoPES** (`src/tikidb-trunk/tikidb/src/scopes/`): a network layer whose
  addresses are *scopes*, groups of nodes given by a membership rule. A node
  opens a scope, every node that satisfies the rule joins it, and messages go to
  all members or from a member towards the creator.
* **TikiDB** (`src/tikidb-trunk/tikidb/src/tikidb/`): queries over the sensors,
  sent out through a scope and answered towards its creator.
* **Solarhouse collect** (`src/collect_final/solar.c`): a simpler application
  that samples the sensors and sends them with Rime's collect.

The remainder of the 7,725 files is Contiki (vendored under
`src/tikidb-solarhouse/`), earlier versions of the application, drivers, a Java
client, test drivers and documentation. In what follows file names without a
directory are those of `tikidb/src/scopes/` and `tikidb/src/tikidb/`.

The project models the build that is deployed: SCoPES with `FRAGMENTATION_ENABLED`
(`tikidb-shell/project-conf.h:43-44`), the `selfur` routing, and a radio stack
without duty cycling or link-layer acknowledgements (null MAC, null RDC).

Contents

1. The system: components, state, interaction
2. The plan
3. Modules and code
4. Runs
5. Fairness
6. Proofs
7. What was found
8. What is only model-checked, and what is not modelled


## 1. The system

A node runs Contiki: one process at a time, handlers run to completion, timers
(`ctimer`, `etimer`) call back from the scheduler, and a received frame is
handled to the end before the next one. So inside a node there is no preemption
to model; what is hard is the *order* in which calls, timers and frames come,
the loss of frames, and static memory that is freed while something still points
to it. Every action of the models is one handler, from its entry to its return.

```
   shell / Java client                   solar.c
          |                                 |
   TikiDB manager --- statements, tables, query resolver
          |  scopes_open/close/send    ^  cb_join/leave/receive
   scopes.c  --- membership interpreter, repository
          |  add/remove/join/leave/send  ^  scopes_receive
   scopes-selfur.c 
      |            |               |              |
   netflood x2   runicast x2   ipolite   frag_unicast
      (tree, data)  (activation, hop counts) (suppression)
```

| Component | State | Operations | What is hard | What makes it correct |
|---|---|---|---|---|
| **Fragmenting unicast** `frag_unicast.c` | one connection per node: status, sender being reassembled, packet ids, bitvector, ONE buffer shared by sending and receiving, reassembly timer | open, send (all fragments in a loop), receive a fragment, timeout | fragments of several children interleave; any is lost; the node composes into the buffer it reassembles in; ids wrap; timer never set | a packet handed up is one whole message of the sender named; the timer runs exactly while a reassembly is open; the connection never stays busy |
| **Scopes** `scopes.c` | 5 scope blocks, the list of scopes, a ttl timer per scope, one static announcement timer, subscriber blocks | register, unregister, open, close, send, receive OPEN/CLOSE/DATA, timers, periodic membership check | recursive removal while walking the list; blocks reused while a timer points at them; OPEN and CLOSE in any order with local calls | the scopes form a forest; nothing is immortal and nothing dies early; what was opened here only its users close; soft state goes when no longer announced |
| **Tree routing** `scopes-selfur.c` | routing entries (root, next hop, ttl), scope entries (member, forwarder, activate, suppress), hop counts, `scope_counter`, lock timer | build and refresh a tree, receive tree update, OPEN, activation, suppression, hop count; join, leave, add, remove, send | floods that overlap, are lost or suppressed; activation over a connection that is never queued; entries freed with their route; sequence numbers that wrap | routes never circle; a member's next hop comes to forward for it; an activation is suppressed only where none is needed |
| **Membership** `scopes-membership-simple.c`, `scopes-repository.c` | none (bytecode and sensor values in) | `check` | specifications that end early, nesting, operands left uninitialised, division | an expression gets its value; what is none makes nobody a member |
| **TikiDB manager** `tikidb-mgr.c` | list of statements, two timers each, elapsed lifetime, temporary table | handle statement/result set, per-epoch execution, reporting, leaving a scope | statements freed while in use or in timers; result sets of other epochs; dummies made up for results of unknown statements; slots from tree heights of different age | a statement runs for its lifetime and then is gone with its timers; results are merged into their epoch, reported once, and not lost on the way |
| **Statements, result sets** `statement.c`, `resultset.c` | heap objects | (un)marshall | input that ends early | marshalling is invertible |
| **Tables** `table.c`, `tikidb-buffer.c`, `dbms-operations.c` | table buffer by id | create, add, drop, union, select, aggregate | ids taken before they are entered, a full buffer, a full table | a table belongs to one statement and is dropped with its report |
| **Query resolver** `queryresolver.c` | none | read values, evaluate WHERE | conjunctions | a row passes iff the condition holds |
| **Solarhouse collect** `collect_final/solar.c` | two event timers, start and accumulated energies | the process loop | a timer that stays expired; two events that come in either order or not at all; counters that go on between two rounds; values of the previous round | every interval sends, no more often than its events allow; the energies count each round's time once |
| **Flooding routing** `scopes-flooding.c` | none | - | not built | - |
| **Shell, Java client, test drivers** | none of their own | serial I/O | - | - |
| **Older applications, drivers** | register I/O | - | - | - |
| **Contiki** (vendored) | lists, memory blocks, netflood, ipolite, runicast, timers | - | the behaviours the code above relies on | modelled as external where it matters |

How they interact. TikiDB's manager opens and closes scopes with synchronous
calls and is called back by `scopes.c` (join, leave, receive). `scopes.c` calls
its routing layer through a table of functions; routing calls `scopes_receive`
for what it gets from the air and keeps its own table of scope entries, so that
the two layers each have an idea of which scopes exist. Both layers have timers
of their own, and the network floods of the routing layer decide whether a
message of the scope layer gets anywhere. The buffers are shared: `scopes_send`
composes into the buffer of the fragmenting unicast before anyone has asked
whether that is reassembling.


## 2. The plan

In the order of importance for what the system is for: data gets to the creator
of a scope, whole and once; scopes and trees exist where they should; what is
asked of the sensors is answered.

| # | Modules | Proofs |
|---|---|---|
| 1 | `FragUnicast`, refined from `DatagramLink` by `FragLink` | `FragUnicastProofs`, `FragLinkProofs` |
| 2 | `Scopes`; `ScopeList` refining `ScopeSet` for the recursive removal | `ScopesProofs`, `ScopeListProofs` |
| 3 | `Selfur`: trees, entries and activation on all nodes | `SelfurProofs` |
| 4 | `TikiMgr`: statements, results and tables of a node that scopes come and go under | `TikiMgrProofs` |
| 5 | `SolarCollect`: the process loop, its two event timers, the event queue | `SolarCollectProofs` |
| 6 | `Membership`: the interpreter and what a specification means | `MembershipProofs` |

Composition. The layers call one another, and each module has its neighbours as
an environment that may do whatever their interface allows: in `Scopes` the other
nodes and whether this one forwards, in `Selfur` the scope layer, in `TikiMgr`
everything `scopes.c` and `scopes-selfur.c` say about a scope (`role`). What the
upper module needs of the lower is a history variable or an assumption that is
named (`steady`, `IdIsFree`), so that one can see which theorem asks what of the
layer below. `FragLink` composes the fragmentation with a link, `Scopes` the scope
layer with its routing layer on one node, `SolarCollect` the application with
Contiki's event timer process.

Abstract specifications: `DatagramLink` (a queue of whole messages) and `ScopeSet`
(removal takes exactly the subtree). What the plan has left is in section 8: the
hop count reports on top of `Selfur`, and `Scopes` on several nodes over it.


## 3. Modules and code

### FragUnicast (`frag_unicast.c`, `scopes_send`, selfur's `send`)

One record of variables per node's connection: `status`, `from`, `lastRecv`,
`lastSent`, `bits` (the bitvector, as a set), `buffer` (one cell per fragment; a
cell holds `<<message, fragment>>`), `length`, `timer`; and `chan[l]`, the
fragments on the way on a child-parent link.

* `Send` - `scopes_send` to the creator: clear the buffer, compose, then
  `frag_unicast_send`, which puts all fragments on the air in its loop. The status
  SENDING exists only inside that loop and is never visible to another action.
* `SendRefused` - the same while the connection is RECEIVING: the message is
  composed into the buffer all the same, and only then refused.
* `Discard`, `Collect`, `Complete` - the three ways through `recv_from_unicast`:
  not admitted; admitted; admitted and last, which calls back and goes IDLE.
* `ReassemblyTimeout` - `drop_fragments`. `Lose` - the radio.

Lengths are counted in fragments. The timer has a third state, "unset": a
`ctimer` of zeroed memory that `ctimer_restart` starts without callback or
interval. A packet id may come round; `IdIsFree` is the one assumption about the
environment: an id is not used again while fragments of the packet that had it
are in flight or in a reassembly (256 packets against a reassembly timeout of
seconds). Timers fire at any time when armed, except under `Reliable`.

`session` is a history variable: the message whose fragment 0 began the
reassembly, until it ends or the node composes over it. Reassemblies that begin
in the middle of a packet have none, and are what the violation runs are about.

`DatagramLink` says what a link promises (a queue; whole, once, in order) and
`FragLink` is `FragUnicast` on one link that loses nothing, with the refinement
mapping: the history variable `waiting` is the queue, longer by the message whose
fragments a step puts on the air, shorter by its first when the callback is
called. What was handed over is read from the buffer the callback got, so that
a mixture would be no message.

### Scopes (`scopes.c`, and of `scopes-selfur.c` what it calls)

One node; other nodes are the environment. `mem` are the scope blocks, in use or
not, because blocks are freed without being cleared and `anndelay_timer` keeps a
pointer; `listed` the blocks on the list; `armed` the running ttl timers; `ann`
the block the one announcement timer points at; `subs` the subscriber blocks;
then the routing layer's `counter`, `routes`, `entry`, `joined`, `locked`.

* Calls: `Register`, `Unregister`, `OpenKnown`/`OpenNew` (`scopes_open`),
  `CloseShared`/`CloseLast` (`scopes_close`).
* Messages: `HearOpen` (an OPEN only the routing layer takes notice of), `Learn`,
  `Refresh`, `DropOnOpen` (the other ways through `scopes_receive` for OPEN),
  `ReceiveClose`; `HearTree` for a tree update.
* Timers and processes: `AnnounceDelayed`, `TimeoutOfOwn`, `TimeoutOfOther`
  (`handle_scope_timeout`), `Recheck` (`scopes_process`), `RouteExpires`,
  `RefreshTree`, `LockExpires`.

`Subtree` says what the recursive removal removes; that the code's walk does just
this is shown in `ScopeList`, which takes the walk apart into the iterations of its
loop: `frames` is C's call stack (of each call its argument, `current` and
`previous`), `Pass` and `Descend` are the two ways through the loop's body, `Return`
is the end of an inner call with what its caller does next (`remove_single_scope`,
then back to `previous`, or to the head of the list), `Finish` the end of
`remove_scope`. Against `ScopeSet` the whole walk is one step: `before`, a history
variable, is the set that others see until the stack is empty again.

Inputs: what the membership interpreter answers, whether the node forwards, and
whether a scope is dynamic are any boolean (for an unknown scope
`scopes_selfur_is_forwarder` reads through a null pointer, so there is nothing
more precise to say). Callers of `scopes_open` are registered. The use counter is
kept for scopes created here; of others the code never reads it. The owner test
in `handle_scope_timeout` holds of every block `scopes_register` ever filled in.
`scopes_unregister` has no caller in the repository but is part of the interface.
`note` is a history variable: what the step announced or heard announced.

### Selfur (`scopes-selfur.c` on every node, over netflood, ipolite, runicast)

`route`, `hop`: the routing entries; `last`: netflood's last originator and
sequence number; `pending`: the copy ipolite has queued; `entries` with the status
bits `member`, `forwarder`, `activate`, `suppress`; `tx`: what the one runicast
connection is transmitting.

* `BuildTree` (`build_routing_tree`), `Rebroadcast` (the queued copy is due): both
  are a `Broadcast`, which does at every node that hears it what
  `recv_from_ipolite` and `receive_tree_update`/`update_routing_entry` do.
* `RouteExpires` (`remove_routing_entry`), `HearOpen` (`add_scope_entry`), `Join`,
  `Leave`.
* `ActivationRound` (one turn of `activation_process`'s loop), `DeliverActivation`
  (`receive_activation`, with the suppression it broadcasts and
  `receive_suppress`; the acknowledgement may be lost and the frame come again),
  `GiveUp`.

A broadcast reaches any subset of the neighbours, in one step: the radio is
immediate, and receivers touch only their own state. The order of the entries in
the list is left open. When a root floods its own tree while it has another
root's update queued, `ipolite_send` frees the queued buffer and the timer sends
what has become of it: either outcome is allowed. Queue buffers are assumed
available. `Reliable` stands for: no loss, routes refreshed before they expire, an
activation acknowledged before the next round (a second or more later).
History: `heard` (the last update taken, of each root), `lost` (an activation that
came to nothing, in one of the ways the code has).

### TikiMgr (`tikidb-mgr.c`, `tikidb-buffer.c`, of `statement.c`, `table.c` and `scopes.c` what they decide)

One node. `stm[q]`: what the list holds under statement id `q`: nothing, a SELECT
("real"), or the statement object a forwarder makes up for results of a statement
it never got ("dummy"); with `elapsed` and `lifetime` in sample periods and the
temporary table. `periodic`, `slot`: the two timers. `tables`: the buffer; a table
is the set of its rows' keys `<<node, epoch>>` and the epoch of its first row,
which is all that `resultset_get_epoch` looks at. `role[s]`: what `scopes.c` and
`scopes-selfur.c` make of the node in scope `s` - member, forwarder, bystander
(known, neither), relay (forwards, but `scopes.c` does not know the scope) or
nothing.

* `ReceiveSelect`, `Disseminate` - `handle_statement` for a SELECT from the network
  and from the node's user, each with its first `handle_select_statement`;
  `StartInDirtyBlock` the same in a block of memory that holds no zeros.
* `PeriodicTimer` - `handle_select_statement`: counts the epoch, sets the slot
  timer, or ends the statement (`End`).
* `SlotTimer` - `do_select_statement` and `forward_resultset`: the member's own row
  and the union, where the report goes, the table that is dropped.
* `ReceiveResult` - `handle_resultset`, as a member (`ResultAtMember`) or as a
  forwarder (`ResultAtForwarder`), with the union of tables in `Merge`.
* `ChangeRole`, `Leave` - the callbacks of `scopes.c`, and the changes of role the
  manager is not told of. OPEN and CLOSE statements are listed, handed to
  `scopes.c` and freed within one call: here they are the change they cause.

A report of a child has at most `MaxRows` rows of one epoch and the next: a late
result waits in its parent's table for one more report, and its row is the first
of it. `fault` says that the node ran into undefined behaviour and which: a table
that is not there, a division by a period of zero or by half a slot of zero, a statement freed or never
initialised, a full table (`table_union` returns NULL and its id is read), no free
table id. A faulty node takes no further step, since nothing in the source says
which it would take.

`Execute` is one call of `handle_select_statement` (`tikidb-mgr.c:179`). Its
arithmetic on `sample_period` is that of three kinds (`Periods`): a period of zero is
divided by (`:199`); one of less than two ticks for each tree level makes
`slot_length / 2` zero, which `random_rand()` is taken modulo (`:212-213`); any other
sets the timers. The last execution comes before all of that.

`steady` is a history variable: no scope changed its role while a statement used
it, every statement had one scope, of which its issuer was a member, and an ample
period, `malloc` returned zeros, no SELECT ended with
its first execution at the node that issued it, and none came from farther
away than the tree height written into it. `SafeWhenSteady` and
`ReportsWhenSteady` say what that is enough for; section 7 has what each of the
conditions keeps out. `leaked` counts the tables ended statements left behind.

### SolarCollect (`collect_final/solar.c`, `etimer.c`, of `process.c` the queue)

`timerlist` with the ticks `left` is the event timer process's list; a timer has
expired for the application when it is off the list. `events`: what is queued for
the process. `time` is one of the energest counters, `begin` the value at the top
of the loop, `acc` the sum, `packet` what was sent last.

* `Settled` - the wait for the network; `Round` - from an event to the reads of the
  counters for the deltas (`solar.c:114-203`): the packet if `et` has expired, and
  the sums (`EndOfRound`); `Restart` - from the reads for the next round's start to
  the next `PROCESS_WAIT_EVENT` (`:96-114`): the timers if `periodic` has expired
  (`TopOfLoop`). In between, `computing` holds: the counters go on, while neither
  `Poll` nor another process runs.
* `Tick`, `Poll`, `Other` - the clock; `etimer_process`, which posts the events
  of expired timers in list order until the queue is full; a broadcast of another
  process.

`random_rand() % Period` is any delay below the period, and the clock may tick
between the two `etimer_set` (`skew`). `sent`, `others`, `ended` are counts per
period. `counted` and `upto` are history: the ticks the component has been on
within rounds, now and when the last round ended. A tick may find the component on
or off.

### Membership (`scopes-membership-simple.c`, of `scopes-repository.c` the lookup)

`Operand`, `ParseLiteral`, `ReadByte` are the interpreter: what it has left to read
(`rest`), its flag (`bad`), and operands that stay uninitialised where none can be
read (`wild`); `Judge` is `check`. `Meanings` says what a specification means without
an interpreter: a string of bytes is an expression if it is the code of an
operation and expressions side by side, and its value is the operation's on
theirs. It is a set, so that nothing is assumed about there being only one way
to take a string apart. Both are recursive functions over byte strings. The
state machine lengthens a specification byte by byte, which enumerates all of
them. `int` is 16 bits wide, as on the deployed MSP430.


## 4. Runs

| Run | Instance | Question and answer |
|---|---|---|
| `frag` | children `a`, `b`, parent `r`; packets of 3, 3, 2 fragments and a 1-fragment message of `r`'s own; ids mod 2; at most 3 fragments in flight on a link; loss | In a reassembly begun by fragment 0 packets never mix, what it hands up is whole, its timer runs exactly while it is open, it ends. 116,458 states |
| `frag_link` | one child, a message of 3 fragments and one of 1, ids mod 5, 7 fragments in flight, no loss | `FragLink` implements `DatagramLink`. 1,821 states |
| `frag_two_children` | the same nodes, packets of 2 fragments, ids mod 3, nothing composed by `r`, no loss | violation: a mixture is delivered (section 7) |
| `scopes` | 3 ids nested up to 3 deep, opened here, elsewhere or both; an application that may register again in its subscriber block; 3 scope blocks, 1 route, 2 entries; use counts up to 2 | types, forest, timers, agreement of the two layers, own trees remain; soft state is forgotten, own scopes are announced again. 69,650 states |
| `scope_list` | 5 ids, the real table size; symmetric in the ids, since the properties are about safety | the recursive walk removes exactly the subtree, keeps scopes behind their super scopes, and gets nearer its end with every iteration. 7,681 states |
| `selfur` | root and two nodes, all in range of each other; one scope; three tree updates, numbers mod 4; every loss and expiry | no circle, justified suppression, no forgotten activation. 127,224 states |
| `selfur_live` | root, `a`, `b` in a line; one scope, three updates; nothing lost | a member comes to be served. 2,601 states |
| `selfur_two_scopes` | the same with two scopes, one update | violation: the second scope is never activated |
| `tiki` | 2 statements over 1 scope, any sample period, lifetimes of 0, 1 and 3 of them, 2 tables of 2 rows, one other node whose rows are of epochs 1 and 2 | timers and tables stay with their statements, results are recent, statements end, a steady node is safe and its reports get out. 434,498 states |
| `tiki_relay` | the same with 1 statement | violation: a relay's report is dropped by its own scope layer |
| `solar` | settling 1 tick, period 3, queue of 3 events, counters modulo 5; an event of another process comes while fewer than 2 are counted in the period | `et` never outlives `periodic`, packets per period, energies, sending goes on. 432,541 states |
| `membership` | every specification of up to 5 bytes over 10 byte values: 9 operations (of each kind of operand) and one byte that is none | the interpreter returns the meaning. 111,111 states |

Why the bounds are enough. *Fragments*: a mixture needs two packets of two
senders and one of the same sender with the next id, and a packet with a middle
fragment; ids mod 2 make ids come round. *Scopes*: nesting of three has a scope
whose super and whose sub may be removed; tables are smaller than the number of
ids, so they fill up; an application may find the subscriber
block it had before. *Selfur*: a
circle needs at least two nodes beside the root, each of which can hear the
root and the other; three updates allow a node to be two behind and a copy to be overtaken.
*TikiMgr*: two statements compete for two tables, and a member that reports needs one for its own row, so the buffer fills up; tables of
two rows hold one result and overflow with the next; of lifetimes 0, 1 and 3, the
first ends even without a period, the second with its first execution, and the third lives through two reports, so
that a late row can wait for one. *SolarCollect*: a period of three ticks has
delays before, at and (with the skew) just at its end, and three places in the
queue are filled by the two timers and one other event. *Membership*: five bytes
hold an operation on two literals, three nested ones on one, or a division by an
operand that was cut off.
The theorems of section 6 take the safety properties of every passing run beyond
these bounds.

Bounds that are in no code and stand in guards: `QueueBound` (fragments in flight),
`UseMax` and `CounterMax` (use counts), `MaxUpdates` (floods of a root), `MaxEpoch`
(epochs of the rows that arrive), `MaxOther` (events of other processes in a
period), `MaxLength` (bytes of a specification). Everything else is a parameter of
the code. `scopes` has one application: a subscriber block is known by its place,
so one that unregisters and registers again finds the scopes it left, which is
what a second application would find.

Deadlock is checked in the runs on FragUnicast, Scopes, ScopeList and
SolarCollect. It is off for Selfur, where the network rests with its updates used
up and nothing pending, for TikiMgr, where a faulty node takes no step, and for
Membership, which stops at the longest specification.


## 5. Fairness

* `FragUnicast`: weak fairness of receiving on each link (the radio's process
  hands over what it has) and of an armed reassembly timer. Nothing is assumed of
  senders or of losses.
* `Scopes`: weak fairness of each ttl timer (it fires, or an OPEN sets it anew)
  and of the lock timer. Nothing is assumed of calls and messages:
  `ForgottenUnlessHeard` says the scope is either heard again and again or gone,
  and `AnnouncedAgain` excepts a node whose tree is rebuilt again and again, since
  announcements during the lock interval are dropped.
* `Selfur`: weak fairness, per node, of sending the queued copy, of the activation
  round and of delivering what is being transmitted. `BuildTree`, `HearOpen`,
  joining and leaving are not fair. `MemberServed` therefore excuses a member
  whose next hop is ahead of it or has had no OPEN.
* `TikiMgr`: weak fairness of each statement's periodic and slot timer, for these
  are `ctimer`s: they fire. Messages, users and roles owe nothing.
* `SolarCollect`: weak fairness of the clock, of polling the event timer process
  and of handing queued events to the process, which is what Contiki's main loop
  (`process_run`) does. Nothing is assumed of other processes: `KeepsSending`
  holds if no event but the timers' ever comes.


## 6. Proofs

All by TLAPS, for all values of the constants, from the named assumptions on
constants only (`FragAssumption`, `LinkAssumption`, `ScopesAssumption`,
`ScopeListAssumption`, `SelfurAssumption`, `TikiMgrAssumption`,
`SolarCollectAssumption`, `MembershipAssumption`). Every invariant and action
property of a passing run is a theorem; the refinement of `DatagramLink` is one
without its liveness.

**FragUnicastProofs.** `TypeCorrect`; `SessionsNeverMix` and `DeliveriesWhole`;
`TimerCorrect`. The inductive invariant is `SessionInv` = types,
`FragmentsWellFormed` (a fragment in flight carries its own part of a message of
the link's sender, and that message's length), `IdsAgree` (fragments in flight on
a link with one id are of one message), `SessionFragments` (fragments in flight
that carry the id of the open session are of the session's message),
`SessionIntegrity`, `DeliveryIntegrity`. `SessionIntegrity` alone is not
inductive: nothing in it says that the next fragment with the session's id
belongs to it. `IdsAgree` and `SessionFragments` do, and survive `Send` because
of `IdIsFree`.

**FragLinkProofs.** `DatagramImplemented` (`LinkSpec => Datagram!SafeSpec`) and
`OneChildDeliveredWhole`: for one child and no loss, the comment that
`frag_two_children` refutes for two holds. The assumptions are those of the run:
one link, whose parent has no messages of its own, and `Reliable`. The inductive
invariant is `LinkInv`, on top of the types: `Stream`, the fragments in flight are
those of the messages waiting from some fragment of the first on, with no gap and
in order (`Placed` maps each fragment to the place of its message, `Follows` says
what may come next); `Reassembly`, an open session holds exactly the fragments of
the first message that are no longer in flight; `Fresh`, without a session a packet
begins. The mapping `pos` makes "none is missing" a statement about neighbours
instead of a recursion over the sequence. With two children `Reassembly` fails at
its first conjunct: a session's next fragment need not be at the head of the
other link.

**ScopesProofs.** `TypeCorrect`; `ForestCorrect`, `TimersCorrect`,
`JoinedCorrect` from `ScopesInv` = types, `Forest`, `TtlTimersMatch`,
`JoinedIsMember`, which is inductive as a whole: a removal keeps the forest
because `Subtree` is the least set closed under sub-scopes (`SubtreeClosed`,
`SubtreeLeast`). `OwnTreeCorrect`, an action property: the scopes outside an own
tree form a set that is closed under sub-scopes (`OutsideOwnTree`), so a removal
that begins outside stays outside, and messages and timeouts never begin one
inside.

**ScopeListProofs.** `SuperFirstCorrect`, `WalkProgressCorrect`,
`ScopeSetImplemented` (`Spec => ImplementsScopeSet`). `WalkInv` says of the list that
its elements are distinct and in order (`ListInv`, which has `SuperFirst`), of each
call that `previous` is right in front of `current` and nothing up to it is a sub of
the call's scope (`Calls`, `CallAt`), of two calls that the inner one's scope is the
outer one's `current` (`Chain`), hence that the scopes of the calls stand in the
order of the calls (`Deeper`), and what has been removed since `before` (`History`).
The hard step is `Return`: the element taken off stands behind all that the outer
calls remember, because a sub is behind its super scope, so that `previous` is
still on the list. `WalkProgress` gives a measure that falls with each iteration:
the length of the list, then the place of the innermost scope, then what its call
has left. That an element whose subs are all gone is reached again is not a
matter of luck: `NoSubLeft`.

**SelfurProofs.** `TypeCorrect` in general. `LoopFreeCorrect`,
`SuppressionCorrect`, `UpstreamCorrect` under `OneRoot`: there is one root, and
its sequence number has not come round (`MaxUpdates <= SeqMod`). Both
assumptions are needed: section 7 has what happens otherwise. With `Relayed(n)`
for the last update a node has relayed, `TreeInv` says that what is queued is
`Relayed(n)` and carries the node's own hop count unless the node has taken
something newer (`QueueInv`), that a node has taken what it relayed (`HeardInv`),
and that a next hop other than the root has relayed at least what the node has
taken, and is one hop closer if both have taken the same (`RouteInv`). Then in a
set of nodes whose routes stay inside the set, those that heard the latest
update have next hops that heard it too and are one hop closer, and the one with
the least hop count has none (`TreeIsLoopFree`). `LoopFree` is far from
inductive: it does not mention hop counts or updates, and a node may well take
an update later from a farther neighbour, or not relay one it has taken because
of the hop limit. The activation properties are inductive together with
`TreeInv`, which shows that a next hop that is reset by an update it takes leaves
those routed through it *behind*; everything else about them is one case per
action.

**TikiMgrProofs.** `TypeCorrect`, `TimersLiveCorrect`, `TablesAccountedCorrect`,
`DummyHasTableCorrect`, `CollectsRecentCorrect`, `SteadyIsSafe`, `SteadyReports`. The
inductive invariant is types, the safety properties of the run, and three facts
they do not contain: the node is always a member of the world (`WorldMember`), no
table in use is blank, so that an id in use is never given out again
(`TablesOwned`, from which `TablesAccounted` follows), and what a steady node's
statements say of its roles (`SteadyRoles`: a dummy is a forwarder's and not a
disseminator's, a SELECT's scopes have the node as a member, its period is ample,
and its slot is not late). `SafeWhenSteady`
needs all of them: `SlotTimer` finds a table because of `DummyHasTable`, a result
at a member meets no dummy because of `SteadyRoles`, a statement that ends leaves
no timer because of `TimersLive`. One lemma per action, and for the union of two
tables one on cardinalities.

**SolarCollectProofs.** `TypeCorrect`, `AlwaysFasterCorrect`,
`EveryPeriodSendsCorrect`, `PacketsPerPeriodCorrect`, `CountedOnceCorrect`,
`PacketLagsCorrect`. `AlwaysFaster` is not inductive: it says nothing of two timers
that are both still running. `Ordered` does: as long as `periodic` is on the list,
`et` has expired, or is due no later than `periodic` and stands before it on the
list, which is the order in which both are posted. That is where it
matters that `periodic` is set first and `et` goes to the head of the list
(mutant `SetPeriodicLast`). `Quota` bounds the packets of a period together with
the events still in the queue. `EveryPeriodSends` needs `Sends` as well: `periodic` is
looked at only after the computing, and by then `et` must not have expired
unnoticed, or it would be set anew without its packet. The
energies are sums modulo `Wrap`, for which there are two lemmas on remainders;
`Lagging` says that the sum over the rounds is `upto`.

**MembershipProofs.** `TypeCorrect`, `JudgedByMeaningCorrect`,
`MalformedIsFalseCorrect`, for specifications of any length
over any bytes and any values in the repository. `Operand` and `Meanings` are
recursive functions on byte strings, and the library's theorem about such functions
has an operator as a parameter. `FixedPoint` takes a function from approximations
to approximations in its place: if its value at `t` depends on its argument at
shorter strings only, it has a fixed point. `StepLooksAhead` and `MeaningsLookAhead`
show that of the two definitions, and `ByLength` (induction, for a set instead of a
predicate) that there is no second solution. `BinaryIsValue` is the interpreter's
arithmetic against the mathematical one: the three predicates that negate another,
16-bit wrapping, and C's division (`Truncation`). Then two inductions on length.
`Reads`: whatever follows an expression, the interpreter leaves exactly that,
sets no flag, meets undefined behaviour where and only where the expression
divides by zero, and has its value otherwise. `Accepted`: bytes the interpreter
does not set its flag for begin with an expression. The three theorems are two or
three lines from there, with `Inv`: the verdict is that of the specification. It
follows from `Reads` that an expression has one value only, and from what it
leaves unread that a specification begins with one expression at most.

Least elements come from the library's `WFMin` and `NatLessThanWellFounded`: the
induction theorems with an operator parameter cannot be used by the provers here.
`LeastNumber` and `ByLength` state them for sets.


## 7. What was found

Three disagreements between the code and what its comments say of it; each is a
run with a counterexample.

1. `frag_two_children` - an idle connection admits a fragment from the middle of
   a packet whose start it discarded, on top of the bitvector of the packet just
   completed (`frag_unicast.c:75`). One child's buffer is handed up under the
   other's name.
2. `selfur_two_scopes` - all due activations are cleared and handed to one
   connection in one loop; all but the first are refused and not tried again
   (`scopes-selfur.c:801`). The next tree update makes them due together again.
3. `tiki_relay` - results that reach a node whose routing layer forwards for a
   scope its scope layer does not know are delivered and collected
   (`scopes.c:498`), but the report made of them is dropped by `scopes_send`
   (`scopes.c:300`).

Behaviours the models have, or that were met while writing them, that no run pins
down:

* *Two roots.* netflood remembers one originator. Let `a` be in range of the
  roots `r` and `q` and of `b`. `a` takes and relays `r`'s update 1, `b` takes it
  and queues its copy; `a` takes `q`'s update, which makes `q` the last
  originator; then `a` hears `b`'s copy of `r`'s update, takes it for new, and sets
  its next hop for `r` to `b`, whose next hop is `a`. Data and activations for
  `r`'s scopes run in that circle until the next update. `Selfur` has this
  behaviour as soon as `Roots` has two elements, which is why `LoopFree` is stated
  and proved for one.
* *`scope_counter`.* The routing layer's `remove` counts down for every removed
  scope without a scope entry (`scopes-selfur.c:518-526`), on the assumption
  that those are the node's own. A remote scope whose entry went with its route,
  or never fitted into the table, counts as well. A node with one scope of its
  own and one such remote scope has its counter at zero when the latter is
  removed, and no longer rebuilds the tree of the former
  (`scopes-selfur.c:773`). `Scopes` has the counter and this behaviour;
  `TypeOK` only shows that it stays within its bounds.
* *Receiving from nobody.* If the first fragment a connection ever gets is not
  number 0, it is RECEIVING from the null address with a timer that was never set
  (`frag_unicast.c:101`): `timer` is "unset", every send is refused, and nothing
  ends it.
* *Announced after its CLOSE.* A scope closed within the second before its first
  announcement is announced all the same, from its freed block
  (`scopes.c:227`).
* *The 256th tree update.* `tree_seqno` is a `uint8_t` that netflood compares without
  wrap-around (`scopes-selfur.c:572`, `netflood.c:91`): after eight and a half hours
  a lone root is ignored by all who have heard it. This is why `LoopFree` is
  proved under `MaxUpdates <= SeqMod`.
* *Late results.* A child's result that comes after its parent's report of that
  epoch stays in the table and is the first row of the next report, which the
  grandparent therefore discards whole as one of the wrong epoch
  (`tikidb-mgr.c:812`). `CollectsRecent` says that it is never worse than that, at a
  member: an issuer that only forwards for the scope takes results of any epoch.
* *Dummies.* Nothing ends a dummy. The SELECT with its id is refused from then on as
  one that is already running; if the node becomes a member, the next result
  divides by the dummy's `sample_period` of zero (`tikidb-mgr.c:754`), or its own
  report reads lists that were never initialised (`:277`); and where its
  disseminator flag happens to hold TRUE, its results go to the upper layer of a
  node that asked nothing (`:431`). Each result sets its slot timer back, so a
  busy branch's report may be late.
* *Memory from `malloc`.* `unmarshall_select` sets neither `elapsed_lifetime` nor
  `temporary_table_id`. In a block that has been used before, a SELECT may end at
  once, or count a wrong epoch and reset a timer that was never set
  (`tikidb-mgr.c:200-208`). The disseminator's `scope_id` is never set either.
* *Short SELECTs.* A SELECT whose lifetime is one period is freed by its first
  execution and disseminated from the freed block (`tikidb-mgr.c:685-688`).
* *Leaving a scope* (`tikidb-mgr.c:591`, "if there are queries running on that scope,
  stop them") ends only the first, since `list_remove` clears the pointer the walk
  goes on by. The others keep their timers, and being no members any more they
  report a table they may not have.
* *Dead parts.* `statement_unmarshall` returns NULL for STOP and LIST
  (`statement.c:317-325`), so their handlers never run; `parse_where_clause` and
  `parse_group_by_clause` return only when `malloc` fails (`statement.c:184`), so that
  a query with WHERE or GROUP BY hangs the node, and conditions and aggregation
  are never evaluated.
* *Two packets per interval.* `solar.c:108` says "Send a packet every
  SEND_INTERVAL_SECONDS", but `et` stays expired after its event, so the event of
  `periodic` sends another, and so does every other event until then.
  `PacketsPerPeriod` and `EveryPeriodSends` say what is true instead: at least one
  packet, and at most one for each event of a timer, of another process or left
  over from before. The energies of the first packet are zero (`PacketLags`).
* *Time in no round.* `solar.c` reads the energy counters for the deltas at 181-187
  and anew for the next start at 99-105. What passes in between, seven soft-float
  computations, is in no delta, and all of it is time of the CPU. `CountedOnce` says
  that all other time since the first round is counted once, not that none is lost.
* *Short periods.* Nothing checks `sample_period`. Zero is divided by
  (`tikidb-mgr.c:199`), and of a period of less than two ticks for each tree level
  half a slot is zero ticks, modulo which a random number is taken (`:212-213`): the
  first execution is undefined at every node that gets such a SELECT, unless it is
  also the last. `SafeWhenSteady` is about ample periods only. The endless lifetime
  (`INFINITY_LIFETIME`, `tikidb-types.h:11`) is the greatest `unsigned long`, which
  `elapsed_lifetime` steps over; lifetimes are those it reaches.

The hazards, each at its line and with the properties that guard it, are listed in
`PROJECT.json`.


## 8. What is only model-checked, and what is not modelled

Out of the provers' reach, and checked by TLC alone: the liveness properties
(`SessionEnds`, `ForgottenUnlessHeard`, `AnnouncedAgain`, `MemberServed`,
`StatementEnds`, `KeepsSending`), and of `ImplementsDatagram` the fairness of the
abstract link. `WalkProgress` is a measure stated as an action property, and is
proved; that the walk ends follows from it, but not within the provers, since
that is a liveness property as well.

Not modelled in the components that are:

* bytes below the fragment; `frag_unicast_close`, which is never called;
* the hop count reports of `scopes-selfur.c` with the `tmp_timer` that may outlive
  its routing entry: their one product is the tree height, and a statement's slot
  in `TikiMgr` takes any;
* the one message netflood queues per connection in the data flood, which an OPEN
  and a CLOSE may overwrite for each other (a lost message in `Scopes`); DATA in the
  world scope, whose owner is a null pointer;
* several nodes with both a scope layer and a manager: a second node is always the
  environment of one of the two, or a set of routing tables in `Selfur`. The
  product of the state spaces of `Scopes` (69,650 states) and `Selfur` (127,224) is
  out of TLC's reach at sizes where anything happens, and `TikiMgr` with two nodes
  likewise;
* column values, projection and aggregation (`dbms-operations.c`): they decide
  nothing the manager does, and without GROUP BY aggregation is not reached;
* the handlers of STOP and LIST, `tikidb_mgr_close` and WHERE conditions, which are not
  reachable (section 7);
* the heap: a statement's list node that is never freed (`tikidb-mgr.c:536`) or a
  result's table that is discarded unfreed (`:812`) shows only when `malloc` fails;
* the repository's sampling process, a timer around sensor I/O.

Not to be modelled are the flooding routing (not built), the shell, the Java
client, the test drivers, the older applications and the sensor drivers (I/O
without state of their own), and Contiki beyond what the modelled code relies on:
it is vendored, and most of the repository's lines are processor headers, IP and
drivers this program does not use.
