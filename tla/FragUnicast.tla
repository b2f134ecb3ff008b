---------------------------- MODULE FragUnicast ----------------------------
(***************************************************************************)
(* The single-hop fragmenting unicast of SCoPES (frag_unicast.c), over     *)
(* which a node sends data towards the creator of a scope (scopes_send     *)
(* with to_creator set, scopes-selfur.c's send).                           *)
(*                                                                         *)
(* Every node owns ONE connection, and that connection owns ONE buffer: it *)
(* is where the node composes what it sends and where it reassembles what  *)
(* it receives.  Handlers run to completion (Contiki is cooperative), so   *)
(* composing and sending all fragments is one action, and the status       *)
(* SENDING, which exists only inside frag_unicast_send's loop, is never    *)
(* visible to another action.                                              *)
(*                                                                         *)
(* Lengths are counted in fragments and a fragment's bytes are the pair    *)
(* <<message, fragment number>>.  The radio (external: nullmac over        *)
(* nullrdc) keeps the order of a sender's fragments and may lose any.      *)
(***************************************************************************)
EXTENDS Naturals, Sequences, FiniteSets

CONSTANTS
  Nodes,        (* the nodes in radio range of each other                  *)
  Links,        (* the <<child, parent>> pairs data is sent over           *)
  Messages,     (* the contents the nodes send towards a creator           *)
  Source,       (* Source[m]: the node that composes message m             *)
  Frags,        (* Frags[m]: the number of fragments message m needs       *)
  MaxFragments, (* MAX_FRAGMENTS                                           *)
  IdMod,        (* packet ids are counted modulo this (256: a uint8_t)     *)
  NoNode,       (* rimeaddr_null                                           *)
  NoMessage,    (* no open session, nothing delivered yet                  *)
  Reliable,     (* TRUE: no loss, and no fragment later than the timeout   *)
  QueueBound    (* BOUND: fragments in flight on one link                  *)

ASSUME FragAssumption ==
  /\ Links \subseteq Nodes \X Nodes
  /\ Source \in [Messages -> Nodes]
  /\ MaxFragments \in Nat \ {0}
  /\ Frags \in [Messages -> 1 .. MaxFragments]
  /\ IdMod \in Nat \ {0}
  /\ NoNode \notin Nodes
  /\ NoMessage \notin Messages
  /\ Reliable \in BOOLEAN
  /\ QueueBound \in Nat

VARIABLES
  status,    (* c->status: "IDLE" or "RECEIVING"                           *)
  from,      (* c->from: the sender of the packet being reassembled        *)
  lastRecv,  (* c->last_received_packet_id                                 *)
  lastSent,  (* c->last_sent_packet_id                                     *)
  bits,      (* c->bitvector_received_fragments, as a set                  *)
  buffer,    (* c->buffer, one cell per fragment                           *)
  length,    (* c->buffer_len, in fragments                                *)
  timer,     (* c->reassembly_timer: "unset" (never set: no callback and   *)
             (* no interval), "armed" or "stopped"                         *)
  chan,      (* the fragments in flight on each link                       *)
  session,   (* HISTORY: the message whose fragment 0 opened the session,  *)
             (* NoMessage when there is none or when the node composed     *)
             (* into the buffer after it                                   *)
  up         (* HISTORY: what this step gave to the recv callback          *)

conn == <<status, from, lastRecv, bits, timer, session>>
vars == <<status, from, lastRecv, lastSent, bits, buffer, length, timer, chan,
          session, up>>

Cells    == 0 .. MaxFragments - 1
Cleared  == <<NoMessage, 0>>              \* a cell buffer_clear has zeroed
Cell     == (Messages \X Cells) \cup {Cleared}
PacketId == 0 .. IdMod - 1

(* struct fragment_hdr and the payload it travels with.                    *)
Fragment == [packet_id : PacketId, fragment_nr : Cells, buffer_len : 1 .. MaxFragments,
             payload : Messages \X Cells]

(* What a step hands to a node's recv callback.                            *)
Delivery == [to : Nodes, from : Nodes, cells : [Cells -> Cell], length : 0 .. MaxFragments,
             session : Messages \cup {NoMessage}]
Nothing  == [to |-> NoNode]

(***************************************************************************)
(* frag_unicast_open, on the zeroed static connection of scopes-selfur.c.  *)
(***************************************************************************)
Init ==
  /\ status   = [n \in Nodes |-> "IDLE"]
  /\ from     = [n \in Nodes |-> NoNode]
  /\ lastRecv = [n \in Nodes |-> 0]
  /\ lastSent = [n \in Nodes |-> 0]
  /\ bits     = [n \in Nodes |-> {}]
  /\ buffer   = [n \in Nodes |-> [k \in Cells |-> Cleared]]
  /\ length   = [n \in Nodes |-> 0]
  /\ timer    = [n \in Nodes |-> "unset"]
  /\ chan     = [l \in Links |-> <<>>]
  /\ session  = [n \in Nodes |-> NoMessage]
  /\ up       = Nothing

(***************************************************************************)
(* Sending.                                                                *)
(***************************************************************************)

(* buffer_clear, the copy of the message and buffer_setlen: scopes_send    *)
(* does all three before it asks whether the connection is free.           *)
Compose(n, m) ==
  /\ Source[m] = n
  /\ buffer'  = [buffer EXCEPT ![n] = [k \in Cells |->
                   IF k < Frags[m] THEN <<m, k>> ELSE Cleared]]
  /\ length'  = [length EXCEPT ![n] = Frags[m]]
  /\ session' = [session EXCEPT ![n] = NoMessage]

(* The fragments frag_unicast_send cuts the buffer into.                   *)
Fragments(id, m) ==
  [i \in 1 .. Frags[m] |->
     [packet_id |-> id, fragment_nr |-> i - 1, buffer_len |-> Frags[m],
      payload |-> <<m, i - 1>>]]

NextIdUnwrapped(n) == lastSent[n] + 1      \* MUTANT: no wrap-around
NextId(n) == (lastSent[n] + 1) % IdMod

(* ENVIRONMENT: a sender does not come round to a packet id while a        *)
(* fragment, or a reassembly, of the packet that last had it is alive: it  *)
(* would have to send IdMod packets within REASSEMBLY_TIMEOUT.             *)
IdIsFree(l) ==
  LET id == NextId(l[1]) IN
  /\ \A i \in 1 .. Len(chan[l]) : chan[l][i].packet_id # id
  /\ ~ /\ status[l[2]] = "RECEIVING"
       /\ from[l[2]] = l[1]
       /\ lastRecv[l[2]] = id

(* scopes_send towards the creator when the connection is IDLE.            *)
Send(l, m) ==
  /\ status[l[1]] = "IDLE"
  /\ IdIsFree(l)
  /\ Len(chan[l]) + Frags[m] <= QueueBound
  /\ Compose(l[1], m)
  /\ lastSent' = [lastSent EXCEPT ![l[1]] = NextId(l[1])]
  /\ chan' = [chan EXCEPT ![l] = @ \o Fragments(NextId(l[1]), m)]
  /\ up' = Nothing
  /\ UNCHANGED <<status, from, lastRecv, bits, timer>>

(* scopes_send towards the creator when nothing leaves the node: the       *)
(* connection is busy (FRAG_CONNECTION_BUSY), the tree is locked, or there *)
(* is no entry for the scope.  The buffer has been overwritten by then.    *)
SendRefused(n, m) ==
  /\ Compose(n, m)
  /\ up' = Nothing
  /\ UNCHANGED <<status, from, lastRecv, lastSent, bits, timer, chan>>

(***************************************************************************)
(* Receiving.                                                              *)
(***************************************************************************)

(* MUTANT: the packet id is not compared.                                  *)
AcceptsAnyId(n, s, f) ==
  status[n] = "IDLE" \/ (status[n] = "RECEIVING" /\ from[n] = s)

(* The test at the top of recv_from_unicast.                               *)
Accepts(n, s, f) ==
  \/ status[n] = "IDLE"
  \/ /\ status[n] = "RECEIVING"
     /\ from[n] = s
     /\ f.packet_id = lastRecv[n]

(* MUTANT: fragment 0 does not clear the bitvector.                        *)
BitsKept(n, f) == bits[n] \cup {f.fragment_nr}

(* The bitvector once a fragment is in: fragment 0 clears it first.        *)
BitsAfter(n, f) ==
  (IF f.fragment_nr = 0 THEN {} ELSE bits[n]) \cup {f.fragment_nr}

(* bitvector_all_received, for the number of fragments the header gives.   *)
AllReceived(received, f) == 0 .. f.buffer_len - 1 \subseteq received

(* MUTANT: a later fragment stops the timer instead of restarting it.      *)
TimerStoppedByLater(n, f) ==
  IF f.fragment_nr = 0 THEN "armed" ELSE IF timer[n] = "unset" THEN "unset" ELSE "stopped"

(* ctimer_set for fragment 0, ctimer_restart for any other: a timer that   *)
(* was never set has no interval and no callback, and stays without.       *)
TimerAfter(n, f) ==
  IF f.fragment_nr = 0 \/ timer[n] # "unset" THEN "armed" ELSE "unset"

(* MUTANT: the timer is left running when the packet is complete.          *)
TimerLeftRunning(t) == t

(* ctimer_stop.                                                            *)
TimerStop(t) == IF t = "unset" THEN "unset" ELSE "stopped"

(* A fragment of a packet the connection is not reassembling is discarded. *)
Discard(l) ==
  /\ chan[l] # <<>>
  /\ ~ Accepts(l[2], l[1], Head(chan[l]))
  /\ chan' = [chan EXCEPT ![l] = Tail(@)]
  /\ up' = Nothing
  /\ UNCHANGED <<conn, lastSent, buffer, length>>

(* recv_from_unicast, up to the test for completeness.                     *)
Accept(l, f) ==
  LET n == l[2] IN
  /\ chan[l] # <<>>
  /\ f = Head(chan[l])
  /\ Accepts(n, l[1], f)
  /\ chan'   = [chan EXCEPT ![l] = Tail(@)]
  /\ bits'   = [bits EXCEPT ![n] = BitsAfter(n, f)]
  /\ buffer' = [buffer EXCEPT ![n][f.fragment_nr] = f.payload]
  /\ IF f.fragment_nr = 0
       THEN /\ from'     = [from EXCEPT ![n] = l[1]]
            /\ lastRecv' = [lastRecv EXCEPT ![n] = f.packet_id]
            /\ length'   = [length EXCEPT ![n] = f.buffer_len]
       ELSE UNCHANGED <<from, lastRecv, length>>
  /\ UNCHANGED lastSent

(* The message that owns the session after fragment f.                     *)
SessionAfter(n, f) == IF f.fragment_nr = 0 THEN f.payload[1] ELSE session[n]

(* A fragment that leaves the packet incomplete.                           *)
Collect(l) ==
  LET n == l[2]
      f == Head(chan[l])
  IN
  /\ Accept(l, f)
  /\ ~ AllReceived(BitsAfter(n, f), f)
  /\ status'  = [status EXCEPT ![n] = "RECEIVING"]
  /\ timer'   = [timer EXCEPT ![n] = TimerAfter(n, f)]
  /\ session' = [session EXCEPT ![n] = SessionAfter(n, f)]
  /\ up' = Nothing

(* The fragment that completes the packet: the timer is stopped, the       *)
(* connection is IDLE again and the callback is given the buffer.          *)
Complete(l) ==
  LET n == l[2]
      f == Head(chan[l])
  IN
  /\ Accept(l, f)
  /\ AllReceived(BitsAfter(n, f), f)
  /\ status'  = [status EXCEPT ![n] = "IDLE"]
  /\ timer'   = [timer EXCEPT ![n] = TimerStop(TimerAfter(n, f))]
  /\ session' = [session EXCEPT ![n] = NoMessage]
  /\ up'      = [to |-> n, from |-> l[1], cells |-> buffer'[n], length |-> length'[n],
                 session |-> SessionAfter(n, f)]

(* drop_fragments.  Under Reliable, the sender's fragments have all        *)
(* arrived long before the five seconds are over.                          *)
ReassemblyTimeout(n) ==
  /\ timer[n] = "armed"
  /\ Reliable => \A l \in Links : l[2] = n => chan[l] = <<>>
  /\ length'  = [length EXCEPT ![n] = 0]
  /\ from'    = [from EXCEPT ![n] = NoNode]
  /\ bits'    = [bits EXCEPT ![n] = {}]
  /\ status'  = [status EXCEPT ![n] = "IDLE"]
  /\ timer'   = [timer EXCEPT ![n] = "stopped"]
  /\ session' = [session EXCEPT ![n] = NoMessage]
  /\ up' = Nothing
  /\ UNCHANGED <<lastRecv, lastSent, buffer, chan>>

(* The radio loses the next fragment of a link.                            *)
Lose(l) ==
  /\ ~ Reliable
  /\ chan[l] # <<>>
  /\ chan' = [chan EXCEPT ![l] = Tail(@)]
  /\ up' = Nothing
  /\ UNCHANGED <<conn, lastSent, buffer, length>>

Next ==
  \/ \E l \in Links, m \in Messages : Send(l, m)
  \/ \E m \in Messages : SendRefused(Source[m], m)
  \/ \E l \in Links : Discard(l) \/ Collect(l) \/ Complete(l) \/ Lose(l)
  \/ \E n \in Nodes : ReassemblyTimeout(n)

Spec == Init /\ [][Next]_vars

(* The radio hands over what it has received, and an armed ctimer fires.   *)
Fairness ==
  /\ \A l \in Links : WF_vars(Discard(l) \/ Collect(l) \/ Complete(l))
  /\ \A n \in Nodes : WF_vars(ReassemblyTimeout(n))

FairSpec == Spec /\ Fairness

---------------------------------------------------------------------------
(***************************************************************************)
(* Properties.                                                             *)
(***************************************************************************)

(* Every component of the connections and of the links has its type.       *)
TypeOK ==
  /\ status \in [Nodes -> {"IDLE", "RECEIVING"}]
  /\ from \in [Nodes -> Nodes \cup {NoNode}]
  /\ lastRecv \in [Nodes -> PacketId]
  /\ lastSent \in [Nodes -> PacketId]
  /\ bits \in [Nodes -> SUBSET Cells]
  /\ buffer \in [Nodes -> [Cells -> Cell]]
  /\ length \in [Nodes -> 0 .. MaxFragments]
  /\ timer \in [Nodes -> {"unset", "armed", "stopped"}]
  /\ chan \in [Links -> Seq(Fragment)]
  /\ session \in [Nodes -> Messages \cup {NoMessage}]
  /\ up \in Delivery \cup {Nothing}

(* The fragments the bitvector counts are those of the one message whose   *)
(* fragment 0 opened the session, sent by the node the session is with,    *)
(* each in its place: recv_from_unicast never mixes packets in a session   *)
(* that began with fragment 0, whatever is lost and whoever else sends.    *)
SessionIntegrity ==
  \A n \in Nodes : session[n] # NoMessage =>
    /\ status[n] = "RECEIVING"
    /\ <<from[n], n>> \in Links
    /\ Source[session[n]] = from[n]
    /\ length[n] = Frags[session[n]]
    /\ bits[n] \subseteq 0 .. Frags[session[n]] - 1
    /\ \A k \in bits[n] : buffer[n][k] = <<session[n], k>>

(* A packet handed to the callback at the end of such a session is one     *)
(* whole message of the sender the callback is told of.                    *)
DeliveryIntegrity ==
  up # Nothing /\ up.session # NoMessage =>
    /\ Source[up.session] = up.from
    /\ up.length = Frags[up.session]
    /\ \A k \in 0 .. Frags[up.session] - 1 : up.cells[k] = <<up.session, k>>

(* The reassembly timer runs exactly while a session is open (once it has  *)
(* ever been set): a timer left running would wipe the buffer of a later   *)
(* send, a timer left stopped would keep the connection busy for ever.     *)
TimerGuardsSession ==
  \A n \in Nodes :
    timer[n] # "unset" => (timer[n] = "armed" <=> status[n] = "RECEIVING")

(* A connection whose timer was ever set does not stay RECEIVING.          *)
SessionEnds ==
  \A n \in Nodes :
    (status[n] = "RECEIVING" /\ timer[n] # "unset") ~> (status[n] = "IDLE")

(* What the comments of recv_from_unicast make of the test on the status:  *)
(* a connection that is RECEIVING is receiving from the sender it knows    *)
(* ("it was already receiving from that sender node"), so that what it     *)
(* hands up is that sender's message.                                      *)
DeliveredWhole ==
  up # Nothing =>
    \E m \in Messages :
      /\ Source[m] = up.from
      /\ \A k \in 0 .. Frags[m] - 1 : up.cells[k] = <<m, k>>

=============================================================================
