----------------------------- MODULE FragLink -----------------------------
(***************************************************************************)
(* frag_unicast between one child and its parent implements DatagramLink,  *)
(* as long as the radio loses nothing, no fragment is later than the       *)
(* reassembly timeout, no second child interferes and the parent does not  *)
(* compose a message of its own: FragTwoChildren.cfg shows what becomes of *)
(* it with a second child.                                                 *)
(***************************************************************************)
EXTENDS FragUnicast

CONSTANT Link    \* the one link

ASSUME LinkAssumption ==
  /\ Links = {Link}
  /\ Link[1] # Link[2]
  /\ \A m \in Messages : Source[m] = Link[1]
  /\ Reliable

VARIABLE waiting   (* HISTORY: the messages sent over the link and not yet *)
                   (* handed to the parent                                 *)

linkVars == <<vars, waiting>>

(* A step that gives the callback a packet takes the first of them; only a *)
(* send makes the link longer, by the fragments of its message.            *)
WaitingAfter ==
  IF up' # Nothing THEN SubSeq(waiting, 2, Len(waiting))
  ELSE IF Len(chan'[Link]) > Len(chan[Link])
    THEN Append(waiting, chan'[Link][Len(chan'[Link])].payload[1])
    ELSE waiting

LinkInit == Init /\ waiting = <<>>
LinkNext == Next /\ waiting' = WaitingAfter

LinkSpec == LinkInit /\ [][LinkNext]_linkVars

FairLinkSpec == LinkSpec /\ Fairness

---------------------------------------------------------------------------
(* What the callback was given, read from the buffer; NoNode stands for a  *)
(* buffer that holds no message.                                           *)
Handed ==
  IF up = Nothing THEN NoMessage
  ELSE LET whole == {m \in Messages : /\ up.length = Frags[m]
                                      /\ \A k \in 0 .. Frags[m] - 1 :
                                           up.cells[k] = <<m, k>>}
       IN IF whole = {} THEN NoNode ELSE CHOOSE m \in whole : TRUE

Datagram == INSTANCE DatagramLink WITH
              Message <- Messages, None <- NoMessage, queue <- waiting, handed <- Handed

(* frag_unicast_send and recv_from_unicast between one child and its       *)
(* parent hand over every message whole, once and in order.                *)
ImplementsDatagram == Datagram!Spec

===========================================================================
