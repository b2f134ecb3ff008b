--------------------------- MODULE DatagramLink ---------------------------
(***************************************************************************)
(* What a node may expect of a link towards its parent: the messages it    *)
(* sends are handed to the parent whole, once each and in order.           *)
(***************************************************************************)
EXTENDS Sequences

CONSTANTS Message,   (* what may be sent                                   *)
          None       (* nothing handed over by this step                   *)

VARIABLES queue,     (* sent and not yet handed over                       *)
          handed     (* what this step handed to the parent                *)

vars == <<queue, handed>>

Init == queue = <<>> /\ handed = None

Send(m) == queue' = Append(queue, m) /\ handed' = None

Deliver == /\ queue # <<>>
           /\ handed' = Head(queue)
           /\ queue' = Tail(queue)

(* The parent is done with what it was handed.                             *)
Rest == handed' = None /\ UNCHANGED queue

Next == (\E m \in Message : Send(m)) \/ Deliver \/ Rest

SafeSpec == Init /\ [][Next]_vars

(* What was sent is handed over some day.                                  *)
Spec == SafeSpec /\ WF_vars(Deliver)

===========================================================================
