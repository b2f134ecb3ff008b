------------------------- MODULE FragUnicastProofs -------------------------
(***************************************************************************)
(* Proofs about FragUnicast, for any set of nodes, links and messages, any *)
(* number of fragments, any packet id space and any loss.                  *)
(***************************************************************************)
EXTENDS FragUnicast, SequenceTheorems, TLAPS

---------------------------------------------------------------------------
(***************************************************************************)
(* The inductive invariant.  SessionIntegrity alone is not inductive: what *)
(* the next fragment will write depends on what is in flight.              *)
(***************************************************************************)

(* A fragment carries the part of a message of its sender that its header  *)
(* says it carries.                                                        *)
WellFormed(l, f) ==
  /\ f.payload[2] = f.fragment_nr
  /\ f.buffer_len = Frags[f.payload[1]]
  /\ f.fragment_nr < f.buffer_len
  /\ Source[f.payload[1]] = l[1]

FragmentsWellFormed ==
  \A l \in Links : \A i \in 1 .. Len(chan[l]) : WellFormed(l, chan[l][i])

(* On a link, a packet id stands for one message.                          *)
IdsAgree ==
  \A l \in Links : \A i, j \in 1 .. Len(chan[l]) :
    chan[l][i].packet_id = chan[l][j].packet_id =>
      chan[l][i].payload[1] = chan[l][j].payload[1]

(* What is in flight under the id of an open session belongs to it.        *)
SessionFragments ==
  \A l \in Links : \A i \in 1 .. Len(chan[l]) :
    /\ session[l[2]] # NoMessage
    /\ from[l[2]] = l[1]
    /\ chan[l][i].packet_id = lastRecv[l[2]]
    => chan[l][i].payload[1] = session[l[2]]

SessionInv ==
  /\ TypeOK
  /\ FragmentsWellFormed
  /\ IdsAgree
  /\ SessionFragments
  /\ SessionIntegrity
  /\ DeliveryIntegrity

---------------------------------------------------------------------------
(* The fragments frag_unicast_send makes of a message are a sequence of    *)
(* Frags[m] fragments, whose i-th carries part i - 1.                      *)
LEMMA FragmentsType ==
  ASSUME NEW id \in PacketId, NEW m \in Messages
  PROVE  /\ Fragments(id, m) \in Seq(Fragment)
         /\ Len(Fragments(id, m)) = Frags[m]
<1> DEFINE F == Fragments(id, m)
<1>1. Frags[m] \in 1 .. MaxFragments /\ MaxFragments \in Nat
  BY FragAssumption
<1>2. ASSUME NEW i \in 1 .. Frags[m]
      PROVE  [packet_id |-> id, fragment_nr |-> i - 1, buffer_len |-> Frags[m],
              payload |-> <<m, i - 1>>] \in Fragment
  <2>1. i - 1 \in Cells
    BY <1>1 DEF Cells
  <2> QED BY <2>1, <1>1 DEF Fragment
<1>3. F \in [1 .. Frags[m] -> Fragment]
  BY <1>2 DEF Fragments
<1>4. F \in Seq(Fragment)
  BY <1>1, <1>3, SeqDef
<1>5. Len(F) = Frags[m]
  BY <1>1, <1>3, <1>4, LenProperties
<1> QED BY <1>4, <1>5

(* Taking a fragment off a link.                                           *)
LEMMA TailFragment ==
  ASSUME TypeOK, NEW l \in Links, chan[l] # <<>>
  PROVE  /\ Head(chan[l]) \in Fragment
         /\ Head(chan[l]) = chan[l][1]
         /\ 1 \in 1 .. Len(chan[l])
         /\ Tail(chan[l]) \in Seq(Fragment)
         /\ Len(Tail(chan[l])) = Len(chan[l]) - 1
         /\ \A i \in 1 .. Len(Tail(chan[l])) :
              /\ i + 1 \in 1 .. Len(chan[l])
              /\ Tail(chan[l])[i] = chan[l][i + 1]
<1>1. chan[l] \in Seq(Fragment)
  BY DEF TypeOK
<1> QED BY <1>1, HeadTailProperties, ElementOfSeq, EmptySeq, LenProperties

LEMMA LinkEnds ==
  ASSUME NEW l \in Links
  PROVE  l[1] \in Nodes /\ l[2] \in Nodes /\ l = <<l[1], l[2]>>
BY FragAssumption

(* Every message is an element of the type of the parts a cell may hold.   *)
LEMMA PartIsCell ==
  ASSUME NEW m \in Messages, NEW k \in Nat, k < Frags[m]
  PROVE  k \in Cells /\ <<m, k>> \in Cell
BY FragAssumption DEF Cells, Cell

LEMMA ComposeType ==
  ASSUME TypeOK, NEW n \in Nodes, NEW m \in Messages, Compose(n, m)
  PROVE  /\ buffer' \in [Nodes -> [Cells -> Cell]]
         /\ length' \in [Nodes -> 0 .. MaxFragments]
         /\ session' \in [Nodes -> Messages \cup {NoMessage}]
<1>1. [k \in Cells |-> IF k < Frags[m] THEN <<m, k>> ELSE Cleared] \in [Cells -> Cell]
  BY PartIsCell DEF Cell, Cells
<1>2. Frags[m] \in 0 .. MaxFragments
  BY FragAssumption
<1> QED BY <1>1, <1>2 DEF Compose, TypeOK

LEMMA NextIdType ==
  ASSUME TypeOK, NEW n \in Nodes
  PROVE  NextId(n) \in PacketId
BY FragAssumption DEF NextId, PacketId, TypeOK

(* What accepting a fragment does to the types, and to its node.           *)
LEMMA AcceptType ==
  ASSUME TypeOK, NEW l \in Links, NEW f, Accept(l, f)
  PROVE  /\ f \in Fragment
         /\ from' \in [Nodes -> Nodes \cup {NoNode}]
         /\ lastRecv' \in [Nodes -> PacketId]
         /\ lastSent' \in [Nodes -> PacketId]
         /\ bits' \in [Nodes -> SUBSET Cells]
         /\ buffer' \in [Nodes -> [Cells -> Cell]]
         /\ length' \in [Nodes -> 0 .. MaxFragments]
         /\ chan' \in [Links -> Seq(Fragment)]
<1> DEFINE n == l[2]
<1>1. f \in Fragment /\ Tail(chan[l]) \in Seq(Fragment)
  BY TailFragment DEF Accept
<1>2. n \in Nodes /\ l[1] \in Nodes
  BY LinkEnds
<1>3. f.packet_id \in PacketId /\ f.fragment_nr \in Cells
      /\ f.buffer_len \in 1 .. MaxFragments /\ f.payload \in Cell
  BY <1>1 DEF Fragment, Cell
<1>4. BitsAfter(n, f) \in SUBSET Cells
  BY <1>2, <1>3 DEF BitsAfter, TypeOK
<1>5. f.buffer_len \in 0 .. MaxFragments
  BY <1>3, FragAssumption
<1>6. from' \in [Nodes -> Nodes \cup {NoNode}] /\ lastRecv' \in [Nodes -> PacketId]
      /\ length' \in [Nodes -> 0 .. MaxFragments]
  BY <1>2, <1>3, <1>5 DEF Accept, TypeOK
<1>7. buffer' \in [Nodes -> [Cells -> Cell]]
  BY <1>2, <1>3 DEF Accept, TypeOK
<1> QED BY <1>1, <1>2, <1>4, <1>6, <1>7 DEF Accept, TypeOK

(* Init and every step keep the types.                                     *)
LEMMA TypeInit == Init => TypeOK
<1> SUFFICES ASSUME Init PROVE TypeOK
  OBVIOUS
<1>1. 0 \in PacketId /\ 0 \in 0 .. MaxFragments /\ Cleared \in Cell
  BY FragAssumption DEF PacketId, Cell
<1>2. <<>> \in Seq(Fragment)
  BY EmptySeq
<1> QED BY <1>1, <1>2 DEF Init, TypeOK

LEMMA TypeNext == TypeOK /\ [Next]_vars => TypeOK'
<1> SUFFICES ASSUME TypeOK, [Next]_vars PROVE TypeOK'
  OBVIOUS
<1>1. ASSUME NEW l \in Links, NEW m \in Messages, Send(l, m)
      PROVE  TypeOK'
  <2>1. l[1] \in Nodes
    BY LinkEnds
  <2>2. NextId(l[1]) \in PacketId
    BY <2>1, NextIdType
  <2>3. chan[l] \o Fragments(NextId(l[1]), m) \in Seq(Fragment)
    BY <2>2, FragmentsType, ConcatProperties DEF TypeOK
  <2>4. Compose(l[1], m)
    BY <1>1 DEF Send
  <2>5. /\ buffer' \in [Nodes -> [Cells -> Cell]]
        /\ length' \in [Nodes -> 0 .. MaxFragments]
        /\ session' \in [Nodes -> Messages \cup {NoMessage}]
    BY <2>1, <2>4, ComposeType
  <2> QED BY <1>1, <2>1, <2>2, <2>3, <2>5 DEF Send, TypeOK
<1>2. ASSUME NEW m \in Messages, SendRefused(Source[m], m)
      PROVE  TypeOK'
  <2>1. Source[m] \in Nodes
    BY FragAssumption
  <2>2. /\ buffer' \in [Nodes -> [Cells -> Cell]]
        /\ length' \in [Nodes -> 0 .. MaxFragments]
        /\ session' \in [Nodes -> Messages \cup {NoMessage}]
    BY <1>2, <2>1, ComposeType DEF SendRefused
  <2> QED BY <1>2, <2>2 DEF SendRefused, TypeOK
<1>3. ASSUME NEW l \in Links, Discard(l) \/ Lose(l)
      PROVE  TypeOK'
  <2>1. Tail(chan[l]) \in Seq(Fragment)
    BY <1>3, TailFragment DEF Discard, Lose
  <2> QED BY <1>3, <2>1 DEF Discard, Lose, conn, TypeOK
<1>4. ASSUME NEW l \in Links, Collect(l)
      PROVE  TypeOK'
  <2> DEFINE f == Head(chan[l])
  <2>1. Accept(l, f)
    BY <1>4 DEF Collect
  <2>2. f \in Fragment /\ l[2] \in Nodes
    BY <2>1, AcceptType, LinkEnds
  <2>3. SessionAfter(l[2], f) \in Messages \cup {NoMessage}
    BY <2>2 DEF SessionAfter, Fragment, TypeOK
  <2>4. TimerAfter(l[2], f) \in {"unset", "armed", "stopped"}
    BY DEF TimerAfter
  <2>5. /\ status' \in [Nodes -> {"IDLE", "RECEIVING"}]
        /\ timer' \in [Nodes -> {"unset", "armed", "stopped"}]
        /\ session' \in [Nodes -> Messages \cup {NoMessage}]
        /\ up' = Nothing
    BY <1>4, <2>2, <2>3, <2>4 DEF Collect, TypeOK
  <2> QED BY <2>1, <2>5, AcceptType DEF TypeOK
<1>5. ASSUME NEW l \in Links, Complete(l)
      PROVE  TypeOK'
  <2> DEFINE f == Head(chan[l])
  <2>1. Accept(l, f)
    BY <1>5 DEF Complete
  <2>2. f \in Fragment /\ l[1] \in Nodes /\ l[2] \in Nodes
    BY <2>1, AcceptType, LinkEnds
  <2>3. SessionAfter(l[2], f) \in Messages \cup {NoMessage}
    BY <2>2 DEF SessionAfter, Fragment, TypeOK
  <2>4. TimerStop(TimerAfter(l[2], f)) \in {"unset", "armed", "stopped"}
    BY DEF TimerAfter, TimerStop
  <2>5. /\ status' \in [Nodes -> {"IDLE", "RECEIVING"}]
        /\ timer' \in [Nodes -> {"unset", "armed", "stopped"}]
        /\ session' \in [Nodes -> Messages \cup {NoMessage}]
    BY <1>5, <2>2, <2>4 DEF Complete, TypeOK
  <2>6. /\ buffer' \in [Nodes -> [Cells -> Cell]]
        /\ length' \in [Nodes -> 0 .. MaxFragments]
    BY <2>1, AcceptType
  <2>7. up' \in Delivery
    BY <1>5, <2>2, <2>3, <2>6 DEF Complete, Delivery
  <2> QED BY <2>1, <2>5, <2>7, AcceptType DEF TypeOK
<1>6. ASSUME NEW n \in Nodes, ReassemblyTimeout(n)
      PROVE  TypeOK'
  <2>1. 0 \in 0 .. MaxFragments
    BY FragAssumption
  <2> QED BY <1>6, <2>1 DEF ReassemblyTimeout, TypeOK
<1>7. CASE UNCHANGED vars
  BY <1>7 DEF vars, TypeOK
<1> QED BY <1>1, <1>2, <1>3, <1>4, <1>5, <1>6, <1>7 DEF Next

(* Type correctness of the fragmenting unicast, for every instance.        *)
THEOREM TypeCorrect == Spec => []TypeOK
BY TypeInit, TypeNext, PTL DEF Spec
---------------------------------------------------------------------------
(***************************************************************************)
(* SessionInv is inductive.                                                *)
(***************************************************************************)

(* Once fragments leave a link and none enters, what was true of those in  *)
(* flight stays true.                                                      *)
LEMMA TailKeepsFragments ==
  ASSUME TypeOK, FragmentsWellFormed, IdsAgree, NEW l \in Links, chan[l] # <<>>,
         chan' = [chan EXCEPT ![l] = Tail(@)]
  PROVE  FragmentsWellFormed' /\ IdsAgree'
<1>1. ASSUME NEW k \in Links, NEW i \in 1 .. Len(chan'[k])
      PROVE  \E j \in 1 .. Len(chan[k]) : chan'[k][i] = chan[k][j]
  BY <1>1, TailFragment DEF TypeOK
<1>2. FragmentsWellFormed'
  BY <1>1 DEF FragmentsWellFormed, WellFormed
<1>3. IdsAgree'
  <2> SUFFICES ASSUME NEW k \in Links, NEW i \in 1 .. Len(chan'[k]),
                      NEW j \in 1 .. Len(chan'[k]),
                      chan'[k][i].packet_id = chan'[k][j].packet_id
               PROVE  chan'[k][i].payload[1] = chan'[k][j].payload[1]
    BY DEF IdsAgree
  <2>1. PICK i0 \in 1 .. Len(chan[k]) : chan'[k][i] = chan[k][i0]
    BY <1>1
  <2>2. PICK j0 \in 1 .. Len(chan[k]) : chan'[k][j] = chan[k][j0]
    BY <1>1
  <2> QED BY <2>1, <2>2 DEF IdsAgree
<1> QED BY <1>2, <1>3

(* Discard and Lose take a fragment off a link and touch no connection.    *)
LEMMA DropKeepsSession ==
  ASSUME SessionInv, NEW l \in Links, Discard(l) \/ Lose(l)
  PROVE  SessionInv'
<1>1. TypeOK' 
  BY TypeNext DEF SessionInv, Next
<1>2. /\ chan[l] # <<>>
      /\ chan' = [chan EXCEPT ![l] = Tail(@)]
      /\ up' = Nothing
      /\ UNCHANGED <<status, from, lastRecv, bits, session, buffer, length>>
  BY DEF Discard, Lose, conn
<1>3. FragmentsWellFormed' /\ IdsAgree'
  BY <1>2, TailKeepsFragments DEF SessionInv
<1>4. SessionFragments'
  <2> SUFFICES ASSUME NEW k \in Links, NEW i \in 1 .. Len(chan'[k]),
                      session[k[2]] # NoMessage, from[k[2]] = k[1],
                      chan'[k][i].packet_id = lastRecv[k[2]]
               PROVE  chan'[k][i].payload[1] = session[k[2]]
    BY <1>2 DEF SessionFragments
  <2>1. PICK j \in 1 .. Len(chan[k]) : chan'[k][i] = chan[k][j]
    BY <1>2, TailFragment DEF SessionInv, TypeOK
  <2> QED BY <2>1 DEF SessionInv, SessionFragments
<1>5. SessionIntegrity' /\ DeliveryIntegrity'
  BY <1>2 DEF SessionIntegrity, DeliveryIntegrity, SessionInv
<1> QED BY <1>1, <1>3, <1>4, <1>5 DEF SessionInv

(* The fragment that is accepted belongs to the session it is accepted in, *)
(* and lands in its place.                                                 *)
LEMMA AcceptInSession ==
  ASSUME SessionInv, NEW l \in Links, NEW f, Accept(l, f),
         SessionAfter(l[2], f) # NoMessage
  PROVE  LET n == l[2]
             S == SessionAfter(n, f)
         IN  /\ S \in Messages
             /\ f.payload[1] = S
             /\ f.buffer_len = Frags[S]
             /\ from'[n] = l[1]
             /\ Source[S] = l[1]
             /\ length'[n] = Frags[S]
             /\ bits'[n] = BitsAfter(n, f)
             /\ bits'[n] \subseteq 0 .. Frags[S] - 1
             /\ \A k \in bits'[n] : buffer'[n][k] = <<S, k>>
<1> DEFINE n == l[2]
           S == SessionAfter(n, f)
<1>1. /\ f \in Fragment
      /\ f = chan[l][1]
      /\ 1 \in 1 .. Len(chan[l])
  BY TailFragment DEF Accept, SessionInv
<1>2. n \in Nodes /\ l[1] \in Nodes /\ l = <<l[1], n>>
  BY LinkEnds
<1>3. WellFormed(l, f)
  BY <1>1 DEF SessionInv, FragmentsWellFormed
<1>4. f.payload \in Messages \X Cells /\ f.fragment_nr \in Cells
  BY <1>1 DEF Fragment
<1>5. f.payload = <<f.payload[1], f.fragment_nr>> /\ f.payload[1] \in Messages
  BY <1>3, <1>4 DEF WellFormed
<1>6. f.fragment_nr \in 0 .. Frags[f.payload[1]] - 1
  BY <1>3, <1>4, <1>5, FragAssumption DEF WellFormed, Cells
<1>7. /\ bits'[n] = BitsAfter(n, f)
      /\ buffer'[n] = [buffer[n] EXCEPT ![f.fragment_nr] = f.payload]
      /\ buffer[n] \in [Cells -> Cell]
  BY <1>2 DEF Accept, SessionInv, TypeOK
<1>8. CASE f.fragment_nr = 0
  <2>1. S = f.payload[1]
    BY <1>8 DEF SessionAfter
  <2>2. bits'[n] = {0}
    BY <1>7, <1>8 DEF BitsAfter
  <2>3. from'[n] = l[1] /\ length'[n] = f.buffer_len
    BY <1>2, <1>8 DEF Accept, SessionInv, TypeOK
  <2>4. buffer'[n][0] = <<S, 0>>
    BY <1>4, <1>5, <1>7, <1>8, <2>1
  <2>5. bits'[n] \subseteq 0 .. Frags[S] - 1
    BY <1>6, <1>8, <2>1, <2>2
  <2> QED BY <1>3, <1>5, <1>7, <2>1, <2>2, <2>3, <2>4, <2>5 DEF WellFormed
<1>9. CASE f.fragment_nr # 0
  <2>1. S = session[n] /\ session[n] # NoMessage /\ session[n] \in Messages
    BY <1>2, <1>9 DEF SessionAfter, SessionInv, TypeOK
  <2>2. /\ status[n] = "RECEIVING"
        /\ Source[session[n]] = from[n]
        /\ length[n] = Frags[session[n]]
        /\ bits[n] \subseteq 0 .. Frags[session[n]] - 1
        /\ \A k \in bits[n] : buffer[n][k] = <<session[n], k>>
    BY <1>2, <2>1 DEF SessionInv, SessionIntegrity
  <2>3. from[n] = l[1] /\ f.packet_id = lastRecv[n]
    BY <2>2 DEF Accept, Accepts
  <2>4. f.payload[1] = session[n]
    BY <1>1, <2>1, <2>3 DEF SessionInv, SessionFragments
  <2>5. bits'[n] = bits[n] \cup {f.fragment_nr}
    BY <1>7, <1>9 DEF BitsAfter
  <2>6. from'[n] = from[n] /\ length'[n] = length[n]
    BY <1>9 DEF Accept
  <2>7. bits'[n] \subseteq 0 .. Frags[S] - 1
    BY <1>6, <2>1, <2>2, <2>4, <2>5
  <2>8. bits[n] \subseteq Cells
    BY <1>2 DEF SessionInv, TypeOK
  <2>9. ASSUME NEW k \in bits'[n] PROVE buffer'[n][k] = <<S, k>>
    BY <1>4, <1>5, <1>7, <2>1, <2>2, <2>4, <2>5, <2>8
  <2> QED BY <1>3, <1>7, <2>1, <2>2, <2>3, <2>4, <2>6, <2>7, <2>9 DEF WellFormed
<1> QED BY <1>8, <1>9

(* What stays in flight when a fragment is accepted still agrees with the  *)
(* session, whether the packet is complete (S is NoMessage) or not.        *)
LEMMA AcceptKeepsFragments ==
  ASSUME SessionInv, NEW l \in Links, NEW f, Accept(l, f),
         NEW S \in {NoMessage, SessionAfter(l[2], f)},
         session' = [session EXCEPT ![l[2]] = S]
  PROVE  SessionFragments'
<1> DEFINE n == l[2]
<1> SUFFICES ASSUME NEW k \in Links, NEW i \in 1 .. Len(chan'[k]),
                    session'[k[2]] # NoMessage, from'[k[2]] = k[1],
                    chan'[k][i].packet_id = lastRecv'[k[2]]
             PROVE  chan'[k][i].payload[1] = session'[k[2]]
  BY DEF SessionFragments
<1>1. n \in Nodes /\ l = <<l[1], n>> /\ k[2] \in Nodes /\ k = <<k[1], k[2]>>
  BY LinkEnds
<1>2. chan[l] # <<>> /\ f = chan[l][1] /\ 1 \in 1 .. Len(chan[l])
  BY TailFragment DEF Accept, SessionInv
<1>3. PICK j \in 1 .. Len(chan[k]) : chan'[k][i] = chan[k][j]
  <2>1. CASE k = l
    BY <1>2, <2>1, TailFragment DEF Accept, SessionInv, TypeOK
  <2>2. CASE k # l
    BY <2>2 DEF Accept, SessionInv, TypeOK
  <2> QED BY <2>1, <2>2
<1>4. CASE k[2] # n
  <2>1. /\ session'[k[2]] = session[k[2]]
        /\ from'[k[2]] = from[k[2]]
        /\ lastRecv'[k[2]] = lastRecv[k[2]]
    BY <1>1, <1>4 DEF Accept, SessionInv, TypeOK
  <2> QED BY <1>3, <2>1 DEF SessionInv, SessionFragments
<1>5. CASE k[2] = n
  <2>1. session'[n] = S /\ S = SessionAfter(n, f)
    BY <1>1, <1>5 DEF SessionInv, TypeOK
  <2>2. from'[n] = l[1] /\ f.payload[1] = S
    BY <1>5, <2>1, AcceptInSession
  <2>3. k = l
    BY <1>1, <1>5, <2>2
  <2>4. lastRecv'[n] = f.packet_id
    <3>1. CASE f.fragment_nr = 0
      BY <1>1, <3>1 DEF Accept, SessionInv, TypeOK
    <3>2. CASE f.fragment_nr # 0
      <4>1. session[n] # NoMessage /\ lastRecv'[n] = lastRecv[n]
        BY <1>5, <2>1, <3>2 DEF SessionAfter, Accept
      <4>2. status[n] = "RECEIVING"
        BY <1>1, <4>1 DEF SessionInv, SessionIntegrity
      <4> QED BY <4>1, <4>2 DEF Accept, Accepts
    <3> QED BY <3>1, <3>2
  <2>5. chan[l][j].packet_id = chan[l][1].packet_id
    BY <1>2, <1>3, <1>5, <2>3, <2>4
  <2> QED BY <1>2, <1>3, <1>5, <2>1, <2>2, <2>3, <2>5 DEF SessionInv, IdsAgree
<1> QED BY <1>4, <1>5
(* Accepting a fragment, in either of its two outcomes.                    *)
LEMMA AcceptKeepsSession ==
  ASSUME SessionInv, NEW l \in Links, Collect(l) \/ Complete(l)
  PROVE  SessionInv'
<1> DEFINE n == l[2]
           f == Head(chan[l])
<1>1. TypeOK'
  BY TypeNext DEF SessionInv, Next
<1>2. Accept(l, f)
  BY DEF Collect, Complete
<1>3. n \in Nodes
  BY LinkEnds
<1>4. FragmentsWellFormed' /\ IdsAgree'
  BY <1>2, TailKeepsFragments DEF SessionInv, Accept
<1>5. SessionFragments'
  <2>1. CASE Collect(l)
    BY <1>2, <2>1, AcceptKeepsFragments DEF Collect
  <2>2. CASE Complete(l)
    BY <1>2, <2>2, AcceptKeepsFragments DEF Complete
  <2> QED BY <2>1, <2>2
<1>6. \A o \in Nodes \ {n} :
        /\ status'[o] = status[o] /\ from'[o] = from[o] /\ bits'[o] = bits[o]
        /\ buffer'[o] = buffer[o] /\ length'[o] = length[o] /\ session'[o] = session[o]
  BY <1>3 DEF Collect, Complete, Accept, SessionInv, TypeOK
<1>7. SessionIntegrity'
  <2> SUFFICES ASSUME NEW o \in Nodes, session'[o] # NoMessage
               PROVE  /\ status'[o] = "RECEIVING"
                      /\ <<from'[o], o>> \in Links
                      /\ Source[session'[o]] = from'[o]
                      /\ length'[o] = Frags[session'[o]]
                      /\ bits'[o] \subseteq 0 .. Frags[session'[o]] - 1
                      /\ \A k \in bits'[o] : buffer'[o][k] = <<session'[o], k>>
    BY DEF SessionIntegrity
  <2>1. CASE o # n
    BY <1>6, <2>1 DEF SessionInv, SessionIntegrity
  <2>2. CASE o = n
    <3>1. Collect(l) /\ session'[n] = SessionAfter(n, f) /\ status'[n] = "RECEIVING"
      BY <1>3, <2>2 DEF Collect, Complete, SessionInv, TypeOK
    <3>2. l = <<l[1], n>>
      BY LinkEnds
    <3> QED BY <1>2, <2>2, <3>1, <3>2, AcceptInSession
  <2> QED BY <2>1, <2>2
<1>8. DeliveryIntegrity'
  <2>1. CASE Collect(l)
    BY <2>1 DEF Collect, DeliveryIntegrity
  <2>2. CASE Complete(l) /\ SessionAfter(n, f) = NoMessage
    BY <2>2 DEF Complete, DeliveryIntegrity
  <2>3. CASE Complete(l) /\ SessionAfter(n, f) # NoMessage
    <3> DEFINE S == SessionAfter(n, f)
    <3>1. /\ up'.session = S /\ up'.from = l[1] /\ up'.length = length'[n]
          /\ up'.cells = buffer'[n] /\ AllReceived(BitsAfter(n, f), f)
      BY <2>3 DEF Complete
    <3>2. /\ f.buffer_len = Frags[S] /\ Source[S] = l[1] /\ length'[n] = Frags[S]
          /\ bits'[n] = BitsAfter(n, f) 
          /\ \A k \in bits'[n] : buffer'[n][k] = <<S, k>>
      BY <1>2, <2>3, AcceptInSession
    <3>3. 0 .. Frags[S] - 1 \subseteq bits'[n]
      BY <3>1, <3>2 DEF AllReceived
    <3> QED BY <3>1, <3>2, <3>3 DEF DeliveryIntegrity
  <2> QED BY <2>1, <2>2, <2>3
<1> QED BY <1>1, <1>4, <1>5, <1>7, <1>8 DEF SessionInv

(* Composing a message ends the session the node's buffer served; the      *)
(* sessions of the other nodes are as they were.                           *)
LEMMA ComposeKeepsSession ==
  ASSUME SessionInv, NEW n \in Nodes, NEW m \in Messages, Compose(n, m),
         up' = Nothing, UNCHANGED <<status, from, lastRecv, bits>>
  PROVE  SessionIntegrity' /\ DeliveryIntegrity'
<1>1. session'[n] = NoMessage
  BY DEF Compose, SessionInv, TypeOK
<1>2. \A o \in Nodes \ {n} :
        buffer'[o] = buffer[o] /\ length'[o] = length[o] /\ session'[o] = session[o]
  BY DEF Compose, SessionInv, TypeOK
<1>3. SessionIntegrity'
  BY <1>1, <1>2 DEF SessionInv, SessionIntegrity
<1>4. DeliveryIntegrity'
  BY DEF DeliveryIntegrity
<1> QED BY <1>3, <1>4

(* The fragments a send adds to its link: their id is on no other fragment *)
(* of the link and in no session with the sender, by IdIsFree.             *)
LEMMA SendKeepsSession ==
  ASSUME SessionInv, NEW l \in Links, NEW m \in Messages, Send(l, m)
  PROVE  SessionInv'
<1> DEFINE id == NextId(l[1])
           F  == Fragments(id, m)
<1>1. TypeOK'
  BY TypeNext DEF SessionInv, Next
<1>2. l[1] \in Nodes /\ l[2] \in Nodes /\ id \in PacketId
  BY LinkEnds, NextIdType DEF SessionInv
<1>3. /\ Compose(l[1], m) /\ IdIsFree(l) /\ Source[m] = l[1]
      /\ chan' = [chan EXCEPT ![l] = @ \o F]
      /\ up' = Nothing /\ UNCHANGED <<status, from, lastRecv, bits>>
  BY DEF Send, Compose
<1>4. F \in Seq(Fragment) /\ Len(F) = Frags[m] /\ Frags[m] \in Nat
  BY <1>2, FragmentsType, FragAssumption
<1>5. \A i \in 1 .. Len(F) :
        F[i].packet_id = id /\ F[i].payload[1] = m /\ WellFormed(l, F[i])
  <2> SUFFICES ASSUME NEW i \in 1 .. Frags[m]
               PROVE  F[i].packet_id = id /\ F[i].payload[1] = m /\ WellFormed(l, F[i])
    BY <1>4
  <2>1. F[i] = [packet_id |-> id, fragment_nr |-> i - 1, buffer_len |-> Frags[m],
                payload |-> <<m, i - 1>>]
    BY DEF Fragments
  <2> QED BY <1>3, <1>4, <2>1 DEF WellFormed
<1>6. chan[l] \in Seq(Fragment) /\ Len(chan[l]) \in Nat
  BY LenProperties DEF SessionInv, TypeOK
<1>7. \A i \in 1 .. Len(chan'[l]) :
        \/ i \in 1 .. Len(chan[l]) /\ chan'[l][i] = chan[l][i]
        \/ \E j \in 1 .. Len(F) : chan'[l][i] = F[j]
  <2>1. chan'[l] = chan[l] \o F
    BY <1>3 DEF SessionInv, TypeOK
  <2>2. Len(chan[l] \o F) = Len(chan[l]) + Len(F)
    BY <1>4, <1>6, ConcatProperties
  <2>3. \A i \in 1 .. Len(chan[l]) + Len(F) :
          (chan[l] \o F)[i] = IF i <= Len(chan[l]) THEN chan[l][i] ELSE F[i - Len(chan[l])]
    BY <1>4, <1>6, ConcatProperties
  <2> SUFFICES ASSUME NEW i \in 1 .. Len(chan[l]) + Len(F)
               PROVE  \/ i \in 1 .. Len(chan[l]) /\ chan'[l][i] = chan[l][i]
                      \/ \E j \in 1 .. Len(F) : chan'[l][i] = F[j]
    BY <2>1, <2>2
  <2>4. CASE i <= Len(chan[l])
    BY <2>1, <2>3, <2>4, <1>6
  <2>5. CASE ~ (i <= Len(chan[l]))
    <3>1. i - Len(chan[l]) \in 1 .. Len(F)
      BY <1>4, <1>6, <2>5
    <3> QED BY <2>1, <2>3, <2>5, <3>1
  <2> QED BY <2>4, <2>5
<1>8. \A k \in Links \ {l} : chan'[k] = chan[k]
  BY <1>3 DEF SessionInv, TypeOK
<1>9. FragmentsWellFormed'
  <2> SUFFICES ASSUME NEW k \in Links, NEW i \in 1 .. Len(chan'[k])
               PROVE  WellFormed(k, chan'[k][i])
    BY DEF FragmentsWellFormed, WellFormed
  <2>1. CASE k = l
    BY <1>5, <1>7, <2>1 DEF SessionInv, FragmentsWellFormed
  <2>2. CASE k # l
    BY <1>8, <2>2 DEF SessionInv, FragmentsWellFormed
  <2> QED BY <2>1, <2>2
<1>10. IdsAgree'
  <2> SUFFICES ASSUME NEW k \in Links, NEW i \in 1 .. Len(chan'[k]),
                      NEW j \in 1 .. Len(chan'[k]),
                      chan'[k][i].packet_id = chan'[k][j].packet_id
               PROVE  chan'[k][i].payload[1] = chan'[k][j].payload[1]
    BY DEF IdsAgree
  <2>1. CASE k # l
    BY <1>8, <2>1 DEF SessionInv, IdsAgree
  <2>2. CASE k = l
    <3>1. \A h \in 1 .. Len(chan[l]) : chan[l][h].packet_id # id
      BY <1>3 DEF IdIsFree
    <3>2. CASE /\ i \in 1 .. Len(chan[l]) /\ chan'[l][i] = chan[l][i]
               /\ j \in 1 .. Len(chan[l]) /\ chan'[l][j] = chan[l][j]
      BY <2>2, <3>2 DEF SessionInv, IdsAgree
    <3>3. CASE \E h, g \in 1 .. Len(F) : chan'[l][i] = F[h] /\ chan'[l][j] = F[g]
      BY <1>5, <2>2, <3>3
    <3>4. \/ i \in 1 .. Len(chan[l]) /\ chan'[l][i] = chan[l][i]
          \/ \E h \in 1 .. Len(F) : chan'[l][i] = F[h]
      BY <1>7, <2>2
    <3>5. \/ j \in 1 .. Len(chan[l]) /\ chan'[l][j] = chan[l][j]
          \/ \E h \in 1 .. Len(F) : chan'[l][j] = F[h]
      BY <1>7, <2>2
    <3> QED BY <1>5, <2>2, <3>1, <3>2, <3>3, <3>4, <3>5
  <2> QED BY <2>1, <2>2
<1>11. SessionFragments'
  <2> SUFFICES ASSUME NEW k \in Links, NEW i \in 1 .. Len(chan'[k]),
                      session'[k[2]] # NoMessage, from[k[2]] = k[1],
                      chan'[k][i].packet_id = lastRecv[k[2]]
               PROVE  chan'[k][i].payload[1] = session'[k[2]]
    BY <1>3 DEF SessionFragments
  <2>1. k[2] \in Nodes /\ session'[k[2]] = session[k[2]]
    BY <1>3, LinkEnds DEF Compose, SessionInv, TypeOK
  <2>2. CASE k # l
    BY <1>8, <2>1, <2>2 DEF SessionInv, SessionFragments
  <2>3. CASE k = l
    <3>1. status[l[2]] = "RECEIVING"
      BY <1>2, <2>1, <2>3 DEF SessionInv, SessionIntegrity
    <3>2. lastRecv[l[2]] # id
      BY <1>3, <2>3, <3>1 DEF IdIsFree
    <3>3. i \in 1 .. Len(chan[l]) /\ chan'[l][i] = chan[l][i]
      BY <1>5, <1>7, <2>3, <3>2
    <3> QED BY <2>1, <2>3, <3>3 DEF SessionInv, SessionFragments
  <2> QED BY <2>2, <2>3
<1>12. SessionIntegrity' /\ DeliveryIntegrity'
  BY <1>2, <1>3, ComposeKeepsSession
<1> QED BY <1>1, <1>9, <1>10, <1>11, <1>12 DEF SessionInv

LEMMA SessionNext == SessionInv /\ [Next]_vars => SessionInv'
<1> SUFFICES ASSUME SessionInv, [Next]_vars PROVE SessionInv'
  OBVIOUS
<1>1. ASSUME NEW m \in Messages, SendRefused(Source[m], m)
      PROVE  SessionInv'
  <2>1. TypeOK' 
    BY <1>1, TypeNext DEF SessionInv, Next
  <2>2. /\ Source[m] \in Nodes /\ Compose(Source[m], m) /\ up' = Nothing
        /\ UNCHANGED <<status, from, lastRecv, bits, chan>>
    BY <1>1, FragAssumption DEF SendRefused
  <2>3. FragmentsWellFormed' /\ IdsAgree'
    BY <2>2 DEF SessionInv, FragmentsWellFormed, IdsAgree, WellFormed
  <2>4. \A k \in Links : session'[k[2]] # NoMessage => session'[k[2]] = session[k[2]]
    BY <2>2, LinkEnds DEF Compose, SessionInv, TypeOK
  <2>5. SessionFragments'
    BY <2>2, <2>4 DEF SessionInv, SessionFragments
  <2>6. SessionIntegrity' /\ DeliveryIntegrity'
    BY <2>2, ComposeKeepsSession
  <2> QED BY <2>1, <2>3, <2>5, <2>6 DEF SessionInv
<1>2. ASSUME NEW n \in Nodes, ReassemblyTimeout(n)
      PROVE  SessionInv'
  <2>1. TypeOK' 
    BY <1>2, TypeNext DEF SessionInv, Next
  <2>2. /\ session' = [session EXCEPT ![n] = NoMessage]
        /\ from' = [from EXCEPT ![n] = NoNode] /\ bits' = [bits EXCEPT ![n] = {}]
        /\ status' = [status EXCEPT ![n] = "IDLE"] /\ length' = [length EXCEPT ![n] = 0]
        /\ up' = Nothing /\ UNCHANGED <<lastRecv, buffer, chan>>
    BY <1>2 DEF ReassemblyTimeout
  <2>3. FragmentsWellFormed' /\ IdsAgree'
    BY <2>2 DEF SessionInv, FragmentsWellFormed, IdsAgree, WellFormed
  <2>4. session'[n] = NoMessage
    BY <2>2 DEF SessionInv, TypeOK
  <2>5. \A o \in Nodes \ {n} :
          /\ status'[o] = status[o] /\ from'[o] = from[o] /\ bits'[o] = bits[o]
          /\ length'[o] = length[o] /\ session'[o] = session[o]
    BY <2>2 DEF SessionInv, TypeOK
  <2>6. SessionFragments'
    BY <2>2, <2>4, <2>5, LinkEnds DEF SessionInv, SessionFragments
  <2>7. SessionIntegrity'
    BY <2>2, <2>4, <2>5 DEF SessionInv, SessionIntegrity
  <2>8. DeliveryIntegrity'
    BY <2>2 DEF DeliveryIntegrity
  <2> QED BY <2>1, <2>3, <2>6, <2>7, <2>8 DEF SessionInv
<1>3. CASE UNCHANGED vars
  BY <1>3 DEF vars, SessionInv, TypeOK, FragmentsWellFormed, WellFormed, IdsAgree,
              SessionFragments, SessionIntegrity, DeliveryIntegrity
<1> QED
  BY <1>1, <1>2, <1>3, SendKeepsSession, DropKeepsSession, AcceptKeepsSession DEF Next

LEMMA SessionInit == Init => SessionInv
<1> SUFFICES ASSUME Init PROVE SessionInv
  OBVIOUS
<1>1. TypeOK
  BY TypeInit
<1>2. /\ \A l \in Links : Len(chan[l]) = 0
      /\ \A n \in Nodes : session[n] = NoMessage
      /\ up = Nothing
  BY EmptySeq DEF Init
<1>3. FragmentsWellFormed /\ IdsAgree /\ SessionFragments
  BY <1>2 DEF FragmentsWellFormed, IdsAgree, SessionFragments
<1>4. SessionIntegrity /\ DeliveryIntegrity
  BY <1>2 DEF SessionIntegrity, DeliveryIntegrity
<1> QED BY <1>1, <1>3, <1>4 DEF SessionInv

(* No session that began with fragment 0 ever mixes two packets.           *)
THEOREM SessionsNeverMix == Spec => []SessionIntegrity
<1>1. SessionInv => SessionIntegrity
  BY DEF SessionInv
<1> QED BY <1>1, SessionInit, SessionNext, PTL DEF Spec

(* What such a session hands up is one whole message of its sender.        *)
THEOREM DeliveriesWhole == Spec => []DeliveryIntegrity
<1>1. SessionInv => DeliveryIntegrity
  BY DEF SessionInv
<1> QED BY <1>1, SessionInit, SessionNext, PTL DEF Spec

---------------------------------------------------------------------------
(* The reassembly timer guards every session it was ever set for, and      *)
(* nothing else: TypeOK is all the induction needs besides.                *)
THEOREM TimerCorrect == Spec => []TimerGuardsSession
<1> DEFINE Inv == TypeOK /\ TimerGuardsSession
<1>1. Init => Inv
  BY TypeInit DEF Init, TimerGuardsSession
<1>2. Inv /\ [Next]_vars => Inv'
  <2> SUFFICES ASSUME Inv, [Next]_vars PROVE TimerGuardsSession'
    BY TypeNext
  <2>1. ASSUME NEW l \in Links, Collect(l) \/ Complete(l)
        PROVE  TimerGuardsSession'
    <3> DEFINE T == TimerAfter(l[2], Head(chan[l]))
    <3>1. T \in {"armed", "unset"} /\ TimerStop(T) \in {"stopped", "unset"}
      BY DEF TimerAfter, TimerStop
    <3>2. CASE Collect(l)
      BY <3>1, <3>2, LinkEnds DEF Collect, TypeOK, TimerGuardsSession
    <3>3. CASE Complete(l)
      BY <3>1, <3>3, LinkEnds DEF Complete, TypeOK, TimerGuardsSession
    <3> QED BY <2>1, <3>2, <3>3
  <2>2. ASSUME NEW n \in Nodes, ReassemblyTimeout(n)
        PROVE  TimerGuardsSession'
    BY <2>2 DEF ReassemblyTimeout, TypeOK, TimerGuardsSession
  <2>3. CASE UNCHANGED <<status, timer>>
    BY <2>3 DEF TimerGuardsSession
  <2> QED BY <2>1, <2>2, <2>3 DEF Next, Send, SendRefused, Discard, Lose, conn, vars
<1> QED BY <1>1, <1>2, PTL DEF Spec
=============================================================================
