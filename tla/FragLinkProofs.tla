--------------------------- MODULE FragLinkProofs ---------------------------
(***************************************************************************)
(* Proofs about FragLink, for any child and parent, any messages and any   *)
(* number of fragments in flight: what the parent is handed is what the    *)
(* child sent, whole, once and in order.                                   *)
(***************************************************************************)
EXTENDS FragLink, FragUnicastProofs

---------------------------------------------------------------------------
(***************************************************************************)
(* The inductive invariant.                                                *)
(***************************************************************************)

a == Link[1]   \* the child
r == Link[2]   \* its parent
flight == chan[Link]

(* Fragment g, of the s-th message waiting, may come behind fragment f of  *)
(* the p-th: the next one of the same packet, or the first of the next     *)
(* packet behind the last of this one.                                     *)
Follows(f, g, p, s) ==
  \/ s = p /\ g.fragment_nr = f.fragment_nr + 1 /\ g.packet_id = f.packet_id
  \/ s = p + 1 /\ f.fragment_nr = f.buffer_len - 1 /\ g.fragment_nr = 0

(* The fragments of q belong to the messages of W, pos[i] being the place  *)
(* of the message of q[i]: none is missing from the first on, and the last *)
(* is whole.                                                               *)
Placed(q, W, pos) ==
  /\ pos \in [1 .. Len(q) -> 1 .. Len(W)]
  /\ \A i \in 1 .. Len(q) : q[i].payload[1] = W[pos[i]]
  /\ \A i, j \in 1 .. Len(q) : i <= j => pos[i] <= pos[j]
  /\ \A i \in 1 .. Len(q) - 1 : Follows(q[i], q[i + 1], pos[i], pos[i + 1])
  /\ q # <<>> => /\ pos[1] = 1
                 /\ pos[Len(q)] = Len(W)
                 /\ q[Len(q)].fragment_nr = q[Len(q)].buffer_len - 1

(* What is in flight is the rest of what waits to be handed over.          *)
Stream ==
  /\ waiting \in Seq(Messages)
  /\ flight = <<>> => waiting = <<>>
  /\ \E pos \in [1 .. Len(flight) -> 1 .. Len(waiting)] : Placed(flight, waiting, pos)

(* A session holds what the fragments in flight lack of the first message. *)
Reassembly ==
  status[r] = "RECEIVING" =>
    /\ flight # <<>>
    /\ flight[1].fragment_nr # 0
    /\ from[r] = a
    /\ lastRecv[r] = flight[1].packet_id
    /\ length[r] = Frags[waiting[1]]
    /\ bits[r] = 0 .. flight[1].fragment_nr - 1
    /\ \A k \in 0 .. flight[1].fragment_nr - 1 : buffer[r][k] = <<waiting[1], k>>

(* Without a session, a packet begins.                                     *)
Fresh == status[r] = "IDLE" /\ flight # <<>> => flight[1].fragment_nr = 0

LinkInv == Stream /\ Reassembly /\ Fresh

---------------------------------------------------------------------------
LEMMA LinkFacts ==
  /\ Link \in Links /\ a \in Nodes /\ r \in Nodes /\ a # r /\ Reliable
  /\ \A l \in Links : l = Link
  /\ \A m \in Messages : Source[m] = a
BY LinkAssumption, LinkEnds DEF a, r

(* The first fragments of a stream, when its head is not the end of a      *)
(* packet: the next one continues it.                                      *)
LEMMA HeadInside ==
  ASSUME NEW q \in Seq(Fragment), NEW W \in Seq(Messages), NEW pos, Placed(q, W, pos),
         q # <<>>, q[1].fragment_nr # q[1].buffer_len - 1
  PROVE  /\ Tail(q) # <<>>
         /\ q[2].fragment_nr = q[1].fragment_nr + 1
         /\ q[2].packet_id = q[1].packet_id
         /\ Tail(q)[1] = q[2]
         /\ \E new \in [1 .. Len(Tail(q)) -> 1 .. Len(W)] : Placed(Tail(q), W, new)
<1> DEFINE n == Len(q)
           t == Tail(q)
           new == [i \in 1 .. n - 1 |-> pos[i + 1]]
<1>1. /\ n \in Nat /\ n # 0
      /\ t \in Seq(Fragment) /\ Len(t) = n - 1 /\ \A i \in 1 .. n - 1 : t[i] = q[i + 1]
  BY HeadTailProperties, LenProperties, EmptySeq
<1> HIDE DEF n
<1>2. n > 1
  BY <1>1 DEF Placed, n
<1>3. pos \in [1 .. n -> 1 .. Len(W)] /\ pos[1] = 1 /\ pos[n] = Len(W)
  BY DEF Placed, n
<1>4. 1 \in 1 .. n - 1 /\ Follows(q[1], q[2], pos[1], pos[2]) /\ t[1] = q[2]
  <2>1. 1 \in 1 .. n - 1 /\ 1 + 1 = 2
    BY <1>1, <1>2
  <2> QED BY <1>1, <2>1 DEF Placed, n
<1>5. pos[2] = 1 /\ q[2].fragment_nr = q[1].fragment_nr + 1 /\ q[2].packet_id = q[1].packet_id
  BY <1>3, <1>4 DEF Follows
<1>6. t # <<>>
  BY <1>1, <1>2, EmptySeq
<1>7. \A i \in 1 .. n - 1 : i + 1 \in 1 .. n
  BY <1>1
<1>8. new \in [1 .. Len(t) -> 1 .. Len(W)]
  BY <1>1, <1>3, <1>7
<1>9. \A i \in 1 .. Len(t) : t[i].payload[1] = W[new[i]]
  BY <1>1, <1>7 DEF Placed, n
<1>10. \A i, j \in 1 .. Len(t) : i <= j => new[i] <= new[j]
  <2> SUFFICES ASSUME NEW i \in 1 .. n - 1, NEW j \in 1 .. n - 1, i <= j
               PROVE  new[i] <= new[j]
    BY <1>1
  <2>1. i + 1 \in 1 .. n /\ j + 1 \in 1 .. n /\ i + 1 <= j + 1
    BY <1>1
  <2> QED BY <2>1 DEF Placed, n
<1>11. \A i \in 1 .. Len(t) - 1 : Follows(t[i], t[i + 1], new[i], new[i + 1])
  <2> SUFFICES ASSUME NEW i \in 1 .. n - 1 - 1
               PROVE  Follows(t[i], t[i + 1], new[i], new[i + 1])
    BY <1>1
  <2>1. i \in 1 .. n - 1 /\ i + 1 \in 1 .. n - 1
    BY <1>1
  <2>2. Follows(q[i + 1], q[i + 1 + 1], pos[i + 1], pos[i + 1 + 1])
    BY <2>1 DEF Placed, n
  <2> QED BY <1>1, <2>1, <2>2
<1>12. /\ new[1] = 1 /\ new[Len(t)] = Len(W)
       /\ t[Len(t)].fragment_nr = t[Len(t)].buffer_len - 1
  <2>1. n - 1 \in 1 .. n - 1 /\ n - 1 + 1 = n /\ 1 \in 1 .. n - 1 /\ 1 + 1 = 2
    BY <1>1, <1>2
  <2>2. q[n].fragment_nr = q[n].buffer_len - 1
    BY DEF Placed, n
  <2>3. t[n - 1] = q[n] /\ new[n - 1] = pos[n] /\ new[1] = pos[2]
    BY <1>1, <2>1
  <2> QED BY <1>1, <1>3, <1>5, <2>2, <2>3
<1>13. Placed(t, W, new)
  BY <1>8, <1>9, <1>10, <1>11, <1>12 DEF Placed
<1> QED BY <1>4, <1>5, <1>6, <1>8, <1>13

(* When it is the end of a packet, the first message is through, and what  *)
(* comes next, if anything does, is the first fragment of the second.      *)
LEMMA HeadEnds ==
  ASSUME NEW q \in Seq(Fragment), NEW W \in Seq(Messages), NEW pos, Placed(q, W, pos),
         \A i \in 1 .. Len(q) : WellFormed(Link, q[i]),
         q # <<>>, q[1].fragment_nr = q[1].buffer_len - 1
  PROVE  /\ W # <<>>
         /\ Tail(q) = <<>> => Tail(W) = <<>>
         /\ Tail(q) # <<>> => Tail(q)[1].fragment_nr = 0
         /\ \E new \in [1 .. Len(Tail(q)) -> 1 .. Len(Tail(W))] :
              Placed(Tail(q), Tail(W), new)
<1> DEFINE n == Len(q)
           w == Len(W)
           t == Tail(q)
           V == Tail(W)
           new == [i \in 1 .. n - 1 |-> pos[i + 1] - 1]
<1>1. /\ n \in Nat /\ n # 0 /\ w \in Nat
      /\ t \in Seq(Fragment) /\ Len(t) = n - 1 /\ \A i \in 1 .. n - 1 : t[i] = q[i + 1]
  BY HeadTailProperties, LenProperties, EmptySeq
<1>2. pos \in [1 .. n -> 1 .. w] /\ pos[1] = 1 /\ pos[n] = w
  BY DEF Placed
<1>3. W # <<>>
  <2>1. w # 0
    BY <1>1, <1>2
  <2> QED BY <2>1, EmptySeq
<1>4. V \in Seq(Messages) /\ Len(V) = w - 1 /\ \A i \in 1 .. w - 1 : V[i] = W[i + 1]
  BY <1>3, HeadTailProperties
<1>5. n = 1 => t = <<>> /\ V = <<>>
  <2> SUFFICES ASSUME n = 1 PROVE t = <<>> /\ V = <<>>
    OBVIOUS
  <2>1. Len(t) = 0
    BY <1>1
  <2>2. Len(V) = 0
    BY <1>2, <1>4
  <2> QED BY <1>1, <1>4, <2>1, <2>2, EmptySeq
<1>6. ASSUME n # 1
      PROVE  pos[2] = 2 /\ q[2].fragment_nr = 0 /\ t[1] = q[2] /\ t # <<>>
  <2>1. 1 \in 1 .. n - 1 /\ 1 + 1 = 2 /\ 2 \in 1 .. n /\ 1 \in 1 .. n
    BY <1>1, <1>6
  <2>2. Follows(q[1], q[2], pos[1], pos[2])
    BY <2>1 DEF Placed
  <2>3. q[1] \in Fragment /\ q[2] \in Fragment
    BY <2>1, ElementOfSeq
  <2>4. q[1].payload[1] = W[pos[1]] /\ q[2].payload[1] = W[pos[2]]
    BY <2>1 DEF Placed
  <2>5. ~ (pos[2] = pos[1] /\ q[2].fragment_nr = q[1].fragment_nr + 1)
    <3> SUFFICES ASSUME pos[2] = pos[1], q[2].fragment_nr = q[1].fragment_nr + 1
                 PROVE  FALSE
      OBVIOUS
    <3>1. q[2].buffer_len = q[1].buffer_len /\ q[2].fragment_nr < q[2].buffer_len
      BY <2>1, <2>4 DEF WellFormed
    <3>2. q[1].buffer_len \in Nat /\ q[1].fragment_nr \in Nat
      <4>1. q[1].buffer_len \in 1 .. MaxFragments /\ q[1].fragment_nr \in Cells
        BY <2>3 DEF Fragment
      <4> QED BY <4>1, FragAssumption DEF Cells
    <3> QED BY <3>1, <3>2
  <2>6. pos[2] = 2 /\ q[2].fragment_nr = 0
    BY <1>2, <2>2, <2>5 DEF Follows
  <2>7. Len(t) # 0 /\ t[1] = q[2]
    BY <1>1, <1>6, <2>1
  <2> QED BY <1>1, <2>6, <2>7, EmptySeq
<1> HIDE DEF n, w, t, V
<1>7. ASSUME NEW i \in 1 .. n - 1
      PROVE  i + 1 \in 1 .. n /\ pos[i + 1] \in 2 .. w
  <2>1. i + 1 \in 1 .. n /\ 2 \in 1 .. n /\ 2 <= i + 1 /\ n # 1
    BY <1>1
  <2>2. pos[2] <= pos[i + 1]
    BY <2>1 DEF Placed, n
  <2> QED BY <1>1, <1>2, <1>6, <2>1, <2>2
<1>8. new \in [1 .. Len(t) -> 1 .. Len(V)]
  <2>1. \A i \in 1 .. n - 1 : pos[i + 1] - 1 \in 1 .. w - 1
    BY <1>1, <1>7
  <2> QED BY <1>1, <1>4, <2>1
<1>9. \A i \in 1 .. Len(t) : t[i].payload[1] = V[new[i]]
  <2> SUFFICES ASSUME NEW i \in 1 .. n - 1
               PROVE  t[i].payload[1] = V[pos[i + 1] - 1]
    BY <1>1
  <2>1. PICK j \in 1 .. w - 1 : j = pos[i + 1] - 1 /\ j + 1 = pos[i + 1]
    BY <1>1, <1>7
  <2>2. V[j] = W[pos[i + 1]]
    BY <1>4, <2>1
  <2>3. q[i + 1].payload[1] = W[pos[i + 1]]
    BY <1>7 DEF Placed, n
  <2> QED BY <1>1, <2>1, <2>2, <2>3
<1>10. \A i, j \in 1 .. Len(t) : i <= j => new[i] <= new[j]
  <2> SUFFICES ASSUME NEW i \in 1 .. n - 1, NEW j \in 1 .. n - 1, i <= j
               PROVE  new[i] <= new[j]
    BY <1>1
  <2>1. i + 1 <= j + 1
    BY <1>1
  <2>2. pos[i + 1] <= pos[j + 1]
    BY <1>7, <2>1 DEF Placed, n
  <2>3. pos[i + 1] \in Nat /\ pos[j + 1] \in Nat
    BY <1>1, <1>7
  <2> QED BY <2>2, <2>3
<1>11. \A i \in 1 .. Len(t) - 1 : Follows(t[i], t[i + 1], new[i], new[i + 1])
  <2> SUFFICES ASSUME NEW i \in 1 .. n - 1 - 1
               PROVE  Follows(t[i], t[i + 1], new[i], new[i + 1])
    BY <1>1
  <2>1. i \in 1 .. n - 1 /\ i + 1 \in 1 .. n - 1
    BY <1>1
  <2>2. Follows(q[i + 1], q[i + 1 + 1], pos[i + 1], pos[i + 1 + 1])
    BY <2>1 DEF Placed, n
  <2>3. new[i] = pos[i + 1] - 1 /\ new[i + 1] = pos[i + 1 + 1] - 1
    BY <2>1
  <2>4. pos[i + 1] \in Nat /\ pos[i + 1 + 1] \in Nat
    <3>1. \A k \in 1 .. n - 1 : pos[k + 1] \in Nat
      BY <1>1, <1>7
    <3> QED BY <2>1, <3>1
  <2>5. t[i] = q[i + 1] /\ t[i + 1] = q[i + 1 + 1]
    BY <1>1, <2>1
  <2> HIDE DEF new
  <2>6. /\ pos[i + 1 + 1] = pos[i + 1] => new[i + 1] = new[i]
        /\ pos[i + 1 + 1] = pos[i + 1] + 1 => new[i + 1] = new[i] + 1
    <3>1. PICK x \in Nat, y \in Nat : x = pos[i + 1] /\ y = pos[i + 1 + 1]
      BY <2>4
    <3>2. new[i] = x - 1 /\ new[i + 1] = y - 1
      BY <2>3, <3>1
    <3>3. (y = x => y - 1 = x - 1) /\ (y = x + 1 => y - 1 = x - 1 + 1)
      OBVIOUS
    <3> QED BY <3>1, <3>2, <3>3
  <2> QED BY <2>2, <2>5, <2>6 DEF Follows
<1>12. t # <<>> => /\ new[1] = 1
                   /\ new[Len(t)] = Len(V)
                   /\ t[Len(t)].fragment_nr = t[Len(t)].buffer_len - 1
  <2> SUFFICES ASSUME t # <<>>
               PROVE  /\ new[1] = 1 /\ new[n - 1] = w - 1
                      /\ t[n - 1].fragment_nr = t[n - 1].buffer_len - 1
    BY <1>1, <1>4
  <2>1. n # 1
    BY <1>5
  <2>2. n - 1 \in 1 .. n - 1 /\ n - 1 + 1 = n /\ 1 \in 1 .. n - 1 /\ 1 + 1 = 2
    BY <1>1, <2>1
  <2>3. q[n].fragment_nr = q[n].buffer_len - 1
    BY DEF Placed, n
  <2>4. t[n - 1] = q[n] /\ new[n - 1] = pos[n] - 1 /\ new[1] = pos[2] - 1
    BY <1>1, <2>2
  <2> QED BY <1>1, <1>2, <1>6, <2>1, <2>3, <2>4
<1>13. Placed(t, V, new)
  BY <1>8, <1>9, <1>10, <1>11, <1>12 DEF Placed
<1>14. t = <<>> => V = <<>>
  BY <1>5, <1>6
<1>15. t # <<>> => t[1].fragment_nr = 0
  BY <1>5, <1>6
<1> QED BY <1>3, <1>8, <1>13, <1>14, <1>15 DEF t, V

(* A send puts the fragments of its message behind what is in flight.      *)
LEMMA SendExtends ==
  ASSUME NEW q \in Seq(Fragment), NEW W \in Seq(Messages), NEW pos, Placed(q, W, pos),
         q = <<>> => W = <<>>, NEW m \in Messages, NEW id \in PacketId
  PROVE  LET s == q \o Fragments(id, m)
             V == Append(W, m)
         IN  /\ s # <<>>
             /\ q = <<>> => s[1].fragment_nr = 0
             /\ q # <<>> => s[1] = q[1]
             /\ Len(s) = Len(q) + Frags[m] /\ s[Len(s)].payload[1] = m
             /\ \E new \in [1 .. Len(s) -> 1 .. Len(V)] : Placed(s, V, new)
<1> DEFINE n == Len(q)
           w == Len(W)
           F == Fragments(id, m)
           s == q \o F
           V == Append(W, m)
           new == [i \in 1 .. n + Frags[m] |-> IF i <= n THEN pos[i] ELSE w + 1]
<1>1. n \in Nat /\ w \in Nat /\ Frags[m] \in Nat /\ Frags[m] > 0
  BY LenProperties, FragAssumption
<1>2. F \in Seq(Fragment) /\ Len(F) = Frags[m]
  BY FragmentsType
<1>3. /\ s \in Seq(Fragment) /\ Len(s) = n + Frags[m]
      /\ \A i \in 1 .. n + Frags[m] : s[i] = IF i <= n THEN q[i] ELSE F[i - n]
  <2> HIDE DEF F
  <2>1. /\ q \o F \in Seq(Fragment) /\ Len(q \o F) = Len(q) + Len(F)
        /\ \A i \in 1 .. Len(q) + Len(F) :
             (q \o F)[i] = IF i <= Len(q) THEN q[i] ELSE F[i - Len(q)]
    BY <1>2, ConcatProperties
  <2> QED BY <1>2, <2>1
<1>4. /\ Len(V) = w + 1
      /\ \A i \in 1 .. w : V[i] = W[i]
      /\ V[w + 1] = m
  BY AppendProperties
<1>5. \A i \in 1 .. Frags[m] :
        F[i] = [packet_id |-> id, fragment_nr |-> i - 1, buffer_len |-> Frags[m],
                payload |-> <<m, i - 1>>]
  BY DEF Fragments
<1>6. /\ pos \in [1 .. n -> 1 .. w]
      /\ q # <<>> => /\ pos[1] = 1 /\ pos[n] = w
                     /\ q[n].fragment_nr = q[n].buffer_len - 1
  BY DEF Placed
<1>7. (q = <<>> <=> n = 0) /\ (q = <<>> => w = 0)
  BY EmptySeq
<1> HIDE DEF n, w, F, s, V
<1>8. \A i \in 1 .. n : i \in 1 .. n + Frags[m] /\ s[i] = q[i] /\ new[i] = pos[i]
  BY <1>1, <1>3
<1>9. \A i \in 1 .. n + Frags[m] : ~ (i <= n) =>
        /\ new[i] = w + 1
        /\ s[i].packet_id = id /\ s[i].payload[1] = m
        /\ s[i].fragment_nr = i - n - 1 /\ s[i].buffer_len = Frags[m]
  <2> SUFFICES ASSUME NEW i \in 1 .. n + Frags[m], ~ (i <= n)
               PROVE  /\ s[i].packet_id = id /\ s[i].payload[1] = m
                      /\ s[i].fragment_nr = i - n - 1 /\ s[i].buffer_len = Frags[m]
    OBVIOUS
  <2>1. PICK j \in 1 .. Frags[m] : j = i - n
    BY <1>1
  <2>2. s[i] = F[j]
    BY <1>3, <2>1
  <2>3. /\ F[j].packet_id = id /\ F[j].payload[1] = m
        /\ F[j].fragment_nr = j - 1 /\ F[j].buffer_len = Frags[m]
    <3>1. F[j] = [packet_id |-> id, fragment_nr |-> j - 1, buffer_len |-> Frags[m],
                  payload |-> <<m, j - 1>>]
      BY <1>5
    <3> QED BY <3>1
  <2> QED BY <2>1, <2>2, <2>3
<1>10. new \in [1 .. Len(s) -> 1 .. Len(V)]
  <2>1. \A i \in 1 .. n + Frags[m] : (IF i <= n THEN pos[i] ELSE w + 1) \in 1 .. w + 1
    BY <1>1, <1>6
  <2> QED BY <1>3, <1>4, <2>1
<1>11. \A i \in 1 .. Len(s) : s[i].payload[1] = V[new[i]]
  <2> SUFFICES ASSUME NEW i \in 1 .. n + Frags[m]
               PROVE  s[i].payload[1] = V[new[i]]
    BY <1>3
  <2>1. CASE i <= n
    <3>1. i \in 1 .. n /\ pos[i] \in 1 .. w
      BY <1>1, <1>6, <2>1
    <3>2. q[i].payload[1] = W[pos[i]]
      BY <3>1 DEF Placed, n
    <3> QED BY <1>4, <1>8, <3>1, <3>2
  <2>2. CASE ~ (i <= n)
    BY <1>4, <1>9, <2>2
  <2> QED BY <2>1, <2>2
<1>12. \A i, j \in 1 .. Len(s) : i <= j => new[i] <= new[j]
  <2> SUFFICES ASSUME NEW i \in 1 .. n + Frags[m], NEW j \in 1 .. n + Frags[m], i <= j
               PROVE  new[i] <= new[j]
    BY <1>3
  <2>1. CASE j <= n
    <3>1. i \in 1 .. n /\ j \in 1 .. n
      BY <1>1, <2>1
    <3> QED BY <1>8, <3>1 DEF Placed, n
  <2>2. CASE ~ (j <= n)
    <3>1. new[i] \in 1 .. w + 1
      BY <1>3, <1>4, <1>10
    <3> QED BY <1>1, <1>9, <2>2, <3>1
  <2> QED BY <2>1, <2>2
<1> HIDE DEF new
<1>13. \A i \in 1 .. Len(s) - 1 : Follows(s[i], s[i + 1], new[i], new[i + 1])
  <2> SUFFICES ASSUME NEW i \in 1 .. n + Frags[m] - 1
               PROVE  Follows(s[i], s[i + 1], new[i], new[i + 1])
    <3>1. Len(s) = n + Frags[m]
      BY <1>3
    <3> QED BY <1>1, <3>1
  <2>1. i \in 1 .. n + Frags[m] /\ i + 1 \in 1 .. n + Frags[m]
    BY <1>1
  <2>2. CASE i + 1 <= n
    <3>1. i \in 1 .. n - 1 /\ i \in 1 .. n /\ i + 1 \in 1 .. n
      BY <1>1, <2>2
    <3>2. Follows(q[i], q[i + 1], pos[i], pos[i + 1])
      BY <3>1 DEF Placed, n
    <3> QED BY <1>8, <3>1, <3>2
  <2>3. CASE i = n
    <3>1. i \in 1 .. n /\ q # <<>> /\ ~ (i + 1 <= n)
      BY <1>1, <1>7, <2>1, <2>3
    <3>2. s[i] = q[n] /\ new[i] = w
      BY <1>6, <1>8, <2>3, <3>1
    <3>3. new[i + 1] = w + 1 /\ s[i + 1].fragment_nr = i + 1 - n - 1
      <4>1. PICK j \in 1 .. n + Frags[m] : j = i + 1
        BY <2>1
      <4>2. ~ (j <= n)
        BY <3>1, <4>1
      <4> QED BY <1>1, <1>9, <4>1, <4>2
    <3>4. i + 1 - n - 1 = 0
      BY <1>1, <2>3
    <3> QED BY <1>6, <3>1, <3>2, <3>3, <3>4 DEF Follows
  <2>4. CASE ~ (i <= n)
    <3>1. ~ (i + 1 <= n) /\ i + 1 - n - 1 = i - n - 1 + 1
      BY <1>1, <2>1, <2>4
    <3>2. /\ new[i] = w + 1 /\ new[i + 1] = w + 1
          /\ s[i].fragment_nr = i - n - 1 /\ s[i + 1].fragment_nr = i + 1 - n - 1
          /\ s[i].packet_id = id /\ s[i + 1].packet_id = id
      <4>1. PICK j \in 1 .. n + Frags[m] : j = i + 1
        BY <2>1
      <4>2. ~ (j <= n)
        BY <3>1, <4>1
      <4>3. new[j] = w + 1 /\ s[j].fragment_nr = j - n - 1 /\ s[j].packet_id = id
        BY <1>9, <4>2
      <4>4. new[i] = w + 1 /\ s[i].fragment_nr = i - n - 1 /\ s[i].packet_id = id
        BY <1>9, <2>1, <2>4
      <4> QED BY <1>1, <4>1, <4>3, <4>4
    <3> QED BY <3>1, <3>2 DEF Follows
  <2> QED BY <1>1, <2>2, <2>3, <2>4
<1>14. /\ new[Len(s)] = Len(V) /\ s[Len(s)].payload[1] = m
       /\ s[Len(s)].fragment_nr = s[Len(s)].buffer_len - 1
  <2> DEFINE e == n + Frags[m]
  <2>1. e \in 1 .. n + Frags[m] /\ ~ (e <= n) /\ e - n - 1 = Frags[m] - 1
    BY <1>1
  <2>2. /\ new[e] = w + 1 /\ s[e].payload[1] = m
        /\ s[e].fragment_nr = e - n - 1 /\ s[e].buffer_len = Frags[m]
    BY <1>9, <2>1
  <2> QED BY <1>3, <1>4, <2>1, <2>2
<1>15. /\ new[1] = 1
       /\ q = <<>> => s[1].fragment_nr = 0
       /\ q # <<>> => s[1] = q[1]
  <2>1. CASE q = <<>>
    <3>1. 1 \in 1 .. n + Frags[m] /\ ~ (1 <= n) /\ 1 - n - 1 = 0 /\ w + 1 = 1
      <4>1. n = 0 /\ w = 0
        BY <1>7, <2>1
      <4> QED BY <1>1, <4>1
    <3>2. new[1] = w + 1 /\ s[1].fragment_nr = 1 - n - 1
      BY <1>9, <3>1
    <3> QED BY <2>1, <3>1, <3>2
  <2>2. CASE q # <<>>
    <3>1. 1 \in 1 .. n
      BY <1>1, <1>7, <2>2
    <3> QED BY <1>6, <1>8, <2>2, <3>1
  <2> QED BY <2>1, <2>2
<1>16. Placed(s, V, new)
  BY <1>10, <1>11, <1>12, <1>13, <1>14, <1>15 DEF Placed
<1>17. s # <<>>
  <2>1. Len(s) # 0
    BY <1>1, <1>3
  <2> QED BY <1>3, <2>1, EmptySeq
<1> QED BY <1>3, <1>10, <1>14, <1>15, <1>16, <1>17 DEF s, V, n, F

---------------------------------------------------------------------------
(***************************************************************************)
(* LinkInv is inductive, given what FragUnicastProofs knows, and each step *)
(* of the link is a step of the abstract one.                              *)
(***************************************************************************)

LEMMA LinkInitial == LinkInit => LinkInv
<1> SUFFICES ASSUME LinkInit PROVE LinkInv
  OBVIOUS
<1> DEFINE pos == [i \in 1 .. Len(flight) |-> i]
<1>1. flight = <<>> /\ waiting = <<>> /\ status[r] = "IDLE"
  BY LinkFacts DEF LinkInit, Init, flight
<1>2. Len(flight) = 0 /\ Len(waiting) = 0 /\ waiting \in Seq(Messages)
  BY <1>1, EmptySeq
<1>3. pos \in [1 .. Len(flight) -> 1 .. Len(waiting)]
  BY <1>2
<1>4. Placed(flight, waiting, pos)
  BY <1>1, <1>2, <1>3 DEF Placed
<1> QED BY <1>1, <1>2, <1>3, <1>4 DEF LinkInv, Stream, Reassembly, Fresh

LEMMA FlightType == TypeOK => flight \in Seq(Fragment)
BY LinkFacts DEF TypeOK, flight

(* The fragment in front is the next one of the first message waiting, and *)
(* the parent accepts it: with one child, no fragment is ever discarded.   *)
LEMMA HeadFacts ==
  ASSUME SessionInv, LinkInv, flight # <<>>
  PROVE  LET f == flight[1]
         IN  /\ Head(chan[Link]) = f
             /\ waiting # <<>> /\ waiting[1] \in Messages
             /\ f \in Fragment /\ f.payload = <<waiting[1], f.fragment_nr>>
             /\ f.buffer_len = Frags[waiting[1]]
             /\ f.fragment_nr \in 0 .. f.buffer_len - 1
             /\ f.buffer_len \in Nat
             /\ Accepts(r, a, f)
             /\ f.fragment_nr # 0 => status[r] = "RECEIVING"
             /\ BitsAfter(r, f) = 0 .. f.fragment_nr
<1> DEFINE f == flight[1]
<1>1. flight \in Seq(Fragment) /\ Head(flight) = f
  BY FlightType DEF SessionInv
<1>2. Len(flight) \in Nat /\ Len(flight) # 0 /\ 1 \in 1 .. Len(flight)
  BY <1>1, LenProperties, EmptySeq
<1>3. PICK pos \in [1 .. Len(flight) -> 1 .. Len(waiting)] : Placed(flight, waiting, pos)
  BY DEF LinkInv, Stream
<1>4. pos[1] = 1 /\ 1 \in 1 .. Len(waiting) /\ f.payload[1] = waiting[1]
  BY <1>2, <1>3 DEF Placed
<1>5. waiting \in Seq(Messages) /\ waiting[1] \in Messages /\ waiting # <<>>
  <2>1. waiting \in Seq(Messages)
    BY DEF LinkInv, Stream
  <2>2. waiting # <<>>
    BY <1>4, EmptySeq
  <2> QED BY <1>4, <2>1, <2>2, ElementOfSeq
<1>6. f \in Fragment
  BY <1>1, <1>2, ElementOfSeq
<1>7. WellFormed(Link, f)
  BY <1>2, LinkFacts DEF SessionInv, FragmentsWellFormed, flight
<1>8. f.payload = <<waiting[1], f.fragment_nr>> /\ f.buffer_len = Frags[waiting[1]]
  <2>1. f.payload \in Messages \X Cells
    BY <1>6 DEF Fragment
  <2> QED BY <1>4, <1>7, <2>1 DEF WellFormed
<1>9. f.buffer_len \in Nat /\ f.fragment_nr \in 0 .. f.buffer_len - 1
  <2>1. f.buffer_len \in 1 .. MaxFragments /\ f.fragment_nr \in Cells
    BY <1>6 DEF Fragment
  <2>2. f.buffer_len \in Nat /\ f.fragment_nr \in Nat
    BY <2>1, FragAssumption DEF Cells
  <2> QED BY <1>7, <2>2 DEF WellFormed
<1>10. status[r] \in {"IDLE", "RECEIVING"}
  BY LinkFacts DEF SessionInv, TypeOK
<1>11. Accepts(r, a, f)
  BY <1>10 DEF LinkInv, Reassembly, Accepts
<1>12. f.fragment_nr # 0 => status[r] = "RECEIVING"
  BY <1>10 DEF LinkInv, Fresh
<1>13. BitsAfter(r, f) = 0 .. f.fragment_nr
  <2>1. CASE f.fragment_nr = 0
    BY <2>1 DEF BitsAfter
  <2>2. CASE f.fragment_nr # 0
    <3>1. bits[r] = 0 .. f.fragment_nr - 1
      BY <1>12, <2>2 DEF LinkInv, Reassembly
    <3>2. f.fragment_nr \in Nat
      BY <1>9
    <3> QED BY <2>2, <3>1, <3>2 DEF BitsAfter
  <2> QED BY <2>1, <2>2
<1> QED BY <1>1, <1>5, <1>6, <1>8, <1>9, <1>11, <1>12, <1>13 DEF flight

(* What is in the parent's buffer once it has accepted that fragment: the  *)
(* parts of the first message waiting, up to and with this one.            *)
LEMMA AcceptBuilds ==
  ASSUME SessionInv, LinkInv, NEW f, Accept(Link, f)
  PROVE  /\ flight # <<>> /\ f = flight[1]
         /\ chan'[Link] = Tail(flight)
         /\ from'[r] = a /\ lastRecv'[r] = f.packet_id
         /\ length'[r] = Frags[waiting[1]]
         /\ bits'[r] = 0 .. f.fragment_nr
         /\ \A k \in 0 .. f.fragment_nr : buffer'[r][k] = <<waiting[1], k>>
<1>1. /\ flight # <<>> /\ f = Head(chan[Link])
      /\ chan' = [chan EXCEPT ![Link] = Tail(@)]
      /\ bits' = [bits EXCEPT ![r] = BitsAfter(r, f)]
      /\ buffer' = [buffer EXCEPT ![r][f.fragment_nr] = f.payload]
      /\ IF f.fragment_nr = 0
           THEN /\ from' = [from EXCEPT ![r] = a]
                /\ lastRecv' = [lastRecv EXCEPT ![r] = f.packet_id]
                /\ length' = [length EXCEPT ![r] = f.buffer_len]
           ELSE UNCHANGED <<from, lastRecv, length>>
  BY DEF Accept, flight, a, r
<1>2. f = flight[1]
  BY <1>1, HeadFacts
<1>3. /\ f \in Fragment /\ f.payload = <<waiting[1], f.fragment_nr>>
      /\ f.buffer_len = Frags[waiting[1]] /\ f.fragment_nr \in Nat
      /\ f.fragment_nr # 0 => status[r] = "RECEIVING"
      /\ BitsAfter(r, f) = 0 .. f.fragment_nr
  BY <1>1, <1>2, HeadFacts
<1>4. r \in Nodes /\ Link \in Links
  BY LinkFacts
<1>5. chan'[Link] = Tail(flight) /\ bits'[r] = 0 .. f.fragment_nr
  BY <1>1, <1>3, <1>4 DEF SessionInv, TypeOK, flight
<1>6. f.fragment_nr # 0 => /\ from[r] = a /\ lastRecv[r] = f.packet_id
                           /\ length[r] = Frags[waiting[1]]
                           /\ \A k \in 0 .. f.fragment_nr - 1 :
                                buffer[r][k] = <<waiting[1], k>>
  BY <1>2, <1>3 DEF LinkInv, Reassembly
<1>7. from'[r] = a /\ lastRecv'[r] = f.packet_id /\ length'[r] = Frags[waiting[1]]
  BY <1>1, <1>3, <1>4, <1>6 DEF SessionInv, TypeOK
<1>8. ASSUME NEW k \in 0 .. f.fragment_nr
      PROVE  buffer'[r][k] = <<waiting[1], k>>
  <2>1. f.fragment_nr \in Cells
    BY <1>3 DEF Fragment
  <2>2. k \in Cells
    BY <1>3, <2>1, FragAssumption DEF Cells
  <2>3. buffer \in [Nodes -> [Cells -> Cell]]
    BY DEF SessionInv, TypeOK
  <2>4. buffer'[r][k] = IF k = f.fragment_nr THEN f.payload ELSE buffer[r][k]
    BY <1>1, <1>4, <2>1, <2>2, <2>3
  <2>5. CASE k = f.fragment_nr
    BY <1>3, <2>4, <2>5
  <2>6. CASE k # f.fragment_nr
    <3>1. f.fragment_nr # 0 /\ k \in 0 .. f.fragment_nr - 1
      BY <1>3, <2>6
    <3> QED BY <1>6, <2>4, <2>6, <3>1
  <2> QED BY <2>5, <2>6
<1> QED BY <1>1, <1>2, <1>5, <1>7, <1>8

(* A send waits behind the others.                                         *)
LEMMA SendKeepsLink ==
  ASSUME SessionInv, LinkInv, NEW m \in Messages, Send(Link, m), waiting' = WaitingAfter
  PROVE  LinkInv' /\ waiting' = Append(waiting, m) /\ up' = Nothing
<1> DEFINE id == NextId(a)
           s  == flight \o Fragments(id, m)
<1>1. /\ chan' = [chan EXCEPT ![Link] = @ \o Fragments(id, m)]
      /\ Compose(a, m) /\ up' = Nothing
      /\ UNCHANGED <<status, from, lastRecv, bits, timer>>
  BY DEF Send, a
<1>2. flight \in Seq(Fragment) /\ id \in PacketId
  BY LinkFacts, FlightType, NextIdType DEF SessionInv
<1>3. flight' = s /\ chan'[Link] = s
  BY <1>1, LinkFacts DEF SessionInv, TypeOK, flight
<1>4. PICK pos \in [1 .. Len(flight) -> 1 .. Len(waiting)] : Placed(flight, waiting, pos)
  BY DEF LinkInv, Stream
<1>5. waiting \in Seq(Messages) /\ (flight = <<>> => waiting = <<>>)
  BY DEF LinkInv, Stream
<1>6. /\ s # <<>>
      /\ flight = <<>> => s[1].fragment_nr = 0
      /\ flight # <<>> => s[1] = flight[1]
      /\ Len(s) = Len(flight) + Frags[m] /\ s[Len(s)].payload[1] = m
      /\ \E new \in [1 .. Len(s) -> 1 .. Len(Append(waiting, m))] :
           Placed(s, Append(waiting, m), new)
  BY <1>2, <1>4, <1>5, SendExtends
<1> HIDE DEF s, id
<1>7. Len(s) > Len(flight)
  <2>1. Len(flight) \in Nat /\ Frags[m] \in Nat /\ Frags[m] > 0
    BY <1>2, LenProperties, FragAssumption
  <2> QED BY <1>6, <2>1
<1>8. waiting' = Append(waiting, m)
  BY <1>1, <1>3, <1>6, <1>7 DEF WaitingAfter, flight
<1>9. Stream'
  <2>1. waiting' \in Seq(Messages)
    BY <1>5, <1>8, AppendProperties
  <2> QED BY <1>3, <1>6, <1>8, <2>1 DEF Stream
<1>10. length'[r] = length[r] /\ buffer'[r] = buffer[r]
  BY <1>1, LinkFacts DEF Compose, SessionInv, TypeOK
<1>11. flight # <<>> => flight'[1] = flight[1] /\ waiting'[1] = waiting[1]
  <2> SUFFICES ASSUME flight # <<>> PROVE waiting'[1] = waiting[1]
    BY <1>3, <1>6
  <2>1. 1 \in 1 .. Len(waiting)
    <3>1. waiting # <<>>
      BY HeadFacts
    <3> QED BY <1>5, <3>1, LenProperties, EmptySeq
  <2> QED BY <1>5, <1>8, <2>1, AppendProperties
<1>12. Reassembly'
  BY <1>1, <1>3, <1>6, <1>10, <1>11 DEF LinkInv, Reassembly
<1>13. Fresh'
  BY <1>1, <1>3, <1>6, <1>11 DEF LinkInv, Fresh
<1> QED BY <1>1, <1>8, <1>9, <1>12, <1>13 DEF LinkInv

(* A fragment in the middle of a packet leaves the rest of it in flight.   *)
LEMMA CollectKeepsLink ==
  ASSUME SessionInv, LinkInv, Collect(Link), waiting' = WaitingAfter
  PROVE  LinkInv' /\ waiting' = waiting /\ up' = Nothing
<1> DEFINE f == Head(chan[Link])
<1>1. /\ Accept(Link, f) /\ ~ AllReceived(BitsAfter(r, f), f)
      /\ status' = [status EXCEPT ![r] = "RECEIVING"] /\ up' = Nothing
  BY DEF Collect, r
<1> HIDE DEF f
<1>2. /\ flight # <<>> /\ f = flight[1] /\ chan'[Link] = Tail(flight)
      /\ from'[r] = a /\ lastRecv'[r] = f.packet_id
      /\ length'[r] = Frags[waiting[1]] /\ bits'[r] = 0 .. f.fragment_nr
      /\ \A k \in 0 .. f.fragment_nr : buffer'[r][k] = <<waiting[1], k>>
  BY <1>1, AcceptBuilds
<1>3. /\ f.buffer_len \in Nat /\ f.fragment_nr \in 0 .. f.buffer_len - 1
      /\ BitsAfter(r, f) = 0 .. f.fragment_nr
  BY <1>2, HeadFacts
<1>4. f.fragment_nr # f.buffer_len - 1
  BY <1>1, <1>3 DEF AllReceived
<1>5. flight \in Seq(Fragment) /\ waiting \in Seq(Messages)
  BY FlightType DEF SessionInv, LinkInv, Stream
<1>6. PICK pos \in [1 .. Len(flight) -> 1 .. Len(waiting)] : Placed(flight, waiting, pos)
  BY DEF LinkInv, Stream
<1>7. /\ Tail(flight) # <<>>
      /\ Tail(flight)[1].fragment_nr = f.fragment_nr + 1
      /\ Tail(flight)[1].packet_id = f.packet_id
      /\ \E new \in [1 .. Len(Tail(flight)) -> 1 .. Len(waiting)] :
           Placed(Tail(flight), waiting, new)
  BY <1>2, <1>4, <1>5, <1>6, HeadInside
<1>8. flight' = Tail(flight)
  BY <1>2 DEF flight
<1>9. waiting' = waiting
  <2>1. Len(Tail(flight)) = Len(flight) - 1 /\ Len(flight) \in Nat
    BY <1>2, <1>5, HeadTailProperties, LenProperties
  <2>2. ~ (Len(chan'[Link]) > Len(chan[Link]))
    BY <1>2, <2>1 DEF flight
  <2> QED BY <1>1, <2>2 DEF WaitingAfter
<1>10. Stream'
  BY <1>5, <1>7, <1>8, <1>9 DEF Stream
<1>11. Reassembly'
  <2>1. /\ flight'[1].fragment_nr # 0
        /\ 0 .. flight'[1].fragment_nr - 1 = 0 .. f.fragment_nr
    <3>1. PICK k \in Nat : k = f.fragment_nr
      BY <1>3
    <3>2. k + 1 # 0 /\ k + 1 - 1 = k
      OBVIOUS
    <3>3. flight'[1].fragment_nr = k + 1
      BY <1>7, <1>8, <3>1
    <3> QED BY <3>1, <3>2, <3>3
  <2> QED BY <1>2, <1>7, <1>8, <1>9, <2>1 DEF Reassembly
<1>12. Fresh'
  <2>1. status'[r] = "RECEIVING"
    BY <1>1, LinkFacts DEF SessionInv, TypeOK
  <2> QED BY <2>1 DEF Fresh
<1> QED BY <1>1, <1>9, <1>10, <1>11, <1>12 DEF LinkInv

(* The last fragment of a packet hands over the first message waiting.     *)
LEMMA CompleteKeepsLink ==
  ASSUME SessionInv, LinkInv, Complete(Link), waiting' = WaitingAfter
  PROVE  /\ LinkInv'
         /\ waiting # <<>> /\ waiting' = Tail(waiting)
         /\ Handed' = Head(waiting)
         /\ DeliveredWhole'
<1> DEFINE f == Head(chan[Link])
           m == waiting[1]
<1>1. /\ Accept(Link, f) /\ AllReceived(BitsAfter(r, f), f)
      /\ status' = [status EXCEPT ![r] = "IDLE"]
      /\ up' = [to |-> r, from |-> a, cells |-> buffer'[r], length |-> length'[r],
                session |-> SessionAfter(r, f)]
  BY DEF Complete, r, a
<1> HIDE DEF f
<1>2. /\ flight # <<>> /\ f = flight[1] /\ chan'[Link] = Tail(flight)
      /\ length'[r] = Frags[m]
      /\ \A k \in 0 .. f.fragment_nr : buffer'[r][k] = <<m, k>>
  BY <1>1, AcceptBuilds
<1>3. /\ f.buffer_len \in Nat /\ f.fragment_nr \in 0 .. f.buffer_len - 1
      /\ f.buffer_len = Frags[m] /\ m \in Messages /\ waiting # <<>>
      /\ BitsAfter(r, f) = 0 .. f.fragment_nr
  BY <1>2, HeadFacts
<1>4. f.fragment_nr = f.buffer_len - 1
  <2>1. f.buffer_len - 1 \in 0 .. f.buffer_len - 1
    BY <1>3
  <2>2. f.buffer_len - 1 \in 0 .. f.fragment_nr
    BY <1>1, <1>3, <2>1 DEF AllReceived
  <2> QED BY <1>3, <2>2
<1>5. flight \in Seq(Fragment) /\ waiting \in Seq(Messages)
  BY FlightType DEF SessionInv, LinkInv, Stream
<1>6. PICK pos \in [1 .. Len(flight) -> 1 .. Len(waiting)] : Placed(flight, waiting, pos)
  BY DEF LinkInv, Stream
<1>7. \A i \in 1 .. Len(flight) : WellFormed(Link, flight[i])
  BY LinkFacts DEF SessionInv, FragmentsWellFormed, flight
<1>8. /\ Tail(flight) = <<>> => Tail(waiting) = <<>>
      /\ Tail(flight) # <<>> => Tail(flight)[1].fragment_nr = 0
      /\ \E new \in [1 .. Len(Tail(flight)) -> 1 .. Len(Tail(waiting))] :
           Placed(Tail(flight), Tail(waiting), new)
  BY <1>2, <1>4, <1>5, <1>6, <1>7, HeadEnds
<1>9. /\ up' # Nothing /\ up'.length = Frags[m] /\ up'.from = a
      /\ \A k \in 0 .. Frags[m] - 1 : up'.cells[k] = <<m, k>>
  <2>1. up'.to # Nothing.to
    BY <1>1, LinkFacts, FragAssumption DEF Nothing
  <2> QED BY <1>1, <1>2, <1>3, <1>4, <2>1
<1>10. waiting' = Tail(waiting)
  BY <1>3, <1>5, <1>9, TailIsSubSeq DEF WaitingAfter
<1>11. flight' = Tail(flight)
  BY <1>2 DEF flight
<1>12. Stream'
  <2>1. Tail(waiting) \in Seq(Messages)
    BY <1>3, <1>5, HeadTailProperties
  <2> QED BY <1>8, <1>10, <1>11, <2>1 DEF Stream
<1>13. status'[r] = "IDLE"
  BY <1>1, LinkFacts DEF SessionInv, TypeOK
<1>14. Reassembly' /\ Fresh'
  BY <1>8, <1>11, <1>13 DEF Reassembly, Fresh
<1>15. Handed' = Head(waiting)
  <2> DEFINE whole == {o \in Messages : /\ up'.length = Frags[o]
                                        /\ \A k \in 0 .. Frags[o] - 1 :
                                             up'.cells[k] = <<o, k>>}
  <2>1. m \in whole
    BY <1>3, <1>9
  <2>2. ASSUME NEW o \in whole PROVE o = m
    <3>1. 0 \in 0 .. Frags[o] - 1
      BY FragAssumption
    <3>2. 0 \in 0 .. Frags[m] - 1
      BY <1>3, FragAssumption
    <3> QED BY <1>9, <3>1, <3>2
  <2>3. whole = {m}
    BY <2>1, <2>2
  <2>4. Handed' = IF whole = {} THEN NoNode ELSE CHOOSE o \in whole : TRUE
    BY <1>9 DEF Handed
  <2> HIDE DEF whole
  <2>5. (CHOOSE o \in whole : TRUE) = m
    BY <2>3
  <2>6. Head(waiting) = m
    BY <1>3, <1>5
  <2> QED BY <2>3, <2>4, <2>5, <2>6
<1>16. DeliveredWhole'
  BY <1>3, <1>9, LinkFacts DEF DeliveredWhole
<1> QED BY <1>3, <1>10, <1>12, <1>14, <1>15, <1>16 DEF LinkInv

(* No other step touches the link or the parent.                           *)
LEMMA RefusedKeepsLink ==
  ASSUME SessionInv, LinkInv, NEW m \in Messages, SendRefused(Source[m], m),
         waiting' = WaitingAfter
  PROVE  LinkInv' /\ waiting' = waiting /\ up' = Nothing
<1>1. /\ Compose(a, m) /\ up' = Nothing
      /\ UNCHANGED <<status, from, lastRecv, bits, timer, chan>>
  BY LinkFacts DEF SendRefused
<1>2. length'[r] = length[r] /\ buffer'[r] = buffer[r]
  BY <1>1, LinkFacts DEF Compose, SessionInv, TypeOK
<1>3. waiting' = waiting
  <2>1. Len(flight) \in Nat
    BY FlightType, LenProperties DEF SessionInv
  <2> QED BY <1>1, <2>1 DEF WaitingAfter, flight
<1> QED BY <1>1, <1>2, <1>3 DEF LinkInv, Stream, Reassembly, Fresh, flight

(* The parent's timeout finds the rest of the packet still in flight, and  *)
(* the radio is not that late.                                             *)
LEMMA TimeoutKeepsLink ==
  ASSUME SessionInv, TimerGuardsSession, LinkInv, NEW n \in Nodes, ReassemblyTimeout(n),
         waiting' = WaitingAfter
  PROVE  LinkInv' /\ waiting' = waiting /\ up' = Nothing
<1>1. n # r
  <2> SUFFICES ASSUME n = r PROVE FALSE
    OBVIOUS
  <2>1. status[r] = "RECEIVING"
    BY LinkFacts DEF ReassemblyTimeout, TimerGuardsSession
  <2>2. chan[Link] = <<>>
    BY LinkFacts DEF ReassemblyTimeout, r
  <2> QED BY <2>1, <2>2 DEF LinkInv, Reassembly, flight
<1>2. /\ status' = [status EXCEPT ![n] = "IDLE"] /\ from' = [from EXCEPT ![n] = NoNode]
      /\ bits' = [bits EXCEPT ![n] = {}] /\ length' = [length EXCEPT ![n] = 0]
      /\ up' = Nothing /\ UNCHANGED <<lastRecv, buffer, chan>>
  BY DEF ReassemblyTimeout
<1>3. /\ status'[r] = status[r] /\ from'[r] = from[r] /\ bits'[r] = bits[r]
      /\ length'[r] = length[r]
  BY <1>1, <1>2, LinkFacts DEF SessionInv, TypeOK
<1>4. waiting' = waiting
  <2>1. Len(flight) \in Nat
    BY FlightType, LenProperties DEF SessionInv
  <2> QED BY <1>2, <2>1 DEF WaitingAfter, flight
<1> QED BY <1>2, <1>3, <1>4 DEF LinkInv, Stream, Reassembly, Fresh, flight

---------------------------------------------------------------------------
(* Every step keeps LinkInv and is a step of the abstract link.            *)
LEMMA LinkStep ==
  ASSUME SessionInv, TimerGuardsSession, LinkInv, DeliveredWhole, [LinkNext]_linkVars
  PROVE  LinkInv' /\ DeliveredWhole' /\ [Datagram!Next]_(Datagram!vars)
<1>1. CASE UNCHANGED linkVars
  <2>1. UNCHANGED <<status, from, lastRecv, bits, buffer, length, chan, up, waiting>>
    BY <1>1 DEF linkVars, vars
  <2>2. LinkInv' /\ DeliveredWhole'
    BY <2>1 DEF LinkInv, Stream, Reassembly, Fresh, flight, DeliveredWhole
  <2>3. UNCHANGED Datagram!vars
    BY <2>1 DEF Datagram!vars, Handed
  <2> QED BY <2>2, <2>3
<1>2. ASSUME NEW m \in Messages, Send(Link, m), waiting' = WaitingAfter
      PROVE  LinkInv' /\ DeliveredWhole' /\ Datagram!Next
  <2>1. LinkInv' /\ waiting' = Append(waiting, m) /\ up' = Nothing
    BY <1>2, SendKeepsLink
  <2>2. Handed' = NoMessage
    BY <2>1 DEF Handed
  <2> QED BY <2>1, <2>2 DEF Datagram!Next, Datagram!Send, DeliveredWhole
<1>3. ASSUME Complete(Link), waiting' = WaitingAfter
      PROVE  LinkInv' /\ DeliveredWhole' /\ Datagram!Next
  BY <1>3, CompleteKeepsLink DEF Datagram!Next, Datagram!Deliver
<1>4. ASSUME LinkInv', waiting' = waiting, up' = Nothing
      PROVE  LinkInv' /\ DeliveredWhole' /\ Datagram!Next
  <2>1. Handed' = NoMessage
    BY <1>4 DEF Handed
  <2> QED BY <1>4, <2>1 DEF Datagram!Next, Datagram!Rest, DeliveredWhole
<1>5. ~ Discard(Link) /\ ~ Lose(Link)
  BY HeadFacts, LinkFacts DEF Discard, Lose, flight, a, r
<1>6. CASE LinkNext
  <2>1. waiting' = WaitingAfter /\ Next
    BY <1>6 DEF LinkNext
  <2>2. CASE \E l \in Links, m \in Messages : Send(l, m)
    BY <1>2, <2>1, <2>2, LinkFacts
  <2>3. CASE \E m \in Messages : SendRefused(Source[m], m)
    BY <1>4, <2>1, <2>3, RefusedKeepsLink
  <2>4. CASE \E l \in Links : Discard(l) \/ Collect(l) \/ Complete(l) \/ Lose(l)
    BY <1>3, <1>4, <1>5, <2>1, <2>4, CollectKeepsLink, LinkFacts
  <2>5. CASE \E n \in Nodes : ReassemblyTimeout(n)
    BY <1>4, <2>1, <2>5, TimeoutKeepsLink
  <2> QED BY <2>1, <2>2, <2>3, <2>4, <2>5 DEF Next
<1> QED BY <1>1, <1>6

LEMMA LinkIsFragUnicast == LinkSpec => Spec
<1>1. LinkInit => Init
  BY DEF LinkInit
<1>2. [LinkNext]_linkVars => [Next]_vars
  BY DEF LinkNext, linkVars
<1> QED BY <1>1, <1>2, PTL DEF LinkSpec, Spec

LEMMA KnownHolds == LinkSpec => [](SessionInv /\ TimerGuardsSession)
BY LinkIsFragUnicast, SessionInit, SessionNext, TimerCorrect, PTL DEF Spec

LEMMA LinkInvHolds == LinkSpec => [](LinkInv /\ DeliveredWhole)
<1>1. LinkInit => LinkInv /\ DeliveredWhole
  BY LinkInitial DEF LinkInit, Init, DeliveredWhole
<1>2. /\ SessionInv /\ TimerGuardsSession /\ LinkInv /\ DeliveredWhole
      /\ [LinkNext]_linkVars
      => (LinkInv /\ DeliveredWhole)'
  BY LinkStep
<1> QED BY <1>1, <1>2, KnownHolds, PTL DEF LinkSpec

(* frag_unicast_send and recv_from_unicast between one child and its       *)
(* parent hand over only what was sent, whole, once each and in order: the *)
(* safety of ImplementsDatagram, for any number of messages, fragments and *)
(* packet ids.                                                             *)
THEOREM DatagramImplemented == LinkSpec => Datagram!SafeSpec
<1>1. LinkInit => Datagram!Init
  BY DEF LinkInit, Init, Datagram!Init, Handed
<1>2. /\ SessionInv /\ TimerGuardsSession /\ LinkInv /\ DeliveredWhole
      /\ [LinkNext]_linkVars
      => [Datagram!Next]_(Datagram!vars)
  BY LinkStep
<1> QED BY <1>1, <1>2, KnownHolds, LinkInvHolds, PTL DEF LinkSpec, Datagram!SafeSpec

(* What the comments of recv_from_unicast say of every connection is true  *)
(* of one with a single child and no loss: what it hands up is a message   *)
(* of the sender it names.                                                 *)
THEOREM OneChildDeliveredWhole == LinkSpec => []DeliveredWhole
BY LinkInvHolds, PTL

=============================================================================
