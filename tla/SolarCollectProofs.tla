------------------------- MODULE SolarCollectProofs -------------------------
(***************************************************************************)
(* Proofs about SolarCollect: et always expires before periodic does, so   *)
(* that no period passes without a packet, whatever the period, the room   *)
(* in the event queue and the events of other processes.                   *)
(***************************************************************************)
EXTENDS SolarCollect, SequenceTheorems, TLAPS

(* What the timers are for.                                                *)
TimersOK ==
  /\ running \in BOOLEAN /\ computing \in BOOLEAN
  /\ computing => running
  /\ timerlist \in Lists
  /\ left \in [Timers -> Nat]

QueueOK ==
  /\ events \in Seq(Timers \union {"other"}) /\ Len(events) <= NumEvents
  /\ sent \in Nat /\ ended \in Nat /\ others \in Nat

(* Before the loop only et is on the list; then et comes first, and is due *)
(* no later than periodic.                                                 *)
Ordered ==
  IF running THEN /\ timerlist \in {<<>>, <<"periodic">>, <<"et", "periodic">>}
                  /\ timerlist = <<"et", "periodic">> => left["et"] <= left["periodic"]
             ELSE timerlist \in {<<>>, <<"et">>}

(* Every packet of the period took an event, and every event of it that is *)
(* not in the queue is that of a timer still on the list.                  *)
Quota ==
  running => sent + Len(events) + Len(timerlist) <= others + 2

(* Between a round and the next one no timer comes off the list: et has    *)
(* expired only if the round found it so.                                  *)
Sends == computing /\ Expired("et") => sent > 0

Clocks == {time, begin, acc, packet, counted, upto}
EnergyOK == Clocks \subseteq 0..(Wrap - 1)

Inv == TimersOK /\ QueueOK /\ Ordered /\ EveryPeriodSends /\ Quota /\ Sends

-----------------------------------------------------------------------------
(* Who is on a list.                                                       *)
LEMMA MembersOfLists ==
  /\ Members(<<>>) = {}
  /\ Members(<<"et">>) = {"et"}
  /\ Members(<<"periodic">>) = {"periodic"}
  /\ Members(<<"et", "periodic">>) = {"et", "periodic"}
  /\ Members(<<"periodic", "et">>) = {"et", "periodic"}
<1>1. Members(<<>>) = {}
  BY DEF Members
<1>2. ASSUME NEW a PROVE Members(<<a>>) = {a}
  BY DEF Members
<1>3. ASSUME NEW a, NEW b PROVE Members(<<a, b>>) = {a, b}
  <2>1. DOMAIN <<a, b>> = {1, 2}
    OBVIOUS
  <2> QED BY <2>1 DEF Members
<1> QED BY <1>1, <1>2, <1>3

(* How long they are.                                                      *)
LEMMA LengthsOfLists ==
  /\ Len(<<>>) = 0
  /\ Len(<<"et">>) = 1 /\ Len(<<"periodic">>) = 1
  /\ Len(<<"et", "periodic">>) = 2 /\ Len(<<"periodic", "et">>) = 2
OBVIOUS

LEMMA ShortLists ==
  ASSUME NEW list \in Lists
  PROVE  Len(list) \in 0..2
<1>1. CASE list = <<>>
  BY <1>1
<1>2. CASE list = <<"et">>
  BY <1>2
<1>3. CASE list = <<"periodic">>
  BY <1>3
<1>4. CASE list = <<"et", "periodic">>
  BY <1>4
<1>5. CASE list = <<"periodic", "et">>
  BY <1>5
<1> QED BY <1>1, <1>2, <1>3, <1>4, <1>5 DEF Lists

(* Lists are sequences of timers.                                          *)
LEMMA ListsAreSequences ==
  ASSUME NEW list \in Lists
  PROVE  list \in Seq(Timers \union {"other"})
<1> DEFINE T == {"et", "periodic", "other"}
<1>1. T = Timers \union {"other"}
  BY DEF Timers
<1>2. <<>> \in Seq(T)
  OBVIOUS
<1>3. ASSUME NEW a \in T PROVE <<a>> \in Seq(T)
  OBVIOUS
<1>4. ASSUME NEW a \in T, NEW b \in T PROVE <<a, b>> \in Seq(T)
  OBVIOUS
<1>5. "et" \in T /\ "periodic" \in T
  OBVIOUS
<1> HIDE DEF T
<1>6. CASE list = <<>>
  BY <1>1, <1>2, <1>6
<1>7. CASE list = <<"et">>
  BY <1>1, <1>3, <1>5, <1>7
<1>8. CASE list = <<"periodic">>
  BY <1>1, <1>3, <1>5, <1>8
<1>9. CASE list = <<"et", "periodic">>
  BY <1>1, <1>4, <1>5, <1>9
<1>10. CASE list = <<"periodic", "et">>
  BY <1>1, <1>4, <1>5, <1>10
<1> QED BY <1>6, <1>7, <1>8, <1>9, <1>10 DEF Lists

(* AlwaysFaster is part of the order of the list.                          *)
LEMMA OrderedIsFaster == Ordered => AlwaysFaster
<1> SUFFICES ASSUME Ordered, running, Expired("periodic") PROVE Expired("et")
  BY DEF AlwaysFaster
<1>1. timerlist \in {<<>>, <<"periodic">>, <<"et", "periodic">>}
  BY DEF Ordered
<1> QED BY <1>1, MembersOfLists DEF Expired

-----------------------------------------------------------------------------
LEMMA InitInv == Init => Inv
<1> SUFFICES ASSUME Init PROVE Inv
  OBVIOUS
<1> USE SolarCollectAssumption
<1>1. TimersOK
  BY DEF Init, TimersOK, Lists, Timers
<1>2. QueueOK
  BY DEF Init, QueueOK
<1>3. Ordered
  BY DEF Init, Ordered
<1>4. EveryPeriodSends
  BY DEF Init, EveryPeriodSends
<1>5. Quota
  BY DEF Init, Quota
<1>6. Sends
  BY DEF Init, Sends
<1> QED BY <1>1, <1>2, <1>3, <1>4, <1>5, <1>6 DEF Inv

(* A period begins with et before periodic on the list, and due no later.  *)
LEMMA BeginPeriodOrders ==
  ASSUME TimersOK, Ordered, Expired("periodic"), BeginPeriod,
         running \/ Expired("et")
  PROVE  /\ timerlist' = <<"et", "periodic">>
         /\ left' \in [Timers -> Nat]
         /\ left'["et"] <= left'["periodic"]
<1>1. Expired("et")
  BY OrderedIsFaster DEF AlwaysFaster
<1>2. timerlist = <<>>
  <2>1. timerlist \in Lists /\ "et" \notin Members(timerlist)
                            /\ "periodic" \notin Members(timerlist)
    BY <1>1 DEF Expired, TimersOK
  <2> QED BY <2>1, MembersOfLists DEF Lists
<1>3. PICK delay \in 0..(Period - 1), skew \in {0, 1} : SetTimers(delay, skew)
  BY DEF BeginPeriod
<1>4. timerlist' = (<<"et">> \o <<"periodic">>) \o <<>>
  BY <1>1, <1>2, <1>3 DEF SetTimers
<1>5. timerlist' = <<"et", "periodic">>
  <2>1. <<"et">> \o <<"periodic">> = <<"et", "periodic">>
    <3> DEFINE one == <<"et">>  two == <<"periodic">>  both == <<"et", "periodic">>
    <3>1. one \in Seq(Timers) /\ two \in Seq(Timers) /\ both \in Seq(Timers)
      BY DEF Timers
    <3>2. Len(one) = 1 /\ Len(two) = 1 /\ Len(both) = 2
          /\ one[1] = "et" /\ two[1] = "periodic" /\ both[1] = "et" /\ both[2] = "periodic"
      OBVIOUS
    <3> HIDE DEF one, two, both
    <3>3. one \o two \in Seq(Timers) /\ Len(one \o two) = 1 + 1
      BY <3>1, <3>2, ConcatProperties
    <3>4. \A i \in 1..2 : (one \o two)[i] = IF i <= 1 THEN one[i] ELSE two[i - 1]
      <4>1. \A i \in 1..(Len(one) + Len(two)) :
              (one \o two)[i] = IF i <= Len(one) THEN one[i] ELSE two[i - Len(one)]
        BY <3>1, ConcatProperties, Zenon
      <4>2. Len(one) + Len(two) = 2
        BY <3>2
      <4> QED BY <3>2, <4>1, <4>2
    <3>5. \A i \in 1..2 : (one \o two)[i] = both[i]
      BY <3>2, <3>4
    <3>6. one \o two = both
      BY <3>1, <3>2, <3>3, <3>5, SeqEqual
    <3> QED BY <3>6 DEF one, two, both
  <2>2. <<"et", "periodic">> \o <<>> = <<"et", "periodic">>
    OBVIOUS
  <2> QED BY <1>4, <2>1, <2>2
<1>6. left' = [t \in Timers |-> IF t = "et" THEN delay + skew ELSE Period]
  BY <1>3 DEF SetTimers
<1> QED BY <1>5, <1>6, SolarCollectAssumption DEF Timers

LEMMA TickInv == Inv /\ Tick => Inv'
<1> SUFFICES ASSUME Inv, Tick PROVE Inv'
  OBVIOUS
<1>1. left' = [t \in Timers |-> IF left[t] = 0 THEN 0 ELSE left[t] - 1]
      /\ UNCHANGED <<running, computing, timerlist, events, period>>
  BY DEF Tick, control
<1>2. TimersOK'
  BY <1>1 DEF Inv, TimersOK
<1>3. QueueOK'
  BY <1>1 DEF Inv, QueueOK, period
<1>4. Ordered'
  BY <1>1 DEF Inv, Ordered, TimersOK, Timers
<1>5. EveryPeriodSends' /\ Quota' /\ Sends'
  BY <1>1 DEF Inv, EveryPeriodSends, Quota, Sends, Expired, period
<1> QED BY <1>2, <1>3, <1>4, <1>5 DEF Inv

(* The event timer process takes timers off the list; periodic never goes  *)
(* before et does.                                                         *)
LEMMA PollInv == Inv /\ Poll => Inv'
<1> SUFFICES ASSUME Inv, Poll PROVE Inv'
  OBVIOUS
<1> USE SolarCollectAssumption
<1>0. ~computing
  BY DEF Poll
<1>1. PICK posted \in Lists \ {<<>>}, rest \in Lists :
        /\ Members(posted) \subseteq Due
        /\ \/ timerlist = posted \o rest
           \/ timerlist = rest \o posted /\ Members(rest) \cap Due = {}
        /\ Post(posted)
        /\ timerlist' = rest
        /\ UNCHANGED <<running, computing, left, period, energy>>
  BY DEF Poll, control
<1>2. TimersOK'
  BY <1>1 DEF Inv, TimersOK
<1>3. QueueOK'
  <2>1. posted \in Seq(Timers \union {"other"})
    BY ListsAreSequences
  <2>2. events' \in Seq(Timers \union {"other"}) /\ Len(events') <= NumEvents
    BY <1>1, <2>1 DEF Post, Inv, QueueOK
  <2> QED BY <1>1, <2>2 DEF Inv, QueueOK, period
<1>4. EveryPeriodSends'
  BY <1>1 DEF Inv, EveryPeriodSends, period
<1>5. Ordered'
  <2>1. posted \in {<<"et">>, <<"periodic">>, <<"et", "periodic">>, <<"periodic", "et">>}
        /\ rest \in {<<>>, <<"et">>, <<"periodic">>, <<"et", "periodic">>, <<"periodic", "et">>}
    BY DEF Lists
  <2>2. CASE ~running
    <3>1. timerlist \in {<<>>, <<"et">>}
      BY <2>2 DEF Inv, Ordered
    <3>2. Len(posted) >= 1 /\ Len(rest) >= 0 /\ Len(timerlist) = Len(posted) + Len(rest)
      BY <1>1, <2>1
    <3>3. rest = <<>>
      BY <2>1, <3>1, <3>2
    <3> QED BY <1>1, <2>2, <3>3 DEF Ordered
  <2>3. CASE running
    <3>1. timerlist \in {<<>>, <<"periodic">>, <<"et", "periodic">>}
      BY <2>3 DEF Inv, Ordered
    <3>2. Len(posted) >= 1 /\ Len(rest) >= 0 /\ Len(timerlist) = Len(posted) + Len(rest)
      BY <1>1, <2>1
    <3>3. rest \in {<<>>, <<"periodic">>, <<"et">>}
      <4>1. Len(timerlist) \in 0..2
        BY ShortLists DEF Inv, TimersOK
      <4>2. Len(rest) < 2
        BY <3>2, <4>1
      <4> QED BY <2>1, <4>2, LengthsOfLists
    <3>4. rest # <<"et">>
      <4> SUFFICES ASSUME rest = <<"et">> PROVE FALSE
        OBVIOUS
      <4>1. Len(posted) = 1 /\ Len(timerlist) = 2
        <5>1. Len(rest) = 1
          BY LengthsOfLists
        <5>2. Len(timerlist) \in 0..2
          BY ShortLists DEF Inv, TimersOK
        <5>3. Len(posted) \in 0..2
          BY ShortLists
        <5> QED BY <3>2, <5>1, <5>2, <5>3
      <4>2. timerlist = <<"et", "periodic">>
        BY <3>1, <4>1
      <4>3. posted \in {<<"et">>, <<"periodic">>}
        BY <2>1, <4>1
      <4>4. timerlist # posted \o rest
        BY <4>2, <4>3
      <4>5. timerlist = rest \o posted /\ Members(rest) \cap Due = {}
        BY <1>1, <4>4
      <4>6. posted = <<"periodic">>
        BY <4>2, <4>3, <4>5
      <4>7. left["periodic"] = 0
        BY <1>1, <4>6, MembersOfLists DEF Due
      <4>8. left["et"] = 0
        BY <2>3, <4>2, <4>7 DEF Inv, Ordered, TimersOK, Timers
      <4>9. "et" \in Due
        BY <4>2, <4>8, MembersOfLists DEF Due
      <4> QED BY <4>5, <4>9, MembersOfLists
    <3>5. rest # <<"et", "periodic">>
      BY <3>3, LengthsOfLists
    <3> QED BY <1>1, <2>3, <3>3, <3>4, <3>5 DEF Ordered
  <2> QED BY <2>2, <2>3
<1>6. Quota'
  <2>1. Len(timerlist) = Len(posted) + Len(rest) /\ Len(events') = Len(events) + Len(posted)
    <3>1. posted \in Seq(Timers \union {"other"}) /\ rest \in Seq(Timers \union {"other"})
      BY ListsAreSequences
    <3> QED BY <1>1, <3>1 DEF Post, Inv, QueueOK
  <2>2. Len(posted) \in Nat /\ Len(rest) \in Nat /\ Len(events) \in Nat
    BY ShortLists DEF Inv, QueueOK
  <2>3. sent' = sent /\ others' = others /\ running' = running /\ timerlist' = rest
    BY <1>1 DEF period
  <2> QED BY <2>1, <2>2, <2>3 DEF Inv, Quota, QueueOK
<1>7. Sends'
  BY <1>0, <1>1 DEF Sends
<1> QED BY <1>2, <1>3, <1>4, <1>5, <1>6, <1>7 DEF Inv

LEMMA OtherInv == Inv /\ Other => Inv'
<1> SUFFICES ASSUME Inv, Other PROVE Inv'
  OBVIOUS
<1>1. Len(events) < NumEvents /\ events' = Append(events, "other") /\ others' = others + 1
      /\ UNCHANGED <<running, computing, timerlist, left, sent, ended>>
  BY DEF Other, control
<1>2. TimersOK'
  BY <1>1 DEF Inv, TimersOK
<1>3. QueueOK'
  BY <1>1, SolarCollectAssumption DEF Inv, QueueOK
<1>4. Ordered'
  BY <1>1 DEF Inv, Ordered
<1>5. EveryPeriodSends'
  BY <1>1 DEF Inv, EveryPeriodSends
<1>6. Quota'
  <2>1. Len(events') = Len(events) + 1 /\ Len(events) \in Nat /\ Len(timerlist) \in Nat
    BY <1>1, ShortLists DEF Inv, QueueOK, TimersOK
  <2> QED BY <1>1, <2>1 DEF Inv, Quota, QueueOK
<1>7. Sends'
  BY <1>1 DEF Inv, Sends, Expired
<1> QED BY <1>2, <1>3, <1>4, <1>5, <1>6, <1>7 DEF Inv

(* Taking an event leaves fewer.                                           *)
LEMMA TakingAnEvent ==
  ASSUME QueueOK, events # <<>>, events' = Tail(events)
  PROVE  /\ events' \in Seq(Timers \union {"other"}) /\ Len(events') <= NumEvents
         /\ Len(events) \in Nat /\ Len(events') = Len(events) - 1 /\ Len(events') \in Nat
BY SolarCollectAssumption DEF QueueOK

LEMMA SettledInv == Inv /\ Settled => Inv'
<1> SUFFICES ASSUME Inv, Settled PROVE Inv'
  OBVIOUS
<1>0. ~running /\ ~computing /\ UNCHANGED computing /\ events # <<>> /\ events' = Tail(events)
  BY DEF Settled, Inv, TimersOK
<1>1. /\ events' \in Seq(Timers \union {"other"}) /\ Len(events') <= NumEvents
      /\ Len(events) \in Nat /\ Len(events') = Len(events) - 1 /\ Len(events') \in Nat
  BY <1>0, TakingAnEvent DEF Inv
<1>2. CASE Expired("et")
  <2>1. running' = TRUE /\ BeginPeriod /\ UNCHANGED ended
    BY <1>2 DEF Settled
  <2>2. Expired("periodic")
    <3>1. timerlist \in {<<>>, <<"et">>}
      BY <1>0 DEF Inv, Ordered
    <3> QED BY <3>1, MembersOfLists DEF Expired
  <2>3. timerlist' = <<"et", "periodic">> /\ left' \in [Timers -> Nat]
        /\ left'["et"] <= left'["periodic"]
    BY <1>2, <2>1, <2>2, BeginPeriodOrders DEF Inv
  <2>4. sent' = 0 /\ others' = Len(events')
    BY <2>1 DEF BeginPeriod
  <2>5. TimersOK'
    BY <1>0, <2>1, <2>3 DEF Inv, TimersOK, Lists
  <2>6. QueueOK'
    BY <1>1, <2>1, <2>4 DEF Inv, QueueOK
  <2>7. Ordered'
    BY <2>1, <2>3 DEF Ordered
  <2>8. EveryPeriodSends' /\ Sends'
    BY <1>0, <2>1 DEF Inv, EveryPeriodSends, Sends
  <2>9. Quota'
    BY <1>1, <2>3, <2>4, LengthsOfLists DEF Quota
  <2> QED BY <2>5, <2>6, <2>7, <2>8, <2>9 DEF Inv
<1>3. CASE ~Expired("et")
  <2>1. UNCHANGED <<running, timerlist, left, period>>
    BY <1>3 DEF Settled
  <2>2. TimersOK' /\ Ordered' /\ EveryPeriodSends' /\ Sends'
    BY <1>0, <2>1 DEF Inv, TimersOK, Ordered, EveryPeriodSends, Sends, period
  <2>3. QueueOK'
    BY <1>1, <2>1 DEF Inv, QueueOK, period
  <2>4. Quota'
    BY <1>0, <2>1 DEF Quota
  <2> QED BY <2>2, <2>3, <2>4 DEF Inv
<1> QED BY <1>2, <1>3

(* A round takes an event for its packet, and one that finds et expired    *)
(* sends.                                                                  *)
LEMMA RoundInv == Inv /\ Round => Inv'
<1> SUFFICES ASSUME Inv, Round PROVE Inv'
  OBVIOUS
<1>0. /\ running /\ computing' = TRUE /\ events # <<>> /\ events' = Tail(events)
      /\ sent' = IF Expired("et") THEN sent + 1 ELSE sent
      /\ UNCHANGED <<running, timerlist, left, others, ended>>
  BY DEF Round
<1>1. /\ events' \in Seq(Timers \union {"other"}) /\ Len(events') <= NumEvents
      /\ Len(events) \in Nat /\ Len(events') = Len(events) - 1 /\ Len(events') \in Nat
  BY <1>0, TakingAnEvent DEF Inv
<1>2. TimersOK' /\ Ordered' /\ EveryPeriodSends'
  BY <1>0 DEF Inv, TimersOK, Ordered, EveryPeriodSends
<1>3. QueueOK' /\ sent' <= sent + 1
  BY <1>0, <1>1 DEF Inv, QueueOK
<1>4. Quota'
  <2>1. Len(timerlist) \in Nat
    BY ShortLists DEF Inv, TimersOK
  <2> QED BY <1>0, <1>1, <1>3, <2>1 DEF Inv, Quota, QueueOK
<1>5. Sends'
  BY <1>0 DEF Inv, Sends, Expired, QueueOK
<1> QED BY <1>2, <1>3, <1>4, <1>5 DEF Inv

(* The round that ends a period has found et expired, as periodic has.     *)
LEMMA RestartInv == Inv /\ Restart => Inv'
<1> SUFFICES ASSUME Inv, Restart PROVE Inv'
  OBVIOUS
<1>0. computing /\ running /\ computing' = FALSE /\ TopOfLoop /\ UNCHANGED <<running, events>>
  BY DEF Restart, Inv, TimersOK
<1>1. CASE Expired("periodic")
  <2>1. BeginPeriod /\ ended' = sent
    BY <1>0, <1>1 DEF TopOfLoop
  <2>2. Expired("et")
    BY <1>0, <1>1, OrderedIsFaster DEF Inv, AlwaysFaster
  <2>3. timerlist' = <<"et", "periodic">> /\ left' \in [Timers -> Nat]
        /\ left'["et"] <= left'["periodic"]
    BY <1>0, <1>1, <2>1, BeginPeriodOrders DEF Inv
  <2>4. sent' = 0 /\ others' = Len(events') /\ Len(events') \in Nat
    BY <1>0, <2>1 DEF BeginPeriod, Inv, QueueOK
  <2>5. TimersOK'
    BY <1>0, <2>3 DEF Inv, TimersOK, Lists
  <2>6. QueueOK'
    BY <1>0, <2>1, <2>4 DEF Inv, QueueOK
  <2>7. Ordered'
    BY <1>0, <2>3 DEF Ordered
  <2>8. EveryPeriodSends' /\ Sends'
    BY <1>0, <2>1, <2>2 DEF Inv, QueueOK, EveryPeriodSends, Sends
  <2>9. Quota'
    BY <2>3, <2>4, LengthsOfLists DEF Quota
  <2> QED BY <2>5, <2>6, <2>7, <2>8, <2>9 DEF Inv
<1>2. CASE ~Expired("periodic")
  <2>1. UNCHANGED <<timerlist, left, period>>
    BY <1>0, <1>2 DEF TopOfLoop
  <2>2. TimersOK' /\ QueueOK'
    BY <1>0, <2>1 DEF Inv, TimersOK, QueueOK, period
  <2>3. Ordered' /\ EveryPeriodSends' /\ Quota' /\ Sends'
    BY <1>0, <2>1 DEF Inv, Ordered, EveryPeriodSends, Quota, Sends, period
  <2> QED BY <2>2, <2>3 DEF Inv
<1> QED BY <1>1, <1>2

LEMMA NextInv == Inv /\ [Next]_vars => Inv'
<1> SUFFICES ASSUME Inv, [Next]_vars PROVE Inv'
  OBVIOUS
<1>1. CASE Tick
  BY <1>1, TickInv
<1>2. CASE Poll
  BY <1>2, PollInv
<1>3. CASE Other
  BY <1>3, OtherInv
<1>4. CASE Settled
  BY <1>4, SettledInv
<1>5. CASE Round
  BY <1>5, RoundInv
<1>6. CASE Restart
  BY <1>6, RestartInv
<1>7. CASE UNCHANGED vars
  <2>1. UNCHANGED <<running, computing, timerlist, left, events, sent, others, ended>>
    BY <1>7 DEF vars, control, period
  <2>2. TimersOK' /\ QueueOK' /\ Ordered'
    BY <2>1 DEF Inv, TimersOK, QueueOK, Ordered
  <2>3. EveryPeriodSends' /\ Quota' /\ Sends'
    BY <2>1 DEF Inv, EveryPeriodSends, Quota, Sends, Expired
  <2> QED BY <2>2, <2>3 DEF Inv
<1> QED BY <1>1, <1>2, <1>3, <1>4, <1>5, <1>6, <1>7 DEF Next

-----------------------------------------------------------------------------
(* Arithmetic modulo w: remainders that differ by a multiple of w agree.   *)
LEMMA SameRemainder ==
  ASSUME NEW w \in Nat \ {0}, NEW p \in Int, NEW q \in Int,
         NEW r \in 0..(w - 1), NEW s \in 0..(w - 1), w * p + r = w * q + s
  PROVE  r = s
<1>1. CASE p = q
  BY <1>1
<1>2. ASSUME NEW a \in Int, NEW b \in Int, a < b PROVE w * a + w <= w * b
  <2>1. w * (a + 1) <= w * b
    BY <1>2
  <2>2. w * (a + 1) = w * a + w
    OBVIOUS
  <2> QED BY <2>1, <2>2
<1>3. CASE p < q
  BY <1>2, <1>3
<1>4. CASE q < p
  BY <1>2, <1>4
<1> QED BY <1>1, <1>3, <1>4

LEMMA AddAfterMod ==
  ASSUME NEW w \in Nat \ {0}, NEW x \in Int, NEW y \in Int
  PROVE  ((x % w) + y) % w = (x + y) % w
<1> DEFINE q == x \div w  r == x % w  z == r + y
<1>1. q \in Int /\ r \in 0..(w - 1) /\ x = w * q + r
  OBVIOUS
<1> HIDE DEF q, r
<1>2. z \in Int
  BY <1>1
<1> DEFINE p == z \div w         s == z % w
           u == (x + y) \div w   v == (x + y) % w
<1>3. p \in Int /\ s \in 0..(w - 1) /\ z = w * p + s
  BY <1>2
<1>4. u \in Int /\ v \in 0..(w - 1) /\ x + y = w * u + v
  OBVIOUS
<1> HIDE DEF p, s, u, v
<1>5. w * (q + p) = w * q + w * p /\ q + p \in Int
  BY <1>1, <1>3
<1>6. w * (q + p) + s = w * u + v
  BY <1>1, <1>3, <1>4, <1>5
<1> HIDE DEF z
<1>7. s = v
  BY <1>3, <1>4, <1>5, <1>6, SameRemainder
<1> QED BY <1>7 DEF s, v, z, r

LEMMA Remainders ==
  ASSUME NEW x \in Int
  PROVE  x % Wrap \in 0..(Wrap - 1)
BY SolarCollectAssumption

(* The clocks keep their range.                                            *)
LEMMA EnergyInv == EnergyOK /\ [Next]_vars => EnergyOK'
<1> SUFFICES ASSUME EnergyOK, [Next]_vars PROVE EnergyOK'
  OBVIOUS
<1>0. {time, begin, acc, packet, counted, upto} \subseteq Int
  BY SolarCollectAssumption DEF EnergyOK, Clocks
<1>1. CASE Tick
  <2>1. PICK on \in {0, 1} :
          /\ time' = (time + on) % Wrap
          /\ counted' = IF running /\ ~computing THEN (counted + on) % Wrap ELSE counted
          /\ UNCHANGED <<begin, acc, packet, upto>>
    BY <1>1 DEF Tick
  <2>2. (time + on) % Wrap \in 0..(Wrap - 1) /\ (counted + on) % Wrap \in 0..(Wrap - 1)
    BY <1>0, Remainders
  <2> QED BY <2>1, <2>2 DEF EnergyOK, Clocks
<1>2. CASE Poll
  BY <1>2 DEF Poll, EnergyOK, Clocks, energy
<1>3. CASE Other
  BY <1>3 DEF Other, EnergyOK, Clocks, energy
<1>4. CASE Settled
  BY <1>4 DEF Settled, EnergyOK, Clocks
<1>5. CASE Round
  <2>1. EndOfRound(Expired("et")) /\ UNCHANGED <<time, begin, counted>>
    BY <1>5 DEF Round
  <2>2. acc' \in 0..(Wrap - 1)
    BY <1>0, <2>1, Remainders DEF EndOfRound
  <2> QED BY <2>1, <2>2 DEF EndOfRound, EnergyOK, Clocks
<1>6. CASE Restart
  BY <1>6 DEF Restart, EnergyOK, Clocks
<1>7. CASE UNCHANGED vars
  BY <1>7 DEF vars, energy, EnergyOK, Clocks
<1> QED BY <1>1, <1>2, <1>3, <1>4, <1>5, <1>6, <1>7 DEF Next

(* What the sum over the rounds is: the time counted at their end.         *)
Lagging ==
  /\ acc = upto
  /\ computing => running
  /\ ~running => acc = 0 /\ counted = 0

(* A tick within a round advances the counter and the count alike, however *)
(* often either has wrapped.                                               *)
LEMMA TickCounts ==
  ASSUME EnergyOK, CountedOnce, Lagging, Tick
  PROVE  CountedOnce' /\ Lagging'
<1>0. {time, begin, acc, counted} \subseteq Int
  BY SolarCollectAssumption DEF EnergyOK, Clocks
<1>1. PICK on \in {0, 1} :
        /\ time' = (time + on) % Wrap
        /\ counted' = IF running /\ ~computing THEN (counted + on) % Wrap ELSE counted
        /\ UNCHANGED <<running, computing, begin, acc, upto>>
  BY DEF Tick, control
<1>2. Lagging'
  BY <1>1 DEF Lagging
<1>3. CASE running /\ ~computing
  <2>1. \A x \in Int, y \in Int : ((x % Wrap) + y) % Wrap = (x + y) % Wrap
    BY AddAfterMod, SolarCollectAssumption
  <2>2. counted' = (((acc + (time - begin)) % Wrap) + on) % Wrap
    BY <1>1, <1>3 DEF CountedOnce
  <2>3. counted' = (acc + (time - begin) + on) % Wrap
    <3> DEFINE x == acc + (time - begin)
    <3>1. x \in Int /\ on \in Int
      BY <1>0
    <3> HIDE DEF x
    <3>2. ((x % Wrap) + on) % Wrap = (x + on) % Wrap
      BY <2>1, <3>1
    <3> QED BY <2>2, <3>2 DEF x
  <2>4. acc' + (time' - begin') = ((time + on) % Wrap) + (acc - begin)
    <3>1. (time + on) % Wrap \in Int
      BY <1>0, Remainders
    <3> QED BY <1>0, <1>1, <3>1
  <2>5. (((time + on) % Wrap) + (acc - begin)) % Wrap = ((time + on) + (acc - begin)) % Wrap
    BY <1>0, <2>1
  <2>6. (time + on) + (acc - begin) = acc + (time - begin) + on
    BY <1>0
  <2> QED BY <1>1, <1>2, <1>3, <2>3, <2>4, <2>5, <2>6 DEF CountedOnce
<1>4. CASE ~(running /\ ~computing)
  BY <1>1, <1>2, <1>4 DEF CountedOnce, Lagging
<1> QED BY <1>3, <1>4

(* The reads that end a round take its time; those that start the next one *)
(* start it with none.                                                     *)
LEMMA CountedInv ==
  EnergyOK /\ CountedOnce /\ Lagging /\ [Next]_vars => CountedOnce' /\ Lagging'
<1> SUFFICES ASSUME EnergyOK, CountedOnce, Lagging, [Next]_vars
             PROVE  CountedOnce' /\ Lagging'
  OBVIOUS
<1>0. {time, begin, acc, counted} \subseteq Int /\ acc \in 0..(Wrap - 1)
  BY SolarCollectAssumption DEF EnergyOK, Clocks
<1>m. \A x \in 0..(Wrap - 1) : x % Wrap = x
  BY SolarCollectAssumption
<1>1. CASE Tick
  BY <1>1, TickCounts
<1>2. CASE Poll
  BY <1>2 DEF Poll, CountedOnce, Lagging, control, energy
<1>3. CASE Other
  BY <1>3 DEF Other, CountedOnce, Lagging, control, energy
<1>4. CASE Settled
  <2>1. ~running /\ ~computing /\ acc = 0 /\ counted = 0
        /\ UNCHANGED <<computing, time, acc, counted, upto>>
    BY <1>4 DEF Settled, Lagging
  <2>2. \/ running' = TRUE /\ begin' = time
        \/ UNCHANGED running
    BY <1>4 DEF Settled
  <2>3. CASE running' = TRUE /\ begin' = time
    <3>1. time - time = 0
      BY <1>0
    <3>2. 0 + 0 = 0 /\ 0 \in 0..(Wrap - 1)
      BY SolarCollectAssumption
    <3>3. CountedOnce'
      BY <1>m, <2>1, <2>3, <3>1, <3>2 DEF CountedOnce
    <3> QED BY <2>1, <2>3, <3>3 DEF Lagging
  <2>4. CASE UNCHANGED running
    BY <2>1, <2>4 DEF CountedOnce, Lagging
  <2> QED BY <2>2, <2>3, <2>4
<1>5. CASE Round
  <2>1. /\ running /\ ~computing /\ computing' = TRUE
        /\ EndOfRound(Expired("et"))
        /\ UNCHANGED <<running, time, begin, counted>>
    BY <1>5 DEF Round
  <2>2. acc' = counted
    <3>1. acc + time - begin = acc + (time - begin)
      BY <1>0
    <3> QED BY <2>1, <3>1 DEF EndOfRound, CountedOnce
  <2>3. counted \in 0..(Wrap - 1) /\ counted + 0 = counted
    BY <1>0 DEF EnergyOK, Clocks
  <2>4. CountedOnce'
    BY <1>m, <2>1, <2>2, <2>3 DEF CountedOnce
  <2>5. Lagging'
    BY <2>1, <2>2 DEF Lagging, EndOfRound
  <2> QED BY <2>4, <2>5
<1>6. CASE Restart
  <2>1. computing /\ computing' = FALSE /\ begin' = time
        /\ UNCHANGED <<running, time, acc, counted, upto>>
    BY <1>6 DEF Restart
  <2>2. acc + (time - time) = acc + 0
    BY <1>0
  <2> QED BY <2>1, <2>2 DEF CountedOnce, Lagging
<1>7. CASE UNCHANGED vars
  BY <1>7 DEF vars, control, energy, CountedOnce, Lagging
<1> QED BY <1>1, <1>2, <1>3, <1>4, <1>5, <1>6, <1>7 DEF Next

-----------------------------------------------------------------------------
(* The invariant holds in every reachable state.                           *)
LEMMA SpecInv == Spec => []Inv
<1>1. Init => Inv
  BY InitInv
<1>2. Inv /\ [Next]_vars => Inv'
  BY NextInv
<1> QED BY <1>1, <1>2, PTL DEF Spec

(* solar.c:112, "always faster than the periodic timer": for every period, *)
(* queue and schedule.                                                     *)
THEOREM AlwaysFasterCorrect == Spec => []AlwaysFaster
<1>1. Inv => AlwaysFaster
  BY OrderedIsFaster DEF Inv
<1> QED BY <1>1, SpecInv, PTL

(* solar.c:108, "Send a packet every SEND_INTERVAL_SECONDS": no period     *)
(* ends without a packet.                                                  *)
THEOREM EveryPeriodSendsCorrect == Spec => []EveryPeriodSends
<1>1. Inv => EveryPeriodSends
  BY DEF Inv
<1> QED BY <1>1, SpecInv, PTL

(* ... and none has more packets than its two timers and the events left   *)
(* over from the last period, or of other processes, account for.          *)
THEOREM PacketsPerPeriodCorrect == Spec => []PacketsPerPeriod
<1>1. ASSUME Inv PROVE PacketsPerPeriod
  <2>1. Len(timerlist) \in Nat /\ Len(events) \in Nat /\ sent \in Nat /\ others \in Nat
    BY <1>1, ShortLists DEF Inv, TimersOK, QueueOK
  <2>2. CASE Expired("periodic")
    BY <1>1, <2>1, <2>2 DEF Inv, Quota, PacketsPerPeriod
  <2>3. CASE ~Expired("periodic")
    <3>1. timerlist \in Lists /\ timerlist # <<>>
      BY <1>1, <2>3, MembersOfLists DEF Expired, Inv, TimersOK
    <3>2. Len(timerlist) >= 1
      BY <3>1, LengthsOfLists DEF Lists
    <3> QED BY <1>1, <2>1, <2>3, <3>2 DEF Inv, Quota, PacketsPerPeriod
  <2> QED BY <2>2, <2>3
<1> QED BY <1>1, SpecInv, PTL

(* Every clock of the energies keeps its range, lists and queue their form.*)
THEOREM TypeCorrect == Spec => []TypeOK
<1>1. Init => EnergyOK
  BY SolarCollectAssumption DEF Init, EnergyOK, Clocks
<1>2. Spec => []EnergyOK
  BY <1>1, EnergyInv, PTL DEF Spec
<1>3. Inv /\ EnergyOK => TypeOK
  BY DEF Inv, TimersOK, QueueOK, EnergyOK, Clocks, TypeOK
<1> QED BY <1>2, <1>3, SpecInv, PTL

(* Each tick within a round is in the energies once, for every width of    *)
(* the counters, and however long the process computes between two rounds. *)
THEOREM CountedOnceCorrect == Spec => []CountedOnce
<1>1. Init => EnergyOK /\ CountedOnce /\ Lagging
  BY SolarCollectAssumption DEF Init, EnergyOK, Clocks, CountedOnce, Lagging
<1> QED BY <1>1, EnergyInv, CountedInv, PTL DEF Spec

(* A packet carries the energies of the rounds that were over when the     *)
(* process waited for the event it is sent with.                           *)
THEOREM PacketLagsCorrect == Spec => PacketLags
<1>1. Init => EnergyOK /\ CountedOnce /\ Lagging
  BY SolarCollectAssumption DEF Init, EnergyOK, Clocks, CountedOnce, Lagging
<1>2. Lagging /\ [Next]_vars => [packet' # packet => packet' = upto]_vars
  <2> SUFFICES ASSUME Lagging, Next, packet' # packet PROVE packet' = upto
    OBVIOUS
  <2>1. Round
    BY DEF Next, energy, Tick, Poll, Other, Settled, Restart
  <2>2. packet' = acc
    BY <2>1 DEF Round, EndOfRound
  <2> QED BY <2>2 DEF Lagging
<1> QED BY <1>1, <1>2, EnergyInv, CountedInv, PTL DEF Spec, PacketLags
=============================================================================
