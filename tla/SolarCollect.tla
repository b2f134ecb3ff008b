---------------------------- MODULE SolarCollect ----------------------------
(***************************************************************************)
(* The measuring node of the solar house (collect_final/solar.c): its one  *)
(* process, its two event timers, et and periodic, the event timer process *)
(* of Contiki that turns expired timers into events (etimer.c), and the    *)
(* event queue between them.                                               *)
(*                                                                         *)
(* An event timer has expired, for the process, when the event timer       *)
(* process has posted its event and taken it off its list; the event       *)
(* itself comes later, and by then the timer may have been set again.  All *)
(* energy counters behave alike and one stands for them.                   *)
(***************************************************************************)
EXTENDS Integers, Sequences

CONSTANTS
  Settle,     (* SETTLE_TIMEOUT_SECONDS, in ticks                          *)
  Period,     (* SEND_INTERVAL_SECONDS, in ticks                           *)
  NumEvents,  (* PROCESS_CONF_NUMEVENTS, the room in the event queue       *)
  MaxOther,   (* BOUND: others, below, when one more comes                 *)
  Wrap        (* the energy counters count modulo Wrap (2^32 in the code)  *)

ASSUME SolarCollectAssumption ==
  /\ Settle \in Nat /\ Period \in Nat \ {0}
  /\ NumEvents \in Nat \ {0} /\ MaxOther \in Nat
  /\ Wrap \in Nat \ {0}

Timers == {"et", "periodic"}

(* The lists of timers: each at most once.                                 *)
Lists == {<<>>, <<"et">>, <<"periodic">>, <<"et", "periodic">>, <<"periodic", "et">>}
Members(list) == {list[i] : i \in DOMAIN list}

VARIABLES
  running,    (* the process is past the settling time, in its loop        *)
  computing,  (* ... and past the reads that end a round, not yet at those *)
              (* that start the next one                                   *)
  timerlist,  (* the timers set and not yet expired, the latest set first  *)
  left,       (* left[t]: ticks until timer t is due                       *)
  events,     (* the events posted to the process: a timer's, or "other"   *)
  sent,       (* packets sent since periodic was last set                  *)
  others,     (* events for the process that were waiting then, or came    *)
              (* from other processes since                                *)
  ended,      (* history: packets sent in the last period that is over     *)
  time,       (* energest_type_time, the time a component has been on      *)
  begin,      (* ... at the start of this round of the loop                *)
  acc,        (* cpu_acc, the sum over the rounds that are over            *)
  packet,     (* the energy in the packet sent last                        *)
  counted,    (* history: the time it has been on within rounds            *)
  upto        (* history: ... at the end of the last round that is over    *)

energy == <<time, begin, acc, packet, counted, upto>>
period == <<sent, others, ended>>
control == <<running, computing>>
vars == <<control, timerlist, left, events, period, energy>>

(* etimer_expired: a timer that is off the list belongs to no process.     *)
Expired(t) == t \notin Members(timerlist)

(* PROCESS_BEGIN up to the wait for the network to settle; periodic, being *)
(* static, is zero and so counts as expired.                               *)
Init ==
  /\ running = FALSE /\ computing = FALSE
  /\ timerlist = <<"et">>
  /\ left = [t \in Timers |-> IF t = "et" THEN Settle ELSE 0]
  /\ events = <<>>
  /\ sent = 0 /\ others = 0 /\ ended = 1
  /\ time = 0 /\ begin = 0 /\ acc = 0 /\ packet = 0
  /\ counted = 0 /\ upto = 0

-----------------------------------------------------------------------------
(* The clock and the event timer process                                   *)

(* A component may be on or off as the clock ticks, also while the process *)
(* is computing.                                                           *)
Tick ==
  \E on \in {0, 1} :
     /\ left' = [t \in Timers |-> IF left[t] = 0 THEN 0 ELSE left[t] - 1]
     /\ time' = (time + on) % Wrap
     /\ counted' = IF running /\ ~computing THEN (counted + on) % Wrap ELSE counted
     /\ UNCHANGED <<control, timerlist, events, period, begin, acc, packet, upto>>

Due == {t \in Members(timerlist) : left[t] = 0}

(* MUTANT: a full queue is not noticed.                                    *)
PostRegardless(posted) == events' = events \o posted

(* process_post, for the events that find room.                            *)
Post(posted) ==
  /\ Len(events) + Len(posted) <= NumEvents
  /\ events' = events \o posted

(* etimer_process, polled: in the order of the list, the events of expired *)
(* timers are posted and the timers taken off it.  What finds the queue    *)
(* full stays, behind what was posted, and the poll is repeated.  Nothing  *)
(* else runs while the process does.                                       *)
Poll ==
  ~computing /\ \E posted \in Lists \ {<<>>}, rest \in Lists :
     /\ Members(posted) \subseteq Due
     /\ \/ timerlist = posted \o rest
        \/ timerlist = rest \o posted /\ Members(rest) \cap Due = {}
     /\ Members(rest) \cap Due # {} => Len(events) + Len(posted) >= NumEvents
     /\ Post(posted)
     /\ timerlist' = rest
     /\ UNCHANGED <<control, left, period, energy>>

(* A broadcast event of another process: sensors, the serial line.         *)
Other ==
  /\ ~computing /\ others < MaxOther
  /\ Len(events) < NumEvents
  /\ events' = Append(events, "other")
  /\ others' = others + 1
  /\ UNCHANGED <<control, timerlist, left, sent, ended, energy>>

-----------------------------------------------------------------------------
(* The process                                                             *)

(* MUTANT: the two are set in the other order.                             *)
SetPeriodicLast(delay, skew) ==
  /\ timerlist' = <<"periodic", "et">>
  /\ left' = [t \in Timers |-> IF t = "et" THEN delay + skew ELSE Period]

(* etimer_set, twice: periodic, then et, before periodic's time.  The      *)
(* clock may tick between the two.  A timer that is still on the list      *)
(* keeps its place there.                                                  *)
SetTimers(delay, skew) ==
  /\ timerlist' = (IF Expired("et") THEN <<"et">> ELSE <<>>)
                  \o (IF Expired("periodic") THEN <<"periodic">> ELSE <<>>) \o timerlist
  /\ left' = [t \in Timers |-> IF t = "et" THEN delay + skew ELSE Period]

(* A period begins; what is in the queue now will be handled in it.        *)
BeginPeriod ==
  \E delay \in 0..(Period - 1), skew \in {0, 1} :
     /\ SetTimers(delay, skew)
     /\ sent' = 0
     /\ others' = Len(events')

(* MUTANT: the timers are set with every event.                            *)
TopOfLoopAnyway == BeginPeriod /\ ended' = sent

(* The loop from the start times to PROCESS_WAIT_EVENT.                    *)
TopOfLoop ==
  IF Expired("periodic") THEN BeginPeriod /\ ended' = sent
  ELSE UNCHANGED <<timerlist, left, period>>

(* PROCESS_WAIT_UNTIL(etimer_expired(&et)): the process looks at the timer *)
(* with every event it gets, and goes on to the first round of the loop,   *)
(* where periodic counts as expired.                                       *)
Settled ==
  /\ ~running /\ events # <<>>
  /\ events' = Tail(events)
  /\ IF Expired("et")
     THEN running' = TRUE /\ begin' = time /\ BeginPeriod /\ UNCHANGED ended
     ELSE UNCHANGED <<running, timerlist, left, period, begin>>
  /\ UNCHANGED <<computing, time, acc, packet, counted, upto>>

(* MUTANT of EndOfRound: the energies are computed before the packet is    *)
(* sent.                                                                   *)
EndOfRoundFirst(sends) ==
  /\ acc' = (acc + time - begin) % Wrap
  /\ packet' = IF sends THEN acc' ELSE packet
  /\ upto' = counted

(* The packet, and the reads of the counters that end the round.           *)
EndOfRound(sends) ==
  /\ packet' = IF sends THEN acc ELSE packet
  /\ acc' = (acc + time - begin) % Wrap
  /\ upto' = counted

(* Two mutants of Round: et is started again with every packet; only its   *)
(* own event is taken for its expiry.                                      *)
RoundRestartsEt ==
  /\ running /\ ~computing /\ events # <<>>
  /\ events' = Tail(events)
  /\ LET sends == Expired("et") IN
     /\ EndOfRound(sends)
     /\ sent' = IF sends THEN sent + 1 ELSE sent
     /\ timerlist' = IF sends THEN <<"et">> \o timerlist ELSE timerlist
  /\ computing' = TRUE
  /\ UNCHANGED <<running, left, others, ended, time, begin, counted>>

RoundOfOwnEvent ==
  /\ running /\ ~computing /\ events # <<>>
  /\ events' = Tail(events)
  /\ LET sends == Head(events) = "et" /\ Expired("et") IN
     EndOfRound(sends) /\ sent' = IF sends THEN sent + 1 ELSE sent
  /\ computing' = TRUE
  /\ UNCHANGED <<running, timerlist, left, others, ended, time, begin, counted>>

(* PROCESS_WAIT_EVENT returns with any event, and the process goes on to   *)
(* the end of its round, where it reads the counters for the deltas.       *)
Round ==
  /\ running /\ ~computing /\ events # <<>>
  /\ events' = Tail(events)
  /\ LET sends == Expired("et") IN
     EndOfRound(sends) /\ sent' = IF sends THEN sent + 1 ELSE sent
  /\ computing' = TRUE
  /\ UNCHANGED <<running, timerlist, left, others, ended, time, begin, counted>>

(* MUTANT: the start times are read once, before the loop.                 *)
RestartAtFirst ==
  /\ computing /\ computing' = FALSE
  /\ UNCHANGED <<running, events, energy>>
  /\ TopOfLoop

(* Its energies computed, the process reads the counters anew for the      *)
(* start times of the next round and goes around its loop to the wait.     *)
Restart ==
  /\ computing /\ computing' = FALSE
  /\ begin' = time
  /\ UNCHANGED <<running, events, time, acc, packet, counted, upto>>
  /\ TopOfLoop

Next == Tick \/ Poll \/ Other \/ Settled \/ Round \/ Restart

Spec == Init /\ [][Next]_vars

(* The clock ticks, and Contiki's scheduler polls the event timer process  *)
(* and delivers events for as long as there are any.                       *)
Fairness == WF_vars(Tick) /\ WF_vars(Poll) /\ WF_vars(Settled \/ Round \/ Restart)
FairSpec == Spec /\ Fairness

-----------------------------------------------------------------------------
TypeOK ==
  /\ running \in BOOLEAN /\ computing \in BOOLEAN
  /\ timerlist \in Lists
  /\ left \in [Timers -> Nat]
  /\ events \in Seq(Timers \union {"other"}) /\ Len(events) <= NumEvents
  /\ sent \in Nat /\ ended \in Nat /\ others \in Nat
  /\ {time, begin, acc, packet, counted, upto} \subseteq 0..(Wrap - 1)

(* solar.c:112, "always faster than the periodic timer": whenever periodic *)
(* has expired, et has, even if the queue had room for only one of their   *)
(* events or the clock ticked between the two etimer_set.  Otherwise et    *)
(* would be set anew before its packet was sent.                           *)
AlwaysFaster ==
  running /\ Expired("periodic") => Expired("et")

(* solar.c:108, "Send a packet every SEND_INTERVAL_SECONDS": no period     *)
(* ends without one.                                                       *)
EveryPeriodSends == ended > 0

(* ... and every packet takes an event of its own: et's, periodic's, or    *)
(* one that was waiting when the period began or came from another process *)
(* since.  While periodic has not expired its event cannot have been one   *)
(* of them.                                                                *)
PacketsPerPeriod ==
  running => sent <= (IF Expired("periodic") THEN 2 ELSE 1) + others

(* Whenever a component is on between the reads that start a round and     *)
(* those that end it, the energies take that tick once and only once,      *)
(* though packets are sent and the counters wrap in between.  What passes  *)
(* between the end of a round and the start of the next one is in none.    *)
CountedOnce ==
  running => (acc + (IF computing THEN 0 ELSE time - begin)) % Wrap = counted

(* The energies in a packet lag by one event: they are those of the rounds *)
(* that were over when the process waited for the event it is sent with.   *)
PacketLags ==
  [][packet' # packet => packet' = upto]_vars

(* A node never stops sending.                                             *)
KeepsSending ==
  []<><<Round /\ Expired("et")>>_vars
=============================================================================
