--------------------------- MODULE TimedWaitProofs ---------------------------
(***************************************************************************)
(* With the length of its sleeps the tracker is still the tracker, it never*)
(* asks for an invalid time, and it does not oversleep.                    *)
(***************************************************************************)
EXTENDS TimedWait, EventHandlingProofs

-----------------------------------------------------------------------------
(* The timed consumer is a consumer.                                        *)

\* cur_wait and the deadline are worked out beside the steps of the tracker.
LEMMA TimedStep == [TimedNext]_timedVars => [Next]_vars
<1> SUFFICES ASSUME [TimedNext]_timedVars PROVE [Next]_vars
  OBVIOUS
<1>1. CASE timed_clock
  BY <1>1 DEF timed_clock, Next
<1>2. CASE timed_producer
  BY <1>2 DEF timed_producer, Next
<1>3. CASE compare_cur_wait \/ assign_cur_wait
  BY <1>3 DEF compare_cur_wait, assign_cur_wait
<1>4. CASE timed_lock \/ timed_wait \/ timed_visit_open \/ timed_unlock
  BY <1>4 DEF timed_lock, timed_wait, timed_visit_open, timed_unlock, Next, consumer
<1>5. CASE execute_open_event \/ visit_close \/ execute_close_event
           \/ end_of_visits \/ sweep
  BY <1>5 DEF Next, consumer
<1>6. CASE UNCHANGED timedVars
  BY <1>6 DEF timedVars
<1> QED
  BY <1>1, <1>2, <1>3, <1>4, <1>5, <1>6 DEF TimedNext, timed_consumer

\* Every behaviour with the sleeps timed is one of the tracker, so that all
\* theorems about the tracker hold of it.
THEOREM TimedTracker == TimedSpec => Spec
<1>1. TimedInit => Init
  BY DEF TimedInit
<1>2. [TimedNext]_timedVars => [Next]_vars
  BY TimedStep
<1> QED
  BY <1>1, <1>2, PTL DEF TimedSpec, Spec

-----------------------------------------------------------------------------
(* wait_for_producer                                                        *)

\* The fraction of a second is less than a second.
LEMMA FractPart ==
    ASSUME NEW wait \in Nat, NEW us \in seconds_fract_part(wait)
    PROVE  us \in Nat /\ us <= UsPerSec
<1> DEFINE M == MsPerSec
           U == UsPerSec
           x == wait % M
<1>1. M \in Nat \ {0} /\ U \in Nat \ {0} /\ x \in 0..M - 1
  BY ClockAssumption, WaitAssumption
<1>2. us \in Nat /\ us <= (x * U) \div M
  <2>1. (x * U) \div M \in Int
    BY <1>1
  <2> QED
    BY <2>1 DEF seconds_fract_part
<1> HIDE DEF M, U, x
<1>3. x * U \in Nat /\ x * U <= M * U
  BY <1>1
<1>4. (x * U) \div M <= U
  <2> DEFINE a == x * U
             q == a \div M
  <2>1. q \in Int /\ a = M * q + (a % M) /\ a % M \in 0..M - 1
    BY <1>1, <1>3
  <2>2. M * q <= M * U
    <3>1. M * q \in Int /\ M * U \in Int
      BY <1>1, <2>1
    <3> QED
      BY <1>1, <1>3, <2>1, <3>1
  <2> HIDE DEF q, a
  <2>3. q <= U
    BY <1>1, <2>1, <2>2
  <2> QED
    BY <2>3 DEF q, a
<1>5. (x * U) \div M \in Int
  BY <1>1, <1>3
<1>6. us <= U
  BY <1>1, <1>2, <1>4, <1>5
<1> QED
  BY <1>2, <1>6 DEF U

\* The deadline is a valid time, no more than the wait and a second ahead.
LEMMA DeadlineOfWait ==
    ASSUME clock \in Clock, NEW wait \in Nat,
           NEW ns \in NsecNow, NEW us \in seconds_fract_part(wait),
           deadline' = timeToWait(wait, ns, us), UNCHANGED clock
    PROVE  /\ deadline' \in [sec : Nat, nsec : Nat]
           /\ DeadlineIsValid'
           /\ deadline'.sec < clock.sec + wait \div MsPerSec + 1
              \/ /\ deadline'.sec = clock.sec + wait \div MsPerSec + 1
                 /\ deadline'.nsec \div NsPerMs <= clock.ms
<1> DEFINE s == wait \div MsPerSec
<1>1. s \in Nat /\ clock.sec \in Nat /\ clock.ms \in Nat
  BY ClockAssumption DEF Clock
<1>2. us \in Nat /\ us <= UsPerSec
  BY FractPart
<1>3. ns \in 0..NsPerSec - 1 /\ ns \div NsPerMs = clock.ms
  BY DEF NsecNow
<1>4. UsPerSec \in Nat \ {0} /\ NsPerMs \in Nat \ {0} /\ NsPerSec \in Nat
      /\ UsPerSec <= NsPerSec
  BY WaitAssumption
<1> HIDE DEF s
<1>5. CASE ns + us >= UsPerSec
  <2>1. deadline' = [sec |-> clock.sec + s + 1, nsec |-> ns + us - UsPerSec]
    BY <1>5 DEF timeToWait, s
  <2>2. ns + us - UsPerSec \in 0..ns
    BY <1>2, <1>3, <1>4, <1>5
  <2>3. (ns + us - UsPerSec) \div NsPerMs <= ns \div NsPerMs
    <3> DEFINE m == ns + us - UsPerSec
    <3>1. m \in Nat /\ m <= ns /\ ns \in Nat
      BY <1>3, <2>2
    <3> HIDE DEF m
    <3>2. m \div NsPerMs <= ns \div NsPerMs
      BY <1>4, <3>1
    <3> QED
      BY <3>2 DEF m
  <2> QED
    BY <1>1, <1>3, <1>4, <2>1, <2>2, <2>3 DEF DeadlineIsValid, s
<1>6. CASE ns + us < UsPerSec
  <2>1. deadline' = [sec |-> clock.sec + s, nsec |-> ns + us]
    BY <1>2, <1>3, <1>4, <1>6 DEF timeToWait, s
  <2> QED
    BY <1>1, <1>2, <1>3, <1>4, <1>6, <2>1 DEF DeadlineIsValid, s
<1> QED
  BY <1>2, <1>3, <1>4, <1>5, <1>6
-----------------------------------------------------------------------------
(* How the invariant is kept, action by action.                             *)

\* Facts about the tracker's state that every step below rests on.
LEMMA TrackerFacts ==
    ASSUME IInv
    PROVE  /\ DOMAIN list = 1..Len(list) /\ Len(list) \in Nat
           /\ \A i \in DOMAIN list : list[i] \in Entry /\ EntryConsistent(list[i])
           /\ clock \in Clock /\ pos \in Nat \ {0}
           /\ max_delay_before_fire \in Nat
<1>1. ListInv
  BY IInvParts
<1>2. \A i \in DOMAIN list : list[i] \in Entry /\ EntryConsistent(list[i])
  BY <1>1, EntryAt
<1> QED
  BY <1>1, <1>2, IInvParts, ConfigAssumption DEF ListInv

\* The time a file has been open is a natural number, and at most the delay
\* while it is not past it.
LEMMA OpenDelta ==
    ASSUME IInv, NEW i \in DOMAIN list
    PROVE  /\ calc_open_delta(list[i]) \in Nat
           /\ ~has_open_past_delay(list[i])
                  => calc_open_delta(list[i]) <= max_delay_before_fire
<1>1. list[i] \in Entry /\ event_handling_get_tick \in Nat
  BY TrackerFacts, TickType
<1>2. list[i].open_timestamp \in Nat
  BY <1>1 DEF Entry
<1> QED
  BY <1>1, <1>2, ConfigAssumption DEF calc_open_delta, has_open_past_delay

\* A step that does not sleep, wait or read the clock.
LEMMA WaitVarsKept ==
    ASSUME WaitInv, UNCHANGED <<clock, waitVars>>, step = "none",
           pc' # "waiting" \/ pc = "waiting",
           (HasOpenCmd /\ ~torn /\ ~(cur_wait <= max_delay_before_fire))
               => \A i \in Visited' \cap DOMAIN list' : ~Unopened(i)'
    PROVE  WaitInv'
<1>1. WaitTypeOK' /\ DeadlineIsValid' /\ ReadingUndue'
  BY DEF WaitInv, WaitTypeOK, DeadlineIsValid, ReadingUndue, waitVars
<1>2. WaitIsShort'
  BY DEF WaitInv, WaitIsShort, waitVars
<1>3. NoOversleep'
  BY DEF WaitInv, NoOversleep, Within, waitVars
<1> QED
  BY <1>1, <1>2, <1>3 DEF WaitInv

\* Time passes: a reading of the clock that it comes between is torn.
LEMMA ClockKeeps ==
    ASSUME IInv, WaitInv, timed_clock
    PROVE  WaitInv'
<1>1. UNCHANGED <<list, signaled, event, pc, pos, cur_wait, deadline, step>>
      /\ torn' = (torn \/ step # "none")
  BY DEF timed_clock, ClockAdvances
<1>2. WaitTypeOK' /\ DeadlineIsValid'
  BY <1>1 DEF WaitInv, WaitTypeOK, DeadlineIsValid
<1>3. ReadingUndue'
  BY <1>1 DEF WaitInv, ReadingUndue, cur
<1>4. WaitIsShort'
  BY <1>1 DEF WaitInv, WaitIsShort, Visited, Unopened
<1>5. NoOversleep'
  <2> SUFFICES ASSUME pc = "waiting" PROVE Within(cur_wait)'
    BY <1>1 DEF NoOversleep
  <2>1. /\ clock \in Clock /\ clock.sec \in Nat /\ clock.ms \in Nat
        /\ \/ clock'.sec = clock.sec /\ clock'.ms = clock.ms + 1
           \/ clock'.sec = clock.sec + 1 /\ clock'.ms = 0
    BY TrackerFacts, ClockAssumption DEF Clock, timed_clock, ClockAdvances
  <2>2. Within(cur_wait)
    BY DEF WaitInv, NoOversleep
  <2>3. cur_wait \div MsPerSec \in Nat /\ deadline.sec \in Nat
        /\ deadline.nsec \div NsPerMs \in Nat
    BY ClockAssumption, WaitAssumption DEF WaitInv, WaitTypeOK
  <2> QED
    BY <1>1, <2>1, <2>2, <2>3 DEF Within
<1> QED
  BY <1>2, <1>3, <1>4, <1>5 DEF WaitInv

\* The producer: what it adds is signalled, so no pass has gone over the list.
LEMMA ProducerKeeps ==
    ASSUME IInv, WaitInv, timed_producer
    PROVE  WaitInv'
<1>1. CASE \E f \in Files, type \in EventTypes : stamp_event(f, type)
  <2>1. UNCHANGED <<clock, list, signaled, pc, pos, waitVars>>
    BY <1>1 DEF stamp_event, timed_producer
  <2> QED
    BY <2>1 DEF WaitInv, WaitTypeOK, DeadlineIsValid, ReadingUndue, WaitIsShort,
       NoOversleep, Visited, Unopened, Within, cur, has_open_past_delay,
       calc_open_delta, event_handling_get_tick, waitVars
<1>2. CASE add_some_event
  <2>1. UNCHANGED <<clock, waitVars>> /\ signaled' = TRUE
        /\ pc \in {"lock", "waiting", "woken"} /\ pc' \in {"lock", "woken"}
    BY <1>2, IInvParts DEF add_some_event, event_handling_add_event, timed_producer,
       consumer_has_mutex, signal
  <2>2. Visited' = {}
    BY <2>1 DEF Visited
  <2>3. step = "none"
    BY <2>1 DEF WaitInv, WaitTypeOK, ReadingUndue
  <2> QED
    BY <2>1, <2>2, <2>3, WaitVarsKept
<1> QED
  BY <1>1, <1>2 DEF timed_producer

\* The consumer goes to sleep, or on to a pass.
LEMMA LockKeeps ==
    ASSUME IInv, WaitInv, step = "none", timed_lock
    PROVE  WaitInv'
<1>1. CASE signaled
  <2>1. UNCHANGED <<clock, waitVars>> /\ pc' = "visit" /\ pos' = 1
    BY <1>1 DEF timed_lock, consumer_lock, begin_pass, waitVars
  <2>2. Visited' = {}
    BY <2>1 DEF Visited
  <2> QED
    BY <2>1, <2>2, WaitVarsKept
<1>2. CASE ~signaled
  <2>1. /\ UNCHANGED <<clock, list, signaled, pos, cur_wait, step, torn>>
        /\ pc = "lock" /\ pc' = "waiting"
    BY <1>2 DEF timed_lock, consumer_lock
  <2>2. PICK ns \in NsecNow, us \in seconds_fract_part(cur_wait) :
            deadline' = timeToWait(cur_wait, ns, us)
    BY <1>2 DEF timed_lock
  <2>3. cur_wait \in Nat /\ clock \in Clock
    BY TrackerFacts DEF WaitInv, WaitTypeOK
  <2>4. /\ deadline' \in [sec : Nat, nsec : Nat]
        /\ DeadlineIsValid'
        /\ deadline'.sec < clock.sec + cur_wait \div MsPerSec + 1
           \/ /\ deadline'.sec = clock.sec + cur_wait \div MsPerSec + 1
              /\ deadline'.nsec \div NsPerMs <= clock.ms
    BY <2>1, <2>2, <2>3, DeadlineOfWait
  <2>5. WaitTypeOK' /\ ReadingUndue'
    BY <2>1, <2>4 DEF WaitInv, WaitTypeOK, ReadingUndue
  <2>6. WaitIsShort'
    BY <1>2, <2>1 DEF WaitInv, WaitIsShort, Visited, Unopened
  <2>7. NoOversleep'
    BY <2>1, <2>4 DEF NoOversleep, Within
  <2> QED
    BY <2>4, <2>5, <2>6, <2>7 DEF WaitInv
<1> QED
  BY <1>1, <1>2

\* The wait returns.
LEMMA WaitKeeps ==
    ASSUME IInv, WaitInv, step = "none", timed_wait
    PROVE  WaitInv'
<1>1. /\ cur_wait' = max_delay_before_fire /\ torn' = FALSE
      /\ deadline' = NoDeadline /\ step' = "none"
      /\ pc' = "visit" /\ max_delay_before_fire \in Nat
  BY TrackerFacts DEF timed_wait, wait_for_producer, begin_pass
<1>2. WaitTypeOK' /\ DeadlineIsValid'
  <2>1. WaitTypeOK'
    BY <1>1, WaitAssumption DEF WaitTypeOK, NoDeadline
  <2>2. DeadlineIsValid'
    BY <1>1, WaitAssumption DEF DeadlineIsValid, NoDeadline
  <2> QED
    BY <2>1, <2>2
<1>3. ReadingUndue' /\ WaitIsShort' /\ NoOversleep'
  BY <1>1 DEF ReadingUndue, WaitIsShort, NoOversleep
<1> QED
  BY <1>2, <1>3 DEF WaitInv

\* An entry that needs no reading of the clock has had its open command, or is
\* about to have it.
LEMMA VisitOpenKeeps ==
    ASSUME IInv, WaitInv, step = "none", timed_visit_open
    PROVE  WaitInv'
<1>1. /\ UNCHANGED <<clock, list, signaled, pos, cur_wait, deadline, torn>>
      /\ pc = "visit" /\ pc' \in {"opening", "check_close"}
      /\ pos \in DOMAIN list
      /\ step' \in {"none", "compare"}
  BY DEF timed_visit_open, visit_open
<1>2. WaitTypeOK' /\ DeadlineIsValid' /\ NoOversleep'
  BY <1>1 DEF WaitInv, WaitTypeOK, DeadlineIsValid, NoOversleep
<1>3. ReadingUndue'
  <2> SUFFICES ASSUME step' = "compare"
               PROVE  /\ pc' = "check_close" /\ ~cur.has_fired_open
                      /\ ~has_open_past_delay(cur)
    BY <1>1 DEF ReadingUndue, cur, has_open_past_delay, calc_open_delta,
       event_handling_get_tick
  <2> QED
    BY DEF timed_visit_open, visit_open
<1>4. WaitIsShort'
  <2>1. CASE pc' = "opening" \/ step' = "compare"
    <3>1. Visited' = Visited
      BY <1>1, <1>3, <2>1 DEF Visited, ReadingUndue
    <3> QED
      BY <1>1, <3>1 DEF WaitInv, WaitIsShort, Unopened
  <2>2. CASE pc' = "check_close" /\ step' = "none"
    <3>1. HasOpenCmd => ~Unopened(pos)
      <4>1. EntryConsistent(cur)
        BY <1>1, TrackerFacts DEF cur
      <4> QED
        BY <2>2, <4>1 DEF timed_visit_open, visit_open, can_execute_open,
           EntryConsistent, Unopened, cur
    <3>2. Visited = 1..pos - 1 /\ Visited' = 1..pos
      BY <1>1, <2>2 DEF Visited
    <3>3. \A i \in 1..pos : i = pos \/ i \in 1..pos - 1
      BY TrackerFacts
    <3> QED
      BY <1>1, <3>1, <3>2, <3>3 DEF WaitInv, WaitIsShort, Unopened
  <2> QED
    BY <1>1, <2>1, <2>2
<1> QED
  BY <1>2, <1>3, <1>4 DEF WaitInv

\* The second and the third reading of the clock.
LEMMA ReadingKeeps ==
    ASSUME IInv, WaitInv, compare_cur_wait \/ assign_cur_wait
    PROVE  WaitInv'
<1>1. /\ UNCHANGED <<clock, list, signaled, pc, pos, deadline, torn>>
      /\ step \in {"compare", "assign"} /\ pc = "check_close"
      /\ ~torn => ~has_open_past_delay(cur)
  BY DEF compare_cur_wait, assign_cur_wait, vars, WaitInv, ReadingUndue
<1>2. pos \in DOMAIN list
  BY <1>1, IInvParts DEF CursorValid
<1>3. /\ calc_open_delta(cur) \in Nat
      /\ ~torn => calc_open_delta(cur) <= max_delay_before_fire
  BY <1>1, <1>2, OpenDelta DEF cur
<1>4. /\ cur_wait \in Nat /\ max_delay_before_fire \in Nat
      /\ cur_wait' = cur_wait \/ cur_wait' = calc_open_delta(cur)
      /\ step' \in {"assign", "none"}
      /\ step' = "none" /\ ~torn => cur_wait' <= max_delay_before_fire
      /\ step' = "assign" => cur_wait' = cur_wait
  BY <1>3, TrackerFacts DEF compare_cur_wait, assign_cur_wait, WaitInv, WaitTypeOK
<1>5. WaitTypeOK' /\ DeadlineIsValid' /\ NoOversleep'
  BY <1>1, <1>3, <1>4 DEF WaitInv, WaitTypeOK, DeadlineIsValid, NoOversleep
<1>6. ReadingUndue'
  BY <1>1, <1>4 DEF WaitInv, ReadingUndue, cur, has_open_past_delay,
     calc_open_delta, event_handling_get_tick
<1>7. WaitIsShort'
  <2>1. CASE step' = "none"
    BY <1>1, <1>4, <2>1 DEF WaitIsShort
  <2>2. CASE step' = "assign"
    BY <1>1, <1>4, <2>2 DEF WaitInv, WaitIsShort, Visited, Unopened
  <2> QED
    BY <1>4, <2>1, <2>2
<1> QED
  BY <1>5, <1>6, <1>7 DEF WaitInv

\* The commands: they leave the entries before the cursor alone.
LEMMA CommandsKeep ==
    ASSUME IInv, WaitInv, step = "none", UNCHANGED waitVars,
           execute_open_event \/ visit_close \/ execute_close_event
    PROVE  WaitInv'
<1>1. /\ UNCHANGED clock /\ pc' # "waiting"
      /\ pc \in {"opening", "check_close", "closing"}
  BY DEF execute_open_event, visit_close, execute_close_event, next_entry
<1>2. pos \in DOMAIN list /\ DOMAIN list = 1..Len(list) /\ pos \in Nat
  BY <1>1, IInvParts, TrackerFacts DEF CursorValid
<1>3. /\ DOMAIN list' = DOMAIN list
      /\ \A i \in DOMAIN list : Unopened(i)' => Unopened(i)
      /\ pc = "opening" => (list')[pos].has_fired_open
  <2>1. \A i \in DOMAIN list : list[i] \in Entry
    BY TrackerFacts
  <2>2. CASE execute_open_event
    BY <1>2, <2>1, <2>2 DEF execute_open_event, Unopened, Entry
  <2>3. CASE visit_close \/ execute_close_event
    BY <1>2, <2>1, <2>3 DEF visit_close, execute_close_event, Unopened, Entry
  <2> QED
    BY <2>2, <2>3
<1>4. \A i \in Visited' : i \in Visited \/ (pc = "opening" /\ i = pos)
  <2>1. CASE execute_open_event
    BY <1>2, <2>1 DEF execute_open_event, Visited, waitVars
  <2>2. CASE visit_close \/ execute_close_event
    BY <1>2, <2>2 DEF visit_close, execute_close_event, next_entry, Visited, waitVars
  <2> QED
    BY <2>1, <2>2
<1>5. (HasOpenCmd /\ ~torn /\ ~(cur_wait <= max_delay_before_fire))
          => \A i \in Visited \cap DOMAIN list : ~Unopened(i)
  BY DEF WaitInv, WaitIsShort
<1>6. ASSUME NEW i \in Visited' \cap DOMAIN list', Unopened(i)'
      PROVE  i \in Visited \cap DOMAIN list /\ Unopened(i)
  <2>1. i \in DOMAIN list /\ (i \in Visited \/ (pc = "opening" /\ i = pos))
    BY <1>3, <1>4
  <2>2. ~(pc = "opening" /\ i = pos)
    BY <1>3, <1>6 DEF Unopened
  <2> QED
    BY <1>3, <1>6, <2>1, <2>2
<1>7. (HasOpenCmd /\ ~torn /\ ~(cur_wait <= max_delay_before_fire))
          => \A i \in Visited' \cap DOMAIN list' : ~Unopened(i)'
  BY <1>5, <1>6
<1> QED
  BY <1>1, <1>7, WaitVarsKept

\* The end of the loop has gone over all entries, and the sweep only removes.
LEMMA SweepKeeps ==
    ASSUME IInv, WaitInv, step = "none", UNCHANGED waitVars,
           end_of_visits \/ sweep
    PROVE  WaitInv'
<1>1. UNCHANGED clock /\ pc' = "sweep"
  BY DEF end_of_visits, sweep
<1>2. DOMAIN list = 1..Len(list) /\ Len(list) \in Nat /\ pos \in Nat \ {0}
  BY TrackerFacts
<1>3. Visited' = DOMAIN list'
  BY <1>1 DEF Visited
<1>4. (HasOpenCmd /\ ~torn /\ ~(cur_wait <= max_delay_before_fire))
          => \A i \in DOMAIN list : ~Unopened(i)
  <2>1. DOMAIN list \subseteq Visited
    <3>1. CASE end_of_visits
      BY <1>2, <3>1 DEF end_of_visits, Visited
    <3>2. CASE sweep
      BY <3>2 DEF sweep, Visited
    <3> QED
      BY <3>1, <3>2
  <2> QED
    BY <2>1 DEF WaitInv, WaitIsShort
<1>5. \A i \in DOMAIN list' : \E j \in DOMAIN list : Unopened(i)' => Unopened(j)
  <2>1. CASE UNCHANGED list
    BY <2>1 DEF Unopened
  <2>2. CASE sweep /\ list' = remove_from_list(pos)
    <3>1. ListInv /\ pos \in DOMAIN list
      BY <2>2, IInvParts DEF sweep
    <3>2. /\ DOMAIN list' = 1..Len(list) - 1
          /\ \A j \in 1..Len(list) - 1 :
                 (list')[j] = IF j < pos THEN list[j] ELSE list[j + 1]
      BY <2>2, <3>1, RemoveAtProps DEF remove_from_list, ListInv
    <3>3. \A j \in 1..Len(list) - 1 : j \in DOMAIN list /\ j + 1 \in DOMAIN list
      BY <1>2
    <3> QED
      BY <3>2, <3>3 DEF Unopened
  <2> QED
    BY <2>1, <2>2 DEF end_of_visits, sweep
<1> QED
  BY <1>1, <1>3, <1>4, <1>5, WaitVarsKept

\* An empty list needs no look until a producer signals.
LEMMA UnlockKeeps ==
    ASSUME IInv, WaitInv, step = "none", timed_unlock
    PROVE  WaitInv'
<1>1. /\ UNCHANGED <<clock, list, deadline, step>>
      /\ pc = "sweep" /\ pc' = "lock" /\ signaled' = FALSE
  BY DEF timed_unlock, consumer_unlock
<1>2. CASE list = <<>>
  <2>1. cur_wait' = IdleWait /\ torn' = FALSE /\ DOMAIN list' = {}
    BY <1>1, <1>2 DEF timed_unlock
  <2>2. WaitTypeOK' /\ DeadlineIsValid' /\ ReadingUndue' /\ NoOversleep'
    BY <1>1, <2>1, WaitAssumption
       DEF WaitInv, WaitTypeOK, DeadlineIsValid, ReadingUndue, NoOversleep
  <2>3. WaitIsShort'
    BY <2>1 DEF WaitIsShort
  <2> QED
    BY <2>2, <2>3 DEF WaitInv
<1>3. CASE list # <<>>
  <2>1. UNCHANGED waitVars
    BY <1>3 DEF timed_unlock, waitVars
  <2>2. Visited = DOMAIN list /\ Visited' = DOMAIN list'
    BY <1>1 DEF Visited
  <2>3. (HasOpenCmd /\ ~torn /\ ~(cur_wait <= max_delay_before_fire))
            => \A i \in Visited' \cap DOMAIN list' : ~Unopened(i)'
    BY <1>1, <2>2 DEF WaitInv, WaitIsShort, Unopened
  <2> QED
    BY <1>1, <2>1, <2>3, WaitVarsKept
<1> QED
  BY <1>2, <1>3

-----------------------------------------------------------------------------
(* The theorems.                                                            *)

\* All actions.
LEMMA WaitInvStep == IInv /\ WaitInv /\ [TimedNext]_timedVars => WaitInv'
<1> SUFFICES ASSUME IInv, WaitInv, [TimedNext]_timedVars PROVE WaitInv'
  OBVIOUS
<1>1. CASE timed_clock
  BY <1>1, ClockKeeps
<1>2. CASE timed_producer
  BY <1>2, ProducerKeeps
<1>3. CASE compare_cur_wait \/ assign_cur_wait
  BY <1>3, ReadingKeeps
<1>4. CASE step = "none" /\ (timed_lock \/ timed_wait \/ timed_visit_open
                             \/ timed_unlock)
  BY <1>4, LockKeeps, WaitKeeps, VisitOpenKeeps, UnlockKeeps
<1>5. CASE /\ step = "none" /\ UNCHANGED waitVars
           /\ execute_open_event \/ visit_close \/ execute_close_event
              \/ end_of_visits \/ sweep
  BY <1>5, CommandsKeep, SweepKeeps
<1>6. CASE UNCHANGED timedVars
  BY <1>6 DEF timedVars, vars, waitVars, WaitInv, WaitTypeOK, DeadlineIsValid,
     ReadingUndue, WaitIsShort, NoOversleep, Visited, Unopened, Within, cur,
     has_open_past_delay, calc_open_delta, event_handling_get_tick
<1> QED
  BY <1>1, <1>2, <1>3, <1>4, <1>5, <1>6 DEF TimedNext, timed_consumer

\* The inductive invariant, for every delay, every idle wait and all the units
\* of time.
THEOREM WaitInvariant == TimedSpec => []WaitInv
<1>1. TimedInit => WaitInv
  <2> SUFFICES ASSUME TimedInit PROVE WaitInv
    OBVIOUS
  <2>1. /\ list = <<>> /\ pc = "lock" /\ cur_wait = IdleWait
        /\ deadline = NoDeadline /\ step = "none" /\ torn = FALSE
        /\ DOMAIN list = {}
    BY DEF TimedInit, Init
  <2>2. WaitTypeOK
    BY <2>1, WaitAssumption DEF WaitTypeOK, NoDeadline
  <2>3. DeadlineIsValid
    BY <2>1, WaitAssumption DEF DeadlineIsValid, NoDeadline
  <2>4. ReadingUndue /\ NoOversleep
    BY <2>1 DEF ReadingUndue, NoOversleep
  <2>5. WaitIsShort
    BY <2>1 DEF WaitIsShort
  <2> QED
    BY <2>2, <2>3, <2>4, <2>5 DEF WaitInv
<1>2. TimedSpec => []IInv
  BY TimedTracker, TrackerInvariant, PTL
<1> QED
  BY <1>1, <1>2, WaitInvStep, PTL DEF TimedSpec

\* wait_for_producer never asks for an invalid time.
THEOREM ValidDeadlines == TimedSpec => []DeadlineIsValid
<1>1. WaitInv => DeadlineIsValid
  BY DEF WaitInv
<1> QED
  BY <1>1, WaitInvariant, PTL

\* wait_for_producer never sleeps for more than a second beyond its argument.
THEOREM SleepsEnd == TimedSpec => []NoOversleep
<1>1. WaitInv => NoOversleep
  BY DEF WaitInv
<1> QED
  BY <1>1, WaitInvariant, PTL

\* While a file waits for its open command, the consumer looks again within
\* min_read_close and a second, unless time passed between two readings.
THEOREM SleepsAreBounded == TimedSpec => []SleepIsBounded
<1>1. IInv /\ WaitInv => SleepIsBounded
  <2> SUFFICES ASSUME IInv, WaitInv, pc = "waiting", HasOpenCmd, ~torn,
                      NEW i \in DOMAIN list, Unopened(i)
               PROVE  Within(max_delay_before_fire)
    BY DEF SleepIsBounded
  <2>1. Visited = DOMAIN list
    BY DEF IInv, NoLostWakeup, Visited
  <2>2. cur_wait \in Nat /\ cur_wait <= max_delay_before_fire
    BY <2>1 DEF WaitInv, WaitIsShort, WaitTypeOK
  <2>3. Within(cur_wait)
    BY DEF WaitInv, NoOversleep
  <2>4. cur_wait \div MsPerSec <= max_delay_before_fire \div MsPerSec
    BY <2>2, ClockAssumption, ConfigAssumption
  <2>5. /\ cur_wait \div MsPerSec \in Nat
        /\ max_delay_before_fire \div MsPerSec \in Nat
        /\ clock.sec \in Nat /\ deadline.sec \in Nat
    BY <2>2, ClockAssumption, ConfigAssumption, TrackerFacts
       DEF Clock, WaitInv, WaitTypeOK
  <2> QED
    BY <2>3, <2>4, <2>5 DEF Within
<1>2. TimedSpec => []IInv
  BY TimedTracker, TrackerInvariant, PTL
<1> QED
  BY <1>1, <1>2, WaitInvariant, PTL
=============================================================================
