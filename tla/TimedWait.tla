------------------------------ MODULE TimedWait ------------------------------
(***************************************************************************)
(* How long the consumer thread sleeps (src/src/event_handling.c): cur_wait*)
(* is worked out while it goes over the list, and wait_for_producer makes  *)
(* a deadline of it.  This module is EventHandling with these two variables*)
(* and with a step for each reading of the clock behind cur_wait.          *)
(***************************************************************************)
EXTENDS EventHandling

CONSTANTS
    IdleWait,       \* 6000 ms: how long to wait while the list is empty
    UsPerSec,       \* 1000000
    NsPerMs,        \* 1000000
    NsPerSec        \* 1000000000

ASSUME WaitAssumption ==
    /\ IdleWait \in Nat
    /\ {UsPerSec, NsPerMs, NsPerSec} \subseteq Nat \ {0}
    /\ NsPerSec >= UsPerSec

VARIABLES
    cur_wait,   \* in ms
    deadline,   \* timeToWait, while the consumer waits
    step,       \* the reading of the clock that cur_wait is at
    torn        \* history: time passed between the readings cur_wait is from

waitVars  == <<cur_wait, deadline, step, torn>>
timedVars == <<vars, waitVars>>

NoDeadline == [sec |-> 0, nsec |-> 0]

-----------------------------------------------------------------------------
(* wait_for_producer                                                        *)

\* The nanoseconds of the second that a clock truncated to ms may stand for.
NsecNow == {ns \in 0..NsPerSec - 1 : ns \div NsPerMs = clock.ms}

\* The fraction of a second in microseconds; as a double it may come out one
\* too low.
seconds_fract_part(wait) ==
    LET us == ((wait % MsPerSec) * UsPerSec) \div MsPerSec
    IN  {us, us - 1} \cap Nat

\* Mutant: what is carried over is kept as well.
deadline_carried_and_kept(wait, ns, us) ==
    [sec |-> clock.sec + wait \div MsPerSec + (IF ns + us >= UsPerSec THEN 1 ELSE 0),
     nsec |-> ns + us]

\* Nanoseconds and microseconds are added up, and carried over at a million.
timeToWait(wait, ns, us) ==
    IF ns + us >= UsPerSec
    THEN [sec |-> clock.sec + wait \div MsPerSec + 1, nsec |-> ns + us - UsPerSec]
    ELSE [sec |-> clock.sec + wait \div MsPerSec, nsec |-> ns + us]

-----------------------------------------------------------------------------
(* The consumer, with cur_wait.                                             *)

timed_lock ==
    /\ consumer_lock
    /\ IF signaled
       THEN UNCHANGED deadline
       ELSE \E ns \in NsecNow, us \in seconds_fract_part(cur_wait) :
                deadline' = timeToWait(cur_wait, ns, us)
    /\ UNCHANGED <<cur_wait, step, torn>>

\* After a wait cur_wait starts from the delay again.
timed_wait ==
    /\ wait_for_producer
    /\ cur_wait' = max_delay_before_fire
    /\ torn' = FALSE
    /\ deadline' = NoDeadline
    /\ UNCHANGED step

timed_visit_open ==
    /\ visit_open
    /\ step' = IF ~cur.has_fired_open /\ ~has_open_past_delay(cur)
               THEN "compare" ELSE "none"
    /\ UNCHANGED <<cur_wait, deadline, torn>>

\* Mutant: the wrong way round.
compare_with_shorter ==
    /\ step = "compare"
    /\ step' = IF cur_wait < calc_open_delta(cur) THEN "assign" ELSE "none"
    /\ UNCHANGED <<vars, cur_wait, deadline, torn>>

\* The second reading of the clock is compared with cur_wait, ...
compare_cur_wait ==
    /\ step = "compare"
    /\ step' = IF cur_wait > calc_open_delta(cur) THEN "assign" ELSE "none"
    /\ UNCHANGED <<vars, cur_wait, deadline, torn>>

\* ... and the third assigned to it.
assign_cur_wait ==
    /\ step = "assign"
    /\ cur_wait' = calc_open_delta(cur)
    /\ step' = "none"
    /\ UNCHANGED <<vars, deadline, torn>>

timed_unlock ==
    /\ consumer_unlock
    /\ IF list = <<>> THEN cur_wait' = IdleWait /\ torn' = FALSE
                      ELSE UNCHANGED <<cur_wait, torn>>
    /\ UNCHANGED <<deadline, step>>

timed_consumer ==
    \/ compare_cur_wait \/ assign_cur_wait
    \/ /\ step = "none"
       /\ \/ timed_lock \/ timed_wait \/ timed_visit_open \/ timed_unlock
          \/ /\ execute_open_event \/ visit_close \/ execute_close_event
                \/ end_of_visits \/ sweep
             /\ UNCHANGED waitVars

-----------------------------------------------------------------------------

timed_clock ==
    /\ ClockAdvances
    /\ torn' = (torn \/ step # "none")
    /\ UNCHANGED <<cur_wait, deadline, step>>

timed_producer ==
    /\ \/ \E f \in Files, type \in EventTypes : stamp_event(f, type)
       \/ add_some_event
    /\ UNCHANGED waitVars

TimedInit ==
    /\ Init
    /\ cur_wait = IdleWait
    /\ deadline = NoDeadline
    /\ step = "none"
    /\ torn = FALSE

TimedNext == timed_clock \/ timed_producer \/ timed_consumer

TimedSpec == TimedInit /\ [][TimedNext]_timedVars

-----------------------------------------------------------------------------
(* Properties.                                                              *)

WaitTypeOK ==
    /\ cur_wait \in Nat
    /\ deadline \in [sec : Nat, nsec : Nat]
    /\ step \in {"none", "compare", "assign"}
    /\ torn \in BOOLEAN

\* Whatever is waited for and whenever, pthread_cond_timedwait is given a
\* valid time: the EINVAL that wait_for_producer logs ("a nanosecond value less
\* than zero or greater than or equal to 1000 million") does not happen,
\* although nanoseconds are carried over at a million.
DeadlineIsValid == deadline.nsec \in 0..NsPerSec - 1

\* The deadline lies at most wait milliseconds, in whole seconds, and one
\* second ahead.
Within(wait) ==
    LET last == clock.sec + wait \div MsPerSec + 1
    IN  \/ deadline.sec < last
        \/ deadline.sec = last /\ deadline.nsec \div NsPerMs <= clock.ms

Unopened(i) == ~list[i].has_fired_open

\* A sleep ends, at the latest, a second after the wait that was asked for,
\* whatever the carry does with the microseconds.
NoOversleep == pc = "waiting" => Within(cur_wait)

\* While a file waits for its open command the consumer sleeps no longer than
\* min_read_close and the second that wait_for_producer may add: not the
\* IdleWait of an empty list, although signals that come between two passes
\* leave that in cur_wait.  Unless time passed between the readings of the
\* clock that cur_wait is from: a second that ends there adds the 999001 ms of
\* the leap, and the file waits for them if no event comes.
SleepIsBounded ==
    (pc = "waiting" /\ HasOpenCmd /\ ~torn /\ \E i \in DOMAIN list : Unopened(i))
        => Within(max_delay_before_fire)

-----------------------------------------------------------------------------
(* The inductive invariant.                                                 *)

\* The entries that the pass has gone over, or all of them after a pass that
\* nobody has signalled since.
Visited ==
    CASE pc = "visit"                  -> 1..pos - 1
      [] pc = "opening"                -> 1..pos - 1
      [] pc \in {"check_close", "closing"} ->
            IF step = "none" THEN 1..pos ELSE 1..pos - 1
      [] pc = "sweep"                  -> DOMAIN list
      [] pc \in {"lock", "waiting"} /\ ~signaled -> DOMAIN list
      [] OTHER                         -> {}

\* At a reading of the clock the consumer is at an entry that was not due.
ReadingUndue ==
    step # "none" =>
        /\ pc = "check_close"
        /\ ~cur.has_fired_open
        /\ ~torn => ~has_open_past_delay(cur)

WaitIsShort ==
    (HasOpenCmd /\ ~torn) =>
        (cur_wait <= max_delay_before_fire
         \/ \A i \in Visited \cap DOMAIN list : ~Unopened(i))

WaitInv ==
    /\ WaitTypeOK
    /\ DeadlineIsValid
    /\ ReadingUndue
    /\ WaitIsShort
    /\ NoOversleep
=============================================================================
